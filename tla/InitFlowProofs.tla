-------------------------- MODULE InitFlowProofs --------------------------
(***************************************************************************)
(* Theorems about the approval dialog and the screens of `tpd init`, and   *)
(* about what the latter writes, for any rows, filters, windows, commands  *)
(* and files.                                                              *)
(*                                                                         *)
(* Marks and files: the list's items carry the marks (CopiesInv), the      *)
(* newest filtering those and the rows that match (NewestInv); and         *)
(* only the rename brings new contents into the profile (FileInv), which   *)
(* keep what the file had when Run last looked (LossInv); that joining two *)
(* extends lists keeps the first is an induction over the second           *)
(* (AddedExtends).  Screens: the list has the height that its window and   *)
(* its popup leave it (ScreenInv), so rows and popups fit, nothing is      *)
(* sliced past its end, and every step is one of the contract Dialog.      *)
(* Types: the sizes are part of ScreenInv, marks and filters of PartTypes. *)
(***************************************************************************)
EXTENDS InitFlow, WellFoundedInduction, FiniteSetTheorems, TLAPS

(* The approval dialog gives the list new copies with every change of its  *)
(* marks, whether a filter hides the rows or not.                          *)
CopiesInv == Approving => listed = marks

(* Only the rename brings the contents into the profile, and only from the *)
(* creation of the temporary file on is there one to remove.               *)
FileInv ==
  /\ step # "created" => target \in Earlier
  /\ step = "created" => target = content
  /\ temp # "none" => step \in {"write", "rename", "remove", "dead"}

FlowInv == CopiesInv /\ FileInv

USE DEF At, Goto, Approving, choice, filtering, window, frame, outcome, screen, flow, vars

LEMMA FlowInvInit == ASSUME FlowInit PROVE FlowInv
BY FlowAssumption DEF FlowInit, Fresh, FlowInv, CopiesInv, FileInv

(* What a key, a filter's answer or a new window size does to the marks.   *)
LEMMA ScreenKeeps == ASSUME CopiesInv, ScreenNext PROVE CopiesInv'
<1>1. CASE Move \/ StartFilter \/ Type \/ ClearFilter \/ AcceptFilter \/ Answered
  BY <1>1 DEF CopiesInv, Move, StartFilter, Type, ClearFilter, AcceptFilter, Answered
<1>2. CASE Cancel \/ OpenPopup \/ ClosePopup \/ Scroll \/ SwitchFocus \/ Choose \/ Resize
  BY <1>2 DEF CopiesInv, Cancel, OpenPopup, ClosePopup, Scroll, SwitchFocus, Choose, Resize
<1>3. CASE MarkAll  BY <1>3 DEF CopiesInv, MarkAll
<1>4. CASE Toggle  BY <1>4 DEF CopiesInv, Toggle
<1>5. CASE Fold  BY <1>5 DEF CopiesInv, Fold
<1> QED  BY <1>1, <1>2, <1>3, <1>4, <1>5 DEF ScreenNext

(* A step of Run opens another screen or leaves the one there is alone.    *)
LEMMA RunCopies == ASSUME CopiesInv, RunNext PROVE CopiesInv'
<1>1. ASSUME NEW k, NEW e, Open(k, e) PROVE listed' = marks'  BY <1>1 DEF Open
<1>2. CASE Start \/ ScreenFails \/ Picked \/ Named \/ Bases \/ FragmentsPicked \/ FragmentsTyped
  BY <1>1, <1>2 DEF CopiesInv, Start, ScreenFails, Picked, Named, Bases, FragmentsPicked,
     FragmentsTyped, Prompt, Leave
<1>3. CASE TextAnswered \/ NameRefused \/ Generate \/ UnknownBase \/ Look \/ LookFails \/ Answer
  BY <1>3 DEF CopiesInv, TextAnswered, NameRefused, Generate, UnknownBase, Look, LookFails, Answer
<1>4. CASE Merge \/ MergeFails \/ Validate \/ CreateTemp \/ WriteTemp \/ Rename \/ RemoveTemp
  BY <1>4 DEF CopiesInv, Merge, MergeFails, Validate, CreateTemp, WriteTemp, Rename, RemoveTemp
<1> QED  BY <1>2, <1>3, <1>4 DEF RunNext

(* What the steps of Run do to the file and the temporary one.             *)
LEMMA RunFile == ASSUME FileInv, RunNext PROVE FileInv'
<1>1. CASE Start \/ ScreenFails \/ Picked \/ Named \/ TextAnswered \/ Bases \/ NameRefused
  BY <1>1 DEF FileInv, Start, ScreenFails, Picked, Named, TextAnswered, Bases, NameRefused, OnScreen
<1>2. CASE FragmentsPicked \/ FragmentsTyped \/ Generate \/ UnknownBase
  BY <1>2 DEF FileInv, FragmentsPicked, FragmentsTyped, Generate, UnknownBase
<1>3. CASE Look \/ LookFails \/ Answer \/ Merge \/ MergeFails \/ Validate
  BY <1>3 DEF FileInv, Look, LookFails, Answer, Merge, MergeFails, Validate
<1>4. CASE CreateTemp  BY <1>4 DEF FileInv, CreateTemp
<1>5. CASE WriteTemp  BY <1>5 DEF FileInv, WriteTemp
<1>6. CASE Rename  BY <1>6 DEF FileInv, Rename
<1>7. CASE RemoveTemp  BY <1>7 DEF FileInv, RemoveTemp
<1> QED  BY <1>1, <1>2, <1>3, <1>4, <1>5, <1>6, <1>7 DEF RunNext

LEMMA FlowInvStep == ASSUME FlowInv, [Next]_vars PROVE FlowInv'
<1>1. CASE OnScreenNext
  BY <1>1, ScreenKeeps DEF OnScreenNext, FlowInv, FileInv
<1>2. CASE RunNext  BY <1>2, RunCopies, RunFile DEF FlowInv
<1>3. CASE Edit \/ Die
  BY <1>3 DEF Edit, Die, FlowInv, CopiesInv, FileInv
<1>4. CASE UNCHANGED vars  BY <1>4 DEF FlowInv, CopiesInv, FileInv
<1> QED  BY <1>1, <1>2, <1>3, <1>4 DEF Next, Ended

(* The inductive invariant of the dialog's marks and of writeProfile       *)
(* (scaffold.go): who has changed the file, and where a temporary file can *)
(* be.                                                                     *)
THEOREM FlowInvariant == Spec => []FlowInv
<1>1. FlowInit => FlowInv  BY FlowInvInit
<1>2. FlowInv /\ [Next]_vars => FlowInv'  BY FlowInvStep
<1> QED  BY <1>1, <1>2, PTL DEF Spec

(* Whoever reads the profile while tpd init writes it, or after it was     *)
(* killed, finds one whole file (writeProfile), whatever the files.        *)
THEOREM FileStaysWhole == Spec => []WholeFile
<1>1. FlowInv => WholeFile  BY DEF FlowInv, FileInv, WholeFile
<1> QED  BY <1>1, FlowInvariant, PTL

(* However tpd init ends, but for a kill, its temporary file is gone.      *)
THEOREM NoTempIsLeft == Spec => []TempsRemoved
<1>1. FlowInv => TempsRemoved  BY DEF FlowInv, FileInv, TempsRemoved, Ends
<1> QED  BY <1>1, FlowInvariant, PTL
-----------------------------------------------------------------------------
(* Recursion on a sequence.  Every set of naturals has a least element, so *)
(* a set that has 0 and with each number the next has all; so a function   *)
(* may be given by its first value and a step.                             *)

LEMMA LeastNat ==
  ASSUME NEW T \in SUBSET Nat, T # {}
  PROVE  \E x \in T : \A y \in T : x <= y
<1> DEFINE R == {p \in Nat \X Nat : p[1] < p[2]}
<1>1. IsWellFoundedOn(R, Nat)
  BY NatLessThanWellFounded DEF OpToRel
<1>2. PICK x \in T : \A y \in T : <<y, x>> \notin R
  BY <1>1, WFMin, Zenon
<1>3. ASSUME NEW y \in T PROVE x <= y
  <2>1. <<y, x>> \notin R
    BY <1>2
  <2>2. <<y, x>> \in Nat \X Nat /\ <<y, x>>[1] = y /\ <<y, x>>[2] = x
    OBVIOUS
  <2>3. ~(y < x)
    BY <2>1, <2>2
  <2> QED BY <2>3
<1> QED BY <1>3

LEMMA SetInduction ==
  ASSUME NEW Z, 0 \in Z, \A n \in Nat : n \in Z => n + 1 \in Z
  PROVE  Nat \subseteq Z
<1>1. SUFFICES ASSUME Nat \ Z # {} PROVE FALSE
  OBVIOUS
<1>2. PICK x \in Nat \ Z : \A y \in Nat \ Z : x <= y
  <2>1. Nat \ Z \in SUBSET Nat  OBVIOUS
  <2> QED BY <1>1, <2>1, LeastNat, Zenon
<1>3. x # 0 /\ x - 1 \in Nat /\ x - 1 \in Z
  BY <1>2
<1> QED BY <1>2, <1>3

HasSteps(V, v, N, g) ==
  \E f \in [0..N -> V] : f[0] = v /\ \A n \in 1..N : f[n] = g[n][f[n - 1]]
LEMMA StepFunction ==
  ASSUME NEW V, NEW v \in V, NEW N \in Nat, NEW g \in [1..N -> [V -> V]]
  PROVE  HasSteps(V, v, N, g)
<1> DEFINE Upto(k, f) == f \in [0..k -> V] /\ f[0] = v /\ \A n \in 1..k : f[n] = g[n][f[n - 1]]
           Z == {k \in Nat : k <= N => \E f : Upto(k, f)}
<1>1. 0 \in Z
  <2>1. Upto(0, [n \in 0..0 |-> v])
    OBVIOUS
  <2> QED BY <2>1
<1>2. ASSUME NEW k \in Nat, k \in Z PROVE k + 1 \in Z
  <2>1. SUFFICES ASSUME k + 1 <= N PROVE \E f : Upto(k + 1, f)
    OBVIOUS
  <2>2. PICK f : Upto(k, f)
    BY <1>2, <2>1
  <2>3. DEFINE h == [n \in 0..(k + 1) |-> IF n = k + 1 THEN g[k + 1][f[k]] ELSE f[n]]
  <2>4. k + 1 \in 1..N /\ f[k] \in V /\ g[k + 1][f[k]] \in V
    BY <2>1, <2>2
  <2>5. h \in [0..(k + 1) -> V] /\ h[0] = v
    BY <2>2, <2>4
  <2>6. ASSUME NEW n \in 1..(k + 1) PROVE h[n] = g[n][h[n - 1]]
    <3>1. CASE n = k + 1
      BY <3>1, <2>4
    <3>2. CASE n # k + 1
      <4>1. n \in 1..k /\ n - 1 \in 0..k /\ n - 1 # k + 1
        BY <3>2
      <4> QED BY <4>1, <2>2
    <3> QED BY <3>1, <3>2
  <2> QED BY <2>5, <2>6
<1>3. N \in Z
  <2> HIDE DEF Z
  <2> QED BY <1>1, <1>2, SetInduction
<1> QED BY <1>3 DEF HasSteps

-----------------------------------------------------------------------------
(* Lists of bases.                                                         *)

IsSeq(s) == \E S : s \in Seq(S)
Begins(s, t) == Len(s) <= Len(t) /\ \A n \in 1..Len(s) : t[n] = s[n]

(* What the loops of dedup and mergeExtends give: all of s, then more.     *)
LEMMA AddedExtends ==
  ASSUME NEW S, NEW s \in Seq(S), NEW t \in Seq(S), NEW pick
  PROVE  Added(s, t, pick) \in Seq(S) /\ Begins(s, Added(s, t, pick))
<1> DEFINE Step(n, v) == IF t[n] \in pick \ SeqSet(v) THEN Append(v, t[n]) ELSE v
           V == {v \in Seq(S) : Begins(s, v)}
           g == [n \in 1..Len(t) |-> [v \in V |-> Step(n, v)]]
           F == CHOOSE Upto : Upto = [n \in 0..Len(t) |->
                  IF n = 0 THEN s
                  ELSE IF t[n] \in pick \ SeqSet(Upto[n - 1]) THEN Append(Upto[n - 1], t[n]) ELSE Upto[n - 1]]
<1>1. Added(s, t, pick) = F[Len(t)]
  BY DEF Added
<1>2. s \in V /\ Len(t) \in Nat
  BY DEF Begins
<1>3. ASSUME NEW n \in 1..Len(t), NEW v \in V PROVE Step(n, v) \in V
  <2>1. v \in Seq(S) /\ Len(v) \in Nat /\ Len(s) \in Nat /\ Begins(s, v) /\ t[n] \in S
    OBVIOUS
  <2>2. Append(v, t[n]) \in Seq(S) /\ Begins(s, Append(v, t[n]))
    BY <2>1 DEF Begins
  <2> QED BY <2>1, <2>2
<1>4. g \in [1..Len(t) -> [V -> V]]
  BY <1>3
<1>5. PICK f \in [0..Len(t) -> V] : f[0] = s /\ \A n \in 1..Len(t) : f[n] = g[n][f[n - 1]]
  <2> DEFINE N == Len(t)
  <2>1. N \in Nat /\ s \in V /\ g \in [1..N -> [V -> V]]
    BY <1>2, <1>4
  <2> HIDE DEF g, V, N
  <2>2. HasSteps(V, s, N, g)
    BY <2>1, StepFunction
  <2> QED BY <2>2, Zenon DEF N, HasSteps
<1>6. \A n \in 1..Len(t) : f[n] = Step(n, f[n - 1])
  <2>1. ASSUME NEW n \in 1..Len(t) PROVE n - 1 \in 0..Len(t) /\ n \in 0..Len(t)
    BY <1>2
  <2>2. ASSUME NEW n \in 1..Len(t), NEW v \in V PROVE g[n][v] = Step(n, v)
    OBVIOUS
  <2> HIDE DEF g, Step, V
  <2> QED BY <1>5, <2>1, <2>2
<1>7. f = [n \in 0..Len(t) |->
             IF n = 0 THEN s
             ELSE IF t[n] \in pick \ SeqSet(f[n - 1]) THEN Append(f[n - 1], t[n]) ELSE f[n - 1]]
  <2>1. \A n \in 0..Len(t) : n # 0 => n \in 1..Len(t)
    BY <1>2
  <2> HIDE DEF g, V
  <2> QED BY <1>5, <1>6, <2>1
<1>8. F = [n \in 0..Len(t) |->
             IF n = 0 THEN s
             ELSE IF t[n] \in pick \ SeqSet(F[n - 1]) THEN Append(F[n - 1], t[n]) ELSE F[n - 1]]
  BY <1>7, Zenon
<1>9. F[0] = s /\ \A n \in 1..Len(t) : F[n] = Step(n, F[n - 1])
  <2>1. F = [n \in 0..Len(t) |-> IF n = 0 THEN s ELSE Step(n, F[n - 1])]
    BY <1>8, Zenon
  <2>2. 0 \in 0..Len(t) /\ \A n \in 1..Len(t) : n \in 0..Len(t) /\ n # 0
    BY <1>2
  <2> HIDE DEF F, Step
  <2> QED BY <2>1, <2>2
<1> DEFINE Z == {n \in Nat : n <= Len(t) => F[n] \in V}
<1>z. 0 \in Z
  <2> HIDE DEF F, V
  <2> QED BY <1>2, <1>9
<1>10. ASSUME NEW n \in Nat, n \in Z PROVE n + 1 \in Z
  <2>1. SUFFICES ASSUME n + 1 <= Len(t) PROVE F[n + 1] \in V
    OBVIOUS
  <2>2. n + 1 \in 1..Len(t) /\ n + 1 \in 0..Len(t) /\ (n + 1) - 1 = n /\ F[n] \in V
    BY <1>2, <1>10, <2>1
  <2>3. F[n + 1] = Step(n + 1, F[n])
    <3> HIDE DEF F, V, Step
    <3> QED BY <1>9, <2>2
  <2> HIDE DEF F, Step, V
  <2> QED BY <1>3, <2>2, <2>3
<1>11. Len(t) \in Z
  <2> HIDE DEF Z
  <2> QED BY <1>2, <1>z, <1>10, SetInduction
<1> QED BY <1>1, <1>2, <1>11

(* Lists that are put together are lists.                                  *)
LEMMA SeqsAdd ==
  ASSUME NEW s, NEW t, IsSeq(s), IsSeq(t), NEW pick
  PROVE  /\ IsSeq(s \o t) /\ IsSeq(Added(s, t, pick))
         /\ Begins(s, Added(s, t, pick))
<1>1. PICK S : s \in Seq(S)  BY DEF IsSeq
<1>2. PICK T : t \in Seq(T)  BY DEF IsSeq
<1>3. s \in Seq(S \cup T) /\ t \in Seq(S \cup T)
  BY <1>1, <1>2
<1>4. s \o t \in Seq(S \cup T)
  BY <1>3
<1>5. Added(s, t, pick) \in Seq(S \cup T) /\ Begins(s, Added(s, t, pick))
  BY <1>3, AddedExtends
<1> QED BY <1>4, <1>5 DEF IsSeq

LEMMA ShortSeqs ==
  /\ IsSeq(<<>>) /\ \A x : IsSeq(<<x>>)
  /\ \A c \in Commands \cup (Earlier \ {Absent, Blank, Broken}) : IsSeq(c.extends)
<1>1. <<>> \in Seq({}) /\ \A x : <<x>> \in Seq({x})
  OBVIOUS
<1> QED BY <1>1, FlowAssumption DEF IsSeq

LEMMA ScreenFacts ==
  /\ DOMAIN Rows = {"approve", "pick", "name", "nav"} /\ \A k \in DOMAIN Rows : Rows[k] \in Seq(Entries)
  /\ \A k \in {"approve", "pick", "name", "nav"} : Rows[k] \in Seq(Entries)
  /\ None \notin Entries /\ Benign \subseteq SeqSet(Rows["approve"])
  /\ Lines \in [Widths -> [Entries -> Nat]] /\ Spare \in [DOMAIN Rows -> [Widths -> Int]]
  /\ Rooms \subseteq Nat \ {0} /\ Window \in Nat \ {0} /\ MaxRows \in Nat \ {0}
BY ScreensAssumption, Zenon

LEMMA PickedKeys == ASSUME NEW s PROVE IsSeq(Keys(Sorted(s)))
<1>1. Rows["nav"] \in Seq(Entries)
  BY ScreenFacts, Zenon
<1>2. Sorted(s) \in Seq(Entries)
  <2>1. <<>> \in Seq(Entries)  OBVIOUS
  <2> QED BY <1>1, <2>1, AddedExtends DEF Sorted
<1> DEFINE r == Sorted(s)
           K == {Key[r[n]] : n \in 1..Len(r)}
<1>3. Len(r) \in Nat /\ DOMAIN r = 1..Len(r)
  BY <1>2
<1>4. Keys(r) \in [1..Len(r) -> K]
  BY <1>3 DEF Keys
<1>5. Keys(r) \in Seq(K)
  <2> HIDE DEF r, K
  <2> QED BY <1>3, <1>4
<1> QED BY <1>5 DEF IsSeq

(* mergeYAML: the old list stays in front, and the old command stays.      *)
LEMMA MergedExtends ==
  ASSUME NEW old \in Earlier \ {Absent, Blank, Broken}, NEW new, IsSeq(new.extends)
  PROVE  Extends(Merged(old, new), old) /\ IsSeq(Merged(old, new).extends)
<1> DEFINE more == Dedup(new.extends)
           ext == UnionExtends(old.extends, more)
<1>1. IsSeq(old.extends) /\ IsSeq(more)
  BY SeqsAdd, ShortSeqs DEF Dedup
<1>2. IsSeq(ext) /\ Begins(old.extends, ext)
  BY <1>1, SeqsAdd DEF UnionExtends
<1>3. DOMAIN old.extends = 1..Len(old.extends)
  BY <1>1 DEF IsSeq
<1>4. /\ Merged(old, new).extends = ext
      /\ Merged(old, new).command = IF old.command = NoKey THEN new.command ELSE old.command
  BY DEF Merged
<1> HIDE DEF ext
<1> QED BY <1>2, <1>3, <1>4 DEF Extends, Begins

-----------------------------------------------------------------------------
(* What the generated contents are lists of, and, from the last look at    *)
(* the file on, that they lose nothing of it.                              *)

ListsInv == /\ step = "launch" \/ opts \in Commands
            /\ IsSeq(bases) /\ IsSeq(content.extends)
LossInv == step \in {"validate", "create", "write", "rename"} /\ ~raced /\ consent # "replace"
           => Extends(content, target) \/ (step = "validate" /\ opts.dry)

LEMMA InitLists == ASSUME FlowInit PROVE ListsInv /\ LossInv
BY ShortSeqs DEF FlowInit, ListsInv, LossInv, NoContent

LEMMA ScreensPick == ASSUME ListsInv, LossInv, Start \/ ScreenFails \/ Picked \/ Named \/ TextAnswered \/ NameRefused
                     PROVE  ListsInv' /\ LossInv'
<1>1. UNCHANGED <<opts, content>> /\ step' \notin {"validate", "create", "write", "rename"}
      /\ (step = "launch" => step' = "launch")
  <2>1. CASE Start
    BY <2>1 DEF Start
  <2>2. CASE TextAnswered
    BY <2>2 DEF TextAnswered
  <2>3. CASE ScreenFails \/ Picked \/ Named \/ NameRefused
    BY <2>3 DEF ScreenFails, Picked, Named, NameRefused
  <2> QED BY <2>1, <2>2, <2>3
<1>2. IsSeq(bases')
  <2>1. CASE Start
    <3>1. bases' = bases \/ (bases' = opts.extends /\ step = "start")
      BY <2>1 DEF Start
    <3> QED BY <3>1, ShortSeqs DEF ListsInv
  <2>2. CASE Named
    BY <2>2, ShortSeqs DEF Named
  <2>3. CASE TextAnswered
    <3>1. bases' \in {c.extends : c \in Commands} \cup {<<CoreMise>>}
      BY <2>3 DEF TextAnswered
    <3> QED BY <3>1, ShortSeqs
  <2>4. CASE ScreenFails \/ Picked \/ NameRefused
    BY <2>4 DEF ScreenFails, Picked, NameRefused, ListsInv
  <2> QED BY <2>1, <2>2, <2>3, <2>4
<1> QED BY <1>1, <1>2 DEF ListsInv, LossInv

LEMMA BasesAddUp == ASSUME ListsInv, LossInv, Bases \/ FragmentsPicked \/ FragmentsTyped \/ Generate \/ UnknownBase
                    PROVE  ListsInv' /\ LossInv'
<1>1. CASE Bases
  <2>1. step = "bases" /\ UNCHANGED <<opts, content>> /\ step' \in {"fragments", "generate"} /\ bases' = WithBase(bases)
    BY <1>1 DEF Bases
  <2>2. IsSeq(WithBase(bases))
    BY ShortSeqs, SeqsAdd DEF WithBase, ListsInv
  <2> QED BY <2>1, <2>2 DEF ListsInv, LossInv
<1>2. CASE FragmentsPicked \/ FragmentsTyped
  <2>1. PICK s : bases' = bases \o Keys(Sorted(s))
    BY <1>2 DEF FragmentsPicked, FragmentsTyped
  <2>2. step = "fragments" /\ UNCHANGED <<opts, content>> /\ step' \in {"generate", "failed"}
    BY <1>2 DEF FragmentsPicked, FragmentsTyped
  <2>3. IsSeq(bases')
    BY <2>1, PickedKeys, SeqsAdd DEF ListsInv
  <2> QED BY <2>2, <2>3 DEF ListsInv, LossInv
<1>3. CASE Generate
  <2>1. /\ step = "generate" /\ UNCHANGED <<opts, bases>> /\ content' = Generated(bases)
        /\ step' \in {"validate", "look"} /\ (step' = "validate" => opts.dry)
    BY <1>3 DEF Generate
  <2>2. IsSeq(Generated(bases).extends)
    BY ShortSeqs, SeqsAdd DEF Generated, Dedup, ListsInv
  <2> QED BY <2>1, <2>2 DEF ListsInv, LossInv
<1>4. CASE UnknownBase
  BY <1>4 DEF UnknownBase, ListsInv, LossInv
<1> QED BY <1>1, <1>2, <1>3, <1>4

LEMMA FileKeeps ==
  ASSUME ListsInv, LossInv, FileInv,
         Look \/ LookFails \/ Answer \/ Merge \/ MergeFails \/ Validate \/ CreateTemp \/ WriteTemp \/ Rename \/ RemoveTemp
  PROVE  ListsInv' /\ LossInv'
<1>1. UNCHANGED <<opts, bases>> /\ step # "launch"
  BY DEF Look, LookFails, Answer, Merge, MergeFails, Validate, CreateTemp, WriteTemp, Rename, RemoveTemp
<1>2. CASE Merge
  <2>1. /\ target \in Earlier \ {Absent, Broken} /\ UNCHANGED target /\ step' = "validate"
        /\ content' = IF target = Blank THEN content ELSE Merged(target, content)
    BY <1>2 DEF Merge, FileInv
  <2>2. IsSeq(content'.extends) /\ Extends(content', target)
    BY <2>1, MergedExtends DEF ListsInv, Extends
  <2> QED BY <1>1, <2>1, <2>2 DEF ListsInv, LossInv
<1>3. CASE Look
  <2>1. UNCHANGED content /\ (step' = "validate" => consent' = "replace" \/ target' = Absent)
        /\ step' \in {"validate", "read", "ask", "failed"}
    BY <1>3 DEF Look
  <2> QED BY <1>1, <2>1 DEF ListsInv, LossInv, Extends
<1>4. CASE Answer
  BY <1>1, <1>4 DEF Answer, ListsInv, LossInv
<1>5. CASE LookFails \/ MergeFails \/ Rename \/ RemoveTemp
  BY <1>1, <1>5 DEF LookFails, MergeFails, Rename, RemoveTemp, ListsInv, LossInv
<1>6. CASE Validate
  BY <1>1, <1>6 DEF Validate, ListsInv, LossInv
<1>7. CASE CreateTemp \/ WriteTemp
  BY <1>1, <1>7 DEF CreateTemp, WriteTemp, ListsInv, LossInv
<1> QED BY <1>2, <1>3, <1>4, <1>5, <1>6, <1>7

LEMMA LossStep == ASSUME FlowInv, ListsInv, LossInv, [Next]_vars PROVE ListsInv' /\ LossInv'
<1>1. CASE RunNext
  BY <1>1, ScreensPick, BasesAddUp, FileKeeps DEF RunNext, FlowInv
<1>2. CASE Edit \/ Die
  BY <1>2 DEF Edit, Die, ListsInv, LossInv
<1>3. CASE OnScreenNext \/ UNCHANGED vars
  BY <1>3 DEF OnScreenNext, ListsInv, LossInv
<1> QED BY <1>1, <1>2, <1>3 DEF Next, Ended

(* tpd init loses nothing the profile said, unless the user said overwrite *)
(* or somebody wrote it after the last look: mergeYAML keeps the extends   *)
(* list in front and the command, for lists of any length.                 *)
THEOREM NothingIsLost == Spec => NothingLost
<1>1. FlowInv /\ ListsInv /\ LossInv /\ [Next]_vars =>
        [At("rename") /\ Goto("created") /\ ~raced /\ consent # "replace" => Extends(target', target)]_vars
  <2>1. SUFFICES ASSUME FlowInv, LossInv, [Next]_vars, step = "rename", step' = "created", ~raced, consent # "replace"
                 PROVE  Extends(target', target)
    OBVIOUS
  <2>2. Extends(content, target)
    BY <2>1 DEF LossInv
  <2>3. Rename
    <3>1. RunNext
      BY <2>1 DEF Next, OnScreenNext, Edit, Die, Ended
    <3>2. ~(Start \/ ScreenFails \/ Picked \/ Named \/ TextAnswered \/ Bases \/ NameRefused \/ FragmentsPicked
            \/ FragmentsTyped \/ Generate \/ UnknownBase)
      BY <2>1 DEF Start, ScreenFails, Picked, Named, TextAnswered, Bases, NameRefused, FragmentsPicked,
         FragmentsTyped, Generate, UnknownBase, OnScreen
    <3>3. ~(Look \/ LookFails \/ Answer \/ Merge \/ MergeFails \/ Validate \/ CreateTemp \/ WriteTemp \/ RemoveTemp)
      BY <2>1 DEF Look, LookFails, Answer, Merge, MergeFails, Validate, CreateTemp, WriteTemp, RemoveTemp
    <3> QED BY <3>1, <3>2, <3>3 DEF RunNext
  <2>4. target' = content
    BY <2>1, <2>3 DEF Rename
  <2> QED BY <2>2, <2>4
<1>2. FlowInit => ListsInv /\ LossInv
  BY InitLists
<1>3. FlowInv /\ ListsInv /\ LossInv /\ [Next]_vars => ListsInv' /\ LossInv'
  BY LossStep
<1> QED BY <1>1, <1>2, <1>3, FlowInvariant, PTL DEF Spec, NothingLost

-----------------------------------------------------------------------------
(* The numbers of a screen.                                                *)

Dims == kind \in DOMAIN Rows /\ width \in Widths /\ room \in Rooms
Sizes == Count \in Nat /\ Content \in Nat /\ Natural \in Nat /\ BoxRows \in Nat

LEMMA RowSets ==
  ASSUME NEW k \in DOMAIN Rows, NEW T \in SUBSET (DOMAIN Rows[k])
  PROVE  /\ IsFiniteSet(T) /\ Cardinality(T) \in Nat
         /\ \A n \in T : Cardinality({m \in T : m < n}) < Cardinality(T)
<1>1. Rows[k] \in Seq(Entries)
  BY ScreenFacts
<1>2. DOMAIN Rows[k] = 1..Len(Rows[k]) /\ Len(Rows[k]) \in Nat
  BY <1>1
<1>3. IsFiniteSet(1..Len(Rows[k]))
  BY <1>2, FS_Interval
<1>4. IsFiniteSet(T) /\ Cardinality(T) \in Nat
  BY <1>2, <1>3, FS_Subset, FS_CardinalityType
<1>5. ASSUME NEW n \in T PROVE Cardinality({m \in T : m < n}) < Cardinality(T)
  <2>1. {m \in T : m < n} \subseteq T /\ n \notin {m \in T : m < n}
    BY <1>2
  <2>2. IsFiniteSet({m \in T : m < n}) /\ Cardinality({m \in T : m < n}) <= Cardinality(T)
        /\ Cardinality({m \in T : m < n}) # Cardinality(T)
    BY <1>4, <2>1, FS_Subset
  <2> QED BY <1>4, <2>2, FS_CardinalityType
<1> QED BY <1>4, <1>5

LEMMA RowEntries ==
  ASSUME NEW k \in DOMAIN Rows, NEW T \in SUBSET SeqSet(Rows[k])
  PROVE  T \subseteq Entries /\ Cardinality(T) \in Nat
<1>1. Rows[k] \in Seq(Entries)
  BY ScreenFacts
<1>2. DOMAIN Rows[k] = 1..Len(Rows[k]) /\ Len(Rows[k]) \in Nat /\ SeqSet(Rows[k]) \subseteq Entries
  BY <1>1 DEF SeqSet
<1>3. IsFiniteSet({Rows[k][n] : n \in 1..Len(Rows[k])})
  <2>1. IsFiniteSet(1..Len(Rows[k]))
    BY <1>2, FS_Interval
  <2> DEFINE dom == 1..Len(Rows[k])
             f == [n \in dom |-> Rows[k][n]]
             I == {Rows[k][n] : n \in dom}
  <2>2. f \in Surjection(dom, I)
    BY DEF Surjection
  <2> HIDE DEF f, dom, I
  <2>3. IsFiniteSet(I)
    BY <2>1, <2>2, FS_Surjection DEF dom
  <2> QED BY <2>3 DEF I, dom
<1>4. IsFiniteSet(T)
  BY <1>2, <1>3, FS_Subset DEF SeqSet
<1> QED BY <1>2, <1>4, FS_CardinalityType

LEMMA RowShown == ASSUME kind \in DOMAIN Rows
                  PROVE  Highlighted \in Entries \cup {None}
<1>1. SeqSet(Rows[kind]) \subseteq Entries
  BY DEF Entries
<1>2. \A n \in Visible : Rows[kind][n] \in SeqSet(Rows[kind])
  BY DEF Visible, SeqSet
<1> QED BY <1>1, <1>2 DEF Highlighted

LEMMA SizesAreNumbers == Dims => Sizes
<1> SUFFICES ASSUME Dims PROVE Sizes  OBVIOUS
<1>1. Count \in Nat
  <2>1. Visible \subseteq DOMAIN Rows[kind]  BY DEF Visible
  <2> QED BY <2>1, RowSets DEF Count, Dims
<1>2. Content \in Nat
  BY RowShown, ScreenFacts DEF Dims, Content
<1>3. Cardinality(Listed) \in Nat
  <2>1. Listed \subseteq SeqSet(Rows[kind])  BY DEF Listed
  <2> QED BY <2>1, RowEntries DEF Dims
<1>4. Natural \in Nat
  <2>1. room \in Nat \ {0} /\ MaxRows \in Nat \ {0} /\ kind \in {"approve", "pick", "name", "nav"}
    BY ScreenFacts DEF Dims
  <2> QED BY <1>1, <1>3, <2>1 DEF Natural, Least, Most, Picking
<1>5. BoxRows \in Nat
  <2>1. Spare[kind][width] \in Int /\ Window \in Nat
    BY ScreenFacts DEF Dims
  <2> QED BY <1>2, <2>1 DEF BoxRows, Least, Most
<1> QED BY <1>1, <1>2, <1>4, <1>5 DEF Sizes

LEMMA SizesNext == Dims' => Sizes'
BY SizesAreNumbers, PTL

ScreenInv ==
  /\ Dims /\ index \in Nat /\ scroll \in Nat /\ natural \in Nat /\ height \in Nat /\ popup \in BOOLEAN
  /\ end = "open" => /\ ~popup => height = natural
                     /\ popup /\ (Approving \/ filter = "off") => height = Grown

(* The steps that the list takes itself.                                   *)
ListStep ==
  /\ end = "open" /\ popup = FALSE
  /\ kind' = kind /\ popup' = popup /\ scroll' = scroll /\ width' = width /\ room' = room
  /\ end' = end /\ marks' = marks /\ answer' = answer
  /\ index' \in {index, 0} \cup 0..(Count - 1)

LEMMA MoveStep == Move /\ Dims /\ popup \in BOOLEAN => ListStep /\ AfterList
BY Zenon DEF Move, ListHasKeys, Free, ListStep
LEMMA StartStep == StartFilter /\ popup \in BOOLEAN => ListStep /\ AfterList
BY Zenon DEF StartFilter, ListHasKeys, Free, ListStep
LEMMA TypeStep == Type /\ popup \in BOOLEAN => ListStep /\ AfterList
BY Zenon DEF Type, ListHasKeys, Free, ListStep
LEMMA AcceptStep == AcceptFilter /\ popup \in BOOLEAN => ListStep /\ AfterList
BY Zenon DEF AcceptFilter, ListHasKeys, Free, ListStep

LEMMA ClearStep == ClearFilter /\ popup \in BOOLEAN => ListStep /\ UNCHANGED frame
BY Zenon DEF ClearFilter, ListHasKeys, Free, ListStep

(* What a screen is that has just been opened, or left.                    *)
Opened(k, e) ==
  /\ kind' = k /\ index' = 0 /\ popup' = FALSE /\ scroll' = 0
  /\ width' = width /\ room' = room /\ natural' = Natural' /\ height' = natural'
  /\ end' = e /\ answer' = {} /\ marks' = (IF k = "approve" THEN Benign ELSE {})

LEMMA OpenStep == ASSUME NEW k, NEW e, Open(k, e) PROVE Opened(k, e)
BY Zenon DEF Open, Opened

(* A list that is sized anew fits.                                         *)
LEMMA RefitFits ==
  ASSUME Dims', popup' \in BOOLEAN, Refit
  PROVE  /\ natural' \in Nat /\ height' \in Nat
         /\ ~popup' => height' = natural'
         /\ popup' => height' = Grown'
<1>1. natural' \in Nat /\ BoxRows' \in Nat
  BY SizesNext DEF Sizes, Refit
<1>2. Grown' \in Nat
  BY <1>1 DEF Grown, Most
<1>3. height' = IF popup' THEN Grown' ELSE natural'
  BY DEF Refit, Fit
<1> QED BY <1>1, <1>2, <1>3

(* The row under the cursor stays, and with it what a popup shows of it.   *)
LEMMA RowStays ==
  ASSUME UNCHANGED <<kind, expanded, index, filter>>, filter = "off" \/ UNCHANGED found
  PROVE  Visible' = Visible /\ Count' = Count /\ Highlighted' = Highlighted
<1>1. Listed' = Listed  BY DEF Listed
<1>2. Visible' = Visible
  <2>1. (IF filter' = "off" THEN Listed' ELSE found'.rows) = (IF filter = "off" THEN Listed ELSE found.rows)
    BY <1>1
  <2> QED BY <2>1 DEF Visible
<1>3. Count' = Count  BY <1>2 DEF Count
<1>4. Highlighted' = Highlighted  BY <1>2 DEF Highlighted
<1> QED BY <1>2, <1>3, <1>4

LEMMA ContentsStay ==
  ASSUME UNCHANGED <<kind, expanded, index, filter, width>>, filter = "off" \/ UNCHANGED found
  PROVE  Content' = Content /\ BoxRows' = BoxRows
<1>1. Highlighted' = Highlighted  BY RowStays
<1>2. Content' = Content  BY <1>1 DEF Content
<1> QED BY <1>2 DEF BoxRows

LEMMA ListKeepsFit == ASSUME ScreenInv, ListStep, AfterList \/ UNCHANGED frame PROVE ScreenInv'
<1>1. Dims' /\ popup' \in BOOLEAN /\ popup' = FALSE /\ scroll' \in Nat /\ end = "open"
  BY DEF ScreenInv, ListStep, Dims
<1>2. index' \in Nat
  BY SizesAreNumbers DEF ScreenInv, ListStep, Sizes
<1>3. natural' \in Nat /\ height' \in Nat /\ height' = natural'
  <2>1. CASE Refit  BY <1>1, <2>1, RefitFits
  <2>2. CASE UNCHANGED frame  BY <1>1, <2>2 DEF ScreenInv, ListStep
  <2> QED BY <2>1, <2>2 DEF AfterList
<1> QED BY <1>1, <1>2, <1>3 DEF ScreenInv

LEMMA AnswerKeepsFit == ASSUME ScreenInv, Answered PROVE ScreenInv'
<1>1. Dims' /\ popup' = popup /\ popup' \in BOOLEAN /\ scroll' \in Nat /\ end = "open"
  BY DEF ScreenInv, Answered, Dims
<1>2. index' \in Nat
  <2>1. Count' \in Nat  BY <1>1, SizesNext DEF Sizes
  <2> QED BY <2>1 DEF ScreenInv, Answered
<1>3. CASE Approving
  <2>1. Refit  BY <1>3 DEF Answered, AfterList
  <2> QED BY <1>1, <1>2, <2>1, RefitFits DEF ScreenInv
<1>4. CASE ~Approving
  <2>1. /\ UNCHANGED <<natural, height, kind, expanded, index, filter, width, popup>>
    BY <1>4 DEF Answered, AfterList
  <2>2. filter = "off" => Grown' = Grown
    <3>1. filter = "off" => BoxRows' = BoxRows  BY <2>1, ContentsStay
    <3> QED BY <2>1, <3>1 DEF Grown
  <2> QED BY <1>1, <1>2, <1>4, <2>1, <2>2 DEF ScreenInv
<1> QED BY <1>3, <1>4

LEMMA PopupKeepsFit == ASSUME ScreenInv, OpenPopup \/ ClosePopup \/ Scroll PROVE ScreenInv'
<1>1. Dims' /\ index' \in Nat /\ natural' \in Nat /\ end = "open" /\ popup' \in BOOLEAN
  BY DEF ScreenInv, OpenPopup, ClosePopup, Scroll, Dims, Free
<1>2. Grown' = Grown /\ Grown \in Nat /\ Content \in Nat
  <2>1. UNCHANGED <<natural, kind, expanded, index, filter, width, found>>
    BY DEF OpenPopup, ClosePopup, Scroll
  <2>2. BoxRows' = BoxRows  BY <2>1, ContentsStay
  <2>3. Content \in Nat /\ BoxRows \in Nat  BY SizesAreNumbers DEF ScreenInv, Sizes
  <2> QED BY <2>1, <2>2, <2>3 DEF Grown, Most, ScreenInv
<1>3. CASE OpenPopup
  BY <1>1, <1>2, <1>3 DEF ScreenInv, OpenPopup
<1>4. CASE ClosePopup
  BY <1>1, <1>2, <1>4 DEF ScreenInv, ClosePopup
<1>5. CASE Scroll
  <2>1. scroll' \in Nat  BY <1>5 DEF ScreenInv, Scroll
  <2> QED BY <1>1, <1>2, <1>5, <2>1 DEF ScreenInv, Scroll
<1> QED BY <1>3, <1>4, <1>5

LEMMA SizeKeepsFit == ASSUME ScreenInv, Resize PROVE ScreenInv'
<1>1. Dims' /\ popup' \in BOOLEAN /\ scroll' \in Nat /\ index' \in Nat /\ Refit /\ end = "open"
  BY DEF ScreenInv, Resize, Dims
<1> QED BY <1>1, RefitFits DEF ScreenInv

LEMMA MarksKeepFit ==
  ASSUME ScreenInv, MarkAll \/ Toggle \/ Fold \/ SwitchFocus \/ Choose \/ Cancel PROVE ScreenInv'
<1>1. CASE Fold
  <2>1. Dims' /\ popup' \in BOOLEAN /\ scroll' \in Nat /\ index' \in Nat /\ Refit /\ popup' = FALSE
    BY <1>1 DEF ScreenInv, Fold, Dims, CanToggle, Free
  <2> QED BY <2>1, RefitFits DEF ScreenInv
<1>2. CASE MarkAll \/ Toggle
  BY <1>2 DEF ScreenInv, MarkAll, Toggle, CanToggle, Free, Dims
<1>3. CASE SwitchFocus \/ Choose \/ Cancel
  BY <1>3 DEF ScreenInv, SwitchFocus, Choose, Cancel, Free, Dims
<1> QED BY <1>1, <1>2, <1>3

LEMMA ScreenKeepsFit == ASSUME ScreenInv, ScreenNext PROVE ScreenInv'
<1>0. popup \in BOOLEAN /\ Dims  BY DEF ScreenInv
<1>1. CASE Move \/ StartFilter \/ Type \/ AcceptFilter \/ ClearFilter
  <2>1. ListStep /\ (AfterList \/ UNCHANGED frame)
    BY <1>0, <1>1, MoveStep, StartStep, TypeStep, AcceptStep, ClearStep
  <2> QED BY <2>1, ListKeepsFit
<1>2. CASE Answered  BY <1>2, AnswerKeepsFit
<1>3. CASE OpenPopup \/ ClosePopup \/ Scroll  BY <1>3, PopupKeepsFit
<1>4. CASE Resize  BY <1>4, SizeKeepsFit
<1>5. CASE MarkAll \/ Toggle \/ Fold \/ SwitchFocus \/ Choose \/ Cancel  BY <1>5, MarksKeepFit
<1> QED BY <1>1, <1>2, <1>3, <1>4, <1>5 DEF ScreenNext

(* A screen is open only while Run waits for it, and on a terminal.        *)
ShownInv ==
  /\ step \notin OnScreen => end = "closed"
  /\ tty \in BOOLEAN /\ (~tty => end = "closed")

(* Run opens a screen after the last one has ended, or leaves it alone.    *)
Opens ==
  \/ UNCHANGED screen
  \/ end # "open" /\ \E k \in {"approve", "pick", "name", "nav"}, e \in {"open", "closed"} : Opened(k, e)

LEMMA RunOpens == ASSUME ShownInv, RunNext PROVE ShownInv' /\ Opens
<1>1. \A k, e : Open(k, e) => Opened(k, e)
  BY OpenStep
<1>2. CASE Start
  <2>1. end = "closed"  BY <1>2 DEF Start, ShownInv, OnScreen
  <2>2. CASE step' = "pick"
    <3>1. Opened("pick", IF tty THEN "open" ELSE "closed") /\ tty' = tty
      BY <1>1, <1>2, <2>2 DEF Start, Prompt
    <3> QED BY <2>1, <2>2, <3>1 DEF ShownInv, Opens, Opened, OnScreen
  <2>3. CASE step' # "pick"
    BY <1>2, <2>1, <2>3 DEF Start, ShownInv, Opens
  <2> QED BY <2>2, <2>3
<1>3. CASE Bases
  <2>1. end = "closed"  BY <1>3 DEF Bases, ShownInv, OnScreen
  <2>2. CASE Interactive
    <3>1. Opened("nav", IF tty THEN "open" ELSE "closed") /\ tty' = tty /\ step' = "fragments"
      BY <1>1, <1>3, <2>2 DEF Bases, Prompt
    <3> QED BY <2>1, <2>2, <3>1 DEF ShownInv, Opens, Opened, OnScreen
  <2>3. CASE ~Interactive
    BY <1>3, <2>1, <2>3 DEF Bases, ShownInv, Opens
  <2> QED BY <2>2, <2>3
<1>4. CASE ScreenFails \/ Picked \/ Named \/ FragmentsPicked \/ FragmentsTyped
  <2>1. end # "open"
    BY <1>4 DEF ScreenFails, Picked, Named, FragmentsPicked, FragmentsTyped, ShownInv
  <2>2. CASE Opened("pick", "closed")
    <3>1. end' = "closed"  BY <2>2 DEF Opened
    <3>2. tty' \in BOOLEAN
      BY <1>4 DEF ScreenFails, Picked, Named, FragmentsPicked, FragmentsTyped, ShownInv
    <3>3. ShownInv'  BY <3>1, <3>2 DEF ShownInv
    <3> QED BY <2>1, <2>2, <3>3 DEF Opens
  <2>3. CASE Opened("name", "open") /\ Picked /\ step' = "name"
    <3>1. tty = TRUE /\ tty' = tty  BY <2>3 DEF Picked, ShownInv
    <3> QED BY <2>1, <2>3, <3>1 DEF Opens, Opened, ShownInv, OnScreen
  <2>4. Open("pick", "closed") \/ (Open("name", "open") /\ Picked /\ step' = "name")
    BY <1>4 DEF ScreenFails, Picked, Named, FragmentsPicked, FragmentsTyped, Leave
  <2> QED BY <1>1, <2>2, <2>3, <2>4
<1>5. CASE TextAnswered
  BY <1>5 DEF TextAnswered, ShownInv, Opens
<1>6. CASE NameRefused \/ Generate \/ UnknownBase \/ Look \/ LookFails
  BY <1>6 DEF NameRefused, Generate, UnknownBase, Look, LookFails, ShownInv, Opens, OnScreen
<1>7. CASE Answer \/ Merge \/ MergeFails \/ Validate
  BY <1>7 DEF Answer, Merge, MergeFails, Validate, ShownInv, Opens, OnScreen
<1>8. CASE CreateTemp \/ WriteTemp
  BY <1>8 DEF CreateTemp, WriteTemp, ShownInv, Opens, OnScreen
<1>9. CASE Rename \/ RemoveTemp
  BY <1>9 DEF Rename, RemoveTemp, ShownInv, Opens, OnScreen
<1> QED BY <1>2, <1>3, <1>4, <1>5, <1>6, <1>7, <1>8, <1>9 DEF RunNext

LEMMA OpensFits == ASSUME ScreenInv, Opens PROVE ScreenInv'
<1>1. CASE UNCHANGED screen
  <2>1. Grown' = Grown
    <3>1. BoxRows' = BoxRows  BY <1>1, ContentsStay
    <3> QED BY <1>1, <3>1 DEF Grown
  <2> QED BY <1>1, <2>1 DEF ScreenInv, Dims
<1>2. ASSUME NEW k \in {"approve", "pick", "name", "nav"}, NEW e, Opened(k, e) PROVE ScreenInv'
  <2>1. Dims'  BY <1>2, ScreenFacts DEF Dims, Opened, ScreenInv
  <2>2. natural' \in Nat  BY <1>2, <2>1, SizesNext DEF Opened, Sizes
  <2> QED BY <1>2, <2>1, <2>2 DEF Opened, ScreenInv
<1> QED BY <1>1, <1>2 DEF Opens

LEMMA FirstScreen ==
  ASSUME FlowInit
  PROVE  /\ ScreenInv /\ ShownInv /\ answer = {} /\ end \in {"open", "closed"}
         /\ marks \subseteq SeqSet(Rows[kind])
<1>0. tty \in BOOLEAN  BY DEF FlowInit
<1>1. ASSUME NEW k \in {"approve", "pick", "name", "nav"}, NEW e \in {"open", "closed"}, Fresh(k, e)
      PROVE  /\ kind = k /\ index = 0 /\ popup = FALSE /\ scroll = 0 /\ width \in Widths /\ room \in Rooms
             /\ natural = Natural /\ height = natural /\ end = e /\ answer = {}
             /\ marks = (IF k = "approve" THEN Benign ELSE {})
  BY <1>1, Zenon DEF Fresh
<1>2. ASSUME NEW k \in {"approve", "pick", "name", "nav"}, NEW e \in {"open", "closed"}, Fresh(k, e)
      PROVE  ScreenInv /\ answer = {} /\ end = e /\ marks \subseteq SeqSet(Rows[kind])
  <2>1. Dims  BY <1>1, <1>2, ScreenFacts DEF Dims
  <2>2. natural \in Nat  BY <1>1, <1>2, <2>1, SizesAreNumbers DEF Sizes
  <2>3. index = 0 /\ popup = FALSE /\ scroll = 0 /\ height = natural /\ end = e
    BY <1>1, <1>2
  <2>4. ScreenInv  BY <2>1, <2>2, <2>3 DEF ScreenInv
  <2>5. marks \subseteq SeqSet(Rows[kind])  BY <1>1, <1>2, ScreenFacts
  <2> QED BY <1>1, <1>2, <2>4, <2>5
<1>3. CASE step = "start" /\ Fresh("pick", "closed")
  BY <1>0, <1>2, <1>3 DEF ShownInv
<1>4. CASE step = "launch" /\ tty = TRUE /\ Fresh("approve", "open")
  BY <1>2, <1>4 DEF ShownInv, OnScreen
<1> QED BY <1>3, <1>4 DEF FlowInit

ScreensInv == ScreenInv /\ ShownInv
LEMMA ScreensStep == ASSUME ScreensInv, [Next]_vars PROVE ScreensInv'
<1> USE DEF ScreensInv
<1>1. CASE OnScreenNext
  <2>1. ScreenInv'  BY <1>1, ScreenKeepsFit DEF OnScreenNext
  <2>2. end = "open"
    BY <1>1, Zenon DEF OnScreenNext, ScreenNext, Move, StartFilter, Type, ClearFilter, AcceptFilter, Answered,
       Cancel, OpenPopup, ClosePopup, Scroll, MarkAll, Toggle, Fold, SwitchFocus, Choose, Resize,
       ListHasKeys, CanToggle, Free
  <2>3. UNCHANGED <<step, tty>>  BY <1>1 DEF OnScreenNext
  <2> QED BY <2>1, <2>2, <2>3 DEF ShownInv
<1>2. CASE RunNext  BY <1>2, RunOpens, OpensFits
<1>3. CASE Edit
  <2>1. ScreenInv'  BY <1>3, OpensFits DEF Edit, Opens
  <2> QED BY <1>3, <2>1 DEF Edit, ShownInv
<1>4. CASE Die
  <2>1. ScreenInv'  BY <1>4, OpensFits DEF Die, Opens
  <2> QED BY <1>4, <2>1 DEF Die, ShownInv, OnScreen
<1>5. CASE Ended \/ UNCHANGED vars
  <2>1. ScreenInv'  BY <1>5, OpensFits DEF Ended, Opens
  <2> QED BY <1>5, <2>1 DEF Ended, ShownInv
<1> QED BY <1>1, <1>2, <1>3, <1>4, <1>5 DEF Next

(* After any sequence of keys, filters, answers and window sizes, on every *)
(* screen of tpd and for any rows and windows: the row that the next key   *)
(* acts on is drawn, and an open popup has the rows it needs, no more of   *)
(* them after it is closed.                                                *)
LEMMA InvFits == ASSUME ScreenInv PROVE ScreenFits
<1>1. PopupFits
  BY DEF PopupFits, ScreenInv, Grown
<1>2. HighlightIsDrawn
  <2>1. SUFFICES ASSUME Highlighted # None, Count > Most(1, height)
                 PROVE  /\ FirstRow(Most(1, height), index) <= index
                        /\ index < FirstRow(Most(1, height), index) + Most(1, height)
    BY DEF HighlightIsDrawn
  <2>2. PICK n \in Visible : Cardinality({m \in Visible : m < n}) = index
    BY <2>1 DEF Highlighted
  <2>3. index < Count
    <3>1. Visible \subseteq DOMAIN Rows[kind] /\ kind \in DOMAIN Rows  BY DEF Visible, ScreenInv, Dims
    <3>2. Cardinality({m \in Visible : m < n}) < Cardinality(Visible)  BY <3>1, RowSets
    <3> QED BY <2>2, <3>2 DEF Count
  <2>4. Count \in Nat /\ index \in Nat /\ height \in Nat
    BY SizesAreNumbers DEF ScreenInv, Sizes
  <2> QED BY <2>1, <2>3, <2>4 DEF FirstRow, Least, Most
<1> QED BY <1>1, <1>2 DEF ScreenFits

THEOREM ScreensFit == Spec => []ScreenFits
<1>1. FlowInit => ScreensInv  BY FirstScreen DEF ScreensInv
<1>2. ScreensInv /\ [Next]_vars => ScreensInv'  BY ScreensStep
<1>3. ScreensInv => ScreenFits  BY InvFits DEF ScreensInv
<1> QED BY <1>1, <1>2, <1>3, PTL DEF Spec

-----------------------------------------------------------------------------
(* The contract of a screen, step by step.                                 *)

LEMMA PlainSteps ==
  ASSUME ScreenInv, Move \/ StartFilter \/ Type \/ AcceptFilter \/ ClearFilter PROVE D!Next
<1>1. ListStep
  BY MoveStep, StartStep, TypeStep, AcceptStep, ClearStep DEF ScreenInv
<1> QED BY <1>1 DEF ListStep, D!Next, D!Look

(* The approval dialog clamps the offset of its popup in every drawing.    *)
LEMMA ApprovalDraws == ScreenInv /\ Approving => ~DrawPanics
<1> SUFFICES ASSUME ScreenInv, Approving PROVE ~DrawPanics  OBVIOUS
<1>1. Content \in Nat /\ scroll \in Nat /\ Window \in Nat
  BY SizesAreNumbers, ScreenFacts DEF ScreenInv, Sizes
<1>2. PopupStart = IF scroll + Window > Content THEN MaxScroll ELSE scroll
  BY DEF PopupStart
<1>3. MaxScroll \in Nat /\ MaxScroll <= Content
  BY <1>1 DEF MaxScroll
<1>4. PopupStart <= Content /\ PopupStart \in Nat
  BY <1>1, <1>2, <1>3
<1> QED BY <1>1, <1>4 DEF DrawPanics
LEMMA ApprovalDrawn == ScreenInv' /\ Approving' => ~DrawPanics'
BY ApprovalDraws, PTL

LEMMA DrawnSteps == ASSUME ScreenInv, ScreenInv', Answered \/ Scroll \/ Resize PROVE D!Next
<1>1. end = "open" /\ UNCHANGED <<kind, marks, answer>> /\ Draw
  BY DEF Answered, Scroll, Resize
<1>2. end' = "open" \/ (end' = "panicked" /\ kind # "approve")
  BY <1>1, ApprovalDrawn DEF Draw
<1> QED BY <1>1, <1>2 DEF D!Next, D!Look, D!Panic

LEMMA OwnKeys ==
  ASSUME ScreenInv, Cancel \/ OpenPopup \/ ClosePopup \/ Toggle \/ Fold \/ SwitchFocus \/ Choose PROVE D!Next
<1>1. CASE Cancel  BY <1>1 DEF Cancel, D!Next, D!Cancel
<1>2. CASE OpenPopup \/ ClosePopup \/ SwitchFocus
  BY <1>2 DEF OpenPopup, ClosePopup, SwitchFocus, Free, D!Next, D!Look
<1>3. CASE Toggle
  BY <1>3 DEF Toggle, CanToggle, Free, Flip, D!Next, D!Mark
<1>4. CASE Fold
  BY <1>4 DEF Fold, CanToggle, Free, D!Next, D!Look
<1>5. CASE Choose
  BY <1>5 DEF Choose, Free, Picking, D!Next, D!Choose
<1> QED BY <1>1, <1>2, <1>3, <1>4, <1>5

LEMMA AllRows == ASSUME ScreenInv, MarkAll PROVE D!Next
<1>1. end = "open" /\ kind = "approve" /\ UNCHANGED <<kind, end, answer>>
  BY DEF MarkAll, Free
<1>2. marks' \in {{}, SeqSet(Rows[kind])}
  BY DEF MarkAll
<1>3. [k \in DOMAIN Rows |-> SeqSet(Rows[k])][kind] = SeqSet(Rows[kind])
  BY DEF ScreenInv, Dims
<1> QED BY <1>1, <1>2, <1>3 DEF D!Next, D!MarkAll

LEMMA ScreenSteps == ASSUME ScreenInv, ScreenInv', ScreenNext PROVE D!Next
BY PlainSteps, DrawnSteps, OwnKeys, AllRows DEF ScreenNext

LEMMA OpenSteps == ASSUME Opens PROVE [D!Next]_D!vars
<1>1. CASE UNCHANGED screen
  <2>1. Highlighted' = Highlighted  BY <1>1, RowStays
  <2> QED BY <1>1, <2>1 DEF D!vars
<1>2. ASSUME NEW k \in {"approve", "pick", "name", "nav"}, NEW e \in {"open", "closed"},
             end # "open", Opened(k, e)
      PROVE  D!Next
  <2>1. k \in DOMAIN Rows /\ Benign \subseteq SeqSet(Rows["approve"])  BY ScreenFacts
  <2>2. kind' = k /\ end' = e /\ answer' = {} /\ marks' = (IF k = "approve" THEN Benign ELSE {})
    BY <1>2 DEF Opened
  <2>3. marks' \subseteq [j \in DOMAIN Rows |-> SeqSet(Rows[j])][k]  BY <2>1, <2>2
  <2> QED BY <1>2, <2>1, <2>2, <2>3 DEF D!Next, D!Open
<1> QED BY <1>1, <1>2 DEF Opens

LEMMA ContractStep == ASSUME ScreensInv, ScreensInv', [Next]_vars PROVE [D!Next]_D!vars
<1>1. CASE OnScreenNext  BY <1>1, ScreenSteps DEF OnScreenNext, ScreensInv
<1>2. CASE RunNext  BY <1>2, RunOpens, OpenSteps DEF ScreensInv
<1>3. CASE Edit \/ Die \/ Ended \/ UNCHANGED vars
  <2>1. Opens  BY <1>3 DEF Edit, Die, Ended, Opens
  <2> QED BY <2>1, OpenSteps
<1> QED BY <1>1, <1>2, <1>3 DEF Next

(* Every screen implements the contract of a dialog, for any rows and in   *)
(* any flow: it ends once, with what was marked or by being cancelled,     *)
(* marks change on the highlighted row alone, and the drawing of the       *)
(* approval dialog never panics.                                           *)
THEOREM DialogImplemented == Spec => KeepsContract
<1>1. FlowInit => ScreensInv /\ D!Init
  <2> SUFFICES ASSUME FlowInit PROVE ScreensInv /\ D!Init  OBVIOUS
  <2>2. [k \in DOMAIN Rows |-> SeqSet(Rows[k])][kind] = SeqSet(Rows[kind])
    BY FirstScreen DEF ScreenInv, Dims
  <2> QED BY <2>2, FirstScreen DEF ScreensInv, D!Init
<1>2. ScreensInv /\ [Next]_vars => ScreensInv'  BY ScreensStep
<1>3. ScreensInv /\ ScreensInv' /\ [Next]_vars => [D!Next]_D!vars  BY ContractStep
<1> QED BY <1>1, <1>2, <1>3, PTL DEF Spec, KeepsContract, D!Spec

-----------------------------------------------------------------------------
(* The type invariant.  The sizes come from ScreenInv; what is left of a   *)
(* screen are its marks, its folders and its filter.                       *)

MarkTypes == marks \subseteq Entries /\ listed \subseteq Entries /\ expanded \subseteq Folders
FilterTypes ==
  /\ filter \in {"off", "typing", "applied"} /\ query \in DOMAIN Found
  /\ answers \cup {found} \subseteq [rows : SUBSET Entries, marks : SUBSET Entries, newest : BOOLEAN]
EndTypes ==
  /\ end \in {"closed", "open", "chosen", "cancelled", "panicked"} /\ answer \subseteq Entries
  /\ atList \in BOOLEAN
PartTypes == MarkTypes /\ FilterTypes /\ EndTypes

RunTypes ==
  /\ step \in Ends \cup OnScreen \cup {"start", "bases", "generate", "look", "ask", "read",
                "validate", "create", "write", "rename", "remove"}
  /\ consent \in {"none", "absent", "replace", "merge"}
  /\ temp \in {"none", "partial", "whole"} /\ edits \in 0..MaxEdits /\ raced \in BOOLEAN

LEMMA TypesTogether == ScreensInv /\ PartTypes /\ RunTypes => FlowTypeOK
BY DEF ScreensInv, ScreenInv, ShownInv, Dims, PartTypes, MarkTypes, FilterTypes, EndTypes, RunTypes,
   FlowTypeOK, TypeOK

RowsTyped == Listed \subseteq Entries /\ SeqSet(Rows[kind]) \subseteq Entries
LEMMA RowsAreEntries == Dims => RowsTyped
BY DEF RowsTyped, Dims, Listed, Entries
LEMMA RowsNext == Dims' => RowsTyped'
BY RowsAreEntries, PTL

CopyTypes == [rows : SUBSET Entries, marks : SUBSET Entries, newest : BOOLEAN]
LEMMA CopiesTyped ==
  ASSUME NEW rows \in SUBSET Entries, NEW marked, NEW newest \in BOOLEAN
  PROVE  Copies(rows, marked, newest) \in CopyTypes /\ Copies(rows, marked, newest).newest = newest
BY DEF Copies, CopyTypes
LEMMA OlderTyped ==
  ASSUME FilterTypes
  PROVE  Superseded \subseteq CopyTypes /\ \A a \in Superseded : ~a.newest
<1>1. answers \subseteq CopyTypes  BY DEF FilterTypes, CopyTypes
<1>2. ASSUME NEW a \in CopyTypes
      PROVE  [a EXCEPT !.newest = FALSE] \in CopyTypes /\ [a EXCEPT !.newest = FALSE].newest = FALSE
  BY DEF CopyTypes
<1> QED BY <1>1, <1>2 DEF Superseded

(* What the list does to its filter: a cleared one has the empty text.     *)
Nothing == Copies({}, {}, FALSE)
Cleared == filter' = "off" /\ query' = "" /\ found' = Nothing /\ answers' = Superseded
Began == answers' = Superseded \cup {Copies(Match(query)', listed', TRUE)}
LEMMA ListFilters ==
  /\ Move => UNCHANGED <<filter, query, found, answers>>
  /\ StartFilter => /\ filter' = "typing" /\ UNCHANGED <<query, answers>>
                    /\ found' = IF query = "" THEN Copies(Listed, listed, TRUE) ELSE found
  /\ Type => query' \in DOMAIN Found /\ UNCHANGED <<filter, found>> /\ Began
  /\ ClearFilter => Cleared
  /\ AcceptFilter => Cleared \/ (filter' = "applied" /\ filter = "typing" /\ UNCHANGED <<query, found, answers>>)
<1>1. Reset => Cleared  BY ScreensAssumption, Zenon DEF Reset, Cleared, Nothing
<1>2. Move => UNCHANGED <<filter, query, found, answers>>  BY Zenon DEF Move
<1>3. StartFilter => /\ filter' = "typing" /\ UNCHANGED <<query, answers>>
                     /\ found' = IF query = "" THEN Copies(Listed, listed, TRUE) ELSE found
  BY Zenon DEF StartFilter
<1>4. Type => query' \in DOMAIN Found /\ UNCHANGED <<filter, found>> /\ Began
  BY Zenon DEF Type, Filter, Began
<1>5. ClearFilter => Cleared  BY <1>1, Zenon DEF ClearFilter
<1>6. AcceptFilter => Cleared \/ (filter' = "applied" /\ filter = "typing" /\ UNCHANGED <<query, found, answers>>)
  BY <1>1, Zenon DEF AcceptFilter
<1> QED BY <1>2, <1>3, <1>4, <1>5, <1>6

(* The answer of a filtering that begins is made of the rows there are.    *)
LEMMA BeganTyped ==
  ASSUME FilterTypes, Dims', Began PROVE answers' \subseteq CopyTypes
<1>1. Match(query)' \subseteq Entries  BY RowsNext DEF Match, RowsTyped
<1>2. Copies(Match(query)', listed', TRUE) \in CopyTypes  BY <1>1, CopiesTyped
<1> QED BY <1>2, OlderTyped DEF Began

(* New items: nothing is found until the list has filtered them.           *)
LEMMA ItemsTyped ==
  ASSUME FilterTypes, Dims', SetItems PROVE FilterTypes'
<1>1. CASE filter = "off"  BY <1>1 DEF SetItems, FilterTypes
<1>2. CASE filter # "off"
  <2>1. UNCHANGED <<filter, query>> /\ found' = Nothing /\ Began
    BY <1>2 DEF SetItems, Filter, Began, Nothing
  <2>2. Nothing \in CopyTypes  BY CopiesTyped DEF Nothing
  <2> QED BY <2>1, <2>2, BeganTyped DEF FilterTypes, CopyTypes
<1> QED BY <1>1, <1>2

LEMMA ListTyped ==
  ASSUME ScreenInv, PartTypes, Move \/ StartFilter \/ Type \/ ClearFilter \/ AcceptFilter \/ Answered
  PROVE  PartTypes'
<1>1. UNCHANGED <<marks, listed, expanded, atList, answer>> /\ end' \in {end, "panicked", "open"}
  <2>1. CASE Move \/ StartFilter \/ Type  BY <2>1, Zenon DEF Move, StartFilter, Type
  <2>2. CASE ClearFilter \/ AcceptFilter  BY <2>2, Zenon DEF ClearFilter, AcceptFilter
  <2>3. CASE Answered  BY <2>3 DEF Answered, Draw
  <2> QED BY <2>1, <2>2, <2>3
<1>2. FilterTypes'
  <2>1. Listed \subseteq Entries  BY RowsAreEntries DEF ScreenInv, RowsTyped
  <2>2. CASE Answered
    <3>1. PICK a \in answers : answers' = answers \ {a} /\ found' \in {a, found}
      BY <2>2 DEF Answered
    <3>2. UNCHANGED <<filter, query>>  BY <2>2 DEF Answered
    <3> QED BY <3>1, <3>2 DEF PartTypes, FilterTypes
  <2>3. CASE Type
    <3>1. Dims'  BY <2>3, Zenon DEF Type, ScreenInv, Dims
    <3>2. query' \in DOMAIN Found /\ UNCHANGED <<filter, found>> /\ answers' \subseteq CopyTypes
      BY <2>3, <3>1, ListFilters, BeganTyped DEF PartTypes
    <3> QED BY <3>2 DEF PartTypes, FilterTypes, CopyTypes
  <2>4. CASE Move \/ StartFilter \/ ClearFilter \/ AcceptFilter
    <3>1. Nothing \in CopyTypes /\ Copies(Listed, listed, TRUE) \in CopyTypes
      BY <2>1, CopiesTyped DEF Nothing
    <3>2. /\ filter' \in {"off", "typing", "applied"} /\ query' \in DOMAIN Found
          /\ found' \in {Nothing, Copies(Listed, listed, TRUE), found} /\ answers' \in {answers, Superseded}
      BY <2>4, ListFilters, ScreensAssumption DEF Cleared, PartTypes, FilterTypes
    <3>3. answers \subseteq CopyTypes /\ found \in CopyTypes /\ Superseded \subseteq CopyTypes
      BY OlderTyped DEF PartTypes, FilterTypes, CopyTypes
    <3> QED BY <3>1, <3>2, <3>3 DEF FilterTypes, CopyTypes
  <2> QED BY <2>2, <2>3, <2>4
<1> QED BY <1>1, <1>2 DEF PartTypes, MarkTypes, EndTypes

LEMMA KeysTyped ==
  ASSUME ScreenInv, PartTypes,
         \/ Cancel \/ OpenPopup \/ ClosePopup \/ Scroll \/ MarkAll \/ Toggle \/ Fold
         \/ SwitchFocus \/ Choose \/ Resize
  PROVE  PartTypes'
<1> USE DEF PartTypes
<1>0. Highlighted \in Entries \cup {None} /\ SeqSet(Rows[kind]) \subseteq Entries /\ Dims
  BY RowShown, RowsAreEntries DEF ScreenInv, Dims, RowsTyped
<1>0a. Quit => FilterTypes'
  <2>1. Nothing \in CopyTypes  BY CopiesTyped DEF Nothing
  <2> QED BY <2>1 DEF Quit, Nothing, FilterTypes, CopyTypes
<1>1. CASE OpenPopup \/ ClosePopup \/ Scroll \/ Resize \/ SwitchFocus
  <2>1. UNCHANGED <<marks, listed, expanded, filter, query, found, answers, answer>>
    BY <1>1 DEF OpenPopup, ClosePopup, Scroll, Resize, SwitchFocus
  <2>2. end' \in {end, "open", "panicked"} /\ atList' \in BOOLEAN
    BY <1>1 DEF OpenPopup, ClosePopup, Scroll, Resize, SwitchFocus, Draw, EndTypes
  <2> QED BY <2>1, <2>2 DEF MarkTypes, FilterTypes, EndTypes
<1>2. CASE MarkAll
  <2>1. FilterTypes'  BY <1>0, <1>2, ItemsTyped DEF MarkAll, Dims
  <2>2. marks' \subseteq Entries /\ UNCHANGED <<expanded, atList, end, answer>> /\ listed' = marks'
    BY <1>0, <1>2 DEF MarkAll
  <2> QED BY <2>1, <2>2 DEF MarkTypes, EndTypes
<1>3. CASE Toggle
  <2>1. FilterTypes'
    <3>1. Dims' /\ (SetItems \/ UNCHANGED filtering)  BY <1>0, <1>3 DEF Toggle, Dims
    <3> QED BY <1>0, <3>1, ItemsTyped DEF FilterTypes
  <2>2. Highlighted \in Entries  BY <1>0, <1>3 DEF Toggle, CanToggle
  <2>3. marks' \in {marks \ {Highlighted}, marks \cup {Highlighted}} /\ listed' \in {marks', listed}
        /\ UNCHANGED <<expanded, atList, end, answer>>
    BY <1>3 DEF Toggle, Flip
  <2> QED BY <2>1, <2>2, <2>3 DEF MarkTypes, EndTypes
<1>4. CASE Fold
  <2>1. FilterTypes'  BY <1>0, <1>4, ItemsTyped DEF Fold, Dims
  <2>2. expanded' \subseteq Folders /\ UNCHANGED <<marks, listed, atList, end, answer>>
    BY <1>4 DEF Fold, MarkTypes
  <2> QED BY <2>1, <2>2 DEF MarkTypes, EndTypes
<1>5. CASE Choose
  <2>1. UNCHANGED <<marks, listed, expanded, atList>> /\ end' = "chosen" /\ Quit
    BY <1>5 DEF Choose
  <2>2. answer' \subseteq Entries  BY <1>0, <1>5 DEF Choose, MarkTypes
  <2> QED BY <1>0a, <2>1, <2>2 DEF MarkTypes, EndTypes
<1>6. CASE Cancel
  <2>1. UNCHANGED <<marks, listed, expanded, atList, answer>> /\ end' = "cancelled" /\ Quit
    BY <1>6 DEF Cancel
  <2> QED BY <1>0a, <2>1 DEF MarkTypes, EndTypes
<1> QED BY <1>1, <1>2, <1>3, <1>4, <1>5, <1>6

(* Every screen starts with what is marked, and without a filter.          *)
LEMMA FreshTyped ==
  ASSUME NEW k, NEW e \in {"open", "closed"}
  PROVE  (Fresh(k, e) => PartTypes) /\ (Open(k, e) => PartTypes')
<1>1. Benign \subseteq Entries
  BY ScreenFacts, RowEntries
<1>1a. Nothing \in CopyTypes
  BY CopiesTyped DEF Nothing
<1>2. ASSUME Fresh(k, e) PROVE PartTypes
  <2>1. /\ marks \in {Benign, {}} /\ listed = marks /\ expanded = {} /\ atList \in BOOLEAN
        /\ filter = "off" /\ query \in DOMAIN Found /\ found = Nothing /\ answers = {}
        /\ end = e /\ answer = {}
    BY <1>2, ScreensAssumption, Zenon DEF Fresh, Nothing
  <2> QED BY <1>1, <1>1a, <2>1 DEF PartTypes, MarkTypes, FilterTypes, CopyTypes, EndTypes
<1>3. ASSUME Open(k, e) PROVE PartTypes'
  <2>1. /\ marks' \in {Benign, {}} /\ listed' = marks' /\ expanded' = {} /\ atList' \in BOOLEAN
        /\ filter' = "off" /\ query' \in DOMAIN Found /\ found' = Nothing /\ answers' = {}
        /\ end' = e /\ answer' = {}
    BY <1>3, ScreensAssumption, Zenon DEF Open, Nothing
  <2> QED BY <1>1, <1>1a, <2>1 DEF PartTypes, MarkTypes, FilterTypes, CopyTypes, EndTypes
<1> QED BY <1>2, <1>3

(* Run leaves the screen alone or opens one.                               *)
LEMMA RunScreens ==
  ASSUME RunNext PROVE UNCHANGED screen \/ \E k, e \in {"pick", "name", "nav", "open", "closed"} :
                                              e \in {"open", "closed"} /\ Open(k, e)
<1> DEFINE Opening == \E k, e \in {"pick", "name", "nav", "open", "closed"} : e \in {"open", "closed"} /\ Open(k, e)
<1>1. \A k \in {"pick", "name", "nav"}, e \in {"open", "closed"} : Open(k, e) => Opening
  OBVIOUS
<1> HIDE DEF Opening
<1>2. CASE Start \/ Bases  BY <1>1, <1>2 DEF Start, Bases, Prompt
<1>3. CASE ScreenFails \/ Picked \/ Named \/ FragmentsPicked \/ FragmentsTyped
  BY <1>1, <1>3 DEF ScreenFails, Picked, Named, FragmentsPicked, FragmentsTyped, Leave
<1>4. CASE TextAnswered \/ NameRefused \/ Generate \/ UnknownBase \/ Look \/ LookFails \/ Answer
  BY <1>4 DEF TextAnswered, NameRefused, Generate, UnknownBase, Look, LookFails, Answer
<1>5. CASE Merge \/ MergeFails \/ Validate \/ CreateTemp \/ WriteTemp \/ Rename \/ RemoveTemp
  BY <1>5 DEF Merge, MergeFails, Validate, CreateTemp, WriteTemp, Rename, RemoveTemp
<1> QED BY <1>2, <1>3, <1>4, <1>5 DEF RunNext, Opening

LEMMA RunTyped == ASSUME RunTypes, RunNext PROVE RunTypes'
<1> USE DEF RunTypes, Ends, OnScreen
<1>1. CASE Start \/ ScreenFails \/ Picked \/ Named \/ TextAnswered \/ Bases \/ NameRefused
  <2>1. UNCHANGED <<consent, temp, edits, raced>>
    BY <1>1 DEF Start, ScreenFails, Picked, Named, TextAnswered, Bases, NameRefused
  <2>2. step' \in {"failed", "bases", "pick", "name", "fragments", "generate"}
    BY <1>1 DEF Start, ScreenFails, Picked, Named, TextAnswered, Bases, NameRefused
  <2> QED BY <2>1, <2>2
<1>2. CASE FragmentsPicked \/ FragmentsTyped \/ Generate \/ UnknownBase \/ LookFails \/ MergeFails \/ Validate
  <2>1. UNCHANGED <<consent, temp, edits, raced>>
    BY <1>2 DEF FragmentsPicked, FragmentsTyped, Generate, UnknownBase, LookFails, MergeFails, Validate
  <2>2. step' \in {"failed", "generate", "validate", "look", "shown", "create"}
    BY <1>2 DEF FragmentsPicked, FragmentsTyped, Generate, UnknownBase, LookFails, MergeFails, Validate
  <2> QED BY <2>1, <2>2
<1>3. CASE Look  BY <1>3 DEF Look
<1>4. CASE Answer  BY <1>4 DEF Answer
<1>5. CASE Merge  BY <1>5 DEF Merge
<1>6. CASE CreateTemp \/ WriteTemp \/ Rename \/ RemoveTemp
  BY <1>6 DEF CreateTemp, WriteTemp, Rename, RemoveTemp
<1> QED BY <1>1, <1>2, <1>3, <1>4, <1>5, <1>6 DEF RunNext

LEMMA TypesStep ==
  ASSUME ScreensInv, PartTypes, RunTypes, [Next]_vars PROVE PartTypes' /\ RunTypes'
<1>1. ASSUME UNCHANGED screen PROVE PartTypes'
  BY <1>1 DEF PartTypes, MarkTypes, FilterTypes, EndTypes
<1>2. CASE OnScreenNext
  <2>1. PartTypes'  BY <1>2, ListTyped, KeysTyped DEF OnScreenNext, ScreenNext, ScreensInv
  <2> QED BY <1>2, <2>1 DEF OnScreenNext, RunTypes
<1>3. CASE RunNext  BY <1>1, <1>3, RunTyped, RunScreens, FreshTyped
<1>4. CASE Edit
  BY <1>1, <1>4, FlowAssumption DEF Edit, RunTypes
<1>5. CASE Die \/ Ended \/ UNCHANGED vars
  <2>1. UNCHANGED <<screen, consent, temp, edits, raced>> /\ step' \in {step, "dead"}
    BY <1>5 DEF Die, Ended
  <2> QED BY <1>1, <2>1 DEF RunTypes, Ends
<1> QED BY <1>2, <1>3, <1>4, <1>5 DEF Next

LEMMA FirstTypes == ASSUME FlowInit PROVE ScreensInv /\ PartTypes /\ RunTypes
<1>1. Fresh("pick", "closed") \/ Fresh("approve", "open")  BY DEF FlowInit
<1>2. PartTypes  BY <1>1, FreshTyped
<1>3. step \in {"start", "launch"} /\ consent = "none" /\ temp = "none" /\ edits = 0 /\ raced = FALSE
  BY DEF FlowInit
<1>4. RunTypes
  <2>1. edits \in 0..MaxEdits
    <3>1. MaxEdits \in Nat  BY FlowAssumption
    <3>2. 0 \in 0..MaxEdits  BY <3>1, SMT
    <3> QED BY <1>3, <3>2, Zenon
  <2>2. step \in Ends \cup OnScreen \cup {"start", "bases", "generate", "look", "ask", "read",
                   "validate", "create", "write", "rename", "remove"}
    BY <1>3, Zenon DEF OnScreen
  <2> QED BY <1>3, <2>1, <2>2, Zenon DEF RunTypes
<1> QED BY <1>2, <1>4, FirstScreen DEF ScreensInv

(* Every variable of the screens and of the rest of Run keeps its type.    *)
THEOREM FlowTypeCorrect == Spec => []FlowTypeOK
<1>1. FlowInit => ScreensInv /\ PartTypes /\ RunTypes  BY FirstTypes
<1>2. ScreensInv /\ PartTypes /\ RunTypes /\ [Next]_vars => ScreensInv' /\ PartTypes' /\ RunTypes'
  BY ScreensStep, TypesStep
<1> QED BY <1>1, <1>2, TypesTogether, PTL DEF Spec

-----------------------------------------------------------------------------
(* What is drawn.  The newest filtering copies the rows that match and the *)
(* marks there are: each change of either begins another.                  *)

Matching == Copies(Match(query), listed, TRUE)
Listening == Approving \/ kind = "pick" \/ atList
NewestInv ==
  /\ \A a \in answers : a.newest => filter # "off" /\ a = Matching
  /\ IF filter = "off" THEN query = "" ELSE Listening
  /\ LastWord /\ filter # "off" => found = Matching
ListInv == ScreensInv /\ PartTypes /\ CopiesInv /\ NewestInv

LEMMA MatchStays ==
  ASSUME UNCHANGED <<kind, expanded, query, listed>> PROVE Matching' = Matching
<1>1. Listed' = Listed  BY DEF Listed
<1> QED BY <1>1 DEF Matching, Match
LEMMA MatchesAnew == Matching' = Copies(Match(query)', listed', TRUE)
BY DEF Matching

LEMMA NothingIsOld == Nothing.newest = FALSE
BY DEF Nothing, Copies

LEMMA BeganNewest ==
  ASSUME ListInv, Began, filter' # "off", Listening', found' \in {found, Nothing} PROVE NewestInv'
<1>1. answers' = Superseded \cup {Matching'}
  BY MatchesAnew DEF Began
<1>2. \A a \in Superseded : ~a.newest
  BY OlderTyped DEF ListInv, PartTypes
<1>3. Matching'.newest = TRUE
  BY MatchesAnew DEF Copies
<1>4. \A a \in answers' : a.newest => a = Matching'
  BY <1>1, <1>2
<1>5. ~(LastWord /\ filter # "off")'
  BY <1>1, <1>3 DEF LastWord
<1> QED BY <1>4, <1>5 DEF NewestInv

LEMMA ItemsNewest ==
  ASSUME ListInv, SetItems, Listening' PROVE NewestInv'
<1>1. CASE filter = "off"
  BY <1>1 DEF ListInv, NewestInv, SetItems
<1>2. CASE filter # "off"
  BY <1>2, BeganNewest DEF SetItems, Filter, Began, Nothing
<1> QED BY <1>1, <1>2

LEMMA ListNewest ==
  ASSUME ListInv, Move \/ StartFilter \/ Type \/ ClearFilter \/ AcceptFilter PROVE NewestInv'
<1>1. UNCHANGED <<kind, expanded, listed, atList>>
  <2>1. CASE Move \/ StartFilter \/ Type  BY <2>1, Zenon DEF Move, StartFilter, Type
  <2>2. CASE ClearFilter \/ AcceptFilter  BY <2>2, Zenon DEF ClearFilter, AcceptFilter
  <2> QED BY <2>1, <2>2
<1>2. Listening /\ Listening'
  <2>1. Listening
    BY Zenon DEF Move, StartFilter, Type, ClearFilter, AcceptFilter, ListHasKeys, Listening
  <2> QED BY <1>1, <2>1 DEF Listening
<1>3. CASE Move
  <2>1. UNCHANGED <<filter, query, found, answers>>  BY <1>3, ListFilters
  <2>2. Matching' = Matching  BY <1>1, <2>1, MatchStays
  <2> QED BY <1>2, <2>1, <2>2 DEF ListInv, NewestInv, LastWord
<1>4. CASE StartFilter
  <2>1. /\ filter' = "typing" /\ UNCHANGED <<query, answers>>
        /\ found' = IF query = "" THEN Copies(Listed, listed, TRUE) ELSE found
    BY <1>4, ListFilters
  <2>2. Matching' = Matching  BY <1>1, <2>1, MatchStays
  <2>3. query = "" => Copies(Listed, listed, TRUE) = Matching
    <3>1. Found[""] \cap Listed = Listed
      <4>1. Listed \subseteq Entries  BY RowsAreEntries DEF ListInv, ScreensInv, ScreenInv, RowsTyped
      <4> QED BY <4>1, ScreensAssumption
    <3> QED BY <3>1 DEF Matching, Match
  <2>4. filter = "off" => query = ""
    BY DEF ListInv, NewestInv
  <2> QED BY <1>2, <2>1, <2>2, <2>3, <2>4 DEF ListInv, NewestInv, LastWord
<1>5. CASE Type
  <2>1. UNCHANGED <<filter, found>> /\ Began  BY <1>5, ListFilters
  <2>2. filter = "typing"  BY <1>5, Zenon DEF Type
  <2> QED BY <1>2, <2>1, <2>2, BeganNewest
<1>6. CASE Cleared
  <2>1. \A a \in Superseded : ~a.newest
    BY OlderTyped DEF ListInv, PartTypes
  <2> QED BY <1>6, <2>1 DEF Cleared, NewestInv
<1>7. CASE AcceptFilter /\ ~Cleared
  <2>1. filter' = "applied" /\ filter = "typing" /\ UNCHANGED <<query, found, answers>>  BY <1>7, ListFilters
  <2>2. Matching' = Matching  BY <1>1, <2>1, MatchStays
  <2> QED BY <1>2, <2>1, <2>2 DEF ListInv, NewestInv, LastWord
<1> QED BY <1>3, <1>4, <1>5, <1>6, <1>7, ListFilters

LEMMA AnswerNewest == ASSUME ListInv, Answered PROVE NewestInv'
<1>1. UNCHANGED <<kind, expanded, listed, atList, filter, query>>
  BY DEF Answered
<1>2. PICK a \in answers :
         /\ answers' = answers \ {a}
         /\ found' = IF filter # "off" /\ Listening THEN a ELSE found
  BY DEF Answered, Listening
<1>3. Matching' = Matching /\ Listening' = Listening
  BY <1>1, MatchStays DEF Listening
<1>4. filter # "off" => found' = a
  BY <1>2 DEF ListInv, NewestInv
<1>5. filter # "off" /\ found'.newest => found' = Matching
  BY <1>4 DEF ListInv, NewestInv
<1> QED BY <1>1, <1>2, <1>3, <1>5 DEF ListInv, NewestInv, LastWord

LEMMA KeysNewest ==
  ASSUME ListInv,
         \/ Cancel \/ OpenPopup \/ ClosePopup \/ Scroll \/ MarkAll \/ Toggle \/ Fold
         \/ SwitchFocus \/ Choose \/ Resize
  PROVE  NewestInv'
<1>1. CASE OpenPopup \/ ClosePopup \/ Scroll \/ Resize \/ SwitchFocus
  <2>1. UNCHANGED <<kind, expanded, listed, filter, query, found, answers>>
        /\ (filter # "off" => UNCHANGED atList)
    BY <1>1, Zenon DEF OpenPopup, ClosePopup, Scroll, Resize, SwitchFocus
  <2>2. Matching' = Matching  BY <2>1, MatchStays
  <2>3. filter # "off" => (Listening' <=> Listening)  BY <2>1 DEF Listening
  <2>4. LastWord' <=> LastWord  BY <2>1 DEF LastWord
  <2> QED BY <2>1, <2>2, <2>3, <2>4 DEF ListInv, NewestInv
<1>2. CASE MarkAll
  <2>1. SetItems /\ Listening'  BY <1>2 DEF MarkAll, Listening
  <2> QED BY <2>1, ItemsNewest
<1>3. CASE Fold
  <2>1. SetItems /\ UNCHANGED <<kind, atList>>  BY <1>3, Zenon DEF Fold
  <2>2. Listening'  BY <1>3, <2>1 DEF Fold, CanToggle, Listening
  <2> QED BY <2>1, <2>2, ItemsNewest
<1>4. CASE Toggle
  <2>1. UNCHANGED <<kind, atList, expanded>>  BY <1>4, Zenon DEF Toggle
  <2>2. CASE Approving
    BY <1>4, <2>1, <2>2, ItemsNewest DEF Toggle, Listening
  <2>3. CASE ~Approving
    <3>1. UNCHANGED <<listed, filter, query, found, answers>>  BY <1>4, <2>3 DEF Toggle
    <3>2. Matching' = Matching  BY <2>1, <3>1, MatchStays
    <3> QED BY <2>1, <3>1, <3>2 DEF ListInv, NewestInv, LastWord, Listening
  <2> QED BY <2>2, <2>3
<1>5. CASE Choose \/ Cancel
  <2>1. Quit /\ UNCHANGED <<kind, atList>>  BY <1>5, Zenon DEF Choose, Cancel
  <2>2. answers' = {} /\ found'.newest = FALSE /\ UNCHANGED <<filter, query>>
    BY <2>1, NothingIsOld DEF Quit, Nothing
  <2> QED BY <2>1, <2>2 DEF ListInv, NewestInv, LastWord, Listening
<1> QED BY <1>1, <1>2, <1>3, <1>4, <1>5

(* A screen that opens has no filter.                                      *)
LEMMA FreshNewest ==
  ASSUME NEW k, NEW e PROVE (Fresh(k, e) => CopiesInv /\ NewestInv) /\ (Open(k, e) => NewestInv')
<1>1. Fresh(k, e) => listed = marks /\ filter = "off" /\ query = "" /\ answers = {}  BY Zenon DEF Fresh
<1>2. Open(k, e) => filter' = "off" /\ query' = "" /\ answers' = {}  BY Zenon DEF Open
<1> QED BY <1>1, <1>2 DEF CopiesInv, NewestInv

LEMMA ListInvStep == ASSUME ListInv, RunTypes, [Next]_vars PROVE ListInv'
<1>1. ScreensInv' /\ PartTypes'
  BY ScreensStep, TypesStep DEF ListInv
<1>2. ASSUME UNCHANGED screen PROVE CopiesInv' /\ NewestInv'
  <2>1. Matching' = Matching  BY <1>2, MatchStays
  <2> QED BY <1>2, <2>1 DEF ListInv, CopiesInv, NewestInv, LastWord, Listening
<1>3. CASE OnScreenNext
  <2>1. ScreenNext  BY <1>3 DEF OnScreenNext
  <2>2. NewestInv'  BY <2>1, ListNewest, AnswerNewest, KeysNewest DEF ScreenNext
  <2>3. CopiesInv'  BY <2>1, ScreenKeeps DEF ListInv
  <2> QED BY <1>1, <2>2, <2>3 DEF ListInv
<1>4. CASE RunNext
  <2>1. CopiesInv'  BY <1>4, RunCopies DEF ListInv
  <2>2. NewestInv'  BY <1>2, <1>4, RunScreens, FreshNewest
  <2> QED BY <1>1, <2>1, <2>2 DEF ListInv
<1>5. CASE Edit \/ Die \/ Ended \/ UNCHANGED vars
  <2>1. UNCHANGED screen  BY <1>5 DEF Edit, Die, Ended
  <2> QED BY <1>1, <1>2, <2>1 DEF ListInv
<1> QED BY <1>3, <1>4, <1>5 DEF Next

(* The rows drawn are those let through.                                   *)
LEMMA DrawnRows ==
  ASSUME kind \in DOMAIN Rows, NEW T, T \subseteq Listed,
         (IF filter = "off" THEN Listed ELSE found.rows) = T
  PROVE  Drawn = T
<1>1. Visible = {n \in DOMAIN Rows[kind] : Rows[kind][n] \in T}
  BY DEF Visible
<1>2. \A i \in T : \E n \in DOMAIN Rows[kind] : Rows[kind][n] = i
  BY DEF Listed, SeqSet
<1> QED BY <1>1, <1>2 DEF Drawn

LEMMA ListIsTrue == ASSUME ListInv PROVE DrawnIsSubmitted
<1> SUFFICES ASSUME LastWord
             PROVE  /\ Drawn = (IF filter = "off" THEN Listed ELSE Match(query))
                    /\ BoxesAgree
  BY DEF DrawnIsSubmitted
<1>1. kind \in DOMAIN Rows  BY DEF ListInv, ScreensInv, ScreenInv, Dims
<1>2. CASE filter = "off"
  <2>1. Drawn = Listed  BY <1>1, <1>2, DrawnRows
  <2> QED BY <1>2, <2>1 DEF BoxesAgree, Boxes, ListInv, CopiesInv
<1>3. CASE filter # "off"
  <2>1. found.rows = Match(query) /\ found.marks = listed \cap Match(query)
    BY <1>3 DEF ListInv, NewestInv, Matching, Copies
  <2>2. Drawn = Match(query)
    <3>1. Match(query) \subseteq Listed  BY DEF Match
    <3> QED BY <1>1, <1>3, <2>1, <3>1, DrawnRows
  <2> QED BY <1>3, <2>1, <2>2 DEF BoxesAgree, Boxes, ListInv, CopiesInv
<1> QED BY <1>2, <1>3

(* Wherever the newest filtering has the last word, or there is no filter, *)
(* the approval dialog (prompt.go) draws the rows that match with the      *)
(* marks that enter submits, and the screens of tpd init the rows that     *)
(* match, after any keys, folds and answers in any order, for any rows.    *)
THEOREM DialogIsHonest == Spec => []DrawnIsSubmitted
<1>1. FlowInit => ListInv /\ RunTypes
  <2>1. FlowInit => ScreensInv /\ PartTypes /\ RunTypes  BY FirstTypes
  <2>2. FlowInit => CopiesInv /\ NewestInv  BY FreshNewest DEF FlowInit
  <2> QED BY <2>1, <2>2 DEF ListInv
<1>2. ListInv /\ RunTypes /\ [Next]_vars => ListInv' /\ RunTypes'
  BY ListInvStep, TypesStep DEF ListInv
<1>3. ListInv => DrawnIsSubmitted  BY ListIsTrue
<1> QED BY <1>1, <1>2, <1>3, PTL DEF Spec
=============================================================================
