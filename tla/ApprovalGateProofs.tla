------------------------- MODULE ApprovalGateProofs -------------------------
(***************************************************************************)
(* Theorems about ApprovalGate, for any number of launches, any grants and *)
(* any history of the profile.  The argument: whatever is asked is asked   *)
(* completely, because a state whose hash matches has decided everything   *)
(* the hash stands for (AnswerInv); and between loading and saving nobody  *)
(* else writes the state file (HeldInv).                                   *)
(***************************************************************************)
EXTENDS ApprovalGate, TLAPS

(* State st has, for everything in h, exactly the decisions ok.            *)
Says(st, h, ok) ==
  /\ st.hash = h
  /\ \A r \in h : r[1] \in st.fields /\ (<<r[1], r[2]>> \in st.approved <=> r \in ok)

-----------------------------------------------------------------------------
(* The pure parts.                                                         *)

LEMMA HashIsReal ==
  ASSUME NEW p \in Profiles
  PROVE  /\ p.grants \subseteq Grants /\ p.trusted \subseteq p.grants
         /\ Untrusted(p) \subseteq Grants /\ Untrusted(p) \subseteq p.grants
         /\ Hash(p) \in Hashes /\ Hash(p) # NoHash
<1>1. /\ p.grants \subseteq Grants /\ p.trusted \subseteq p.grants
      /\ Untrusted(p) \subseteq Grants /\ Untrusted(p) \subseteq p.grants
  BY ProfilesAssumption DEF Untrusted
<1>2. Hash(p) \subseteq Rendered(Grants)
  BY <1>1 DEF Hash, Rendered
<1>3. QED
  BY <1>1, <1>2, NoGrantAssumption DEF Hashes, NoHash

LEMMA Renders ==
  ASSUME NEW g
  PROVE  Render(g)[1] = g.field /\ <<Render(g)[1], Render(g)[2]>> = Slot(g)
BY DEF Render, Slot

(* Two grants of a profile that render the same are one.                   *)
LEMMA RendersApart ==
  ASSUME NEW p \in Profiles, NEW G \in SUBSET p.grants, NEW g \in p.grants
  PROVE  Render(g) \in Rendered(G) <=> g \in G
<1>1. ASSUME NEW h \in p.grants, Render(h) = Render(g) PROVE h = g
  <2>1. Slot(h) = Slot(g)
    BY <1>1, Renders
  <2>2. QED
    BY <2>1, ProfilesAssumption
<1>2. QED
  BY <1>1 DEF Rendered

(* A grant has a slot of its own in the profile.                           *)
LEMMA SlotsAreOwn ==
  ASSUME NEW p \in Profiles, NEW G \in SUBSET p.grants, NEW g \in p.grants
  PROVE  Slot(g) \in Slots(G) <=> g \in G
BY ProfilesAssumption DEF Slots

(* Reconciling touches no decision about what is not trusted.              *)
LEMMA Reconciled ==
  ASSUME NEW p \in Profiles, NEW st \in States
  PROVE  /\ Reconcile(st, p) \in States
         /\ Reconcile(st, p).hash = st.hash
         /\ \A ok : Says(st, st.hash, ok) => Says(Reconcile(st, p), st.hash, ok)
<1>1. CASE st.hash # Hash(p)
  BY <1>1 DEF Reconcile
<1>2. CASE st.hash = Hash(p)
  <2> DEFINE keep == {s \in st.approved : s \in Slots(p.grants) \/ s[1] = "network"}
  <2>1. Reconcile(st, p) = [st EXCEPT !.approved = keep]
    BY <1>2 DEF Reconcile
  <2>2. /\ Reconcile(st, p) \in States
        /\ Reconcile(st, p).hash = st.hash /\ Reconcile(st, p).fields = st.fields
        /\ Reconcile(st, p).approved = keep
    BY <2>1 DEF States
  <2>3. \A r \in st.hash : <<r[1], r[2]>> \in Slots(p.grants)
    BY <1>2, Renders DEF Hash, Rendered, Untrusted, Slots
  <2>4. \A r \in st.hash : <<r[1], r[2]>> \in keep <=> <<r[1], r[2]>> \in st.approved
    BY <2>3
  <2>5. QED
    BY <2>2, <2>4 DEF Says
<1>3. QED
  BY <1>1, <1>2

(* A complete answer, merged, is what the state says.                      *)
LEMMA Merged ==
  ASSUME NEW p \in Profiles, NEW st \in States, NEW ok \in SUBSET Untrusted(p)
  PROVE  /\ Merge(st, p, Untrusted(p), ok) \in States
         /\ Says(Merge(st, p, Untrusted(p), ok), Hash(p), Rendered(ok))
<1> DEFINE decided == {g.field : g \in Untrusted(p)}
           mst == Merge(st, p, Untrusted(p), ok)
<1>1. /\ mst.hash = Hash(p) /\ mst.fields = st.fields \cup decided
      /\ mst.approved = {s \in st.approved : s[1] \notin decided} \cup Slots(ok)
      /\ mst = [hash |-> mst.hash, fields |-> mst.fields, approved |-> mst.approved]
  BY DEF Merge
<1>2. decided \subseteq Fields /\ Slots(ok) \subseteq Slots(Grants)
  BY HashIsReal DEF Fields, Slots
<1>3. st.fields \subseteq Fields /\ st.approved \subseteq Slots(Grants)
  BY DEF States
<1>4. mst \in States
  BY <1>1, <1>2, <1>3, HashIsReal DEF States
<1>5. ASSUME NEW r \in Hash(p)
      PROVE  r[1] \in mst.fields /\ (<<r[1], r[2]>> \in mst.approved <=> r \in Rendered(ok))
  <2>1. PICK g \in Untrusted(p) : r = Render(g)
    BY <1>5 DEF Hash, Rendered
  <2>2. g \in p.grants /\ ok \subseteq p.grants
    BY HashIsReal
  <2>3. (Slot(g) \in Slots(ok) <=> g \in ok) /\ (r \in Rendered(ok) <=> g \in ok)
    BY <2>1, <2>2, SlotsAreOwn, RendersApart
  <2>4. r[1] = g.field /\ <<r[1], r[2]>> = Slot(g) /\ Slot(g)[1] = g.field /\ g.field \in decided
    BY <2>1, Renders DEF Slot
  <2>5. r[1] \in mst.fields
    BY <1>1, <2>4
  <2>6. Slot(g) \in mst.approved <=> Slot(g) \in Slots(ok)
    BY <1>1, <2>4
  <2>7. QED
    BY <2>3, <2>4, <2>5, <2>6
<1>6. QED
  BY <1>1, <1>4, <1>5 DEF Says

(* Where the hash matches nothing is asked, and the decisions count.       *)
Approved(p, ok) == {g \in Untrusted(p) : Render(g) \in ok}
LEMMA Decided ==
  ASSUME NEW p \in Profiles, NEW st, NEW ok, Says(st, Hash(p), ok)
  PROVE  Asked(st, p) = {} /\ Kept(st, p) = p.trusted \cup Approved(p, ok)
<1>1. \A g \in Untrusted(p) : ~Undecided(st, p, g) /\ (Slot(g) \in st.approved <=> Render(g) \in ok)
  <2>1. SUFFICES ASSUME NEW g \in Untrusted(p)
                 PROVE  ~Undecided(st, p, g) /\ (Slot(g) \in st.approved <=> Render(g) \in ok)
    OBVIOUS
  <2>2. Render(g) \in Hash(p)
    BY DEF Hash, Rendered
  <2>3. QED
    BY <2>2, Renders DEF Says, Undecided
<1>2. \A g \in p.grants : g \in p.trusted \/ g \in Untrusted(p)
  BY DEF Untrusted
<1>3. p.trusted \subseteq p.grants /\ Untrusted(p) \subseteq p.grants
  BY HashIsReal
<1>4. \A g \in Untrusted(p) : g \notin p.trusted
  BY DEF Untrusted
<1>5. Asked(st, p) = {}
  BY <1>1 DEF Asked
<1>6. QED
  BY <1>1, <1>2, <1>3, <1>4, <1>5 DEF Kept, Approved

LEMMA OwnApproved ==
  ASSUME NEW p \in Profiles, NEW ok \in SUBSET Untrusted(p)
  PROVE  Approved(p, Rendered(ok)) = ok
<1>1. ok \subseteq p.grants /\ Untrusted(p) \subseteq p.grants
  BY HashIsReal
<1>2. QED
  BY <1>1, RendersApart DEF Approved

LEMMA Undecideds ==
  ASSUME NEW p \in Profiles, NEW st, st.hash # Hash(p)
  PROVE  Asked(st, p) = Untrusted(p) /\ (Untrusted(p) = {} => Kept(st, p) = p.trusted)
BY HashIsReal DEF Asked, Kept, Undecided, Untrusted

(* A mount of a service's socket needs the service.                        *)
LEMMA CascadeNeedsService ==
  ASSUME NEW G
  PROVE  Cascade(G) = {g \in G : \/ g.service = NoService
                                 \/ \E h \in G : h.field = "services" /\ h.key = g.service}
<1>1. \A g : <<"services", g.service>> \in Slots(G)
               <=> \E h \in G : h.field = "services" /\ h.key = g.service
  BY DEF Slots, Slot
<1>2. QED
  BY <1>1 DEF Cascade

-----------------------------------------------------------------------------
(* The invariant.                                                          *)

Busy == {"filter", "dialog", "load", "save", "again"}
HeldInv == \A l \in Launches : pc[l] \in Busy /\ mode[l] \notin Dry => lock = l

AnswerInv ==
  /\ answered.yes \subseteq answered.hash
  /\ answered.hash = file.hash
  /\ file.hash # NoHash => Says(file, file.hash, answered.yes)

OwnInv(l) ==
  /\ pc[l] \in {"idle", "begun", "filter", "passed", "failed"} => asks[l] = {}
  /\ pc[l] \in {"dialog", "load", "save", "again"} =>
       asks[l] = Untrusted(res[l]) /\ asks[l] # {} /\ yes[l] \subseteq asks[l]
  /\ pc[l] \in {"dialog", "load", "save"} /\ mode[l] \notin Dry => file.hash # Hash(res[l])
  /\ pc[l] = "again" /\ mode[l] \in Dry => Says(seen[l], Hash(res[l]), Rendered(yes[l]))
  /\ pc[l] = "again" /\ mode[l] \notin Dry => answered = [hash |-> Hash(res[l]), yes |-> Rendered(yes[l])]

GateInv == TypeOK /\ HeldInv /\ AnswerInv /\ \A l \in Launches : OwnInv(l)

USE DEF vars, launchVars, At, Goto

-----------------------------------------------------------------------------
(* Type correctness.                                                       *)

LEMMA EmptyIsState == Empty \in States
BY DEF Empty, States, Hashes, NoHash

LEMMA TypeInit == Init => TypeOK
BY EmptyIsState DEF Init, TypeOK, Pcs, Hashes, NoHash

LEMMA TypeStep == TypeOK /\ [Next]_vars => TypeOK'
<1> SUFFICES ASSUME TypeOK, [Next]_vars PROVE TypeOK'
  OBVIOUS
<1>0. CASE UNCHANGED vars
  BY <1>0 DEF TypeOK
<1> SUFFICES ASSUME NEW l \in Launches,
                    Step(l) \/ Begin(l) \/ PressKey(l) \/ Enter(l) \/ GiveUp(l)
             PROVE  TypeOK'
  BY <1>0 DEF Next
<1>1. CASE TakeLock(l)
  BY <1>1 DEF TakeLock, TypeOK, Pcs
<1>2. ASSUME NEW q \in {"passed", "failed"}, Leave(l, q)
      PROVE  /\ lock' \in Launches \cup {NoOne} /\ pc' \in [Launches -> Pcs]
             /\ asks' \in [Launches -> SUBSET Grants] /\ yes' \in [Launches -> SUBSET Grants]
             /\ seen' \in [Launches -> States]
  <2>1. q \in Pcs
    BY DEF Pcs
  <2>2. QED
    BY <1>2, <2>1, EmptyIsState DEF Leave, TypeOK
<1>3. ASSUME NEW st \in States
      PROVE  /\ Reconcile(st, res[l]) \in States
             /\ Asked(Reconcile(st, res[l]), res[l]) \in SUBSET Grants
             /\ Cascade(Kept(Reconcile(st, res[l]), res[l])) \in SUBSET Grants
  <2>1. res[l] \in Profiles /\ res[l].grants \subseteq Grants
    BY HashIsReal DEF TypeOK
  <2>2. QED
    BY <2>1, Reconciled, HashIsReal DEF Asked, Kept, Cascade
<1>4. CASE Filter(l)
  <2> DEFINE st == Reconcile(file, res[l])
             items == Asked(st, res[l])
  <2>1. st \in States /\ items \in SUBSET Grants /\ file \in States
    BY <1>3 DEF TypeOK
  <2>2. file' \in States
    BY <1>4, <2>1 DEF Filter, WriteBack
  <2>3. mode' = mode /\ res' = res /\ answered' = answered
    BY <1>4 DEF Filter
  <2>4. CASE Pass(l, file) \/ (Leave(l, "failed") /\ UNCHANGED cfg)
    <3>1. cfg' \in [Launches -> SUBSET Grants]
      BY <2>4, <2>1, <1>3 DEF Pass, TypeOK
    <3>2. Leave(l, "passed") \/ Leave(l, "failed")
      BY <2>4 DEF Pass
    <3>3. QED
      BY <2>2, <2>3, <3>1, <3>2, <1>2 DEF TypeOK
  <2>5. ASSUME NEW ok \in SUBSET Grants, NEW q \in {"load", "dialog"},
               asks' = [asks EXCEPT ![l] = items], yes' = [yes EXCEPT ![l] = ok],
               Goto(l, q), UNCHANGED <<lock, seen, cfg>>
        PROVE  TypeOK'
    <3>1. q \in Pcs
      BY DEF Pcs
    <3>2. QED
      BY <2>1, <2>2, <2>3, <2>5, <3>1 DEF TypeOK
  <2>6. StartChecked(st, items) \in SUBSET Grants
    BY <2>1 DEF StartChecked
  <2>7. QED
    BY <1>4, <2>1, <2>4, <2>5, <2>6 DEF Filter
<1>5. CASE LoadPrior(l)
  BY <1>5 DEF LoadPrior, TypeOK, Pcs
<1>6. CASE SaveChoices(l)
  <2> DEFINE merged == Merge(seen[l], res[l], asks[l], yes[l])
  <2>1. /\ seen[l] \in States /\ res[l] \in Profiles
        /\ asks[l] \in SUBSET Grants /\ yes[l] \in SUBSET Grants
    BY DEF TypeOK
  <2>2. merged \in States
    BY <2>1, HashIsReal DEF Merge, States, Slots, Fields
  <2>3. Hash(res[l]) \in Hashes /\ Rendered(yes[l]) \subseteq Rendered(Grants)
    BY <2>1, HashIsReal DEF Rendered
  <2>4. "again" \in Pcs
    BY DEF Pcs
  <2>5. QED
    BY <1>6, <2>1, <2>2, <2>3, <2>4 DEF SaveChoices, TypeOK
<1>7. CASE FilterAgain(l)
  <2>1. PICK st \in States : Pass(l, st) /\ WriteBack(l, st)
    BY <1>7 DEF FilterAgain, TypeOK
  <2>2. file' \in States /\ cfg' \in [Launches -> SUBSET Grants]
    BY <2>1, <1>3 DEF WriteBack, Pass, TypeOK
  <2>3. mode' = mode /\ res' = res /\ answered' = answered
    BY <1>7 DEF FilterAgain
  <2>4. Leave(l, "passed")
    BY <2>1 DEF Pass
  <2>5. QED
    BY <2>2, <2>3, <2>4, <1>2 DEF TypeOK
<1>8. CASE Begin(l)
  BY <1>8 DEF Begin, TypeOK, Pcs
<1>9. CASE PressKey(l)
  <2>1. PICK ok \in SUBSET Grants : yes' = [yes EXCEPT ![l] = ok]
    BY <1>9 DEF PressKey, TypeOK
  <2>2. QED
    BY <1>9, <2>1 DEF PressKey, TypeOK
<1>10. CASE Enter(l)
  BY <1>10 DEF Enter, TypeOK, Pcs
<1>11. CASE GiveUp(l)
  BY <1>11, <1>2 DEF GiveUp, TypeOK
<1>12. QED
  BY <1>1, <1>4, <1>5, <1>6, <1>7, <1>8, <1>9, <1>10, <1>11 DEF Step

-----------------------------------------------------------------------------
(* The invariant is inductive.                                             *)

LEMMA GateInit == Init => GateInv
BY TypeInit DEF Init, GateInv, HeldInv, AnswerInv, OwnInv, Busy, Empty

(* A step of launch l leaves another one's part alone: it changes the hash *)
(* on file only while l has the lock, and takes the lock from nobody.      *)
LEMMA Others ==
  ASSUME GateInv, NEW l \in Launches, NEW k \in Launches \ {l},
         pc'[k] = pc[k], mode'[k] = mode[k], res'[k] = res[k],
         asks'[k] = asks[k], yes'[k] = yes[k], seen'[k] = seen[k],
         (file'.hash = file.hash /\ answered' = answered) \/ lock = l,
         lock' = lock \/ lock \in {l, NoOne}
  PROVE  OwnInv(k)' /\ (pc'[k] \in Busy /\ mode'[k] \notin Dry => lock' = k)
<1>1. CASE pc[k] \in Busy /\ mode[k] \notin Dry
  <2>1. lock = k /\ k # NoOne
    BY <1>1, NoOneAssumption DEF GateInv, HeldInv
  <2>2. lock' = k /\ file'.hash = file.hash /\ answered' = answered
    BY <2>1
  <2>3. QED
    BY <2>2 DEF GateInv, OwnInv
<1>2. CASE ~(pc[k] \in Busy /\ mode[k] \notin Dry)
  BY <1>2 DEF GateInv, OwnInv, Busy
<1>3. QED
  BY <1>1, <1>2

(* Leaving the gate leaves nothing behind.                                 *)
LEMMA Left ==
  ASSUME TypeOK, GateInv, NEW l \in Launches, NEW q \in {"passed", "failed"}, Leave(l, q),
         UNCHANGED <<mode, res, answered>>, file'.hash = file.hash,
         file.hash # NoHash => Says(file', file.hash, answered.yes)
  PROVE  HeldInv' /\ AnswerInv' /\ \A k \in Launches : OwnInv(k)'
<1>1. /\ pc'[l] = q /\ asks'[l] = {}
      /\ \A k \in Launches \ {l} : /\ pc'[k] = pc[k] /\ asks'[k] = asks[k]
                                   /\ yes'[k] = yes[k] /\ seen'[k] = seen[k]
      /\ lock' = lock \/ lock \in {l, NoOne}
  BY DEF Leave, TypeOK
<1>2. OwnInv(l)' /\ pc'[l] \notin Busy
  BY <1>1 DEF OwnInv, Busy
<1>3. \A k \in Launches \ {l} : OwnInv(k)' /\ (pc'[k] \in Busy /\ mode'[k] \notin Dry => lock' = k)
  BY <1>1, Others
<1>4. AnswerInv'
  BY DEF AnswerInv, GateInv
<1>5. QED
  BY <1>2, <1>3, <1>4 DEF HeldInv

(* The write-back keeps what the state file says.                          *)
LEMMA WrittenBack ==
  ASSUME TypeOK, GateInv, NEW l \in Launches, WriteBack(l, file)
  PROVE  /\ file'.hash = file.hash
         /\ file.hash # NoHash => Says(file', file.hash, answered.yes)
<1>1. res[l] \in Profiles /\ file \in States
  BY DEF TypeOK
<1>2. file.hash # NoHash => Says(file, file.hash, answered.yes)
  BY DEF GateInv, AnswerInv
<1>3. CASE mode[l] \in Dry
  BY <1>2, <1>3 DEF WriteBack
<1>4. CASE mode[l] \notin Dry
  BY <1>1, <1>2, <1>4, Reconciled DEF WriteBack
<1>5. QED
  BY <1>3, <1>4

(* Something is asked only where the hash differs, and then everything.    *)
LEMMA AskedCompletely ==
  ASSUME TypeOK, GateInv, NEW l \in Launches,
         Asked(Reconcile(file, res[l]), res[l]) # {}
  PROVE  /\ file.hash # Hash(res[l])
         /\ Asked(Reconcile(file, res[l]), res[l]) = Untrusted(res[l])
<1>1. res[l] \in Profiles /\ file \in States
  BY DEF TypeOK
<1>2. CASE file.hash = Hash(res[l])
  <2>1. Says(Reconcile(file, res[l]), file.hash, answered.yes) /\ answered.yes \subseteq Hash(res[l])
    BY <1>1, <1>2, Reconciled, HashIsReal DEF GateInv, AnswerInv
  <2>2. QED
    BY <1>1, <1>2, <2>1, Decided
<1>3. CASE file.hash # Hash(res[l])
  BY <1>1, <1>3, Reconciled, Undecideds
<1>4. QED
  BY <1>2, <1>3

LEMMA FilterKeeps ==
  ASSUME TypeOK, GateInv, NEW l \in Launches, Filter(l)
  PROVE  HeldInv' /\ AnswerInv' /\ \A k \in Launches : OwnInv(k)'
<1> DEFINE st == Reconcile(file, res[l])
           items == Asked(st, res[l])
<1>1. /\ file'.hash = file.hash
      /\ file.hash # NoHash => Says(file', file.hash, answered.yes)
  BY WrittenBack DEF Filter
<1>2. mode' = mode /\ res' = res /\ answered' = answered /\ At(l, "filter")
  BY DEF Filter
<1>3. CASE \E q \in {"passed", "failed"} : Leave(l, q)
  BY <1>1, <1>2, <1>3, Left
<1>4. ASSUME items # {}, NEW ok \in SUBSET items, NEW q \in {"load", "dialog"},
             asks' = [asks EXCEPT ![l] = items], yes' = [yes EXCEPT ![l] = ok],
             Goto(l, q), UNCHANGED <<lock, seen, cfg>>
      PROVE  HeldInv' /\ AnswerInv' /\ \A k \in Launches : OwnInv(k)'
  <2>1. /\ pc'[l] = q /\ asks'[l] = items /\ yes'[l] = ok /\ mode'[l] = mode[l] /\ res'[l] = res[l]
        /\ \A k \in Launches \ {l} : /\ pc'[k] = pc[k] /\ asks'[k] = asks[k]
                                     /\ yes'[k] = yes[k] /\ seen'[k] = seen[k]
    BY <1>2, <1>4 DEF TypeOK
  <2>2. items = Untrusted(res[l]) /\ file'.hash # Hash(res[l])
    BY <1>1, <1>4, AskedCompletely
  <2>3. Untrusted(res'[l]) = Untrusted(res[l]) /\ Hash(res'[l]) = Hash(res[l])
    BY <2>1
  <2>4. OwnInv(l)'
    BY <1>4, <2>1, <2>2, <2>3 DEF OwnInv
  <2>5. mode[l] \notin Dry => lock' = l
    BY <1>2, <1>4 DEF GateInv, HeldInv, Busy
  <2>6. \A k \in Launches \ {l} : OwnInv(k)' /\ (pc'[k] \in Busy /\ mode'[k] \notin Dry => lock' = k)
    BY <1>1, <1>2, <1>4, <2>1, Others
  <2>7. AnswerInv'
    BY <1>1, <1>2 DEF AnswerInv, GateInv
  <2>8. QED
    BY <1>2, <2>4, <2>5, <2>6, <2>7 DEF HeldInv
<1>5. StartChecked(st, items) \subseteq items
  BY DEF StartChecked
<1>6. QED
  BY <1>3, <1>4, <1>5 DEF Filter, Pass

LEMMA SaveChoicesKeeps ==
  ASSUME TypeOK, GateInv, NEW l \in Launches, SaveChoices(l)
  PROVE  HeldInv' /\ AnswerInv' /\ \A k \in Launches : OwnInv(k)'
<1> DEFINE p == res[l]
           merged == Merge(seen[l], p, asks[l], yes[l])
<1>1. /\ pc[l] = "save" /\ pc' = [pc EXCEPT ![l] = "again"]
      /\ UNCHANGED <<lock, mode, res, asks, yes, cfg>>
  BY DEF SaveChoices
<1>2. p \in Profiles /\ seen[l] \in States /\ asks[l] = Untrusted(p) /\ yes[l] \subseteq Untrusted(p)
  BY <1>1 DEF TypeOK, GateInv, OwnInv
<1>3. merged \in States /\ Says(merged, Hash(p), Rendered(yes[l])) /\ merged.hash = Hash(p)
  BY <1>2, Merged DEF Says
<1>4. /\ pc'[l] = "again" /\ res'[l] = p /\ asks'[l] = asks[l] /\ yes'[l] = yes[l] /\ mode'[l] = mode[l]
      /\ \A k \in Launches \ {l} : /\ pc'[k] = pc[k] /\ asks'[k] = asks[k] /\ yes'[k] = yes[k]
      /\ asks[l] # {}
  BY <1>1 DEF TypeOK, GateInv, OwnInv
<1>5. CASE mode[l] \in Dry
  <2>1. seen' = [seen EXCEPT ![l] = merged] /\ file' = file /\ answered' = answered
    BY <1>5 DEF SaveChoices
  <2>2. seen'[l] = merged /\ \A k \in Launches \ {l} : seen'[k] = seen[k]
    BY <2>1 DEF TypeOK
  <2>3. OwnInv(l)'
    BY <1>2, <1>3, <1>4, <1>5, <2>2 DEF OwnInv
  <2>4. \A k \in Launches \ {l} : OwnInv(k)' /\ (pc'[k] \in Busy /\ mode'[k] \notin Dry => lock' = k)
    BY <1>1, <1>4, <2>1, <2>2, Others
  <2>5. AnswerInv'
    BY <2>1 DEF AnswerInv, GateInv
  <2>6. QED
    BY <1>4, <1>5, <2>3, <2>4, <2>5 DEF HeldInv
<1>6. CASE mode[l] \notin Dry
  <2>1. seen' = seen /\ file' = merged /\ answered' = [hash |-> Hash(p), yes |-> Rendered(yes[l])]
    BY <1>6 DEF SaveChoices
  <2>2. lock = l
    BY <1>1, <1>6 DEF GateInv, HeldInv, Busy
  <2>3. OwnInv(l)'
    BY <1>2, <1>4, <1>6, <2>1 DEF OwnInv
  <2>4. \A k \in Launches \ {l} : OwnInv(k)' /\ (pc'[k] \in Busy /\ mode'[k] \notin Dry => lock' = k)
    BY <1>1, <1>4, <2>1, <2>2, Others
  <2>5. AnswerInv'
    <3>1. Rendered(yes[l]) \subseteq Hash(p)
      BY <1>2 DEF Rendered, Hash
    <3>2. QED
      BY <1>2, <1>3, <2>1, <3>1 DEF AnswerInv
  <2>6. QED
    BY <1>1, <2>2, <2>3, <2>4, <2>5 DEF HeldInv
<1>7. QED
  BY <1>5, <1>6

LEMMA FilterAgainKeeps ==
  ASSUME TypeOK, GateInv, NEW l \in Launches, FilterAgain(l)
  PROVE  HeldInv' /\ AnswerInv' /\ \A k \in Launches : OwnInv(k)'
<1>1. UNCHANGED <<mode, res, answered>> /\ Leave(l, "passed")
  BY DEF FilterAgain, Pass
<1>2. CASE mode[l] \in Dry
  <2>1. file' = file
    BY <1>2 DEF FilterAgain, WriteBack
  <2>2. QED
    BY <1>1, <2>1, Left DEF GateInv, AnswerInv
<1>3. CASE mode[l] \notin Dry
  <2>1. WriteBack(l, file)
    BY <1>3 DEF FilterAgain
  <2>2. QED
    BY <1>1, <2>1, WrittenBack, Left
<1>4. QED
  BY <1>2, <1>3

(* The steps that leave the state file and the answers alone.              *)
LEMMA QuietKeeps ==
  ASSUME TypeOK, GateInv, NEW l \in Launches,
         TakeLock(l) \/ LoadPrior(l) \/ Begin(l) \/ PressKey(l) \/ Enter(l) \/ GiveUp(l)
  PROVE  HeldInv' /\ AnswerInv' /\ \A k \in Launches : OwnInv(k)'
<1>1. file' = file /\ answered' = answered
  BY DEF TakeLock, LoadPrior, Begin, PressKey, Enter, GiveUp
<1>2. AnswerInv'
  BY <1>1 DEF GateInv, AnswerInv
<1>3. CASE GiveUp(l)
  BY <1>1, <1>3, Left DEF GiveUp, GateInv, AnswerInv
<1>4. CASE TakeLock(l) \/ LoadPrior(l) \/ Begin(l) \/ PressKey(l) \/ Enter(l)
  <2>1. lock' = lock \/ lock \in {l, NoOne}
    BY <1>4 DEF TakeLock, LoadPrior, Begin, PressKey, Enter
  <2>2. \A k \in Launches \ {l} :
          /\ pc'[k] = pc[k] /\ mode'[k] = mode[k] /\ res'[k] = res[k]
          /\ asks'[k] = asks[k] /\ yes'[k] = yes[k] /\ seen'[k] = seen[k]
    BY <1>4 DEF TakeLock, LoadPrior, Begin, PressKey, Enter, TypeOK
  <2>3. \A k \in Launches \ {l} : OwnInv(k)' /\ (pc'[k] \in Busy /\ mode'[k] \notin Dry => lock' = k)
    BY <1>1, <2>1, <2>2, Others
  <2>4. OwnInv(l)' /\ (pc'[l] \in Busy /\ mode'[l] \notin Dry => lock' = l)
    <3>1. CASE TakeLock(l)
      BY <3>1 DEF TakeLock, TypeOK, GateInv, OwnInv, Busy
    <3>2. CASE Begin(l)
      BY <3>2 DEF Begin, TypeOK, GateInv, OwnInv, Busy
    <3>3. CASE LoadPrior(l)
      BY <3>3 DEF LoadPrior, TypeOK, GateInv, OwnInv, HeldInv, Busy
    <3>4. CASE Enter(l)
      BY <3>4 DEF Enter, TypeOK, GateInv, OwnInv, HeldInv, Busy
    <3>5. CASE PressKey(l)
      <4>1. /\ pc[l] = "dialog" /\ pc' = pc /\ mode' = mode /\ lock' = lock
            /\ res' = res /\ asks' = asks /\ seen' = seen
        BY <3>5 DEF PressKey
      <4>2. yes[l] \subseteq asks[l]
        BY <4>1 DEF GateInv, OwnInv
      <4>3. yes'[l] \subseteq asks[l]
        BY <3>5, <4>2 DEF PressKey, TypeOK
      <4>4. QED
        BY <1>1, <4>1, <4>3 DEF GateInv, OwnInv, HeldInv, Busy
    <3>6. QED
      BY <1>4, <3>1, <3>2, <3>3, <3>4, <3>5
  <2>5. QED
    BY <1>2, <2>3, <2>4 DEF HeldInv
<1>5. QED
  BY <1>3, <1>4

LEMMA GateStep == GateInv /\ [Next]_vars => GateInv'
<1> SUFFICES ASSUME GateInv, [Next]_vars PROVE GateInv'
  OBVIOUS
<1>1. TypeOK /\ TypeOK'
  BY TypeStep DEF GateInv
<1>2. CASE UNCHANGED vars
  BY <1>1, <1>2 DEF GateInv, HeldInv, AnswerInv, OwnInv
<1>3. ASSUME NEW l \in Launches,
             Step(l) \/ Begin(l) \/ PressKey(l) \/ Enter(l) \/ GiveUp(l)
      PROVE  HeldInv' /\ AnswerInv' /\ \A k \in Launches : OwnInv(k)'
  BY <1>1, <1>3, QuietKeeps, FilterKeeps, SaveChoicesKeeps, FilterAgainKeeps DEF Step
<1>4. QED
  BY <1>1, <1>2, <1>3 DEF GateInv, Next

(* In every behaviour the gate asks completely, and under its lock.        *)
THEOREM GateInvariant == Spec => []GateInv
<1>1. QED
  BY GateInit, GateStep, PTL DEF Spec

(* Types, of any launches, grants, definitions and flags.                  *)
THEOREM GateTypeCorrect == Spec => []TypeOK
<1>1. GateInv => TypeOK
  BY DEF GateInv
<1>2. QED
  BY <1>1, GateInvariant, PTL

(* The state file never says anything but the last saved answer: no merge, *)
(* write-back, dry run or crash adds or loses a decision.                  *)
THEOREM FileIsTheAnswer == Spec => []FileSaysTheAnswer
<1>1. GateInv => FileSaysTheAnswer
  BY DEF GateInv, AnswerInv, Says, FileSaysTheAnswer
<1>2. QED
  BY <1>1, GateInvariant, PTL

-----------------------------------------------------------------------------
(* What a step may never do.                                               *)

(* What the file says, the kept grants are.                                *)
LEMMA PassedWith ==
  ASSUME TypeOK, NEW l \in Launches, NEW st \in States, NEW ok,
         Says(st, Hash(res[l]), ok), Pass(l, st)
  PROVE  cfg'[l] = Cascade(res[l].trusted \cup Approved(res[l], ok))
<1>1. res[l] \in Profiles
  BY DEF TypeOK
<1>2. Says(Reconcile(st, res[l]), Hash(res[l]), ok)
  BY <1>1, Reconciled DEF Says
<1>3. Kept(Reconcile(st, res[l]), res[l]) = res[l].trusted \cup Approved(res[l], ok)
  BY <1>1, <1>2, Decided
<1>4. QED
  BY <1>3 DEF Pass, TypeOK

Consented(l) ==
  IF asks[l] # {} THEN yes[l]
  ELSE {g \in Untrusted(res[l]) : /\ answered.hash = Hash(res[l])
                                  /\ Render(g) \in answered.yes}
LEMMA ConsentStep == GateInv /\ [Next]_vars =>
  \A l \in Launches : pc[l] # "passed" /\ pc'[l] = "passed" =>
    cfg'[l] = Cascade(res[l].trusted \cup Consented(l))
<1> SUFFICES ASSUME GateInv, [Next]_vars, NEW l \in Launches,
                    pc[l] # "passed", pc'[l] = "passed"
             PROVE  cfg'[l] = Cascade(res[l].trusted \cup Consented(l))
  OBVIOUS
<1> DEFINE p == res[l]
<1>1. TypeOK /\ file \in States /\ seen[l] \in States /\ p \in Profiles /\ pc \in [Launches -> Pcs]
  BY DEF GateInv, TypeOK
<1>2. Filter(l) \/ FilterAgain(l)
  <2>1. PICK k \in Launches : Step(k) \/ Begin(k) \/ PressKey(k) \/ Enter(k) \/ GiveUp(k)
    BY DEF Next
  <2>2. k = l
    BY <1>1, <2>1 DEF Step, TakeLock, Filter, Pass, Leave, LoadPrior, SaveChoices, FilterAgain,
                      Begin, PressKey, Enter, GiveUp
  <2>3. QED
    BY <1>1, <2>1, <2>2 DEF Step, TakeLock, LoadPrior, SaveChoices,
                            Begin, PressKey, Enter, GiveUp, Leave
<1>3. CASE Filter(l)
  <2>1. asks[l] = {}
    BY <1>3 DEF Filter, GateInv, OwnInv
  <2>2. Asked(Reconcile(file, p), p) = {} /\ Pass(l, file)
    BY <1>1, <1>3 DEF Filter, Leave
  <2>3. CASE file.hash = Hash(p)
    <3>1. /\ Says(file, Hash(p), answered.yes) /\ answered.hash = Hash(p)
      BY <1>1, <2>3, HashIsReal DEF GateInv, AnswerInv
    <3>2. Consented(l) = Approved(p, answered.yes)
      BY <2>1, <3>1 DEF Consented, Approved
    <3>3. QED
      BY <1>1, <2>2, <3>1, <3>2, PassedWith
  <2>4. CASE file.hash # Hash(p)
    <3>1. Reconcile(file, p).hash # Hash(p)
      BY <1>1, <2>4, Reconciled
    <3>2. Kept(Reconcile(file, p), p) = p.trusted
      BY <1>1, <2>2, <3>1, Undecideds
    <3>3. cfg'[l] = Cascade(p.trusted)
      BY <1>1, <2>2, <3>2 DEF Pass, TypeOK
    <3>4. answered.hash # Hash(p)
      BY <2>4 DEF GateInv, AnswerInv
    <3>5. Consented(l) = {}
      BY <2>1, <3>4 DEF Consented
    <3>6. QED
      BY <3>3, <3>5
  <2>5. QED
    BY <2>3, <2>4
<1>4. CASE FilterAgain(l)
  <2>1. asks[l] # {} /\ yes[l] \subseteq Untrusted(p)
    BY <1>4, <1>1 DEF FilterAgain, GateInv, OwnInv
  <2>a. Consented(l) = Approved(p, Rendered(yes[l]))
    BY <1>1, <2>1, OwnApproved DEF Consented
  <2>2. CASE mode[l] \in Dry
    <3>1. Says(seen[l], Hash(p), Rendered(yes[l])) /\ Pass(l, seen[l])
      BY <1>4, <2>2 DEF FilterAgain, GateInv, OwnInv
    <3>2. QED
      BY <1>1, <2>a, <3>1, PassedWith
  <2>3. CASE mode[l] \notin Dry
    <3>1. answered = [hash |-> Hash(p), yes |-> Rendered(yes[l])] /\ Pass(l, file)
      BY <1>4, <2>3 DEF FilterAgain, GateInv, OwnInv
    <3>2. Says(file, Hash(p), Rendered(yes[l]))
      BY <1>1, <3>1, HashIsReal DEF GateInv, AnswerInv
    <3>3. QED
      BY <1>1, <2>a, <3>1, <3>2, PassedWith
  <2>4. QED
    BY <2>2, <2>3
<1>5. QED
  BY <1>2, <1>3, <1>4

(* Nothing reaches the container that the user neither wrote nor approved, *)
(* and nothing approved is lost on the way.                                *)
THEOREM ConsentHolds == Spec => Consent
<1>1. GateInv /\ [Next]_vars =>
        [\A l \in Launches : pc[l] # "passed" /\ pc'[l] = "passed" =>
           LET ok == IF asks[l] # {} THEN yes[l]
                     ELSE {g \in Untrusted(res[l]) : /\ answered.hash = Hash(res[l])
                                                     /\ Render(g) \in answered.yes}
               G  == res[l].trusted \cup ok
           IN cfg'[l] = {g \in G : g.service = NoService
                                     \/ \E h \in G : h.field = "services" /\ h.key = g.service}]_vars
  BY ConsentStep, CascadeNeedsService DEF Consented
<1>2. QED
  BY <1>1, GateInvariant, PTL DEF Spec, Consent

(* Only the holder of the lock writes the state file, and no dry run.      *)
THEOREM LockedWrites == Spec => WritesUnderLock
<1>1. GateInv /\ [Next]_vars =>
        [file' # file => \E l \in Launches : lock = l /\ pc[l] \in {"filter", "save", "again"}
                                                       /\ mode[l] \notin Dry]_vars
  <2> SUFFICES ASSUME GateInv, [Next]_vars, file' # file
               PROVE  \E l \in Launches : lock = l /\ pc[l] \in {"filter", "save", "again"}
                                                    /\ mode[l] \notin Dry
    OBVIOUS
  <2>1. PICK l \in Launches : Step(l) \/ Begin(l) \/ PressKey(l) \/ Enter(l) \/ GiveUp(l)
    BY DEF Next
  <2>2. Filter(l) \/ SaveChoices(l) \/ FilterAgain(l)
    BY <2>1 DEF Step, TakeLock, LoadPrior, Begin, PressKey, Enter, GiveUp
  <2>3. mode[l] \notin Dry /\ pc[l] \in {"filter", "save", "again"}
    BY <2>2 DEF Filter, SaveChoices, FilterAgain, WriteBack
  <2>4. lock = l
    BY <2>3 DEF GateInv, HeldInv, Busy
  <2>5. QED
    BY <2>3, <2>4
<1>2. QED
  BY <1>1, GateInvariant, PTL DEF Spec, WritesUnderLock

(* No two launches, and no launch twice, answer for the same fingerprint   *)
(* while it is the one on file.                                            *)
THEOREM AskedOnce == Spec => DecidedOnce
<1>1. GateInv /\ [Next]_vars => [answered' # answered => answered'.hash # answered.hash]_vars
  <2> SUFFICES ASSUME GateInv, [Next]_vars, answered' # answered
               PROVE  answered'.hash # answered.hash
    OBVIOUS
  <2>1. PICK l \in Launches : Step(l) \/ Begin(l) \/ PressKey(l) \/ Enter(l) \/ GiveUp(l)
    BY DEF Next
  <2>2. SaveChoices(l)
    BY <2>1 DEF Step, TakeLock, Filter, LoadPrior, FilterAgain, Begin, PressKey, Enter, GiveUp
  <2>3. mode[l] \notin Dry /\ pc[l] = "save" /\ answered'.hash = Hash(res[l])
    BY <2>2 DEF SaveChoices
  <2>4. file.hash # Hash(res[l])
    BY <2>3 DEF GateInv, OwnInv
  <2>5. QED
    BY <2>3, <2>4 DEF GateInv, AnswerInv
<1>2. QED
  BY <1>1, GateInvariant, PTL DEF Spec, DecidedOnce
=============================================================================
