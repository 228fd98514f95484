------------------------- MODULE ProfileMergeProofs -------------------------
(***************************************************************************)
(* Theorems about CatalogLoad and ProfileMerge, for all files: what is     *)
(* loaded, and what resolving it gives.                                    *)
(*                                                                         *)
(* Credits are merged by the same rules as values (ProvFollowsMap and its  *)
(* like), if what is merged is credited itself or is a file, whose values  *)
(* all have its own name; so every frame and everything returned is        *)
(* credited (MergeInv).                                                    *)
(*                                                                         *)
(* Values are compared with MergeReference, which defines them by          *)
(* recursion over the catalog.  That this recursion is well founded is not *)
(* assumed: an entry whose parents are settled, without a cycle and with   *)
(* one solution of the equations for who wrote what, is settled itself     *)
(* (SettledFromParents), and resolveChain returns only for settled ones.   *)
(* So each frame holds what the parents it has merged give (FrameIs), and  *)
(* a failure shows a cycle or an entry that does not fit (ResolveInv).     *)
(*                                                                         *)
(* The list of the entries met is compared with a walk defined place by    *)
(* place: an entry with a parent left is on the stack, in the order of the *)
(* list (WalkInv), so the last of them is the frame in hand.               *)
(*                                                                         *)
(* That the recursion ends: every step makes the position of the walk a    *)
(* later one (StepIsLater), a simple path in a finite catalog has only     *)
(* bounded positions, and those do not get later forever (OneMoreSteady).  *)
(***************************************************************************)
EXTENDS MergeReference, FiniteSetTheorems, WellFoundedInduction, TLAPS

(* What may be merged: what a call returned, or the body of a file.        *)
IsBody(r) ==
  /\ r.name \in Entries
  /\ r.scalarsBy = [s \in Scalars |-> Nobody]
  /\ \A s \in Scalars : r.scalars[s] \in {r.name, Nobody}
  /\ \A f \in MapFields : r.mapsBy[f] = Empty
  /\ \A f \in MapFields : \A k \in DOMAIN r.maps[f] : r.maps[f][k] = r.name
  /\ r.packagesBy = Empty
  /\ \A p \in DOMAIN r.packages : r.packages[p] = r.name

FramesInv == \A i \in DOMAIN stack : Credited(stack[i].merged)
(* The stack: what is typed, credited and simple of it.                    *)
StackInv == stack \in Seq(Frames) /\ FramesInv /\ PathIsSimple
PhaseInv == /\ phase = "call" => at \in DOMAIN cat
            /\ phase = "loop" => stack # <<>>
MergeInv == TypeOK /\ StackInv /\ PhaseInv /\ CreditsAreRight

USE NobodyAssumption

-----------------------------------------------------------------------------
(* Dictionaries are functions on a set of keys.                            *)
LEMMA DictsDef ==
  ASSUME NEW S, NEW d
  PROVE  d \in Dicts(S) <=> DOMAIN d \subseteq S /\ d \in [DOMAIN d -> Entries]
<1>1. ASSUME d \in Dicts(S) PROVE DOMAIN d \subseteq S /\ d \in [DOMAIN d -> Entries]
  <2>1. PICK D \in SUBSET S : d \in [D -> Entries]  BY <1>1 DEF Dicts
  <2> QED  BY <2>1
<1>2. ASSUME DOMAIN d \subseteq S, d \in [DOMAIN d -> Entries] PROVE d \in Dicts(S)
  BY <1>2 DEF Dicts
<1> QED  BY <1>1, <1>2

LEMMA EmptyIsDict == ASSUME NEW S PROVE Empty \in Dicts(S)
BY DictsDef DEF Empty

(* Credits of the keys of a map field are merged as their values are.      *)
LEMMA ProvFollowsMap ==
  ASSUME NEW p, NEW c, NEW by, NEW n, NEW all, NEW name,
         by = c \/ (by = Empty /\ \A k \in DOMAIN c : c[k] = name)
  PROVE  MergeProvMap(p, by, DOMAIN c, n, all, name) = MergeMap(p, c, n, all)
BY DEF MergeProvMap, MergeMap, Empty

LEMMA ProvFollowsPackages ==
  ASSUME NEW p, NEW c, NEW by, NEW null, NEW name,
         by = c \/ (by = Empty /\ \A k \in DOMAIN c : c[k] = name)
  PROVE  MergePackageProv(p, DOMAIN c, by, null, name) = MergePackages(p, c, null)
BY DEF MergePackageProv, MergePackages, Empty

LEMMA ProvFollowsScalar ==
  ASSUME NEW p, NEW c, NEW by, NEW null, NEW name,
         by = c \/ (by = Nobody /\ c \in {name, Nobody})
  PROVE  MergeScalarProv(p, c, by, name, null) = MergeScalar(p, c, null)
BY DEF MergeScalarProv, MergeScalar

-----------------------------------------------------------------------------
(* A merge of credited profiles, the second perhaps a file, is credited.   *)
LEMMA MergeCredited ==
  ASSUME NEW p \in Profiles, NEW c \in Profiles, Credited(p), Credited(c) \/ IsBody(c)
  PROVE  Credited(Merge(p, c))
<1> DEFINE m == Merge(p, c)
<1>1. m.scalarsBy = m.scalars
  <2>1. ASSUME NEW s \in Scalars
        PROVE  \/ c.scalarsBy[s] = c.scalars[s]
               \/ c.scalarsBy[s] = Nobody /\ c.scalars[s] \in {c.name, Nobody}
    BY DEF Credited, IsBody
  <2>2. ASSUME NEW s \in Scalars
        PROVE  MergeScalarProv(p.scalarsBy[s], c.scalars[s], c.scalarsBy[s], c.name, s \in c.nulls.scalars)
               = MergeScalar(p.scalars[s], c.scalars[s], s \in c.nulls.scalars)
    <3>1. MergeScalarProv(p.scalars[s], c.scalars[s], c.scalarsBy[s], c.name, s \in c.nulls.scalars)
          = MergeScalar(p.scalars[s], c.scalars[s], s \in c.nulls.scalars)
      BY <2>1, ProvFollowsScalar
    <3> QED  BY <3>1 DEF Credited
  <2> QED  BY <2>2 DEF Merge
<1>2. m.mapsBy = m.maps
  <2>1. ASSUME NEW f \in MapFields
        PROVE  \/ c.mapsBy[f] = c.maps[f]
               \/ c.mapsBy[f] = Empty /\ \A k \in DOMAIN c.maps[f] : c.maps[f][k] = c.name
    BY DEF Credited, IsBody
  <2>2. ASSUME NEW f \in MapFields
        PROVE  MergeProvMap(p.mapsBy[f], c.mapsBy[f], DOMAIN c.maps[f], c.nulls.keys[f], f \in c.nulls.fields, c.name)
               = MergeMap(p.maps[f], c.maps[f], c.nulls.keys[f], f \in c.nulls.fields)
    <3>1. MergeProvMap(p.maps[f], c.mapsBy[f], DOMAIN c.maps[f], c.nulls.keys[f], f \in c.nulls.fields, c.name)
          = MergeMap(p.maps[f], c.maps[f], c.nulls.keys[f], f \in c.nulls.fields)
      BY <2>1, ProvFollowsMap
    <3> QED  BY <3>1 DEF Credited
  <2> QED  BY <2>2 DEF Merge
<1>3. m.packagesBy = m.packages
  <2>1. \/ c.packagesBy = c.packages
        \/ c.packagesBy = Empty /\ \A k \in DOMAIN c.packages : c.packages[k] = c.name
    BY DEF Credited, IsBody
  <2>2. MergePackageProv(p.packages, DOMAIN c.packages, c.packagesBy, c.nulls.packages, c.name)
        = MergePackages(p.packages, c.packages, c.nulls.packages)
    BY <2>1, ProvFollowsPackages
  <2> QED  BY <2>2 DEF Merge, Credited
<1> QED  BY <1>1, <1>2, <1>3 DEF Credited

(* Merging two maps yields a map.                                          *)
LEMMA MergeMapType ==
  ASSUME NEW S, NEW p \in Dicts(S), NEW c \in Dicts(S), NEW n, NEW all \in BOOLEAN
  PROVE  MergeMap(p, c, n, all) \in Dicts(S)
<1>1. /\ DOMAIN p \subseteq S /\ p \in [DOMAIN p -> Entries]
      /\ DOMAIN c \subseteq S /\ c \in [DOMAIN c -> Entries]
  BY DictsDef
<1> DEFINE K == (DOMAIN p \cup DOMAIN c) \ n
           m == [k \in K |-> IF k \in DOMAIN c THEN c[k] ELSE p[k]]
<1>2. m \in [K -> Entries]  BY <1>1
<1>3. m \in Dicts(S)  BY <1>1, <1>2, DictsDef
<1> QED  BY <1>3, EmptyIsDict DEF MergeMap

LEMMA MergePackagesType ==
  ASSUME NEW S, NEW p \in Dicts(S), NEW c \in Dicts(S), NEW null \in BOOLEAN
  PROVE  MergePackages(p, c, null) \in Dicts(S)
<1>1. /\ DOMAIN p \subseteq S /\ p \in [DOMAIN p -> Entries]
      /\ DOMAIN c \subseteq S /\ c \in [DOMAIN c -> Entries]
  BY DictsDef
<1> DEFINE K == DOMAIN p \cup DOMAIN c
           m == [k \in K |-> IF k \in DOMAIN p THEN p[k] ELSE c[k]]
<1>2. m \in [K -> Entries]  BY <1>1
<1>3. m \in Dicts(S)  BY <1>1, <1>2, DictsDef
<1> QED  BY <1>3, EmptyIsDict DEF MergePackages

LEMMA NoNullsType == NoNulls \in Nulls
BY DEF NoNulls, Nulls

(* A credited profile has the type of one if its values do.                *)
LEMMA ProfileType ==
  ASSUME NEW r, r = [name |-> r.name, scalars |-> r.scalars, scalarsBy |-> r.scalarsBy,
                     maps |-> r.maps, mapsBy |-> r.mapsBy, packages |-> r.packages,
                     packagesBy |-> r.packagesBy, nulls |-> r.nulls],
         Credited(r), r.name \in Entries \cup {Nobody},
         r.scalars \in [Scalars -> Entries \cup {Nobody}],
         r.maps \in [MapFields -> Dicts(Keys)], r.packages \in Dicts(Packages), r.nulls \in Nulls
  PROVE  r \in Profiles
BY DEF Profiles, Credited

LEMMA MergeType ==
  ASSUME NEW p \in Profiles, NEW c \in Profiles, Credited(p), Credited(c) \/ IsBody(c)
  PROVE  Merge(p, c) \in Profiles
<1> DEFINE m == Merge(p, c)
<1>1. Credited(m)  BY MergeCredited
<1>2. m.name \in Entries \cup {Nobody}  BY DEF Merge, Profiles
<1>3. m.scalars \in [Scalars -> Entries \cup {Nobody}]
  BY DEF Merge, MergeScalar, Profiles
<1>4. m.maps \in [MapFields -> Dicts(Keys)]
  <2>1. ASSUME NEW f \in MapFields
        PROVE  MergeMap(p.maps[f], c.maps[f], c.nulls.keys[f], f \in c.nulls.fields) \in Dicts(Keys)
    <3>1. p.maps[f] \in Dicts(Keys) /\ c.maps[f] \in Dicts(Keys)  BY DEF Profiles
    <3>2. (f \in c.nulls.fields) \in BOOLEAN  OBVIOUS
    <3> QED  BY <3>1, <3>2, MergeMapType
  <2> QED  BY <2>1 DEF Merge
<1>5. m.packages \in Dicts(Packages)
  <2>1. p.packages \in Dicts(Packages) /\ c.packages \in Dicts(Packages)  BY DEF Profiles
  <2>2. c.nulls.packages \in BOOLEAN  BY DEF Profiles, Nulls
  <2> QED  BY <2>1, <2>2, MergePackagesType DEF Merge
<1>6. m.nulls \in Nulls  BY NoNullsType DEF Merge
<1>7. m = [name |-> m.name, scalars |-> m.scalars, scalarsBy |-> m.scalarsBy,
           maps |-> m.maps, mapsBy |-> m.mapsBy, packages |-> m.packages,
           packagesBy |-> m.packagesBy, nulls |-> m.nulls]
  BY DEF Merge
<1> QED  BY <1>1, <1>2, <1>3, <1>4, <1>5, <1>6, <1>7, ProfileType

(* What a file of the catalog is, as it was parsed and when it is credited *)
(* to itself; and the profile that says nothing.                           *)
LEMMA GetIsBody ==
  ASSUME IsCatalog(cat), NEW e \in DOMAIN cat
  PROVE  Get(e) \in Profiles /\ IsBody(Get(e))
<1>1. e \in Entries /\ cat[e] \in Files  BY DEF IsCatalog
<1>2. \A f \in MapFields : [k \in cat[e].keys[f] |-> e] \in Dicts(Keys)
  BY <1>1, DictsDef DEF Files
<1>3. [p \in cat[e].packages |-> e] \in Dicts(Packages)
  BY <1>1, DictsDef DEF Files
<1>4. Empty \in Dicts(Keys) /\ Empty \in Dicts(Packages)  BY EmptyIsDict
<1>5. cat[e].nulls \in Nulls  BY <1>1 DEF Files
<1>6. Get(e) \in Profiles  BY <1>1, <1>2, <1>3, <1>4, <1>5 DEF Get, Profiles
<1>7. IsBody(Get(e))  BY <1>1 DEF Get, IsBody
<1> QED  BY <1>6, <1>7

LEMMA InitProvenanceCredited ==
  ASSUME NEW r \in Profiles, IsBody(r)
  PROVE  InitProvenance(r) \in Profiles /\ Credited(InitProvenance(r))
<1> DEFINE q == InitProvenance(r)
<1>1. /\ q.name = r.name /\ q.scalars = r.scalars /\ q.maps = r.maps
      /\ q.packages = r.packages /\ q.nulls = r.nulls
      /\ q.scalarsBy = [s \in Scalars |-> IF r.scalars[s] = Nobody THEN Nobody ELSE r.name]
      /\ q.mapsBy = [f \in MapFields |-> [k \in DOMAIN r.maps[f] |-> r.name]]
      /\ q.packagesBy = [p \in DOMAIN r.packages |-> r.name]
  BY DEF InitProvenance, Profiles
<1>2. q.scalarsBy = q.scalars  BY <1>1 DEF IsBody, Profiles
<1>3. q.mapsBy = q.maps
  <2>1. ASSUME NEW f \in MapFields PROVE r.maps[f] = [k \in DOMAIN r.maps[f] |-> r.name]
    <3>1. r.maps[f] \in [DOMAIN r.maps[f] -> Entries]  BY DictsDef DEF Profiles
    <3> QED  BY <3>1 DEF IsBody
  <2> QED  BY <2>1, <1>1 DEF Profiles
<1>4. q.packagesBy = q.packages
  <2>1. r.packages \in [DOMAIN r.packages -> Entries]  BY DictsDef DEF Profiles
  <2> QED  BY <2>1, <1>1 DEF IsBody
<1>5. Credited(q)  BY <1>2, <1>3, <1>4 DEF Credited
<1>6. q = [name |-> q.name, scalars |-> q.scalars, scalarsBy |-> q.scalarsBy,
           maps |-> q.maps, mapsBy |-> q.mapsBy, packages |-> q.packages,
           packagesBy |-> q.packagesBy, nulls |-> q.nulls]
  <2> DEFINE sb == [s \in Scalars |-> IF r.scalars[s] = Nobody THEN Nobody ELSE r.name]
             mb == [f \in MapFields |-> [k \in DOMAIN r.maps[f] |-> r.name]]
             pb == [p \in DOMAIN r.packages |-> r.name]
  <2>1. q = [r EXCEPT !.scalarsBy = sb, !.mapsBy = mb, !.packagesBy = pb]
    BY DEF InitProvenance
  <2> HIDE DEF sb, mb, pb
  <2>2. q = [name |-> r.name, scalars |-> r.scalars, scalarsBy |-> sb, maps |-> r.maps, mapsBy |-> mb,
             packages |-> r.packages, packagesBy |-> pb, nulls |-> r.nulls]
    BY <2>1 DEF Profiles
  <2> HIDE DEF q
  <2> QED  BY <2>2
<1>7. q \in Profiles  BY <1>1, <1>5, <1>6, ProfileType DEF Profiles
<1> QED  BY <1>5, <1>7

LEMMA BlankCredited == Blank \in Profiles /\ Credited(Blank)
<1>1. Credited(Blank)  BY DEF Blank, Credited
<1>2. Empty \in Dicts(Keys) /\ Empty \in Dicts(Packages)  BY EmptyIsDict
<1> QED  BY <1>1, <1>2, NoNullsType DEF Blank, Profiles

-----------------------------------------------------------------------------
(* References resolve to entries.                                          *)
LEMMA ResolveRefType == ASSUME NEW c, NEW ref \in Refs PROVE ResolveRef(c, ref) \in Entries
BY DEF ResolveRef, Refs, Entries

(* What is known of the frame in hand while its loop runs.                 *)
LEMMA TopFrame ==
  ASSUME TypeOK, FramesInv, stack # <<>>
  PROVE  /\ Len(stack) \in DOMAIN stack /\ Top \in Frames /\ Credited(Top.merged)
         /\ Top.entry \in DOMAIN cat
<1>1. stack \in Seq(Frames)  BY DEF TypeOK
<1>2. Len(stack) \in DOMAIN stack /\ stack[Len(stack)] \in Frames  BY <1>1
<1>3. Credited(stack[Len(stack)].merged)  BY <1>2 DEF FramesInv
<1>4. stack[Len(stack)].entry \in DOMAIN cat  BY <1>2 DEF Frames
<1> QED  BY <1>2, <1>3, <1>4 DEF Top

LEMMA NextRefType ==
  ASSUME TypeOK, FramesInv, stack # <<>>, Top.next <= Len(Extends(Top.entry))
  PROVE  NextRef \in Refs /\ Parent \in Entries
<1>1. Top \in Frames /\ Top.entry \in DOMAIN cat  BY TopFrame
<1>2. Extends(Top.entry) \in Seq(Refs)  BY <1>1 DEF TypeOK, IsCatalog, Files, Extends
<1>3. Top.next \in 1..Len(Extends(Top.entry))  BY <1>1 DEF Frames
<1>4. NextRef \in Refs  BY <1>2, <1>3 DEF NextRef
<1> QED  BY <1>4, ResolveRefType DEF Parent

-----------------------------------------------------------------------------
(* Changing the frame in hand, its entry apart.                            *)
LEMMA ReplaceTop ==
  ASSUME StackInv, stack # <<>>, cat' = cat, NEW fr \in Frames, fr.entry = Top.entry,
         Credited(fr.merged), stack' = [stack EXCEPT ![Len(stack)] = fr]
  PROVE  StackInv' /\ stack' # <<>>
<1>1. stack \in Seq(Frames) /\ Len(stack) \in DOMAIN stack  BY DEF StackInv
<1>2. /\ stack' \in Seq(Frames) /\ DOMAIN stack' = DOMAIN stack /\ stack' # <<>>
      /\ \A i \in DOMAIN stack : stack'[i] = IF i = Len(stack) THEN fr ELSE stack[i]
  BY <1>1
<1>3. Frames' = Frames  BY DEF Frames
<1>4. FramesInv'  BY <1>2 DEF StackInv, FramesInv
<1>5. \A i \in DOMAIN stack : stack'[i].entry = stack[i].entry  BY <1>2 DEF Top
<1>6. PathIsSimple'  BY <1>2, <1>5 DEF StackInv, PathIsSimple
<1> QED  BY <1>2, <1>3, <1>4, <1>6 DEF StackInv

(* A call for an entry that is not being resolved.                         *)
LEMMA PushFrame ==
  ASSUME StackInv, cat' = cat, NEW fr \in Frames, ~OnStack(fr.entry),
         Credited(fr.merged), stack' = Append(stack, fr)
  PROVE  StackInv' /\ stack' # <<>>
<1>1. stack \in Seq(Frames)  BY DEF StackInv
<1>2. /\ stack' \in Seq(Frames) /\ stack' # <<>> /\ Len(stack) \in Nat
      /\ DOMAIN stack = 1..Len(stack) /\ DOMAIN stack' = 1..(Len(stack) + 1)
      /\ \A i \in DOMAIN stack : stack'[i] = stack[i]
      /\ stack'[Len(stack) + 1] = fr
  BY <1>1
<1>3. \A i \in DOMAIN stack' : i \in DOMAIN stack \/ i = Len(stack) + 1  BY <1>2
<1>4. FramesInv'  BY <1>2, <1>3 DEF StackInv, FramesInv
<1>5. \A i \in DOMAIN stack : stack[i].entry # fr.entry  BY DEF OnStack
<1>6. ASSUME NEW i \in DOMAIN stack', NEW j \in DOMAIN stack', stack'[i].entry = stack'[j].entry
      PROVE  i = j
  <2>1. CASE i \in DOMAIN stack /\ j \in DOMAIN stack
    BY <1>2, <1>6, <2>1 DEF StackInv, PathIsSimple
  <2>2. CASE i = Len(stack) + 1 \/ j = Len(stack) + 1  BY <1>2, <1>3, <1>5, <1>6, <2>2
  <2> QED  BY <1>3, <2>1, <2>2
<1>7. PathIsSimple'  BY <1>6 DEF PathIsSimple
<1>8. Frames' = Frames  BY DEF Frames
<1> QED  BY <1>2, <1>4, <1>7, <1>8 DEF StackInv

(* A return.                                                               *)
LEMMA PopFrame ==
  ASSUME StackInv, cat' = cat, stack # <<>>, stack' = SubSeq(stack, 1, Len(stack) - 1)
  PROVE  StackInv'
<1>1. stack \in Seq(Frames)  BY DEF StackInv
<1>2. /\ stack' \in Seq(Frames) /\ DOMAIN stack' \subseteq DOMAIN stack
      /\ \A i \in DOMAIN stack' : stack'[i] = stack[i]
  BY <1>1
<1>3. FramesInv'  BY <1>2 DEF StackInv, FramesInv
<1>4. PathIsSimple'  BY <1>2 DEF StackInv, PathIsSimple
<1>5. Frames' = Frames  BY DEF Frames
<1> QED  BY <1>2, <1>3, <1>4, <1>5 DEF StackInv

LEMMA KeepStack ==
  ASSUME StackInv, cat' = cat, stack' = stack
  PROVE  StackInv'
BY DEF StackInv, FramesInv, PathIsSimple, Frames

(* The entries met: noting one keeps the list a list.                      *)
LEMMA NoteType ==
  ASSUME NEW e \in Entries, chain \in Seq(Entries), Note(e)
  PROVE  chain' \in Seq(Entries)
BY DEF Note

-----------------------------------------------------------------------------
(* The steps.                                                              *)
LEMMA InitMergeInv == Init => MergeInv
<1> SUFFICES ASSUME Init PROVE MergeInv  OBVIOUS
<1>1. IsCatalog(cat)  BY DEF Init, IsCatalog, Empty
<1>2. at \in Entries  BY RootAssumption, ResolveRefType DEF Init
<1>3. TypeOK  BY <1>1, <1>2, BlankCredited DEF Init, TypeOK, Loading
<1>4. StackInv  BY <1>3 DEF Init, StackInv, FramesInv, PathIsSimple, TypeOK
<1> QED  BY <1>3, <1>4 DEF Init, MergeInv, PhaseInv, CreditsAreRight

LEMMA StopsKeepInv ==
  ASSUME MergeInv, Lookup \/ Cycle \/ Refuse \/ Missing \/ Validate
  PROVE  MergeInv'
<1> USE DEF Lookup, Cycle, Refuse, Missing, Validate, InLoop
<1>1. cat' = cat /\ stack' = stack /\ ret' = ret  OBVIOUS
<1>2. StackInv'  BY <1>1, KeepStack DEF MergeInv
<1>3. chain' \in Seq(Entries)  BY NoteType DEF MergeInv, TypeOK
<1>4. at' \in Entries  BY RootAssumption, ResolveRefType DEF MergeInv, TypeOK
<1>5. phase' \in {"call", "accepted", "failed"}  OBVIOUS
<1>6. TypeOK'  BY <1>1, <1>2, <1>3, <1>4, <1>5 DEF MergeInv, TypeOK, StackInv, IsCatalog, Resolving
<1>7. phase' = "call" => at' \in DOMAIN cat'  BY DEF Known
<1>8. phase' = "accepted" => phase = "return"  OBVIOUS
<1> QED  BY <1>1, <1>2, <1>5, <1>6, <1>7, <1>8 DEF MergeInv, PhaseInv, CreditsAreRight, Credited

LEMMA LeafKeepsInv == ASSUME MergeInv, Leaf PROVE MergeInv'
<1> USE DEF Leaf
<1>1. at \in DOMAIN cat /\ IsCatalog(cat)  BY DEF MergeInv, PhaseInv, TypeOK
<1>2. Get(at) \in Profiles /\ IsBody(Get(at))  BY <1>1, GetIsBody
<1>3. ret' \in Profiles /\ Credited(ret')  BY <1>2, InitProvenanceCredited
<1>4. StackInv'  BY KeepStack DEF MergeInv
<1>5. chain' \in Seq(Entries)  BY NoteType DEF MergeInv, TypeOK
<1>6. TypeOK'  BY <1>3, <1>4, <1>5 DEF MergeInv, TypeOK, StackInv, IsCatalog, Resolving
<1> QED  BY <1>3, <1>4, <1>6 DEF MergeInv, PhaseInv, CreditsAreRight, Credited

LEMMA DescendKeepsInv == ASSUME MergeInv, Descend PROVE MergeInv'
<1> USE DEF Descend
<1> DEFINE fr == [entry |-> at, next |-> 1, resolved |-> {}, merged |-> Blank]
<1>1. at \in DOMAIN cat  BY DEF MergeInv, PhaseInv
<1>2. fr \in Frames /\ Credited(fr.merged)  BY <1>1, BlankCredited DEF Frames
<1>3. StackInv' /\ stack' # <<>>  BY <1>2, PushFrame DEF MergeInv
<1>4. chain' \in Seq(Entries)  BY NoteType DEF MergeInv, TypeOK
<1>5. TypeOK'  BY <1>3, <1>4 DEF MergeInv, TypeOK, StackInv, IsCatalog, Resolving
<1> QED  BY <1>3, <1>5 DEF MergeInv, PhaseInv, CreditsAreRight

LEMMA SkipKeepsInv == ASSUME MergeInv, Skip PROVE MergeInv'
<1> USE DEF Skip, InLoop
<1> DEFINE fr == [Top EXCEPT !.next = @ + 1]
<1>1. stack # <<>>  BY DEF MergeInv, PhaseInv
<1>2. Top \in Frames /\ Credited(Top.merged)  BY <1>1, TopFrame DEF MergeInv, StackInv
<1>3. fr \in Frames /\ fr.entry = Top.entry /\ fr.merged = Top.merged  BY <1>2 DEF Frames
<1>4. stack' = [stack EXCEPT ![Len(stack)] = fr]  BY DEF Top
<1>5. StackInv' /\ stack' # <<>>
  <2> HIDE DEF fr
  <2> QED  BY <1>1, <1>2, <1>3, <1>4, ReplaceTop DEF MergeInv
<1>6. TypeOK'  BY <1>5 DEF MergeInv, TypeOK, StackInv, IsCatalog
<1> QED  BY <1>5, <1>6 DEF MergeInv, PhaseInv, CreditsAreRight

LEMMA CallKeepsInv == ASSUME MergeInv, Call PROVE MergeInv'
<1> USE DEF Call, InLoop
<1> DEFINE fr == [Top EXCEPT !.resolved = @ \cup {Parent}]
<1>1. stack # <<>>  BY DEF MergeInv, PhaseInv
<1>2. Top \in Frames /\ Credited(Top.merged)  BY <1>1, TopFrame DEF MergeInv, StackInv
<1>3. Parent \in Entries  BY <1>1, NextRefType DEF MergeInv, StackInv
<1>4. fr \in Frames /\ fr.entry = Top.entry /\ fr.merged = Top.merged  BY <1>2, <1>3 DEF Frames
<1>5. stack' = [stack EXCEPT ![Len(stack)] = fr]  BY DEF Top
<1>6. StackInv' /\ stack' # <<>>
  <2> HIDE DEF fr
  <2> QED  BY <1>1, <1>2, <1>4, <1>5, ReplaceTop DEF MergeInv
<1>7. TypeOK'  BY <1>3, <1>6 DEF MergeInv, TypeOK, StackInv, IsCatalog, Resolving
<1>8. at' \in DOMAIN cat'  BY DEF Known, Parent
<1> QED  BY <1>6, <1>7, <1>8 DEF MergeInv, PhaseInv, CreditsAreRight

LEMMA MergeParentKeepsInv == ASSUME MergeInv, MergeParent PROVE MergeInv'
<1> USE DEF MergeParent
<1> DEFINE fr == [Top EXCEPT !.next = @ + 1, !.merged = Merge(@, ret)]
<1>1. Top \in Frames /\ Credited(Top.merged)  BY TopFrame DEF MergeInv, StackInv
<1>2. ret \in Profiles /\ Credited(ret)  BY DEF MergeInv, TypeOK, CreditsAreRight
<1>3. Top.merged \in Profiles  BY <1>1 DEF Frames
<1>4. Merge(Top.merged, ret) \in Profiles /\ Credited(Merge(Top.merged, ret))
  BY <1>1, <1>2, <1>3, MergeType, MergeCredited
<1>5. fr \in Frames /\ fr.entry = Top.entry /\ Credited(fr.merged)
  <2> DEFINE m == Merge(Top.merged, ret)
  <2>1. fr = [Top EXCEPT !.next = @ + 1, !.merged = m]  OBVIOUS
  <2> HIDE DEF m, fr
  <2>2. m \in Profiles  BY <1>4 DEF m
  <2>3. Top = [entry |-> Top.entry, next |-> Top.next, resolved |-> Top.resolved, merged |-> Top.merged]
        /\ Top.entry \in DOMAIN cat /\ Top.next \in Nat \ {0} /\ Top.resolved \in SUBSET Entries
    BY <1>1 DEF Frames
  <2>4. fr = [entry |-> Top.entry, next |-> Top.next + 1, resolved |-> Top.resolved, merged |-> m]
    BY <2>1, <2>3
  <2>5. fr.entry = Top.entry /\ fr.merged = m /\ fr \in Frames
    BY <2>2, <2>3, <2>4 DEF Frames
  <2> QED  BY <2>5, <1>4 DEF m
<1>6. stack' = [stack EXCEPT ![Len(stack)] = fr]  BY DEF Top
<1>7. StackInv' /\ stack' # <<>>
  <2> HIDE DEF fr
  <2> QED  BY <1>5, <1>6, ReplaceTop DEF MergeInv
<1>8. TypeOK'  BY <1>7 DEF MergeInv, TypeOK, StackInv, IsCatalog, Resolving
<1> QED  BY <1>7, <1>8 DEF MergeInv, PhaseInv, CreditsAreRight

LEMMA MergeBodyKeepsInv == ASSUME MergeInv, MergeBody PROVE MergeInv'
<1> USE DEF MergeBody
<1>1. stack # <<>>  BY DEF MergeInv, PhaseInv
<1>2. Top \in Frames /\ Credited(Top.merged) /\ Top.entry \in DOMAIN cat
  BY <1>1, TopFrame DEF MergeInv, StackInv
<1>3. Top.merged \in Profiles  BY <1>2 DEF Frames
<1>4. Get(Top.entry) \in Profiles /\ IsBody(Get(Top.entry))
  BY <1>2, GetIsBody DEF MergeInv, TypeOK
<1>5. ret' \in Profiles /\ Credited(ret')  BY <1>2, <1>3, <1>4, MergeType, MergeCredited
<1>6. StackInv'  BY <1>1, PopFrame DEF MergeInv
<1>7. TypeOK'  BY <1>5, <1>6 DEF MergeInv, TypeOK, StackInv, IsCatalog, Resolving
<1> QED  BY <1>5, <1>6, <1>7 DEF MergeInv, PhaseInv, CreditsAreRight, Credited

LEMMA MergeInvStep == MergeInv /\ [Resolve]_vars => MergeInv'
<1> SUFFICES ASSUME MergeInv, [Resolve]_vars PROVE MergeInv'  OBVIOUS
<1>1. CASE Lookup \/ Cycle \/ Refuse \/ Missing \/ Validate  BY <1>1, StopsKeepInv
<1>2. CASE Leaf         BY <1>2, LeafKeepsInv
<1>3. CASE Descend      BY <1>3, DescendKeepsInv
<1>4. CASE Skip         BY <1>4, SkipKeepsInv
<1>5. CASE Call         BY <1>5, CallKeepsInv
<1>6. CASE MergeParent  BY <1>6, MergeParentKeepsInv
<1>7. CASE MergeBody    BY <1>7, MergeBodyKeepsInv
<1>8. CASE UNCHANGED vars
  <2> USE <1>8 DEF vars
  <2>1. StackInv'  BY KeepStack DEF MergeInv
  <2>2. TypeOK'  BY <2>1 DEF MergeInv, TypeOK, StackInv, IsCatalog
  <2> QED  BY <2>1, <2>2 DEF MergeInv, PhaseInv, CreditsAreRight, Credited
<1> QED  BY <1>1, <1>2, <1>3, <1>4, <1>5, <1>6, <1>7, <1>8 DEF Resolve

-----------------------------------------------------------------------------
(* Loading.  While it lasts no entry is being resolved.                    *)
LoadInv ==
  /\ load \in UNION Loads
  /\ phase \in Loading => stack = <<>>
  /\ todo \subseteq IF phase = "profiles" THEN DOMAIN load.profiles
                    ELSE IF phase = "fragments" THEN DOMAIN load.fragments ELSE Names

USE DEF loading

LEMMA LoadFacts ==
  ASSUME LoadInv
  PROVE  /\ load.core \in [DOMAIN load.core -> Files]
         /\ load.profiles \in [DOMAIN load.profiles -> Files \cup {Faulty}]
         /\ load.fragments \in [DOMAIN load.fragments -> Files \cup {Faulty}]
         /\ DOMAIN load.core \subseteq Names
         /\ DOMAIN load.profiles \subseteq Names /\ DOMAIN load.fragments \subseteq Names
BY LoadsAssumption DEF LoadInv

(* A step of loading leaves a catalog a catalog, and resolves nothing.     *)
LEMMA LoadStepKeeps ==
  ASSUME MergeInv, LoadInv, phase \in Loading, Unmoved, IsCatalog(cat'),
         phase' \in Loading \cup {"lookup"}
  PROVE  MergeInv'
<1>1. stack = <<>> /\ stack' = <<>> /\ at' = at /\ ret' = ret /\ chain' = chain
  BY DEF Unmoved, LoadInv
<1>2. TypeOK'  BY <1>1 DEF MergeInv, TypeOK, Resolving
<1>3. StackInv'  BY <1>1 DEF StackInv, FramesInv, PathIsSimple
<1> QED  BY <1>1, <1>2, <1>3 DEF MergeInv, PhaseInv, CreditsAreRight, Loading

LEMMA FileFlagged == ASSUME NEW f \in Files, NEW b \in BOOLEAN
                     PROVE  [f EXCEPT !.fragment = b] \in Files
BY DEF Files

LEMMA AddKeeps ==
  ASSUME NEW n \in Names, NEW f \in Files, NEW b \in BOOLEAN, IsCatalog(cat), Add(n, f, b)
  PROVE  IsCatalog(cat')
BY FileFlagged DEF Add, IsCatalog, Entries

LEMMA LoadKeepsInv == ASSUME MergeInv, LoadInv, Load PROVE MergeInv' /\ LoadInv'
<1>1. IsCatalog(cat)  BY DEF MergeInv, TypeOK
<1>2. CASE LoadBuiltins
  <2>1. IsCatalog(cat')  BY <1>2, LoadFacts DEF LoadBuiltins, IsCatalog, Entries
  <2>2. MergeInv'  BY <1>2, <2>1, LoadStepKeeps DEF LoadBuiltins, Loading
  <2> QED  BY <1>2, <2>2, LoadFacts DEF LoadBuiltins, Unmoved, LoadInv, Loading
<1>3. CASE LoadUserProfile
  <2>1. PICK n \in todo : IF load.profiles[n] = Faulty THEN LeaveOut(n)
                          ELSE Add(n, load.profiles[n], FALSE)
    BY <1>3 DEF LoadUserProfile
  <2>2. n \in DOMAIN load.profiles  BY <1>3 DEF LoadUserProfile, LoadInv
  <2>3. IsCatalog(cat')
    BY <1>1, <2>1, <2>2, LoadFacts, AddKeeps DEF LeaveOut
  <2>4. /\ \/ phase' = "profiles" /\ todo' \subseteq todo
           \/ phase' = "unloaded" /\ todo' = todo
        /\ phase = "profiles" /\ Unmoved
    BY <1>3, <2>1 DEF LoadUserProfile, LeaveOut, Add
  <2>5. MergeInv'  BY <2>3, <2>4, LoadStepKeeps DEF Loading
  <2> QED  BY <2>4, <2>5, LoadFacts DEF Unmoved, LoadInv, Loading
<1>4. CASE ProfilesLoaded
  <2>1. MergeInv'  BY <1>1, <1>4, LoadStepKeeps DEF ProfilesLoaded, Loading
  <2> QED  BY <1>4, <2>1, LoadFacts DEF ProfilesLoaded, Unmoved, LoadInv, Loading
<1>5. CASE LoadUserFragment
  <2>1. PICK n \in todo : LeaveOut(n) \/ (load.fragments[n] # Faulty /\ Add(n, load.fragments[n], TRUE))
    BY <1>5 DEF LoadUserFragment, NoFragment
  <2>2. n \in DOMAIN load.fragments  BY <1>5 DEF LoadUserFragment, LoadInv
  <2>3. IsCatalog(cat')
    BY <1>1, <2>1, <2>2, LoadFacts, AddKeeps DEF LeaveOut
  <2>4. /\ \/ phase' = "fragments" /\ todo' \subseteq todo
           \/ phase' = "unloaded" /\ todo' = todo
        /\ phase = "fragments" /\ Unmoved
    BY <1>5, <2>1 DEF LoadUserFragment, LeaveOut, Add
  <2>5. MergeInv'  BY <2>3, <2>4, LoadStepKeeps DEF Loading
  <2> QED  BY <2>4, <2>5, LoadFacts DEF Unmoved, LoadInv, Loading
<1>6. CASE FragmentsLoaded
  <2>1. IsCatalog(cat')  BY <1>1, <1>6 DEF FragmentsLoaded, IsCatalog
  <2>2. MergeInv'  BY <1>6, <2>1, LoadStepKeeps DEF FragmentsLoaded, Loading
  <2> QED  BY <1>6, <2>2, LoadFacts DEF FragmentsLoaded, Unmoved, LoadInv, Loading
<1> QED  BY <1>2, <1>3, <1>4, <1>5, <1>6 DEF Load

(* No step of resolving is one of loading.                                 *)
LEMMA ResolveKeepsLoad == ASSUME MergeInv, LoadInv, Resolve, UNCHANGED loading PROVE LoadInv'
<1>1. phase \notin Loading /\ phase' \notin Loading
  BY DEF Resolve, Lookup, Cycle, Leaf, Refuse, Descend, Missing, Skip, Call, MergeParent, MergeBody,
     Validate, InLoop, Loading
<1> QED  BY <1>1 DEF LoadInv, Loading

LEMMA LoadedStep == ASSUME MergeInv, LoadInv, [Next]_loadVars PROVE MergeInv' /\ LoadInv'
<1>1. CASE Load  BY <1>1, LoadKeepsInv
<1>2. CASE Resolve /\ UNCHANGED loading  BY <1>2, MergeInvStep, ResolveKeepsLoad
<1>3. CASE UNCHANGED loadVars
  BY <1>3, MergeInvStep DEF loadVars, LoadInv, vars
<1> QED  BY <1>1, <1>2, <1>3 DEF Next

LEMMA LoadedInit == ASSUME Init PROVE MergeInv /\ LoadInv
BY InitMergeInv DEF Init, LoadInv

-----------------------------------------------------------------------------
(* The inductive invariant of a resolution (ResolveProfileWithProv) in     *)
(* whatever catalog has been loaded.                                       *)
THEOREM MergeInvariant == Spec => [](MergeInv /\ LoadInv)
BY LoadedInit, LoadedStep, PTL DEF Spec

(* Every variable keeps its type, for every catalog.                       *)
THEOREM MergeTypeCorrect == Spec => []TypeOK
<1>1. MergeInv /\ LoadInv => TypeOK  BY DEF MergeInv
<1> QED  BY <1>1, MergeInvariant, PTL

(* What resolveChain returns has each value credited to the entry that     *)
(* wrote it, however its parents nest.                                     *)
THEOREM CreditsAreAlwaysRight == Spec => []CreditsAreRight
<1>1. MergeInv /\ LoadInv => CreditsAreRight  BY DEF MergeInv
<1> QED  BY <1>1, MergeInvariant, PTL

(* resolveChain is never called for an entry it is resolving.              *)
THEOREM PathIsAlwaysSimple == Spec => []PathIsSimple
<1>1. MergeInv /\ LoadInv => PathIsSimple  BY DEF MergeInv, StackInv
<1> QED  BY <1>1, MergeInvariant, PTL

-----------------------------------------------------------------------------
(* What is loaded.  At every file the catalog holds the built-ins and of   *)
(* the user's files so far those that count.                               *)
Contents(U) ==
  [e \in ({"core"} \X DOMAIN load.core) \cup ({"user"} \X U) |->
     IF e[1] = "core" THEN load.core[e[2]] ELSE UserFile(e[2])]

ProgressInv ==
  /\ phase = "profiles" =>
       /\ cat = Contents(UserProfiles \ todo)
       /\ Tolerant \/ DOMAIN load.profiles \ todo \subseteq UserProfiles
  /\ phase = "fragments" =>
       /\ cat = Contents(UserProfiles \cup (UserFragments \ (UserProfiles \cup todo)))
       /\ Tolerant \/ /\ UserProfiles = DOMAIN load.profiles
                      /\ DOMAIN load.fragments \ todo \subseteq UserFragments \ UserProfiles

(* A name more among the user's.                                           *)
LEMMA ContentsAdd ==
  ASSUME NEW U, NEW n, n \notin U, cat = Contents(U),
         cat' = [e \in DOMAIN cat \cup {<<"user", n>>} |->
                   IF e = <<"user", n>> THEN UserFile(n) ELSE cat[e]]
  PROVE  cat' = Contents(U \cup {n})
<1>1. DOMAIN cat \cup {<<"user", n>>} = ({"core"} \X DOMAIN load.core) \cup ({"user"} \X (U \cup {n}))
  BY DEF Contents
<1>2. ASSUME NEW e \in DOMAIN cat \cup {<<"user", n>>}
      PROVE  (IF e = <<"user", n>> THEN UserFile(n) ELSE cat[e])
               = IF e[1] = "core" THEN load.core[e[2]] ELSE UserFile(e[2])
  BY DEF Contents
<1> QED  BY <1>1, <1>2 DEF Contents

(* What of the catalog is a fragment.                                      *)
LEMMA ContentsFlags ==
  ASSUME LoadInv, NEW U, U \subseteq UserProfiles \cup UserFragments, cat = Contents(U)
  PROVE  /\ DOMAIN cat = ({"core"} \X DOMAIN load.core) \cup ({"user"} \X U)
         /\ \A n \in DOMAIN load.core : cat[<<"core", n>>].fragment <=> n \in CoreFragments
         /\ \A n \in U : cat[<<"user", n>>].fragment <=> n \notin UserProfiles
<1>1. ASSUME NEW n \in DOMAIN load.core PROVE cat[<<"core", n>>] = load.core[n]
  BY DEF Contents
<1>2. ASSUME NEW n \in U PROVE cat[<<"user", n>>] = UserFile(n)
  BY DEF Contents
<1>3. ASSUME NEW n \in U PROVE UserFile(n).fragment <=> n \notin UserProfiles
  <2>1. CASE n \in UserProfiles
    <3>1. load.profiles[n] \in Files  BY <2>1, LoadFacts DEF UserProfiles, Sound
    <3>2. UserFile(n).fragment = FALSE  BY <2>1, <3>1 DEF UserFile, Files
    <3> QED  BY <2>1, <3>2
  <2>2. CASE n \notin UserProfiles
    <3>1. load.fragments[n] \in Files  BY <2>2, LoadFacts DEF UserFragments, Sound
    <3>2. UserFile(n).fragment = TRUE  BY <2>2, <3>1 DEF UserFile, Files
    <3> QED  BY <2>2, <3>2
  <2> QED  BY <2>1, <2>2
<1> QED  BY <1>1, <1>2, <1>3 DEF Contents, CoreFragments

(* A file that stops a strict load.                                        *)
LEMMA ProfileProgress ==
  ASSUME LoadInv, ProgressInv, LoadUserProfile
  PROVE  ProgressInv' /\ LoadsWhatIsSound'
<1>1. PICK n \in todo : IF load.profiles[n] = Faulty THEN LeaveOut(n)
                        ELSE Add(n, load.profiles[n], FALSE)
  BY DEF LoadUserProfile
<1>2. n \in DOMAIN load.profiles /\ load' = load  BY DEF LoadUserProfile, LoadInv, Unmoved
<1>3. phase = "profiles" /\ cat = Contents(UserProfiles \ todo)
  BY DEF LoadUserProfile, ProgressInv
<1> DEFINE U == UserProfiles \ todo
<1>4. UserProfiles' = UserProfiles /\ \A V : Contents(V)' = Contents(V)
  BY <1>2 DEF UserProfiles, Sound, Contents, UserFile
<1>5. CASE load.profiles[n] = Faulty
  <2>1. n \notin UserProfiles  BY <1>5 DEF UserProfiles, Sound
  <2>2. CASE Tolerant
    <3>1. todo' = todo \ {n} /\ phase' = "profiles" /\ cat' = cat
      BY <1>1, <1>3, <1>5, <2>2 DEF LeaveOut
    <3>2. UserProfiles \ todo' = U  BY <2>1, <3>1
    <3> QED  BY <1>2, <1>3, <1>4, <2>2, <3>1, <3>2 DEF ProgressInv, LoadsWhatIsSound, Tolerant
  <2>3. CASE ~Tolerant
    <3>1. phase' = "unloaded"  BY <1>1, <1>5, <2>3 DEF LeaveOut
    <3>2. ~Clean'  BY <1>2, <1>4, <2>1 DEF Clean
    <3> QED  BY <1>2, <2>3, <3>1, <3>2 DEF ProgressInv, LoadsWhatIsSound, Tolerant
  <2> QED  BY <2>2, <2>3
<1>6. CASE load.profiles[n] # Faulty
  <2>1. n \in UserProfiles  BY <1>2, <1>6 DEF UserProfiles, Sound
  <2>2. UserFile(n) = [load.profiles[n] EXCEPT !.fragment = FALSE]  BY <2>1 DEF UserFile
  <2>3. cat' = Contents(U \cup {n})  BY <1>1, <1>3, <1>6, <2>2, ContentsAdd DEF Add
  <2>4. todo' = todo \ {n} /\ phase' = "profiles"  BY <1>1, <1>3, <1>6 DEF Add
  <2>5. UserProfiles \ todo' = U \cup {n}  BY <2>1, <2>4
  <2>6. Tolerant' \/ DOMAIN load'.profiles \ todo' \subseteq UserProfiles'
    BY <1>2, <1>3, <1>4, <2>1, <2>4 DEF ProgressInv, Tolerant
  <2> QED  BY <1>2, <1>4, <2>3, <2>4, <2>5, <2>6 DEF ProgressInv, LoadsWhatIsSound
<1> QED  BY <1>5, <1>6

LEMMA FragmentProgress ==
  ASSUME LoadInv, ProgressInv, LoadUserFragment
  PROVE  ProgressInv' /\ LoadsWhatIsSound'
<1> DEFINE U == UserProfiles \cup (UserFragments \ (UserProfiles \cup todo))
           Out(n) == NoFragment(load.fragments[n]) \/ <<"user", n>> \in DOMAIN cat
<1>1. PICK n \in todo : IF Out(n) THEN LeaveOut(n) ELSE Add(n, load.fragments[n], TRUE)
  BY DEF LoadUserFragment
<1>2. n \in DOMAIN load.fragments /\ load' = load  BY DEF LoadUserFragment, LoadInv, Unmoved
<1>3. phase = "fragments" /\ cat = Contents(U)
  BY DEF LoadUserFragment, ProgressInv
<1>4. /\ UserProfiles' = UserProfiles /\ UserFragments' = UserFragments
      /\ \A V : Contents(V)' = Contents(V)
  BY <1>2 DEF UserProfiles, UserFragments, Sound, Contents, UserFile
<1>5. <<"user", n>> \in DOMAIN cat <=> n \in UserProfiles
  BY <1>3 DEF Contents
<1>6. Out(n) <=> n \notin UserFragments \/ n \in UserProfiles
  BY <1>2, <1>5 DEF NoFragment, UserFragments, Sound
<1>7. CASE Out(n)
  <2>1. CASE Tolerant
    <3>1. todo' = todo \ {n} /\ phase' = "fragments" /\ cat' = cat
      BY <1>1, <1>3, <1>7, <2>1 DEF LeaveOut
    <3>2. UserProfiles \cup (UserFragments \ (UserProfiles \cup todo')) = U
      BY <1>6, <1>7, <3>1
    <3> QED  BY <1>2, <1>3, <1>4, <2>1, <3>1, <3>2 DEF ProgressInv, LoadsWhatIsSound, Tolerant
  <2>2. CASE ~Tolerant
    <3>1. phase' = "unloaded"  BY <1>1, <1>7, <2>2 DEF LeaveOut
    <3>2. ~Clean
      BY <1>2, <1>6, <1>7 DEF Clean, ProfileNames
    <3>3. ~Clean' /\ ~Tolerant'
      BY <1>2, <1>4, <2>2, <3>2 DEF Clean, ProfileNames, CoreFragments, Tolerant
    <3> QED  BY <3>1, <3>3 DEF ProgressInv, LoadsWhatIsSound
  <2> QED  BY <2>1, <2>2
<1>8. CASE ~Out(n)
  <2>1. n \in UserFragments /\ n \notin UserProfiles  BY <1>6, <1>8
  <2>2. UserFile(n) = [load.fragments[n] EXCEPT !.fragment = TRUE]  BY <2>1 DEF UserFile
  <2>3. n \notin U  BY <2>1
  <2>4. Add(n, load.fragments[n], TRUE)  BY <1>1, <1>8
  <2>5. cat' = Contents(U \cup {n})
    <3> HIDE DEF U
    <3> QED  BY <1>3, <2>2, <2>3, <2>4, ContentsAdd DEF Add
  <2>6. todo' = todo \ {n} /\ phase' = "fragments"  BY <1>3, <2>4 DEF Add
  <2>7. UserProfiles \cup (UserFragments \ (UserProfiles \cup todo')) = U \cup {n}
    BY <2>1, <2>6
  <2>8. \/ Tolerant'
        \/ /\ UserProfiles' = DOMAIN load'.profiles
           /\ DOMAIN load'.fragments \ todo' \subseteq UserFragments' \ UserProfiles'
    BY <1>2, <1>3, <1>4, <2>1, <2>6 DEF ProgressInv, Tolerant
  <2> QED  BY <1>2, <1>4, <2>5, <2>6, <2>7, <2>8 DEF ProgressInv, LoadsWhatIsSound
<1> QED  BY <1>7, <1>8

(* The names both kinds have, and what is left without those fragments.    *)
LEMMA CollisionProgress ==
  ASSUME LoadInv, ProgressInv, FragmentsLoaded
  PROVE  ProgressInv' /\ LoadsWhatIsSound'
<1> DEFINE U == UserProfiles \cup (UserFragments \ UserProfiles)
           names == CrossTypeDisplayNameCollisions
           stay == {e \in DOMAIN cat : ~(cat[e].fragment /\ e[2] \in names)}
<1>1. /\ phase = "fragments" /\ todo = {} /\ load' = load
      /\ phase' = IF names # {} /\ ~Tolerant THEN "unloaded" ELSE "lookup"
      /\ cat' = IF Tolerant THEN [e \in stay |-> cat[e]] ELSE cat
  BY DEF FragmentsLoaded, Unmoved
<1>2. cat = Contents(U)  BY <1>1 DEF ProgressInv
<1>3. /\ DOMAIN cat = ({"core"} \X DOMAIN load.core) \cup ({"user"} \X U)
      /\ \A n \in DOMAIN load.core : cat[<<"core", n>>].fragment <=> n \in CoreFragments
      /\ \A n \in U : cat[<<"user", n>>].fragment <=> n \notin UserProfiles
  BY <1>2, ContentsFlags
<1>4. U \subseteq Names /\ DOMAIN load.core \subseteq Names
  BY LoadFacts DEF UserProfiles, UserFragments, Sound
<1>5. ASSUME NEW n
      PROVE  n \in names <=> /\ n \in CoreFragments \cup (UserFragments \ UserProfiles)
                             /\ n \in ProfileNames
  <2>1. ASSUME n \in names
        PROVE  n \in CoreFragments \cup (UserFragments \ UserProfiles) /\ n \in ProfileNames
    <3>1. PICK e, f \in DOMAIN cat : e[2] = n /\ f[2] = n /\ cat[e].fragment /\ ~cat[f].fragment
      BY <2>1 DEF CrossTypeDisplayNameCollisions
    <3>2. n \in CoreFragments \cup (UserFragments \ UserProfiles)
      BY <1>3, <3>1
    <3>3. n \in ProfileNames  BY <1>3, <3>1 DEF ProfileNames
    <3> QED  BY <3>2, <3>3
  <2>2. ASSUME n \in CoreFragments \cup (UserFragments \ UserProfiles), n \in ProfileNames
        PROVE  n \in names
    <3>1. \E e \in DOMAIN cat : e[2] = n /\ cat[e].fragment
      <4>1. CASE n \in CoreFragments
        BY <1>3, <4>1 DEF CoreFragments
      <4>2. CASE n \in UserFragments \ UserProfiles
        BY <1>3, <4>2
      <4> QED  BY <2>2, <4>1, <4>2
    <3>2. \E f \in DOMAIN cat : f[2] = n /\ ~cat[f].fragment
      <4>1. CASE n \in DOMAIN load.core \ CoreFragments
        BY <1>3, <4>1
      <4>2. CASE n \in UserProfiles
        BY <1>3, <4>2
      <4> QED  BY <2>2, <4>1, <4>2 DEF ProfileNames
    <3>3. n \in Names  BY <1>3, <1>4, <3>1
    <3> QED  BY <3>1, <3>2, <3>3 DEF CrossTypeDisplayNameCollisions
  <2> QED  BY <2>1, <2>2
<1>6. names = {} /\ ~Tolerant => Clean
  <2> SUFFICES ASSUME names = {}, ~Tolerant PROVE Clean  OBVIOUS
  <2>1. UserProfiles = DOMAIN load.profiles /\ DOMAIN load.fragments \subseteq UserFragments \ UserProfiles
    BY <1>1 DEF ProgressInv
  <2>2. UserFragments \subseteq DOMAIN load.fragments  BY DEF UserFragments, Sound
  <2>3. \A n : ~(n \in CoreFragments \cup (UserFragments \ UserProfiles) /\ n \in ProfileNames)
    BY <1>5
  <2> QED  BY <2>1, <2>2, <2>3 DEF Clean
<1>7. names # {} => ~Clean
  <2> SUFFICES ASSUME NEW n \in names PROVE ~Clean  OBVIOUS
  <2>1. n \in CoreFragments \cup (UserFragments \ UserProfiles) /\ n \in ProfileNames  BY <1>5
  <2> QED  BY <2>1 DEF Clean
<1> DEFINE D == ({"core"} \X (DOMAIN load.core \ (CoreFragments \cap ProfileNames)))
                  \cup ({"user"} \X (UserProfiles \cup (UserFragments \ ProfileNames)))
<1>8. stay = D
  <2>1. ASSUME NEW n \in DOMAIN load.core
        PROVE  <<"core", n>> \in stay <=> n \notin CoreFragments \cap ProfileNames
    BY <1>3, <1>5
  <2>2. ASSUME NEW n \in U
        PROVE  <<"user", n>> \in stay <=> n \in UserProfiles \cup (UserFragments \ ProfileNames)
    BY <1>3, <1>5 DEF ProfileNames
  <2>3. UserProfiles \cup (UserFragments \ ProfileNames) \subseteq U  BY DEF ProfileNames
  <2>4. stay \subseteq ({"core"} \X DOMAIN load.core) \cup ({"user"} \X U)  BY <1>3
  <2> HIDE DEF stay, U
  <2> QED  BY <2>1, <2>2, <2>3, <2>4
<1>9. [e \in stay |-> cat[e]] = Expected
  <2>1. \A e \in stay : cat[e] = IF e[1] = "core" THEN load.core[e[2]] ELSE UserFile(e[2])
    BY <1>2, <1>3 DEF Contents
  <2> QED  BY <1>8, <2>1 DEF Expected
<1>10. names = {} => cat = [e \in stay |-> cat[e]]
  <2>1. names = {} => stay = DOMAIN cat  OBVIOUS
  <2> QED  BY <1>2, <2>1 DEF Contents
<1>11. Expected' = Expected /\ Clean' = Clean /\ Tolerant' = Tolerant
  BY <1>1 DEF Expected, Clean, Tolerant, UserFile, UserProfiles, UserFragments, Sound, CoreFragments,
     ProfileNames
<1>12. phase' # "profiles" /\ phase' # "fragments"  BY <1>1
<1> HIDE DEF names, stay
<1> QED  BY <1>1, <1>6, <1>7, <1>9, <1>10, <1>11, <1>12 DEF ProgressInv, LoadsWhatIsSound

(* The invariant of all of loading, and after it.                          *)
SoundInv == MergeInv /\ LoadInv /\ ProgressInv /\ LoadsWhatIsSound

LEMMA SoundStep == ASSUME SoundInv, [Next]_loadVars PROVE SoundInv'
<1>1. MergeInv' /\ LoadInv'  BY LoadedStep DEF SoundInv
<1>2. CASE LoadBuiltins
  <2>1. cat' = Contents({}) /\ load' = load /\ phase' = "profiles" /\ todo' = DOMAIN load.profiles
    BY <1>2 DEF LoadBuiltins, Unmoved, Contents
  <2>2. UserProfiles \subseteq DOMAIN load.profiles  BY DEF UserProfiles, Sound
  <2>3. UserProfiles' \ todo' = {} /\ Contents({})' = Contents({})
    BY <2>1, <2>2 DEF UserProfiles, Sound, Contents, UserFile
  <2>4. ProgressInv'  BY <2>1, <2>3 DEF ProgressInv
  <2> QED  BY <1>1, <2>1, <2>4 DEF SoundInv, LoadsWhatIsSound
<1>3. CASE LoadUserProfile  BY <1>1, <1>3, ProfileProgress DEF SoundInv
<1>4. CASE ProfilesLoaded
  <2>1. /\ cat' = cat /\ load' = load /\ phase = "profiles" /\ phase' = "fragments" /\ todo = {}
        /\ todo' = DOMAIN load.fragments
    BY <1>4 DEF ProfilesLoaded, Unmoved
  <2>2. UserFragments \subseteq DOMAIN load.fragments  BY DEF UserFragments, Sound
  <2>3. UserProfiles \cup (UserFragments \ (UserProfiles \cup todo')) = UserProfiles \ todo
    BY <2>1, <2>2
  <2>4. /\ UserProfiles' = UserProfiles /\ UserFragments' = UserFragments /\ Tolerant' = Tolerant
        /\ \A V : Contents(V)' = Contents(V)
    BY <2>1 DEF UserProfiles, UserFragments, Sound, Contents, UserFile, Tolerant
  <2>5. UserProfiles \subseteq DOMAIN load.profiles  BY DEF UserProfiles, Sound
  <2>6. ProgressInv'  BY <2>1, <2>3, <2>4, <2>5 DEF SoundInv, ProgressInv
  <2> QED  BY <1>1, <2>1, <2>6 DEF SoundInv, LoadsWhatIsSound
<1>5. CASE LoadUserFragment  BY <1>1, <1>5, FragmentProgress DEF SoundInv
<1>6. CASE FragmentsLoaded  BY <1>1, <1>6, CollisionProgress DEF SoundInv
<1>7. CASE Resolve /\ UNCHANGED loading
  <2>1. phase' \notin Loading \cup {"lookup"}
    BY <1>7 DEF Resolve, Lookup, Cycle, Leaf, Refuse, Descend, Missing, Skip, Call, MergeParent,
       MergeBody, Validate, InLoop, Loading
  <2> QED  BY <1>1, <2>1 DEF SoundInv, ProgressInv, LoadsWhatIsSound, Loading
<1>8. CASE UNCHANGED loadVars
  BY <1>1, <1>8 DEF loadVars, vars, SoundInv, ProgressInv, LoadsWhatIsSound, Expected, Clean, Tolerant,
     UserFile, UserProfiles, UserFragments, Sound, CoreFragments, ProfileNames, Contents
<1> QED  BY <1>2, <1>3, <1>4, <1>5, <1>6, <1>7, <1>8 DEF Next, Load

(* LoadProfiles and LoadProfilesTolerant: a strict load is refused exactly *)
(* for a file that would be left out, and a tolerant one leaves out that   *)
(* file and nothing else, for all directories.                             *)
THEOREM LoadIsSound == Spec => []LoadsWhatIsSound
<1>1. Init => SoundInv
  BY LoadedInit DEF Init, SoundInv, ProgressInv, LoadsWhatIsSound
<1>2. SoundInv /\ [Next]_loadVars => SoundInv'  BY SoundStep
<1>3. SoundInv => LoadsWhatIsSound  BY DEF SoundInv
<1> QED  BY <1>1, <1>2, <1>3, PTL DEF Spec

-----------------------------------------------------------------------------
(* What resolving gives.  An entry is settled in a catalog when it and all *)
(* it extends resolve, and the equations that say who wrote a datum in     *)
(* them have one solution.                                                 *)
Writers(c, S, d) == [x \in S |-> Writer(c, x, d)]
Solves(c, w, S, d) == w = [x \in S |-> Written(c, w, x, d)]
OneSolution(c, S, d) ==
  /\ Solves(c, Writers(c, S, d), S, d)
  /\ \A w : Solves(c, w, S, d) => w = Writers(c, S, d)
Settled(c, e) ==
  /\ e \in DOMAIN c /\ Resolvable(c, e)
  /\ \A x \in Reach(c, e) : \A d \in Data : OneSolution(c, Reach(c, x), d)

(* What resolveChain has to return for e.                                  *)
Returned(c, e, r) ==
  /\ Settled(c, e) /\ \A d \in Data : Value(r, d) = Writer(c, e, d)
  /\ r.nulls = IF IsLeaf(c, e) THEN c[e].nulls ELSE NoNulls

(* A frame: the parents before next are settled and merged, each once; the *)
(* one at next is being resolved if the frame waits.                       *)
FrameIs(c, f, waits) ==
  /\ ~IsLeaf(c, f.entry)
  /\ \A i \in DOMAIN c[f.entry].extends :
       c[f.entry].fragment =>
         ParentAt(c, f.entry, i) \in DOMAIN c /\ c[ParentAt(c, f.entry, i)].fragment
  /\ f.next \in 1..(Len(c[f.entry].extends) + 1) /\ (waits => f.next \in Turns(c, f.entry))
  /\ \A i \in 1..(f.next - 1) : Settled(c, ParentAt(c, f.entry, i))
  /\ \A d \in Data :
       Value(f.merged, d)
         = Inherited(c, Writers(c, DOMAIN c, d), f.entry, d, {i \in Turns(c, f.entry) : i < f.next})
  /\ f.resolved = {ParentAt(c, f.entry, i) : i \in 1..(IF waits THEN f.next ELSE f.next - 1)}

Waits(i) == i < Len(stack) \/ phase # "loop"
(* The entry of the frame at i, which the one before it waits for.         *)
CalledFor(i) == IF i = 1 THEN RootEntry ELSE ParentAt(cat, stack[i - 1].entry, stack[i - 1].next)
Awaited == CalledFor(Len(stack) + 1)
LineInv ==
  /\ RootEntry \in DOMAIN cat
  /\ \A i \in DOMAIN stack :
       /\ stack[i].entry = CalledFor(i) /\ stack[i].entry \in Reach(cat, RootEntry)
       /\ FrameIs(cat, stack[i], Waits(i))
  /\ \A i, j \in DOMAIN stack : i < j => stack[j].entry \in Ancestors(cat, stack[i].entry)
ResolveInv ==
  /\ phase \in {"call", "loop", "return"} => LineInv
  /\ phase = "lookup" => stack = <<>>
  /\ phase = "call" => at = Awaited
  /\ phase = "return" => Returned(cat, Awaited, ret)

(* The graph of a catalog.                                                 *)
LEMMA ReachSelf == ASSUME NEW c, NEW e \in DOMAIN c PROVE e \in Reach(c, e)
BY DEF Reach

LEMMA ReachParents ==
  ASSUME NEW c, NEW e, NEW x \in Reach(c, e), NEW p \in Parents(c, x), p \in DOMAIN c
  PROVE  p \in Reach(c, e)
BY DEF Reach, Closed

LEMMA ReachTransitive ==
  ASSUME NEW c, NEW e, NEW x \in Reach(c, e) PROVE Reach(c, x) \subseteq Reach(c, e)
BY DEF Reach

LEMMA ReachIsAncestors ==
  ASSUME NEW c, NEW e \in DOMAIN c PROVE Reach(c, e) = {e} \cup Ancestors(c, e)
<1> DEFINE S == {e} \cup Ancestors(c, e)
<1>1. \A p \in Parents(c, e) \cap DOMAIN c : p \in Reach(c, p) /\ Reach(c, p) \subseteq Reach(c, e)
  BY ReachSelf, ReachParents, ReachTransitive
<1>2. S \subseteq Reach(c, e)
  BY <1>1, ReachSelf DEF Ancestors
<1>3. Closed(c, S)
  <2>1. ASSUME NEW x \in S, NEW y \in Parents(c, x) \cap DOMAIN c PROVE y \in S
    <3>1. CASE x = e  BY <1>1, <2>1, <3>1 DEF Ancestors
    <3>2. CASE x \in Ancestors(c, e)
      <4>1. PICK p \in Parents(c, e) \cap DOMAIN c : x \in Reach(c, p)  BY <3>2 DEF Ancestors
      <4>2. y \in Reach(c, p)  BY <2>1, <4>1, ReachParents
      <4> QED  BY <4>1, <4>2 DEF Ancestors
    <3> QED  BY <2>1, <3>1, <3>2
  <2> QED  BY <2>1 DEF Closed
<1>4. S \in SUBSET DOMAIN c  BY <1>2 DEF Reach
<1>5. Reach(c, e) \subseteq S  BY <1>3, <1>4 DEF Reach
<1> QED  BY <1>2, <1>5

LEMMA AncestorsClosed ==
  ASSUME NEW c, NEW e, NEW x \in Ancestors(c, e)
  PROVE  x \in DOMAIN c /\ Reach(c, x) \subseteq Ancestors(c, e)
<1>1. PICK p \in Parents(c, e) \cap DOMAIN c : x \in Reach(c, p)  BY DEF Ancestors
<1>2. Reach(c, x) \subseteq Reach(c, p)  BY <1>1, ReachTransitive
<1> QED  BY <1>1, <1>2 DEF Ancestors, Reach

LEMMA ParentsAreAncestors ==
  ASSUME NEW c, NEW e, NEW p \in Parents(c, e), p \in DOMAIN c
  PROVE  p \in Ancestors(c, e) /\ Reach(c, p) \subseteq Ancestors(c, e)
BY ReachSelf DEF Ancestors

(* A cycle through an entry runs through a parent of it.                   *)
LEMMA NotItsOwnAncestor ==
  ASSUME NEW c, NEW e \in DOMAIN c,
         \A p \in Parents(c, e) : p \in DOMAIN c /\ Resolvable(c, p)
  PROVE  e \notin Ancestors(c, e)
<1> SUFFICES ASSUME e \in Ancestors(c, e) PROVE FALSE  OBVIOUS
<1>1. PICK p \in Parents(c, e) : p \in DOMAIN c /\ e \in Reach(c, p)  BY DEF Ancestors
<1>2. p \notin Ancestors(c, p)  BY <1>1, ReachSelf DEF Resolvable
<1>3. e = p \/ e \in Ancestors(c, p)  BY <1>1, ReachIsAncestors
<1>4. CASE e = p  BY <1>1, <1>2, <1>4, ParentsAreAncestors
<1>5. CASE e \in Ancestors(c, p)
  <2>1. p \in Reach(c, e)  BY <1>1, ReachSelf, ReachParents
  <2>2. p \in Ancestors(c, p)  BY <1>5, <2>1, AncestorsClosed
  <2> QED  BY <1>2, <2>2
<1> QED  BY <1>3, <1>4, <1>5

LEMMA ResolvableFromParents ==
  ASSUME NEW c, NEW e \in DOMAIN c, Fits(c, e), \A p \in Parents(c, e) : Resolvable(c, p)
  PROVE  Resolvable(c, e) /\ e \notin Ancestors(c, e)
<1>1. e \notin Ancestors(c, e)  BY NotItsOwnAncestor DEF Fits
<1>2. ASSUME NEW x \in Ancestors(c, e) PROVE Fits(c, x) /\ x \notin Ancestors(c, x)
  BY DEF Ancestors, Resolvable
<1>3. Reach(c, e) = {e} \cup Ancestors(c, e)  BY ReachIsAncestors
<1> QED  BY <1>1, <1>2, <1>3 DEF Resolvable

-----------------------------------------------------------------------------
(* A set of places has a first and a last.                                 *)
LEMMA FirstPlace ==
  ASSUME NEW S \in SUBSET Nat, S # {}
  PROVE  Min(S) \in S /\ \A x \in S : Min(S) <= x
<1> DEFINE R == {p \in Nat \X Nat : p[1] < p[2]}
<1>1. IsWellFoundedOn(R, Nat)  BY NatLessThanWellFounded DEF OpToRel
<1>2. PICK x \in S : \A y \in S : <<y, x>> \notin R  BY <1>1, WFMin, Zenon
<1>3. ASSUME NEW y \in S PROVE x <= y
  <2>1. <<y, x>> \notin R /\ <<y, x>> \in Nat \X Nat /\ <<y, x>>[1] = y /\ <<y, x>>[2] = x
    BY <1>2
  <2>2. ~(y < x)  BY <2>1
  <2> QED  BY <2>2
<1> QED  BY <1>3 DEF Min

LEMMA LastPlace ==
  ASSUME NEW N \in Nat, NEW S \in SUBSET (1..N), S # {}
  PROVE  Max(S) \in S /\ \A x \in S : x <= Max(S)
<1> DEFINE T == {N - x : x \in S}
<1>1. T \in SUBSET Nat /\ T # {}
  <2>1. ASSUME NEW x \in S PROVE N - x \in Nat  OBVIOUS
  <2>2. PICK x \in S : TRUE  OBVIOUS
  <2> QED  BY <2>1, <2>2
<1> HIDE DEF T
<1>2. PICK t \in T : \A x \in T : t <= x  BY <1>1, FirstPlace
<1>3. PICK y \in S : t = N - y  BY <1>2 DEF T
<1>4. ASSUME NEW x \in S PROVE x <= y
  <2>1. N - x \in T  BY DEF T
  <2>2. N - y <= N - x  BY <1>2, <1>3, <2>1
  <2> QED  BY <2>2
<1> QED  BY <1>4 DEF Max

-----------------------------------------------------------------------------
(* What is written in an entry depends on what was in its parents alone.   *)
LEMMA InheritedFromParents ==
  ASSUME NEW c, IsCatalog(c), NEW e \in DOMAIN c, NEW d, NEW w, NEW v,
         \A p \in Parents(c, e) : w[p] = v[p]
  PROVE  Inherited(c, w, e, d, Turns(c, e)) = Inherited(c, v, e, d, Turns(c, e))
<1> DEFINE G(u) == {i \in Turns(c, e) : u[ParentAt(c, e, i)] # Nobody
                      /\ \A j \in {k \in Turns(c, e) : Clears(c, ParentAt(c, e, k), d)} : i > j}
           N == Len(c[e].extends)
           giver == IF d.kind = "package" THEN Min(G(v)) ELSE Max(G(v))
<1>1. c[e].extends \in Seq(Refs)  BY DEF IsCatalog, Files
<1>2. N \in Nat /\ DOMAIN c[e].extends = 1..N /\ Turns(c, e) \subseteq 1..N
  BY <1>1 DEF Turns
<1>3. \A i \in Turns(c, e) : w[ParentAt(c, e, i)] = v[ParentAt(c, e, i)]
  BY <1>2 DEF Parents
<1>4. G(w) = G(v)  BY <1>3
<1>5. G(v) \subseteq 1..N /\ G(v) \subseteq Turns(c, e)  BY <1>2
<1>6. G(v) # {} => giver \in Turns(c, e)
  <2> HIDE DEF G
  <2>1. G(v) # {} => Min(G(v)) \in G(v)  BY <1>5, FirstPlace
  <2>2. G(v) # {} => Max(G(v)) \in G(v)  BY <1>2, <1>5, LastPlace
  <2> QED  BY <1>5, <2>1, <2>2
<1>7. \A u : Inherited(c, u, e, d, Turns(c, e))
               = IF G(u) = {} THEN Nobody
                 ELSE u[ParentAt(c, e, IF d.kind = "package" THEN Min(G(u)) ELSE Max(G(u)))]
  BY DEF Inherited
<1> HIDE DEF G
<1> QED  BY <1>3, <1>4, <1>6, <1>7

LEMMA WrittenFromParents ==
  ASSUME NEW c, IsCatalog(c), NEW e \in DOMAIN c, NEW d, NEW w, NEW v,
         \A p \in Parents(c, e) : w[p] = v[p]
  PROVE  Written(c, w, e, d) = Written(c, v, e, d)
BY InheritedFromParents DEF Written

-----------------------------------------------------------------------------
(* Who wrote a datum is what solves the equations, if one thing does.      *)
LEMMA WriterOfSolution ==
  ASSUME NEW c, NEW e \in DOMAIN c, NEW d, NEW w, Solves(c, w, Reach(c, e), d),
         \A v : Solves(c, v, Reach(c, e), d) => v = w
  PROVE  Writer(c, e, d) = w[e]
<1>1. Writer(c, e, d) = (CHOOSE W : Solves(c, W, Reach(c, e), d))[e]
  BY DEF Writer, Solves
<1>2. (CHOOSE W : Solves(c, W, Reach(c, e), d)) = w
  <2> DEFINE P(W) == Solves(c, W, Reach(c, e), d)
  <2>1. P(w) /\ \A v : P(v) => v = w  OBVIOUS
  <2> HIDE DEF P
  <2>2. (CHOOSE W : P(W)) = w  BY <2>1
  <2> QED  BY <2>2 DEF P
<1> QED  BY <1>1, <1>2

(* The part of a solution that lies above an entry is a solution there.    *)
LEMMA PartOfSolution ==
  ASSUME NEW c, IsCatalog(c), NEW S \in SUBSET DOMAIN c, NEW w, NEW d, Solves(c, w, S, d),
         NEW R \in SUBSET S, \A x \in R : Parents(c, x) \subseteq R
  PROVE  Solves(c, [x \in R |-> w[x]], R, d)
<1> DEFINE v == [x \in R |-> w[x]]
<1>1. ASSUME NEW x \in R PROVE v[x] = Written(c, v, x, d)
  <2>1. \A p \in Parents(c, x) : w[p] = v[p]  OBVIOUS
  <2>2. Written(c, w, x, d) = Written(c, v, x, d)  BY <2>1, WrittenFromParents
  <2>3. w[x] = Written(c, w, x, d)  BY DEF Solves
  <2> QED  BY <2>2, <2>3
<1> HIDE DEF v
<1>2. v = [x \in R |-> v[x]]  BY DEF v
<1> QED  BY <1>1, <1>2 DEF Solves, v

LEMMA SettledAbove ==
  ASSUME NEW c, NEW e, Settled(c, e), NEW x \in Reach(c, e)
  PROVE  /\ Settled(c, x) /\ Reach(c, x) \subseteq Reach(c, e)
         /\ Parents(c, x) \subseteq Reach(c, e)
<1>1. Reach(c, x) \subseteq Reach(c, e) /\ x \in DOMAIN c  BY ReachTransitive DEF Reach
<1>2. Resolvable(c, x)  BY <1>1 DEF Settled, Resolvable
<1>3. \A y \in Reach(c, x) : \A d \in Data : OneSolution(c, Reach(c, y), d)
  BY <1>1 DEF Settled
<1>4. Fits(c, x)  BY DEF Settled, Resolvable
<1>5. Parents(c, x) \subseteq Reach(c, e)  BY <1>4, ReachParents DEF Fits
<1> QED  BY <1>1, <1>2, <1>3, <1>5 DEF Settled

(* What the parents settle is settled: an entry adds one equation, for     *)
(* itself, to theirs, and no cycle.                                        *)
LEMMA SettledFromParents ==
  ASSUME NEW c, IsCatalog(c), NEW e \in DOMAIN c, Fits(c, e),
         \A p \in Parents(c, e) : Settled(c, p)
  PROVE  /\ Settled(c, e)
         /\ \A d \in Data : Writer(c, e, d) = Written(c, Writers(c, DOMAIN c, d), e, d)
<1>1. Resolvable(c, e) /\ e \notin Ancestors(c, e)  BY ResolvableFromParents DEF Settled
<1>2. Reach(c, e) = {e} \cup Ancestors(c, e)  BY ReachIsAncestors
<1>3. Parents(c, e) \subseteq Ancestors(c, e)  BY ParentsAreAncestors DEF Settled
<1>4. ASSUME NEW x \in Ancestors(c, e)
      PROVE  /\ Settled(c, x) /\ x # e /\ x \in DOMAIN c
             /\ Reach(c, x) \subseteq Ancestors(c, e) /\ x \in Reach(c, x)
             /\ Parents(c, x) \subseteq Reach(c, x)
             /\ \A y \in Reach(c, x) : Parents(c, y) \subseteq Reach(c, x)
  <2>1. PICK p \in Parents(c, e) : x \in Reach(c, p)  BY DEF Ancestors
  <2>2. Settled(c, x)  BY <2>1, SettledAbove
  <2>3. x \in DOMAIN c /\ Reach(c, x) \subseteq Ancestors(c, e)  BY AncestorsClosed
  <2>4. x \in Reach(c, x)  BY <2>3, ReachSelf
  <2>5. \A y \in Reach(c, x) : Parents(c, y) \subseteq Reach(c, x)  BY <2>2, SettledAbove
  <2> QED  BY <1>1, <2>2, <2>3, <2>4, <2>5
<1>5. ASSUME NEW d \in Data
      PROVE  /\ OneSolution(c, Reach(c, e), d)
             /\ Writer(c, e, d) = Written(c, Writers(c, DOMAIN c, d), e, d)
  <2> DEFINE all == Writers(c, DOMAIN c, d)
             w == [x \in Reach(c, e) |-> IF x = e THEN Written(c, all, e, d) ELSE Writer(c, x, d)]
  <2>1. \A x \in Ancestors(c, e) : w[x] = Writer(c, x, d) /\ all[x] = Writer(c, x, d)
    BY <1>2, <1>4 DEF Writers
  <2>2. e \in Reach(c, e) /\ w[e] = Written(c, all, e, d)  BY <1>2
  <2>3. w = [x \in Reach(c, e) |-> w[x]]  OBVIOUS
  <2> HIDE DEF w, all
  <2>4. ASSUME NEW x \in Ancestors(c, e) PROVE w[x] = Written(c, w, x, d)
    <3> DEFINE u == Writers(c, Reach(c, x), d)
    <3>1. Solves(c, u, Reach(c, x), d)  BY <1>4 DEF Settled, OneSolution
    <3>2. \A y \in Reach(c, x) : u[y] = w[y]  BY <1>4, <2>1 DEF Writers
    <3>3. u[x] = Written(c, u, x, d)  BY <1>4, <3>1 DEF Solves
    <3>4. Written(c, u, x, d) = Written(c, w, x, d)
      <4>1. \A p \in Parents(c, x) : u[p] = w[p]  BY <1>4, <3>2
      <4> HIDE DEF u
      <4> QED  BY <1>4, <4>1, WrittenFromParents
    <3> QED  BY <1>4, <3>2, <3>3, <3>4
  <2>5. ASSUME NEW v, \A x \in Ancestors(c, e) : v[x] = w[x]
        PROVE  Written(c, v, e, d) = w[e]
    <3>1. \A p \in Parents(c, e) : v[p] = all[p]  BY <1>3, <2>1, <2>5
    <3> QED  BY <2>2, <3>1, WrittenFromParents
  <2>6. Solves(c, w, Reach(c, e), d)
    <3>1. \A x \in Reach(c, e) : w[x] = Written(c, w, x, d)  BY <1>2, <2>4, <2>5
    <3> QED  BY <2>3, <3>1 DEF Solves
  <2>7. ASSUME NEW v, Solves(c, v, Reach(c, e), d) PROVE v = w
    <3>1. ASSUME NEW x \in Ancestors(c, e) PROVE v[x] = w[x]
      <4> DEFINE R == Reach(c, x)
                 u == [y \in R |-> v[y]]
      <4>1. R \subseteq Reach(c, e) /\ R \subseteq DOMAIN c /\ Reach(c, e) \subseteq DOMAIN c
        BY <1>2, <1>4 DEF Reach
      <4>2. Solves(c, u, R, d)
        <5> HIDE DEF R
        <5>1. \A y \in R : Parents(c, y) \subseteq R  BY <1>4 DEF R
        <5> QED  BY <2>7, <4>1, <5>1, PartOfSolution
      <4>3. u = Writers(c, R, d)  BY <1>4, <4>2 DEF Settled, OneSolution
      <4>4. u[x] = v[x] /\ Writers(c, R, d)[x] = Writer(c, x, d)  BY <1>4 DEF Writers
      <4> QED  BY <2>1, <4>3, <4>4
    <3>2. v[e] = Written(c, v, e, d)  BY <2>2, <2>7 DEF Solves
    <3>3. v[e] = w[e]  BY <2>5, <3>1, <3>2
    <3>4. v = [x \in Reach(c, e) |-> v[x]]
      <4>1. \A x \in Reach(c, e) : v[x] = Written(c, v, x, d)  BY <2>7 DEF Solves
      <4> QED  BY <2>7, <4>1 DEF Solves
    <3>5. \A x \in Reach(c, e) : v[x] = w[x]  BY <1>2, <3>1, <3>3
    <3> QED  BY <2>3, <3>4, <3>5
  <2>8. Writer(c, e, d) = w[e]  BY <2>6, <2>7, WriterOfSolution
  <2>9. w = Writers(c, Reach(c, e), d)
    <3>1. \A x \in Reach(c, e) : w[x] = Writer(c, x, d)  BY <1>2, <2>1, <2>8
    <3> QED  BY <2>3, <3>1 DEF Writers
  <2>10. OneSolution(c, Reach(c, e), d)  BY <2>6, <2>7, <2>9 DEF OneSolution
  <2> QED  BY <2>2, <2>8, <2>10 DEF all
<1>6. \A x \in Reach(c, e) : \A d \in Data : OneSolution(c, Reach(c, x), d)
  <2>1. \A x \in Ancestors(c, e) : \A d \in Data : OneSolution(c, Reach(c, x), d)
    BY <1>4 DEF Settled
  <2> QED  BY <1>2, <1>5, <2>1
<1> QED  BY <1>1, <1>5, <1>6 DEF Settled

-----------------------------------------------------------------------------
(* One parent more.                                                        *)
LEMMA LastIs == ASSUME NEW S \in SUBSET Nat, NEW n \in S, \A x \in S : x <= n PROVE Max(S) = n
<1>1. ASSUME NEW m \in S, \A x \in S : m >= x PROVE m = n
  <2>1. m >= n /\ m <= n /\ m \in Nat /\ n \in Nat  BY <1>1
  <2> QED  BY <2>1
<1>2. n \in S /\ \A x \in S : n >= x  OBVIOUS
<1> QED  BY <1>1, <1>2 DEF Max

LEMMA FirstIs == ASSUME NEW S \in SUBSET Nat, NEW n \in S, \A x \in S : n <= x PROVE Min(S) = n
<1>1. ASSUME NEW m \in S, \A x \in S : m <= x PROVE m = n
  <2>1. m <= n /\ n <= m /\ m \in Nat /\ n \in Nat  BY <1>1
  <2> QED  BY <2>1
<1> QED  BY <1>1 DEF Min

Combined(d, cleared, elder, younger) ==
  IF cleared THEN Nobody
  ELSE IF d.kind = "package" THEN IF elder # Nobody THEN elder ELSE younger
  ELSE IF younger # Nobody THEN younger ELSE elder

LEMMA InheritedNone == ASSUME NEW c, NEW w, NEW e, NEW d PROVE Inherited(c, w, e, d, {}) = Nobody
BY DEF Inherited

(* Behind an operator, for the provers to instantiate.                     *)
OneMore(c, w, e, d, n, T) ==
  Inherited(c, w, e, d, T \cup {n})
    = Combined(d, Clears(c, ParentAt(c, e, n), d), Inherited(c, w, e, d, T), w[ParentAt(c, e, n)])

LEMMA InheritedOneMore ==
  ASSUME NEW c, NEW w, NEW e, NEW d, NEW n \in Nat, NEW T, \A i \in T : i \in 1..(n - 1)
  PROVE  OneMore(c, w, e, d, n, T)
<1> DEFINE G(U) == {i \in U : w[ParentAt(c, e, i)] # Nobody
                      /\ \A j \in {k \in U : Clears(c, ParentAt(c, e, k), d)} : i > j}
           The(S) == IF d.kind = "package" THEN Min(S) ELSE Max(S)
           T1 == T \cup {n}
           P == ParentAt(c, e, n)
<1>1. \A U : Inherited(c, w, e, d, U) = IF G(U) = {} THEN Nobody ELSE w[ParentAt(c, e, The(G(U)))]
  BY DEF Inherited
<1>2. G(T) \subseteq T /\ T \subseteq Nat /\ \A i \in T : i < n  OBVIOUS
<1>3. G(T) # {} => The(G(T)) \in G(T)
  <2> HIDE DEF G
  <2>1. G(T) # {} => Min(G(T)) \in G(T)  BY <1>2, FirstPlace
  <2>2. G(T) # {} => Max(G(T)) \in G(T)
    <3>1. n - 1 \in Nat \/ T = {}  BY <1>2
    <3> QED  BY <1>2, <3>1, LastPlace
  <2> QED  BY <2>1, <2>2
<1>4. Inherited(c, w, e, d, T) = Nobody <=> G(T) = {}
  <2>1. \A i \in G(T) : w[ParentAt(c, e, i)] # Nobody  OBVIOUS
  <2> HIDE DEF G, The
  <2> QED  BY <1>1, <1>3, <2>1
<1>5. CASE Clears(c, P, d)
  <2>1. ASSUME NEW i \in G(T1) PROVE FALSE
    <3>1. i > n /\ i \in T \cup {n}  BY <1>5
    <3> QED  BY <1>2, <3>1
  <2>2. G(T1) = {}  BY <2>1
  <2> HIDE DEF G, The
  <2> QED  BY <1>1, <1>5, <2>2 DEF Combined, OneMore
<1>6. CASE ~Clears(c, P, d) /\ w[P] = Nobody
  <2>1. G(T1) = G(T)  BY <1>6
  <2> HIDE DEF G, The
  <2>2. Inherited(c, w, e, d, T1) = Inherited(c, w, e, d, T)  BY <1>1, <2>1
  <2> QED  BY <1>6, <2>2 DEF Combined, OneMore
<1>7. CASE ~Clears(c, P, d) /\ w[P] # Nobody
  <2>1. G(T1) = G(T) \cup {n}
    <3>1. \A j \in T : n > j  BY <1>2
    <3>2. \A i \in T : i \in G(T1) <=> i \in G(T)  BY <1>7
    <3>3. n \in G(T1)  BY <1>7, <3>1
    <3> QED  BY <3>2, <3>3
  <2> HIDE DEF G
  <2> DEFINE S == G(T) \cup {n}
  <2>2. S \in SUBSET Nat /\ n \in S /\ \A x \in S : x <= n
    <3>1. \A x \in G(T) : x \in Nat /\ x < n  BY <1>2
    <3> QED  BY <3>1
  <2>3. G(T) = {} => \A x \in S : n <= x  OBVIOUS
  <2>4. G(T) \subseteq S  OBVIOUS
  <2>5. \A x \in S : x \in G(T) \/ x = n  OBVIOUS
  <2> HIDE DEF S
  <2>6. Max(G(T1)) = n  BY <2>1, <2>2, LastIs DEF S
  <2>7. G(T) = {} => Min(G(T1)) = n  BY <2>1, <2>2, <2>3, FirstIs DEF S
  <2>8. G(T) # {} => Min(G(T1)) = Min(G(T))
    <3> SUFFICES ASSUME G(T) # {} PROVE Min(G(T1)) = Min(G(T))  OBVIOUS
    <3>1. Min(G(T)) \in G(T) /\ \A x \in G(T) : Min(G(T)) <= x  BY <1>2, FirstPlace
    <3>2. Min(G(T)) \in S /\ Min(G(T)) \in Nat /\ Min(G(T)) <= n  BY <1>2, <2>2, <2>4, <3>1
    <3>3. \A x \in S : Min(G(T)) <= x  BY <2>5, <3>1, <3>2
    <3>4. Min(S) = Min(G(T))  BY <2>2, <3>2, <3>3, FirstIs
    <3> QED  BY <2>1, <3>4 DEF S
  <2>9. G(T1) # {}  BY <2>1
  <2>10. CASE d.kind = "package"
    <3>1. Inherited(c, w, e, d, T1) = w[ParentAt(c, e, Min(G(T1)))]  BY <1>1, <2>9, <2>10
    <3>2. G(T) # {} => Inherited(c, w, e, d, T) = w[ParentAt(c, e, Min(G(T)))]  BY <1>1, <2>10
    <3> QED  BY <1>4, <1>7, <2>7, <2>8, <2>10, <3>1, <3>2 DEF Combined, OneMore
  <2>11. CASE d.kind # "package"
    <3>1. Inherited(c, w, e, d, T1) = w[ParentAt(c, e, Max(G(T1)))]  BY <1>1, <2>9, <2>11
    <3> QED  BY <1>7, <2>6, <2>11, <3>1 DEF Combined, OneMore
  <2> QED  BY <2>10, <2>11
<1> QED  BY <1>5, <1>6, <1>7

(* What a merge does to a datum.                                           *)
LEMMA ValueOfMerge ==
  ASSUME NEW p \in Profiles, NEW r \in Profiles, NEW d \in Data
  PROVE  Value(Merge(p, r), d) = Combined(d, Deletes(r, d), Value(p, d), Value(r, d))
<1>1. CASE d.kind = "scalar"
  <2>1. d.field \in Scalars  BY <1>1 DEF Data
  <2>2. Merge(p, r).scalars[d.field]
          = MergeScalar(p.scalars[d.field], r.scalars[d.field], d.field \in r.nulls.scalars)
    BY <2>1 DEF Merge
  <2> QED  BY <1>1, <2>2 DEF Value, Combined, Deletes, MergeScalar
<1>2. CASE d.kind = "map"
  <2>1. d.field \in MapFields  BY <1>2 DEF Data
  <2> DEFINE P == p.maps[d.field]
             R == r.maps[d.field]
             M == Merge(p, r).maps[d.field]
  <2>2. M = MergeMap(P, R, r.nulls.keys[d.field], d.field \in r.nulls.fields)
    BY <2>1 DEF Merge
  <2>3. \A k \in DOMAIN R : R[k] # Nobody
    <3>1. R \in Dicts(Keys)  BY <2>1 DEF Profiles
    <3> QED  BY <3>1, DictsDef
  <2>4. /\ Value(p, d) = IF d.key \in DOMAIN P THEN P[d.key] ELSE Nobody
        /\ Value(r, d) = IF d.key \in DOMAIN R THEN R[d.key] ELSE Nobody
        /\ Value(Merge(p, r), d) = IF d.key \in DOMAIN M THEN M[d.key] ELSE Nobody
    BY <1>2 DEF Value
  <2>5. Deletes(r, d) <=> d.field \in r.nulls.fields \/ d.key \in r.nulls.keys[d.field]
    BY <1>2 DEF Deletes
  <2> HIDE DEF P, R, M
  <2> QED  BY <1>2, <2>2, <2>3, <2>4, <2>5 DEF Combined, MergeMap, Empty
<1>3. CASE d.kind = "package"
  <2> DEFINE P == p.packages
             R == r.packages
             M == Merge(p, r).packages
  <2>1. M = MergePackages(P, R, r.nulls.packages)  BY DEF Merge
  <2>2. \A k \in DOMAIN P : P[k] # Nobody
    <3>1. P \in Dicts(Packages)  BY DEF Profiles
    <3> QED  BY <3>1, DictsDef
  <2>3. /\ Value(p, d) = IF d.name \in DOMAIN P THEN P[d.name] ELSE Nobody
        /\ Value(r, d) = IF d.name \in DOMAIN R THEN R[d.name] ELSE Nobody
        /\ Value(Merge(p, r), d) = IF d.name \in DOMAIN M THEN M[d.name] ELSE Nobody
    BY <1>3 DEF Value
  <2>4. Deletes(r, d) <=> r.nulls.packages  BY <1>3 DEF Deletes
  <2> HIDE DEF P, R, M
  <2> QED  BY <1>3, <2>1, <2>2, <2>3, <2>4 DEF Combined, MergePackages, Empty
<1> QED  BY <1>1, <1>2, <1>3 DEF Data

-----------------------------------------------------------------------------
(* Frames and what is returned to them.                                    *)
LEMMA ValueOfFile ==
  ASSUME NEW e \in DOMAIN cat, NEW d \in Data
  PROVE  /\ Value(Get(e), d) = IF Declares(cat[e], d) THEN e ELSE Nobody
         /\ Deletes(Get(e), d) <=> Deletes(cat[e], d)
<1> DEFINE r == Get(e)
<1>1. /\ r.scalars = [s \in Scalars |-> IF s \in cat[e].scalars THEN e ELSE Nobody]
      /\ r.maps = [f \in MapFields |-> [k \in cat[e].keys[f] |-> e]]
      /\ r.packages = [p \in cat[e].packages |-> e] /\ r.nulls = cat[e].nulls
  BY DEF Get
<1> HIDE DEF r
<1>2. Value(r, d) = IF Declares(cat[e], d) THEN e ELSE Nobody
  <2>1. CASE d.kind = "scalar"
    <3>1. d.field \in Scalars  BY <2>1 DEF Data
    <3> QED  BY <1>1, <2>1, <3>1 DEF Value, Declares
  <2>2. CASE d.kind = "map"
    <3>1. d.field \in MapFields  BY <2>2 DEF Data
    <3> QED  BY <1>1, <2>2, <3>1 DEF Value, Declares
  <2>3. CASE d.kind = "package"  BY <1>1, <2>3 DEF Value, Declares
  <2> QED  BY <2>1, <2>2, <2>3 DEF Data
<1>3. Deletes(r, d) <=> Deletes(cat[e], d)  BY <1>1 DEF Deletes
<1> QED  BY <1>2, <1>3 DEF r

LEMMA ValueWithProvenance ==
  ASSUME NEW e, NEW d
  PROVE  Value(InitProvenance(Get(e)), d) = Value(Get(e), d)
<1> DEFINE r == Get(e)
           q == InitProvenance(r)
<1>1. DOMAIN r = {"name", "scalars", "scalarsBy", "maps", "mapsBy", "packages", "packagesBy", "nulls"}
  BY DEF Get
<1> HIDE DEF r
<1>2. q.scalars = r.scalars /\ q.maps = r.maps /\ q.packages = r.packages
  BY <1>1 DEF InitProvenance
<1> HIDE DEF q
<1>3. Value(q, d) = Value(r, d)  BY <1>2 DEF Value
<1> QED  BY <1>3 DEF q, r

LEMMA LeafReturns ==
  ASSUME IsCatalog(cat), NEW e \in DOMAIN cat, IsLeaf(cat, e)
  PROVE  Returned(cat, e, InitProvenance(Get(e)))
<1>1. Parents(cat, e) = {}  BY DEF IsLeaf, Parents
<1>2. Fits(cat, e)  BY <1>1 DEF Fits
<1>3. /\ Settled(cat, e)
      /\ \A d \in Data : Writer(cat, e, d) = Written(cat, Writers(cat, DOMAIN cat, d), e, d)
  BY <1>1, <1>2, SettledFromParents
<1>4. \A d \in Data : Value(InitProvenance(Get(e)), d) = Writer(cat, e, d)
  BY <1>3, ValueOfFile, ValueWithProvenance DEF Written
<1>5. InitProvenance(Get(e)).nulls = cat[e].nulls  BY DEF InitProvenance, Get
<1> QED  BY <1>3, <1>4, <1>5 DEF Returned

LEMMA ValueOfBlank == \A d \in Data : Value(Blank, d) = Nobody
BY DEF Value, Blank, Empty, Data

LEMMA NewFrame ==
  ASSUME IsCatalog(cat), NEW e \in DOMAIN cat, ~IsLeaf(cat, e), Composes(e)
  PROVE  FrameIs(cat, [entry |-> e, next |-> 1, resolved |-> {}, merged |-> Blank], FALSE)
<1> DEFINE f == [entry |-> e, next |-> 1, resolved |-> {}, merged |-> Blank]
<1>1. f.entry = e /\ f.next = 1 /\ f.resolved = {} /\ f.merged = Blank  OBVIOUS
<1> HIDE DEF f
<1>2. cat[e].extends \in Seq(Refs)  BY DEF IsCatalog, Files
<1>3. Len(cat[e].extends) \in Nat /\ DOMAIN cat[e].extends = 1..Len(cat[e].extends)  BY <1>2
<1>4. {i \in Turns(cat, e) : i < 1} = {}  BY <1>3 DEF Turns
<1>5. \A d \in Data : Value(f.merged, d)
         = Inherited(cat, Writers(cat, DOMAIN cat, d), e, d, {i \in Turns(cat, e) : i < 1})
  BY <1>1, <1>4, ValueOfBlank, InheritedNone
<1>6. \A i \in DOMAIN cat[e].extends : cat[e].fragment =>
        ParentAt(cat, e, i) \in DOMAIN cat /\ cat[ParentAt(cat, e, i)].fragment
  BY DEF Composes, Extends, Known, ParentAt
<1>7. {ParentAt(cat, e, i) : i \in 1..(IF FALSE THEN f.next ELSE f.next - 1)} = {}  BY <1>1
<1> QED  BY <1>1, <1>3, <1>5, <1>6, <1>7 DEF FrameIs, f

(* What a frame may become: these are the facts of the frame to prove.     *)
LEMMA FrameFacts ==
  ASSUME IsCatalog(cat), NEW f, NEW waits \in BOOLEAN, f.entry \in DOMAIN cat, FrameIs(cat, f, waits)
  PROVE  /\ Len(cat[f.entry].extends) \in Nat /\ f.next \in Nat
         /\ DOMAIN cat[f.entry].extends = 1..Len(cat[f.entry].extends)
         /\ \A i \in Turns(cat, f.entry) : i \in 1..Len(cat[f.entry].extends)
<1>1. cat[f.entry].extends \in Seq(Refs)  BY DEF IsCatalog, Files
<1>2. Len(cat[f.entry].extends) \in Nat
      /\ DOMAIN cat[f.entry].extends = 1..Len(cat[f.entry].extends)
  BY <1>1
<1>3. f.next \in Nat  BY <1>2 DEF FrameIs
<1> QED  BY <1>2, <1>3 DEF Turns

LEMMA SkippedFrame ==
  ASSUME IsCatalog(cat), NEW f, NEW g, f.entry \in DOMAIN cat, FrameIs(cat, f, FALSE),
         f.next <= Len(cat[f.entry].extends), ParentAt(cat, f.entry, f.next) \in f.resolved,
         g.entry = f.entry, g.next = f.next + 1, g.resolved = f.resolved, g.merged = f.merged
  PROVE  FrameIs(cat, g, FALSE)
<1> DEFINE e == f.entry
           n == f.next
           At(i) == ParentAt(cat, e, i)
<1>1. /\ n \in Nat /\ Len(cat[e].extends) \in Nat
      /\ \A i \in Turns(cat, e) : i \in 1..Len(cat[e].extends)
  BY FrameFacts
<1>2. n \in 1..Len(cat[e].extends)  BY <1>1 DEF FrameIs
<1>3. f.resolved = {At(i) : i \in 1..(n - 1)}  BY DEF FrameIs
<1>4. PICK j \in 1..(n - 1) : At(n) = At(j)  BY <1>3
<1>5. \A i \in 1..(g.next - 1) : Settled(cat, At(i))
  <2>1. \A i \in 1..(n - 1) : Settled(cat, At(i))  BY DEF FrameIs
  <2>2. Settled(cat, At(n))  BY <1>4, <2>1
  <2>3. \A i \in 1..(g.next - 1) : i \in 1..(n - 1) \/ i = n  BY <1>1
  <2> QED  BY <2>1, <2>2, <2>3
<1>6. {i \in Turns(cat, e) : i < g.next} = {i \in Turns(cat, e) : i < n}
  <2>1. n \notin Turns(cat, e)  BY <1>4 DEF Turns
  <2> QED  BY <1>1, <2>1
<1>7. g.resolved = {At(i) : i \in 1..(g.next - 1)}
  <2>1. 1..(g.next - 1) = 1..(n - 1) \cup {n}  BY <1>2
  <2> QED  BY <1>3, <1>4, <2>1
<1>8. g.next \in 1..(Len(cat[e].extends) + 1)  BY <1>1, <1>2
<1> QED  BY <1>5, <1>6, <1>7, <1>8 DEF FrameIs

LEMMA CallingFrame ==
  ASSUME IsCatalog(cat), NEW f, NEW g, f.entry \in DOMAIN cat, FrameIs(cat, f, FALSE),
         f.next <= Len(cat[f.entry].extends), ParentAt(cat, f.entry, f.next) \notin f.resolved,
         g.entry = f.entry, g.next = f.next, g.merged = f.merged,
         g.resolved = f.resolved \cup {ParentAt(cat, f.entry, f.next)}
  PROVE  FrameIs(cat, g, TRUE)
<1> DEFINE e == f.entry
           n == f.next
           At(i) == ParentAt(cat, e, i)
<1>1. n \in Nat /\ Len(cat[e].extends) \in Nat /\ DOMAIN cat[e].extends = 1..Len(cat[e].extends)
  BY FrameFacts
<1>2. n \in 1..Len(cat[e].extends)  BY <1>1 DEF FrameIs
<1>3. f.resolved = {At(i) : i \in 1..(n - 1)}  BY DEF FrameIs
<1>4. n \in Turns(cat, e)  BY <1>1, <1>2, <1>3 DEF Turns
<1>5. g.resolved = {At(i) : i \in 1..n}
  <2>1. 1..n = 1..(n - 1) \cup {n}  BY <1>2
  <2> QED  BY <1>3, <2>1
<1> QED  BY <1>4, <1>5 DEF FrameIs

LEMMA MergedFrame ==
  ASSUME IsCatalog(cat), NEW f, NEW g, f.entry \in DOMAIN cat, FrameIs(cat, f, TRUE),
         f.merged \in Profiles, NEW r \in Profiles,
         Returned(cat, ParentAt(cat, f.entry, f.next), r),
         g.entry = f.entry, g.next = f.next + 1, g.resolved = f.resolved,
         g.merged = Merge(f.merged, r)
  PROVE  FrameIs(cat, g, FALSE)
<1> DEFINE e == f.entry
           n == f.next
           At(i) == ParentAt(cat, e, i)
           T == {i \in Turns(cat, e) : i < n}
<1>1. /\ n \in Nat /\ Len(cat[e].extends) \in Nat
      /\ \A i \in Turns(cat, e) : i \in 1..Len(cat[e].extends)
      /\ n \in Turns(cat, e)
  BY FrameFacts DEF FrameIs
<1>2. n \in 1..Len(cat[e].extends)  BY <1>1
<1>3. \A i \in 1..(g.next - 1) : Settled(cat, At(i))
  <2>1. \A i \in 1..(n - 1) : Settled(cat, At(i))  BY DEF FrameIs
  <2>2. Settled(cat, At(n))  BY DEF Returned
  <2>3. \A i \in 1..(g.next - 1) : i \in 1..(n - 1) \/ i = n  BY <1>1
  <2> QED  BY <2>1, <2>2, <2>3
<1>4. {i \in Turns(cat, e) : i < g.next} = T \cup {n} /\ T \in SUBSET (1..(n - 1))
  BY <1>1
<1>5. ASSUME NEW d \in Data
      PROVE  Value(g.merged, d)
               = Inherited(cat, Writers(cat, DOMAIN cat, d), e, d, {i \in Turns(cat, e) : i < g.next})
  <2> DEFINE w == Writers(cat, DOMAIN cat, d)
  <2>1. Deletes(r, d) <=> Clears(cat, At(n), d)
    <3>1. CASE IsLeaf(cat, At(n))
      <4>1. r.nulls = cat[At(n)].nulls  BY <3>1 DEF Returned
      <4> QED  BY <3>1, <4>1 DEF Deletes, Clears
    <3>2. CASE ~IsLeaf(cat, At(n))
      <4>1. r.nulls = NoNulls  BY <3>2 DEF Returned
      <4>2. \/ d.kind = "scalar"
            \/ d.kind = "map" /\ d.field \in MapFields
            \/ d.kind = "package"
        BY DEF Data
      <4>3. NoNulls.scalars = {} /\ NoNulls.fields = {} /\ NoNulls.packages = FALSE
            /\ \A x \in MapFields : NoNulls.keys[x] = {}
        BY DEF NoNulls
      <4>4. ~Deletes(r, d)  BY <4>1, <4>2, <4>3 DEF Deletes
      <4> QED  BY <3>2, <4>4 DEF Clears
    <3> QED  BY <3>1, <3>2
  <2>2. w[At(n)] = Value(r, d)  BY DEF Writers, Returned, Settled
  <2>3. Value(f.merged, d) = Inherited(cat, w, e, d, T)  BY DEF FrameIs
  <2>4. Value(g.merged, d) = Combined(d, Deletes(r, d), Value(f.merged, d), Value(r, d))
    BY ValueOfMerge
  <2> HIDE DEF w, T, n, e
  <2>5. Inherited(cat, w, e, d, T \cup {n})
          = Combined(d, Clears(cat, At(n), d), Inherited(cat, w, e, d, T), w[At(n)])
    <3>1. n \in Nat /\ \A i \in T : i \in 1..(n - 1)  BY <1>1, <1>4
    <3>2. OneMore(cat, w, e, d, n, T)  BY <3>1, InheritedOneMore
    <3> QED  BY <3>2 DEF OneMore
  <2>6. Combined(d, Deletes(r, d), Value(f.merged, d), Value(r, d))
          = Combined(d, Clears(cat, At(n), d), Inherited(cat, w, e, d, T), w[At(n)])
    BY <2>1, <2>2, <2>3 DEF Combined
  <2> QED  BY <1>4, <2>4, <2>5, <2>6 DEF w, T, n, e
<1>6. g.resolved = {At(i) : i \in 1..(g.next - 1)}
  <2>1. g.next - 1 = n  BY <1>1
  <2> QED  BY <2>1 DEF FrameIs
<1>7. g.next \in 1..(Len(cat[e].extends) + 1)  BY <1>1, <1>2
<1> QED  BY <1>3, <1>5, <1>6, <1>7 DEF FrameIs

LEMMA BodyReturns ==
  ASSUME IsCatalog(cat), NEW f, f.entry \in DOMAIN cat, FrameIs(cat, f, FALSE),
         f.merged \in Profiles, f.next > Len(cat[f.entry].extends)
  PROVE  Returned(cat, f.entry, Merge(f.merged, Get(f.entry)))
<1> DEFINE e == f.entry
           N == Len(cat[e].extends)
<1>1. /\ f.next \in Nat /\ N \in Nat /\ DOMAIN cat[e].extends = 1..N
      /\ \A i \in Turns(cat, e) : i \in 1..N
  BY FrameFacts
<1>2. f.next = N + 1  BY <1>1 DEF FrameIs
<1>3. \A i \in 1..N : Settled(cat, ParentAt(cat, e, i))
  <2>1. f.next - 1 = N  BY <1>1, <1>2
  <2> QED  BY <2>1 DEF FrameIs
<1>4. \A p \in Parents(cat, e) : Settled(cat, p)  BY <1>1, <1>3 DEF Parents
<1>5. Fits(cat, e)
  <2>1. \A p \in Parents(cat, e) : p \in DOMAIN cat  BY <1>4 DEF Settled
  <2>2. \A p \in Parents(cat, e) : cat[e].fragment => cat[p].fragment  BY DEF FrameIs, Parents
  <2> QED  BY <2>1, <2>2 DEF Fits
<1>6. /\ Settled(cat, e)
      /\ \A d \in Data : Writer(cat, e, d) = Written(cat, Writers(cat, DOMAIN cat, d), e, d)
  BY <1>4, <1>5, SettledFromParents
<1>7. ASSUME NEW d \in Data PROVE Value(Merge(f.merged, Get(e)), d) = Writer(cat, e, d)
  <2> DEFINE inh == Inherited(cat, Writers(cat, DOMAIN cat, d), e, d, Turns(cat, e))
             own == IF Declares(cat[e], d) THEN e ELSE Nobody
  <2>1. Value(f.merged, d) = inh
    <3>1. {i \in Turns(cat, e) : i < f.next} = Turns(cat, e)  BY <1>1, <1>2
    <3> QED  BY <3>1 DEF FrameIs
  <2>2. Get(e) \in Profiles  BY GetIsBody
  <2>3. Value(Merge(f.merged, Get(e)), d)
          = Combined(d, Deletes(Get(e), d), Value(f.merged, d), Value(Get(e), d))
    BY <2>2, ValueOfMerge
  <2>4. Value(Get(e), d) = own /\ (Deletes(Get(e), d) <=> Deletes(cat[e], d))  BY ValueOfFile
  <2>5. Written(cat, Writers(cat, DOMAIN cat, d), e, d)
          = IF Deletes(cat[e], d) THEN Nobody
            ELSE IF inh # Nobody /\ (d.kind = "package" \/ own = Nobody) THEN inh ELSE own
    BY DEF Written, FrameIs
  <2> HIDE DEF inh, own
  <2> QED  BY <1>6, <2>1, <2>3, <2>4, <2>5 DEF Combined
<1>8. Merge(f.merged, Get(e)).nulls = NoNulls  BY DEF Merge
<1>9. ~IsLeaf(cat, e)  BY DEF FrameIs
<1> QED  BY <1>6, <1>7, <1>8, <1>9 DEF Returned

-----------------------------------------------------------------------------
(* The steps of a resolution.                                              *)
LEMMA StackShape ==
  ASSUME TypeOK
  PROVE  /\ Len(stack) \in Nat /\ DOMAIN stack = 1..Len(stack) /\ IsCatalog(cat)
         /\ stack # <<>> => Len(stack) \in DOMAIN stack
         /\ \A i \in DOMAIN stack : stack[i] \in Frames /\ stack[i].entry \in DOMAIN cat
<1>1. stack \in Seq(Frames) /\ IsCatalog(cat)  BY DEF TypeOK
<1>2. /\ Len(stack) \in Nat /\ DOMAIN stack = 1..Len(stack)
      /\ stack # <<>> => Len(stack) \in DOMAIN stack
      /\ \A i \in DOMAIN stack : stack[i] \in Frames
  BY <1>1
<1>3. \A f \in Frames : f.entry \in DOMAIN cat  BY DEF Frames
<1> QED  BY <1>1, <1>2, <1>3

(* The entry awaited is above all that are being resolved.                 *)
LEMMA AwaitedIsAbove ==
  ASSUME TypeOK, LineInv, Awaited \in DOMAIN cat,
         stack # <<>> => Top.next \in DOMAIN cat[Top.entry].extends
  PROVE  /\ Awaited \in Reach(cat, RootEntry)
         /\ \A i \in DOMAIN stack : Awaited \in Ancestors(cat, stack[i].entry)
<1>1. CASE stack = <<>>
  <2>1. Awaited = RootEntry /\ DOMAIN stack = {}  BY <1>1 DEF Awaited, CalledFor
  <2> QED  BY <2>1, ReachSelf
<1>2. CASE stack # <<>>
  <2> DEFINE n == Len(stack)
  <2>1. n \in Nat /\ n \in DOMAIN stack /\ DOMAIN stack = 1..n  BY <1>2, StackShape
  <2>2. Awaited = ParentAt(cat, Top.entry, Top.next)
    <3>1. n + 1 # 1 /\ (n + 1) - 1 = n  BY <2>1
    <3> QED  BY <3>1 DEF Awaited, CalledFor, Top
  <2>3. Awaited \in Parents(cat, Top.entry)  BY <1>2, <2>2 DEF Parents
  <2>4. Top.entry \in Reach(cat, RootEntry)  BY <2>1 DEF LineInv, Top
  <2>5. Awaited \in Reach(cat, RootEntry)  BY <2>3, <2>4, ReachParents
  <2>6. ASSUME NEW i \in DOMAIN stack PROVE Awaited \in Ancestors(cat, stack[i].entry)
    <3>1. CASE i = n
      <4>1. stack[i].entry = Top.entry  BY <3>1 DEF Top
      <4> QED  BY <2>3, <4>1, ParentsAreAncestors
    <3>2. CASE i < n
      <4>1. Top.entry \in Ancestors(cat, stack[i].entry)  BY <2>1, <3>2 DEF LineInv, Top
      <4>2. Top.entry \in DOMAIN cat  BY <2>1, StackShape DEF Top
      <4>3. Awaited \in Reach(cat, Top.entry)  BY <2>3, <4>2, ReachSelf, ReachParents
      <4> QED  BY <4>1, <4>3, AncestorsClosed
    <3> QED  BY <2>1, <3>1, <3>2
  <2> QED  BY <2>5, <2>6
<1> QED  BY <1>1, <1>2

(* A step that changes no frame's entry, and what a frame waits for only   *)
(* if nothing has been called for it.                                      *)
LEMMA LineStays ==
  ASSUME TypeOK, TypeOK', LineInv, cat' = cat, Len(stack') <= Len(stack),
         \A i \in DOMAIN stack' :
           /\ stack'[i].entry = stack[i].entry
           /\ i < Len(stack') => stack'[i].next = stack[i].next
           /\ FrameIs(cat, stack'[i], Waits(i)')
  PROVE  LineInv'
<1>1. /\ DOMAIN stack = 1..Len(stack) /\ Len(stack) \in Nat
      /\ DOMAIN stack' = 1..Len(stack') /\ Len(stack') \in Nat
  BY DEF TypeOK
<1>2. DOMAIN stack' \subseteq DOMAIN stack  BY <1>1
<1>3. RootEntry' = RootEntry  BY DEF RootEntry
<1>4. ASSUME NEW i \in DOMAIN stack' PROVE CalledFor(i)' = CalledFor(i)
  <2>1. i # 1 => i - 1 \in DOMAIN stack' /\ i - 1 < Len(stack')  BY <1>1
  <2> QED  BY <1>3, <2>1 DEF CalledFor
<1> QED  BY <1>2, <1>3, <1>4 DEF LineInv

(* The frame in hand is changed.                                           *)
LEMMA LineWithTop ==
  ASSUME TypeOK, TypeOK', LineInv, cat' = cat, stack # <<>>, NEW g, g.entry = Top.entry,
         stack' = [stack EXCEPT ![Len(stack)] = g],
         FrameIs(cat, g, phase' # "loop")
  PROVE  LineInv' /\ Len(stack') = Len(stack) /\ Top' = g
<1>1. /\ Len(stack) \in Nat /\ DOMAIN stack = 1..Len(stack) /\ Len(stack) \in DOMAIN stack
  BY StackShape
<1>2. Len(stack') = Len(stack) /\ DOMAIN stack' = DOMAIN stack /\ Top' = g
      /\ \A i \in DOMAIN stack : stack'[i] = IF i = Len(stack) THEN g ELSE stack[i]
  <2>1. stack \in Seq(Frames)  BY DEF TypeOK
  <2>2. Len(stack') = Len(stack) /\ DOMAIN stack' = DOMAIN stack
        /\ \A i \in DOMAIN stack : stack'[i] = IF i = Len(stack) THEN g ELSE stack[i]
    BY <1>1, <2>1
  <2> QED  BY <1>1, <2>2 DEF Top
<1>3. ASSUME NEW i \in DOMAIN stack'
      PROVE  /\ stack'[i].entry = stack[i].entry
             /\ i < Len(stack') => stack'[i].next = stack[i].next
             /\ FrameIs(cat, stack'[i], Waits(i)')
  <2>1. CASE i = Len(stack)
    <3>1. Waits(i)' <=> phase' # "loop"  BY <1>1, <1>2, <2>1 DEF Waits
    <3>2. stack'[i] = g  BY <1>2, <2>1
    <3>3. FrameIs(cat, stack'[i], Waits(i)')  BY <3>1, <3>2 DEF FrameIs
    <3> QED  BY <1>1, <1>2, <2>1, <3>3 DEF Top
  <2>2. CASE i # Len(stack)
    <3>1. i < Len(stack)  BY <1>1, <1>2, <2>2
    <3>2. Waits(i) /\ Waits(i)'  BY <1>2, <3>1 DEF Waits
    <3>3. FrameIs(cat, stack[i], TRUE)  BY <1>2, <3>2 DEF LineInv, FrameIs
    <3>4. FrameIs(cat, stack'[i], Waits(i)')  BY <1>2, <2>2, <3>2, <3>3 DEF FrameIs
    <3> QED  BY <1>2, <2>2, <3>4
  <2> QED  BY <2>1, <2>2
<1> QED  BY <1>2, <1>3, LineStays

(* A call and its return meet the same frames.                             *)
LEMMA LookupResolves ==
  ASSUME ResolveInv, Lookup PROVE ResolveInv' /\ RefusedForCause'
<1> USE DEF Lookup
<1>1. phase = "lookup" /\ cat' = cat /\ stack' = <<>> /\ RootEntry' = RootEntry
  BY DEF ResolveInv, RootEntry
<1>2. CASE Known(Root)
  <2>1. phase' = "call" /\ at' = RootEntry /\ RootEntry \in DOMAIN cat
    BY <1>2 DEF Known, RootEntry
  <2>2. LineInv'  BY <1>1, <2>1 DEF LineInv
  <2>3. Awaited' = RootEntry  BY <1>1 DEF Awaited, CalledFor
  <2> QED  BY <2>1, <2>2, <2>3 DEF ResolveInv, RefusedForCause
<1>3. CASE ~Known(Root)
  <2>1. phase' = "failed" /\ RootEntry \notin DOMAIN cat  BY <1>3 DEF Known, RootEntry
  <2> QED  BY <1>1, <2>1 DEF ResolveInv, RefusedForCause
<1> QED  BY <1>2, <1>3

(* A failure has shown an entry above the root that does not fit or is its *)
(* own ancestor.                                                           *)
LEMMA FailureHasCause ==
  ASSUME LineInv, cat' = cat, phase' = "failed",
         NEW x \in Reach(cat, RootEntry), ~Fits(cat, x) \/ x \in Ancestors(cat, x)
  PROVE  ResolveInv' /\ RefusedForCause'
<1>1. ~Resolvable(cat, RootEntry)  BY DEF Resolvable
<1>2. RootEntry' = RootEntry  BY DEF RootEntry
<1> QED  BY <1>1, <1>2 DEF ResolveInv, RefusedForCause

(* In a call: the entry, and the frames above it.                          *)
LEMMA CallFacts ==
  ASSUME MergeInv, ResolveInv, phase = "call"
  PROVE  /\ TypeOK /\ LineInv /\ IsCatalog(cat) /\ at = Awaited /\ at \in DOMAIN cat
         /\ at \in Reach(cat, RootEntry)
         /\ \A i \in DOMAIN stack : at \in Ancestors(cat, stack[i].entry)
<1>1. TypeOK /\ LineInv /\ IsCatalog(cat) /\ at = Awaited /\ at \in DOMAIN cat
  BY DEF MergeInv, PhaseInv, ResolveInv, TypeOK
<1>2. stack # <<>> => Top.next \in DOMAIN cat[Top.entry].extends
  <2> SUFFICES ASSUME stack # <<>> PROVE Top.next \in DOMAIN cat[Top.entry].extends  OBVIOUS
  <2>1. Len(stack) \in DOMAIN stack  BY <1>1, StackShape
  <2>2. FrameIs(cat, Top, TRUE)  BY <1>1, <2>1 DEF LineInv, Waits, Top, FrameIs
  <2> QED  BY <2>2 DEF FrameIs, Turns
<1> QED  BY <1>1, <1>2, AwaitedIsAbove

LEMMA CycleResolves ==
  ASSUME MergeInv, ResolveInv, Cycle PROVE ResolveInv' /\ RefusedForCause'
<1> USE DEF Cycle
<1>1. at \in Reach(cat, RootEntry) /\ LineInv  BY CallFacts
<1>2. at \in Ancestors(cat, at)
  <2>1. PICK i \in DOMAIN stack : stack[i].entry = at  BY DEF OnStack
  <2> QED  BY <2>1, CallFacts
<1> QED  BY <1>1, <1>2, FailureHasCause

LEMMA RefuseResolves ==
  ASSUME MergeInv, ResolveInv, Refuse PROVE ResolveInv' /\ RefusedForCause'
<1> USE DEF Refuse
<1>1. at \in Reach(cat, RootEntry) /\ LineInv  BY CallFacts
<1>2. ~Fits(cat, at)
  BY DEF Composes, Extends, Known, Fits, Parents, ParentAt
<1> QED  BY <1>1, <1>2, FailureHasCause

LEMMA LeafResolves ==
  ASSUME MergeInv, MergeInv', ResolveInv, Leaf PROVE ResolveInv' /\ RefusedForCause'
<1> USE DEF Leaf
<1>1. /\ TypeOK /\ LineInv /\ IsCatalog(cat) /\ at = Awaited /\ at \in DOMAIN cat
  BY CallFacts
<1>2. Returned(cat, at, ret')  BY <1>1, LeafReturns DEF Extends, IsLeaf
<1>3. RootEntry' = RootEntry /\ \A i : Waits(i)' /\ Waits(i) /\ CalledFor(i)' = CalledFor(i)
  BY DEF RootEntry, Waits, CalledFor
<1>4. \A i \in DOMAIN stack : FrameIs(cat, stack[i], Waits(i)')
  <2>1. ASSUME NEW i \in DOMAIN stack PROVE FrameIs(cat, stack[i], Waits(i)')
    <3>1. FrameIs(cat, stack[i], Waits(i))  BY <1>1 DEF LineInv
    <3> QED  BY <1>3, <3>1 DEF FrameIs
  <2> QED  BY <2>1
<1>5. LineInv'  BY <1>1, <1>3, <1>4 DEF LineInv
<1>6. Awaited' = at  BY <1>1, <1>3 DEF Awaited
<1> QED  BY <1>2, <1>5, <1>6 DEF ResolveInv, RefusedForCause

LEMMA DescendResolves ==
  ASSUME MergeInv, MergeInv', ResolveInv, Descend PROVE ResolveInv' /\ RefusedForCause'
<1> USE DEF Descend
<1> DEFINE g == [entry |-> at, next |-> 1, resolved |-> {}, merged |-> Blank]
           n == Len(stack)
<1>1. /\ TypeOK /\ LineInv /\ IsCatalog(cat) /\ at = Awaited /\ at \in DOMAIN cat
      /\ at \in Reach(cat, RootEntry)
      /\ \A i \in DOMAIN stack : at \in Ancestors(cat, stack[i].entry)
  BY CallFacts
<1>2. FrameIs(cat, g, FALSE)  BY <1>1, NewFrame DEF Extends, IsLeaf
<1>3. g.entry = at /\ stack' = Append(stack, g) /\ phase' = "loop" /\ cat' = cat  OBVIOUS
<1> HIDE DEF g
<1>4. /\ n \in Nat /\ DOMAIN stack = 1..n
      /\ Len(stack') = n + 1 /\ DOMAIN stack' = 1..(n + 1) /\ stack'[n + 1] = g
      /\ \A i \in 1..n : stack'[i] = stack[i]
  <2>1. stack \in Seq(Frames)  BY <1>1 DEF TypeOK
  <2> QED  BY <1>3, <2>1
<1>5. RootEntry' = RootEntry  BY <1>3 DEF RootEntry
<1>6. ASSUME NEW i \in 1..(n + 1) PROVE CalledFor(i)' = CalledFor(i)
  <2>1. i # 1 => i - 1 \in 1..n  BY <1>4
  <2> QED  BY <1>3, <1>4, <1>5, <2>1 DEF CalledFor
<1>7. ASSUME NEW i \in DOMAIN stack'
      PROVE  /\ stack'[i].entry = CalledFor(i)' /\ stack'[i].entry \in Reach(cat, RootEntry)
             /\ FrameIs(cat, stack'[i], Waits(i)')
  <2>1. CASE i = n + 1
    <3>1. ~Waits(i)'  BY <1>3, <1>4, <2>1 DEF Waits
    <3>2. FrameIs(cat, stack'[i], Waits(i)')  BY <1>2, <1>4, <2>1, <3>1 DEF FrameIs
    <3>3. CalledFor(i)' = at  BY <1>1, <1>4, <1>6, <2>1 DEF Awaited
    <3> QED  BY <1>1, <1>3, <1>4, <2>1, <3>2, <3>3
  <2>2. CASE i # n + 1
    <3>1. i \in 1..n  BY <1>4, <2>2
    <3>2. Waits(i) /\ Waits(i)'  BY <1>4, <3>1 DEF Waits
    <3>3. FrameIs(cat, stack[i], TRUE)  BY <1>1, <1>4, <3>1, <3>2 DEF LineInv, FrameIs
    <3>4. FrameIs(cat, stack'[i], Waits(i)')  BY <1>4, <3>1, <3>2, <3>3 DEF FrameIs
    <3> QED  BY <1>1, <1>4, <1>6, <3>1, <3>4 DEF LineInv
  <2> QED  BY <2>1, <2>2
<1>8. ASSUME NEW i \in DOMAIN stack', NEW j \in DOMAIN stack', i < j
      PROVE  stack'[j].entry \in Ancestors(cat, stack'[i].entry)
  <2>1. i \in 1..n  BY <1>4, <1>8
  <2>2. CASE j = n + 1  BY <1>1, <1>3, <1>4, <2>1, <2>2
  <2>3. CASE j # n + 1
    <3>1. j \in 1..n  BY <1>4, <2>3
    <3> QED  BY <1>1, <1>4, <1>8, <2>1, <3>1 DEF LineInv
  <2> QED  BY <2>2, <2>3
<1>9. LineInv'  BY <1>1, <1>3, <1>5, <1>7, <1>8 DEF LineInv
<1> QED  BY <1>3, <1>9 DEF ResolveInv, RefusedForCause

(* The frame in hand, while its loop runs or a call for it has returned.   *)
LEMMA TopFacts ==
  ASSUME MergeInv, LineInv, stack # <<>>
  PROVE  /\ TypeOK /\ IsCatalog(cat) /\ Top \in Frames /\ Top.entry \in DOMAIN cat
         /\ Top.merged \in Profiles /\ Top.entry \in Reach(cat, RootEntry)
         /\ FrameIs(cat, Top, phase # "loop")
         /\ Awaited = ParentAt(cat, Top.entry, Top.next)
<1>1. TypeOK /\ IsCatalog(cat)  BY DEF MergeInv, TypeOK
<1>2. Len(stack) \in Nat /\ Len(stack) \in DOMAIN stack  BY <1>1, StackShape
<1>3. Top \in Frames /\ Top.entry \in DOMAIN cat /\ Top.entry \in Reach(cat, RootEntry)
  BY <1>1, <1>2, StackShape DEF LineInv, Top
<1>4. Top.merged \in Profiles  BY <1>3 DEF Frames
<1>5. FrameIs(cat, Top, phase # "loop")
  <2>1. Waits(Len(stack)) <=> phase # "loop"  BY <1>2 DEF Waits
  <2>2. FrameIs(cat, Top, Waits(Len(stack)))  BY <1>2 DEF LineInv, Top
  <2> QED  BY <2>1, <2>2 DEF FrameIs
<1>6. Awaited = ParentAt(cat, Top.entry, Top.next)
  <2>1. Len(stack) + 1 # 1 /\ (Len(stack) + 1) - 1 = Len(stack)  BY <1>2
  <2> QED  BY <2>1 DEF Awaited, CalledFor, Top
<1> QED  BY <1>1, <1>3, <1>4, <1>5, <1>6

LEMMA LoopFacts ==
  ASSUME MergeInv, ResolveInv, phase = "loop"
  PROVE  LineInv /\ stack # <<>> /\ FrameIs(cat, Top, FALSE)
<1>1. LineInv /\ stack # <<>>  BY DEF MergeInv, PhaseInv, ResolveInv
<1>2. FrameIs(cat, Top, phase # "loop")  BY <1>1, TopFacts
<1> QED  BY <1>1, <1>2 DEF FrameIs

LEMMA MissingResolves ==
  ASSUME MergeInv, ResolveInv, Missing PROVE ResolveInv' /\ RefusedForCause'
<1> USE DEF Missing, InLoop
<1>1. LineInv /\ stack # <<>> /\ FrameIs(cat, Top, FALSE)  BY LoopFacts
<1>2. /\ IsCatalog(cat) /\ Top.entry \in DOMAIN cat /\ Top.entry \in Reach(cat, RootEntry)
  BY <1>1, TopFacts
<1>3. Top.next \in DOMAIN cat[Top.entry].extends
  <2>1. /\ Len(cat[Top.entry].extends) \in Nat /\ Top.next \in Nat
        /\ DOMAIN cat[Top.entry].extends = 1..Len(cat[Top.entry].extends)
    BY <1>1, <1>2, FrameFacts
  <2> QED  BY <1>1, <2>1 DEF FrameIs, Extends
<1>4. ParentAt(cat, Top.entry, Top.next) \notin DOMAIN cat
  BY DEF Known, NextRef, Extends, ParentAt
<1>5. ~Fits(cat, Top.entry)  BY <1>3, <1>4 DEF Fits, Parents
<1> QED  BY <1>1, <1>2, <1>5, FailureHasCause

LEMMA SkipResolves ==
  ASSUME MergeInv, MergeInv', ResolveInv, Skip PROVE ResolveInv' /\ RefusedForCause'
<1> USE DEF Skip, InLoop
<1> DEFINE g == [Top EXCEPT !.next = @ + 1]
<1>1. LineInv /\ stack # <<>> /\ FrameIs(cat, Top, FALSE)  BY LoopFacts
<1>2. TypeOK /\ IsCatalog(cat) /\ Top \in Frames /\ Top.entry \in DOMAIN cat  BY <1>1, TopFacts
<1>3. /\ g.entry = Top.entry /\ g.next = Top.next + 1 /\ g.resolved = Top.resolved
      /\ g.merged = Top.merged /\ stack' = [stack EXCEPT ![Len(stack)] = g]
  BY <1>2 DEF Frames, Top
<1>4. TypeOK' /\ cat' = cat /\ phase' = "loop"  BY DEF MergeInv
<1> HIDE DEF g
<1>5. FrameIs(cat, g, FALSE)
  BY <1>1, <1>2, <1>3, SkippedFrame DEF Extends, Parent, NextRef, ParentAt
<1>6. FrameIs(cat, g, phase' # "loop")  BY <1>4, <1>5 DEF FrameIs
<1>7. LineInv'  BY <1>1, <1>2, <1>3, <1>4, <1>6, LineWithTop
<1> QED  BY <1>4, <1>7 DEF ResolveInv, RefusedForCause

LEMMA CallResolves ==
  ASSUME MergeInv, MergeInv', ResolveInv, Call PROVE ResolveInv' /\ RefusedForCause'
<1> USE DEF Call, InLoop
<1> DEFINE g == [Top EXCEPT !.resolved = @ \cup {Parent}]
<1>1. LineInv /\ stack # <<>> /\ FrameIs(cat, Top, FALSE)  BY LoopFacts
<1>2. TypeOK /\ IsCatalog(cat) /\ Top \in Frames /\ Top.entry \in DOMAIN cat  BY <1>1, TopFacts
<1>3. /\ g.entry = Top.entry /\ g.next = Top.next /\ g.resolved = Top.resolved \cup {Parent}
      /\ g.merged = Top.merged /\ stack' = [stack EXCEPT ![Len(stack)] = g]
  BY <1>2 DEF Frames, Top
<1>4. TypeOK' /\ cat' = cat /\ phase' = "call" /\ at' = Parent  BY DEF MergeInv
<1>5. Parent = ParentAt(cat, Top.entry, Top.next)  BY DEF Parent, NextRef, Extends, ParentAt
<1> HIDE DEF g
<1>6. FrameIs(cat, g, TRUE)  BY <1>1, <1>2, <1>3, <1>5, CallingFrame DEF Extends
<1>7. FrameIs(cat, g, phase' # "loop")  BY <1>4, <1>6 DEF FrameIs
<1>8. LineInv' /\ Len(stack') = Len(stack) /\ Top' = g
  BY <1>1, <1>2, <1>3, <1>4, <1>7, LineWithTop
<1>9. at' = Awaited'
  <2>1. stack' # <<>>
    <3>1. Len(stack) # 0 /\ DOMAIN stack = 1..Len(stack)  BY <1>1, <1>2, StackShape
    <3> QED  BY <1>8, <3>1
  <2>2. Awaited' = ParentAt(cat', Top'.entry, Top'.next)
    <3>1. (MergeInv /\ LineInv /\ stack # <<>>)' => (Awaited = ParentAt(cat, Top.entry, Top.next))'
      BY TopFacts, PTL
    <3> QED  BY <1>8, <2>1, <3>1
  <2> QED  BY <1>3, <1>4, <1>5, <1>8, <2>2
<1> QED  BY <1>4, <1>8, <1>9 DEF ResolveInv, RefusedForCause

LEMMA MergeParentResolves ==
  ASSUME MergeInv, MergeInv', ResolveInv, MergeParent PROVE ResolveInv' /\ RefusedForCause'
<1> USE DEF MergeParent
<1> DEFINE m == Merge(Top.merged, ret)
           g == [Top EXCEPT !.next = @ + 1, !.merged = m]
<1>1. LineInv /\ stack # <<>> /\ Returned(cat, Awaited, ret)  BY DEF ResolveInv
<1>2. /\ TypeOK /\ IsCatalog(cat) /\ Top \in Frames /\ Top.entry \in DOMAIN cat
      /\ Top.merged \in Profiles /\ FrameIs(cat, Top, phase # "loop")
      /\ Awaited = ParentAt(cat, Top.entry, Top.next)
  BY <1>1, TopFacts
<1>3. stack' = [stack EXCEPT ![Len(stack)] = g]  BY DEF Top
<1>4. TypeOK' /\ cat' = cat /\ phase' = "loop" /\ phase # "loop"  BY DEF MergeInv
<1> HIDE DEF m
<1>5. g.entry = Top.entry /\ g.next = Top.next + 1 /\ g.resolved = Top.resolved /\ g.merged = m
  BY <1>2 DEF Frames
<1> HIDE DEF g
<1>6. FrameIs(cat, Top, TRUE)  BY <1>2, <1>4 DEF FrameIs
<1>7. ret \in Profiles  BY <1>2 DEF TypeOK
<1>8. FrameIs(cat, g, FALSE)  BY <1>1, <1>2, <1>5, <1>6, <1>7, MergedFrame DEF m
<1>9. FrameIs(cat, g, phase' # "loop")  BY <1>4, <1>8 DEF FrameIs
<1>10. LineInv'  BY <1>1, <1>2, <1>3, <1>4, <1>5, <1>9, LineWithTop
<1> QED  BY <1>4, <1>10 DEF ResolveInv, RefusedForCause

LEMMA MergeBodyResolves ==
  ASSUME MergeInv, MergeInv', ResolveInv, MergeBody
  PROVE  ResolveInv' /\ RefusedForCause' /\ Awaited' = Top.entry
<1> USE DEF MergeBody
<1> DEFINE n == Len(stack)
<1>1. LineInv /\ stack # <<>> /\ FrameIs(cat, Top, FALSE)  BY LoopFacts
<1>2. /\ TypeOK /\ IsCatalog(cat) /\ Top.entry \in DOMAIN cat /\ Top.merged \in Profiles
  BY <1>1, TopFacts
<1>3. Returned(cat, Top.entry, ret')  BY <1>1, <1>2, BodyReturns DEF Extends
<1>4. /\ n \in Nat /\ n \in DOMAIN stack /\ DOMAIN stack = 1..n /\ Len(stack') = n - 1
      /\ DOMAIN stack' = 1..(n - 1) /\ \A i \in 1..(n - 1) : stack'[i] = stack[i]
  <2>1. n \in Nat /\ n \in DOMAIN stack /\ DOMAIN stack = 1..n
    BY <1>1, <1>2, StackShape
  <2>2. stack \in Seq(Frames)  BY <1>2 DEF TypeOK
  <2>3. n - 1 \in Nat  BY <2>1
  <2> QED  BY <2>1, <2>2, <2>3
<1>5. ASSUME NEW i \in DOMAIN stack'
      PROVE  stack'[i] = stack[i] /\ FrameIs(cat, stack'[i], Waits(i)')
  <2>1. i \in DOMAIN stack /\ stack'[i] = stack[i] /\ Waits(i) /\ Waits(i)'
    BY <1>4 DEF Waits
  <2>2. FrameIs(cat, stack[i], Waits(i))  BY <1>1, <2>1 DEF LineInv
  <2>3. FrameIs(cat, stack'[i], Waits(i)')  BY <2>1, <2>2 DEF FrameIs
  <2> QED  BY <2>1, <2>3
<1>6. TypeOK' /\ cat' = cat /\ phase' = "return" /\ Len(stack') <= Len(stack)
  BY <1>4 DEF MergeInv
<1>7. LineInv'  BY <1>1, <1>2, <1>5, <1>6, LineStays
<1>8. Awaited' = Top.entry
  <2>1. ASSUME NEW k, k = n PROVE CalledFor(k)' = CalledFor(k)
    <3>1. k # 1 => k - 1 \in 1..(n - 1)  BY <1>4, <2>1
    <3> QED  BY <1>4, <1>6, <3>1 DEF CalledFor, RootEntry
  <2>2. ASSUME NEW k, k = n PROVE Awaited' = CalledFor(k)'
    <3>1. Len(stack') + 1 = k /\ (Len(stack') + 1) - 1 = k - 1  BY <1>4, <2>2
    <3> QED  BY <3>1 DEF Awaited, CalledFor
  <2>3. CalledFor(n) = Top.entry  BY <1>1, <1>4 DEF LineInv, Top
  <2> QED  BY <2>1, <2>2, <2>3
<1> QED  BY <1>3, <1>6, <1>7, <1>8 DEF ResolveInv, RefusedForCause

LEMMA ValidateResolves ==
  ASSUME MergeInv, ResolveInv, Validate PROVE ResolveInv' /\ RefusedForCause'
<1> USE DEF Validate
<1>1. LineInv /\ Returned(cat, RootEntry, ret)
  BY DEF ResolveInv, Awaited, CalledFor
<1>2. RootEntry \in DOMAIN cat /\ Resolvable(cat, RootEntry)  BY <1>1 DEF Returned, Settled
<1>3. ASSUME NEW s \in Required
      PROVE  Writer(cat, RootEntry, [kind |-> "scalar", field |-> s]) = ret.scalars[s]
  <2> DEFINE d == [kind |-> "scalar", field |-> s]
  <2>1. d \in Data /\ d.kind = "scalar" /\ d.field = s  BY RequiredAssumption DEF Data
  <2> HIDE DEF d
  <2>2. Value(ret, d) = ret.scalars[s]  BY <2>1 DEF Value
  <2> QED  BY <1>1, <2>1, <2>2 DEF Returned, d
<1>4. RootEntry' = RootEntry /\ cat' = cat  BY DEF RootEntry
<1>5. phase' \in {"accepted", "failed"}
      /\ (phase' = "accepted" <=> \A s \in Required : ret.scalars[s] # Nobody)
  OBVIOUS
<1> QED  BY <1>2, <1>3, <1>4, <1>5 DEF ResolveInv, RefusedForCause

LEMMA ResolveInvStep ==
  ASSUME MergeInv, MergeInv', LoadInv, ResolveInv, RefusedForCause, [Next]_loadVars
  PROVE  ResolveInv' /\ RefusedForCause'
<1>1. CASE Load
  <2>1. phase \in Loading /\ phase' \in Loading \cup {"lookup"} /\ stack' = stack
    BY <1>1 DEF Load, LoadBuiltins, LoadUserProfile, ProfilesLoaded, LoadUserFragment, FragmentsLoaded,
       LeaveOut, Add, Unmoved, Loading
  <2>2. stack' = <<>>  BY <2>1 DEF LoadInv
  <2> QED  BY <2>1, <2>2 DEF ResolveInv, RefusedForCause, Loading
<1>2. CASE Resolve
  <2>1. CASE Lookup       BY <2>1, LookupResolves
  <2>2. CASE Cycle        BY <2>2, CycleResolves
  <2>3. CASE Leaf         BY <2>3, LeafResolves
  <2>4. CASE Refuse       BY <2>4, RefuseResolves
  <2>5. CASE Descend      BY <2>5, DescendResolves
  <2>6. CASE Missing      BY <2>6, MissingResolves
  <2>7. CASE Skip         BY <2>7, SkipResolves
  <2>8. CASE Call         BY <2>8, CallResolves
  <2>9. CASE MergeParent  BY <2>9, MergeParentResolves
  <2>10. CASE MergeBody   BY <2>10, MergeBodyResolves
  <2>11. CASE Validate    BY <2>11, ValidateResolves
  <2> QED  BY <1>2, <2>1, <2>2, <2>3, <2>4, <2>5, <2>6, <2>7, <2>8, <2>9, <2>10, <2>11 DEF Resolve
<1>3. CASE UNCHANGED loadVars
  <2>1. /\ cat' = cat /\ phase' = phase /\ at' = at /\ ret' = ret /\ stack' = stack
    BY <1>3 DEF loadVars, vars
  <2>2. RootEntry' = RootEntry /\ Awaited' = Awaited
        /\ \A i : (Waits(i)' <=> Waits(i)) /\ CalledFor(i)' = CalledFor(i)
    BY <2>1 DEF RootEntry, Waits, CalledFor, Awaited
  <2>3. LineInv => LineInv'
    <3> SUFFICES ASSUME LineInv PROVE LineInv'  OBVIOUS
    <3>1. \A i \in DOMAIN stack : FrameIs(cat, stack[i], Waits(i)')
      <4>1. ASSUME NEW i \in DOMAIN stack PROVE FrameIs(cat, stack[i], Waits(i)')
        <5>1. FrameIs(cat, stack[i], Waits(i))  BY DEF LineInv
        <5> QED  BY <2>2, <5>1 DEF FrameIs
      <4> QED  BY <4>1
    <3> QED  BY <2>1, <2>2, <3>1 DEF LineInv
  <2> QED  BY <2>1, <2>2, <2>3 DEF ResolveInv, RefusedForCause
<1> QED  BY <1>1, <1>2, <1>3 DEF Next

LEMMA ReturnMeetsReference == ASSUME ResolveInv PROVE MeetsReference
<1> SUFFICES ASSUME phase = "return", stack = <<>>
             PROVE  \A d \in Data : Value(ret, d) = Writer(cat, RootEntry, d)
  BY DEF MeetsReference
<1>1. Awaited = RootEntry  BY DEF Awaited, CalledFor
<1> QED  BY <1>1 DEF ResolveInv, Returned

(* The inductive invariant of both: each frame in progress holds what its  *)
(* parents so far give (resolveChain).                                     *)
THEOREM FramesFollowCatalog == Spec => [](ResolveInv /\ RefusedForCause)
<1>1. Init => ResolveInv /\ RefusedForCause  BY DEF Init, ResolveInv, RefusedForCause
<1>2. /\ MergeInv /\ LoadInv /\ (MergeInv /\ LoadInv)' /\ ResolveInv /\ RefusedForCause
      /\ [Next]_loadVars
      => (ResolveInv /\ RefusedForCause)'
  BY ResolveInvStep
<1> QED  BY <1>1, <1>2, MergeInvariant, PTL DEF Spec

(* ResolveProfileWithProv returns, value by value, what the catalog says:  *)
(* overrides, tombstones, parents named twice and shared parents included. *)
THEOREM ResultMeetsReference == Spec => []MeetsReference
<1>1. ResolveInv => MeetsReference  BY ReturnMeetsReference
<1> QED  BY <1>1, FramesFollowCatalog, PTL

(* It returns an error exactly for a cycle, a missing entry, a profile     *)
(* under a fragment or a required field that nobody sets.                  *)
THEOREM RefusalHasCause == Spec => []RefusedForCause
BY FramesFollowCatalog, PTL

-----------------------------------------------------------------------------
(* The order of the chain.  What is listed but for some parent is being    *)
(* resolved, and was listed in the order of the stack: so the frame in     *)
(* hand is where a depth-first walk goes on.                               *)
Shown == Listed(Len(chain) + 1)
Unshut == Open(Len(chain) + 1)
ListInv ==
  /\ \A n \in DOMAIN chain : FollowsWalk(n) /\ chain[n] \in Reach(cat, RootEntry)
  /\ \A m \in Unshut : OnStack(chain[m])
PathInv ==
  /\ \A i \in DOMAIN stack :
       /\ stack[i].entry \in Shown
       /\ \A k \in 1..(stack[i].next - 1) : ParentAt(cat, stack[i].entry, k) \in Shown
  /\ \A i, j \in DOMAIN stack : \A m \in DOMAIN chain : \A n \in Unshut :
       i < j /\ chain[m] = stack[i].entry /\ chain[n] = stack[j].entry => m < n
WalkInv ==
  /\ phase \in Loading \cup {"lookup"} => chain = <<>>
  /\ phase \in {"call", "loop", "return"} => ListInv /\ PathInv
  /\ phase = "return" => Awaited \in Shown

LEMMA ChainShape ==
  ASSUME TypeOK
  PROVE  /\ Len(chain) \in Nat /\ DOMAIN chain = 1..Len(chain)
         /\ \A n \in DOMAIN chain : chain[n] \in Entries
         /\ \A e : e \in Shown <=> \E n \in DOMAIN chain : chain[n] = e
         /\ \A n : n \in Unshut <=> n \in DOMAIN chain /\ Unlisted(chain[n], Len(chain) + 1) # {}
<1>1. Len(chain) \in Nat /\ DOMAIN chain = 1..Len(chain) /\ (Len(chain) + 1) - 1 = Len(chain)
      /\ \A n \in DOMAIN chain : chain[n] \in Entries
  BY DEF TypeOK
<1> QED  BY <1>1 DEF Shown, Unshut, Listed, Open

(* What follows the walk is listed for the first time.                     *)
LEMMA WalkListsOnce ==
  ASSUME TypeOK, ListInv, NEW m \in DOMAIN chain, NEW n \in DOMAIN chain, chain[m] = chain[n]
  PROVE  m = n
<1>1. Len(chain) \in Nat /\ DOMAIN chain = 1..Len(chain)  BY ChainShape
<1>2. ASSUME NEW i \in DOMAIN chain, NEW j \in DOMAIN chain, i < j PROVE chain[i] # chain[j]
  <2> DEFINE e == chain[Max(Open(j))]
  <2>1. Open(j) # {} /\ chain[j] = ParentAt(cat, e, Min(Unlisted(e, j)))
    BY <1>1, <1>2 DEF ListInv, FollowsWalk
  <2>2. j - 1 \in Nat /\ Open(j) \in SUBSET (1..(j - 1))  BY <1>1 DEF Open
  <2>3. Max(Open(j)) \in Open(j)  BY <2>1, <2>2, LastPlace
  <2>4. Unlisted(e, j) # {}  BY <2>3 DEF Open
  <2>5. Unlisted(e, j) \in SUBSET Nat
    <3>1. e \in DOMAIN cat
      <4>1. Max(Open(j)) \in DOMAIN chain  BY <1>1, <2>2, <2>3
      <4> QED  BY <4>1 DEF ListInv, Reach
    <3>2. Extends(e) \in Seq(Refs)  BY <3>1 DEF TypeOK, IsCatalog, Files, Extends
    <3> QED  BY <3>2 DEF Unlisted
  <2>6. Min(Unlisted(e, j)) \in Unlisted(e, j)
    <3> HIDE DEF e
    <3> QED  BY <2>4, <2>5, FirstPlace
  <2>7. chain[j] \notin Listed(j)  BY <2>1, <2>6 DEF Unlisted
  <2>8. chain[i] \in Listed(j)  BY <1>1, <1>2 DEF Listed
  <2> QED  BY <2>7, <2>8
<1> QED  BY <1>1, <1>2

(* Nothing that was listed moves.                                          *)
LEMMA ListStays ==
  ASSUME TypeOK, cat' = cat, chain' \in Seq(Entries), Len(chain) <= Len(chain'),
         \A n \in DOMAIN chain : chain'[n] = chain[n]
  PROVE  /\ RootEntry' = RootEntry
         /\ \A n \in 1..(Len(chain) + 1) :
              /\ Listed(n)' = Listed(n) /\ Open(n)' = Open(n)
              /\ \A e : Unlisted(e, n)' = Unlisted(e, n)
         /\ \A n \in DOMAIN chain : FollowsWalk(n)' <=> FollowsWalk(n)
<1>1. /\ Len(chain) \in Nat /\ DOMAIN chain = 1..Len(chain)
      /\ Len(chain') \in Nat /\ DOMAIN chain' = 1..Len(chain')
  BY ChainShape
<1>2. RootEntry' = RootEntry  BY DEF RootEntry
<1>3. ASSUME NEW n \in 1..(Len(chain) + 1)
      PROVE  /\ Listed(n)' = Listed(n) /\ Open(n)' = Open(n)
             /\ \A e : Unlisted(e, n)' = Unlisted(e, n)
  <2>1. \A m \in 1..(n - 1) : m \in DOMAIN chain /\ chain'[m] = chain[m]  BY <1>1
  <2>2. Listed(n)' = Listed(n)  BY <2>1 DEF Listed
  <2>3. \A e : Unlisted(e, n)' = Unlisted(e, n)  BY <2>2 DEF Unlisted, Extends
  <2>4. Open(n)' = Open(n)  BY <2>1, <2>3 DEF Open
  <2> QED  BY <2>2, <2>3, <2>4
<1>4. ASSUME NEW n \in DOMAIN chain PROVE FollowsWalk(n)' <=> FollowsWalk(n)
  <2>1. n \in 1..(Len(chain) + 1) /\ n \in Nat  BY <1>1
  <2>2. chain'[n] = chain[n]  OBVIOUS
  <2>3. CASE n = 1  BY <1>2, <2>2, <2>3 DEF FollowsWalk
  <2>4. CASE n # 1
    <3>1. Open(n)' = Open(n) /\ \A e : Unlisted(e, n)' = Unlisted(e, n)  BY <1>3, <2>1
    <3>2. CASE Open(n) = {}  BY <2>4, <3>1, <3>2 DEF FollowsWalk
    <3>3. CASE Open(n) # {}
      <4>1. Max(Open(n)) \in Open(n)
        <5>1. n - 1 \in Nat /\ Open(n) \in SUBSET (1..(n - 1))  BY <1>1 DEF Open
        <5> QED  BY <3>3, <5>1, LastPlace
      <4>2. Max(Open(n)) \in DOMAIN chain  BY <1>1, <4>1 DEF Open
      <4>3. chain'[Max(Open(n))] = chain[Max(Open(n))]  BY <4>2
      <4> DEFINE e == chain[Max(Open(n))]
                 first == Min(Unlisted(e, n))
      <4>4. FollowsWalk(n) <=> chain[n] = ParentAt(cat, e, first)  BY <2>4, <3>3 DEF FollowsWalk
      <4>5. FollowsWalk(n)' <=> chain'[n] = ParentAt(cat', e, first)
        BY <2>4, <3>1, <3>3, <4>3 DEF FollowsWalk
      <4> QED  BY <2>2, <4>4, <4>5
    <3> QED  BY <3>2, <3>3
  <2> QED  BY <2>3, <2>4
<1> QED  BY <1>2, <1>3, <1>4

(* A call lists its entry if it is not listed.                             *)
LEMMA NoteFacts ==
  ASSUME TypeOK, at \in Entries, cat' = cat, Note(at)
  PROVE  /\ chain' \in Seq(Entries) /\ Len(chain) <= Len(chain')
         /\ \A n \in DOMAIN chain : n \in DOMAIN chain' /\ chain'[n] = chain[n]
         /\ at \in Shown => chain' = chain
         /\ at \notin Shown => /\ Len(chain') = Len(chain) + 1 /\ chain'[Len(chain) + 1] = at
                               /\ DOMAIN chain' = 1..(Len(chain) + 1)
         /\ Shown' = Shown \cup {at}
<1>1. /\ Len(chain) \in Nat /\ DOMAIN chain = 1..Len(chain)
      /\ \A e : e \in Shown <=> \E n \in DOMAIN chain : chain[n] = e
  BY ChainShape
<1>2. chain \in Seq(Entries)  BY DEF TypeOK
<1>3. CASE at \in Shown
  <2>1. Met(at)  BY <1>1, <1>3 DEF Met
  <2>2. chain' = chain  BY <2>1 DEF Note
  <2>3. Shown' = Shown \cup {at}  BY <1>3, <2>2 DEF Shown, Listed
  <2>4. Len(chain) <= Len(chain')  BY <1>1, <2>2
  <2> QED  BY <1>2, <1>3, <2>2, <2>3, <2>4
<1>4. CASE at \notin Shown
  <2>1. ~Met(at)  BY <1>1, <1>4 DEF Met
  <2>2. chain' = Append(chain, at)  BY <2>1 DEF Note
  <2>3. /\ chain' \in Seq(Entries) /\ Len(chain') = Len(chain) + 1
        /\ chain'[Len(chain) + 1] = at /\ DOMAIN chain' = 1..(Len(chain) + 1)
        /\ \A n \in DOMAIN chain : n \in DOMAIN chain' /\ chain'[n] = chain[n]
    BY <1>1, <1>2, <2>2
  <2>4. Shown' = Shown \cup {at}
    <3>1. (Len(chain') + 1) - 1 = Len(chain) + 1  BY <1>1, <2>3
    <3>2. Shown' = {chain'[m] : m \in 1..(Len(chain) + 1)}  BY <3>1 DEF Shown, Listed
    <3>3. 1..(Len(chain) + 1) = DOMAIN chain \cup {Len(chain) + 1}  BY <1>1
    <3> QED  BY <1>1, <2>3, <3>2, <3>3
  <2> QED  BY <1>1, <1>4, <2>3, <2>4
<1> QED  BY <1>3, <1>4

(* No entry is open that was not, apart from the new one.                  *)
LEMMA NoteOpens ==
  ASSUME TypeOK, TypeOK', at \in Entries, cat' = cat, Note(at), NEW m \in Unshut'
  PROVE  \/ m \in Unshut /\ m \in DOMAIN chain
         \/ m = Len(chain) + 1 /\ at \notin Shown /\ chain'[m] = at /\ ~IsLeaf(cat, at)
<1>1. /\ Len(chain) \in Nat /\ DOMAIN chain = 1..Len(chain)
      /\ m \in Unshut <=> m \in DOMAIN chain /\ Unlisted(chain[m], Len(chain) + 1) # {}
  BY ChainShape
<1>2. m \in DOMAIN chain' /\ Unlisted(chain[m], Len(chain) + 1)' # {}
  <2>1. Len(chain') \in Nat /\ DOMAIN chain' = 1..Len(chain') /\ (Len(chain') + 1) - 1 = Len(chain')
    BY DEF TypeOK
  <2>2. m \in 1..((Len(chain') + 1) - 1) /\ Unlisted(chain[m], Len(chain) + 1)' # {}
    BY DEF Unshut, Open
  <2> QED  BY <2>1, <2>2
<1>3. /\ \A n \in DOMAIN chain : chain'[n] = chain[n]
      /\ at \in Shown => chain' = chain
      /\ at \notin Shown => chain'[Len(chain) + 1] = at /\ DOMAIN chain' = 1..(Len(chain) + 1)
      /\ Shown' = Shown \cup {at}
  BY NoteFacts
<1>4. CASE m \in DOMAIN chain
  <2>1. Unlisted(chain[m], Len(chain) + 1)' \subseteq Unlisted(chain[m], Len(chain) + 1)
    BY <1>3, <1>4 DEF Unlisted, Shown, Extends
  <2> QED  BY <1>1, <1>2, <1>4, <2>1
<1>5. CASE m \notin DOMAIN chain
  <2>1. at \notin Shown /\ m = Len(chain) + 1 /\ chain'[m] = at  BY <1>1, <1>2, <1>3, <1>5
  <2>2. DOMAIN cat[at].extends # {}  BY <1>2, <2>1 DEF Unlisted, Extends
  <2>3. ~IsLeaf(cat, at)  BY <2>2 DEF IsLeaf
  <2> QED  BY <2>1, <2>3
<1> QED  BY <1>4, <1>5

(* The first entry that is not listed is where the walk goes on: the frame *)
(* in hand is the last entry that has a parent left.                       *)
LEMMA NextFollowsWalk ==
  ASSUME MergeInv, ResolveInv, WalkInv, phase = "call", cat' = cat, Note(at), at \notin Shown,
         NEW z, z = Len(chain) + 1
  PROVE  FollowsWalk(z)'
<1>1. TypeOK /\ LineInv /\ at = Awaited /\ at \in Entries /\ ListInv /\ PathInv
  BY CallFacts DEF TypeOK, WalkInv
<1>2. /\ Len(chain) \in Nat /\ DOMAIN chain = 1..Len(chain)
      /\ \A e : e \in Shown <=> \E n \in DOMAIN chain : chain[n] = e
      /\ \A m : m \in Unshut <=> m \in DOMAIN chain /\ Unlisted(chain[m], z) # {}
  BY <1>1, ChainShape
<1>3. /\ chain' \in Seq(Entries) /\ Len(chain) <= Len(chain') /\ chain'[z] = at
      /\ \A n \in DOMAIN chain : chain'[n] = chain[n]
  BY <1>1, NoteFacts
<1>4. /\ RootEntry' = RootEntry /\ Open(z)' = Unshut
      /\ \A e : Unlisted(e, z)' = Unlisted(e, z)
  <2>1. z \in 1..(Len(chain) + 1)  BY <1>2
  <2>2. /\ RootEntry' = RootEntry
        /\ \A n \in 1..(Len(chain) + 1) :
             Open(n)' = Open(n) /\ \A e : Unlisted(e, n)' = Unlisted(e, n)
    BY <1>1, <1>3, ListStays
  <2> QED  BY <2>1, <2>2 DEF Unshut
<1>5. CASE stack = <<>>
  <2>1. at = RootEntry  BY <1>1, <1>5 DEF Awaited, CalledFor
  <2>2. ASSUME z # 1 PROVE FALSE
    <3>1. 1 \in DOMAIN chain  BY <1>2, <2>2
    <3>2. chain[1] = RootEntry  BY <1>1, <3>1 DEF ListInv, FollowsWalk
    <3> QED  BY <1>2, <2>1, <3>1, <3>2
  <2>3. FollowsWalk(z)' <=> chain'[z] = RootEntry'  BY <2>2 DEF FollowsWalk
  <2> QED  BY <1>3, <1>4, <2>1, <2>3
<1>6. CASE stack # <<>>
  <2>1. /\ IsCatalog(cat) /\ Top.entry \in DOMAIN cat /\ FrameIs(cat, Top, TRUE)
        /\ at = ParentAt(cat, Top.entry, Top.next)
    <3>1. phase # "loop"  OBVIOUS
    <3> QED  BY <1>1, <1>6, <3>1, TopFacts DEF FrameIs
  <2>2. Len(stack) \in Nat /\ DOMAIN stack = 1..Len(stack) /\ Len(stack) \in DOMAIN stack
    BY <1>1, <1>6, StackShape
  <2>3. PICK p \in DOMAIN chain : chain[p] = Top.entry
    BY <1>1, <1>2, <2>2 DEF PathInv, Top
  <2> DEFINE T == Unlisted(Top.entry, z)
  <2>4. Top.next \in T /\ T \in SUBSET Nat /\ \A k \in T : Top.next <= k
    <3>1. Top.next \in DOMAIN Extends(Top.entry)  BY <2>1 DEF FrameIs, Turns, Extends
    <3>2. Extends(Top.entry) \in Seq(Refs)  BY <2>1 DEF IsCatalog, Files, Extends
    <3>3. DOMAIN Extends(Top.entry) \subseteq Nat \ {0}  BY <3>2
    <3>4. \A k \in 1..(Top.next - 1) : ParentAt(cat, Top.entry, k) \in Shown
      BY <1>1, <2>2 DEF PathInv, Top
    <3>5. \A k \in T : k \notin 1..(Top.next - 1)  BY <3>4 DEF Unlisted, Shown
    <3>6. Top.next \in T  BY <2>1, <3>1 DEF Unlisted, Shown
    <3>7. T \subseteq DOMAIN Extends(Top.entry)  BY DEF Unlisted
    <3> HIDE DEF T
    <3>8. \A k \in T : Top.next <= k
      <4>1. ASSUME NEW k \in T PROVE Top.next <= k
        <5>1. k \in Nat \ {0} /\ Top.next \in Nat  BY <3>1, <3>3, <3>7
        <5> QED  BY <3>5, <5>1
      <4> QED  BY <4>1
    <3> QED  BY <3>3, <3>6, <3>7, <3>8
  <2>5. Min(T) = Top.next
    <3> HIDE DEF T
    <3> QED  BY <2>4, FirstIs
  <2>6. p \in Unshut  BY <1>2, <2>3, <2>4
  <2>7. \A m \in Unshut : m <= p
    <3>1. ASSUME NEW m \in Unshut PROVE m <= p
      <4>1. m \in DOMAIN chain /\ OnStack(chain[m])  BY <1>1, <1>2 DEF ListInv
      <4>2. PICK i \in DOMAIN stack : stack[i].entry = chain[m]  BY <4>1 DEF OnStack
      <4>3. CASE i = Len(stack)
        <5>1. chain[m] = chain[p]  BY <2>3, <4>2, <4>3 DEF Top
        <5>2. m = p  BY <1>1, <2>3, <4>1, <5>1, WalkListsOnce
        <5> QED  BY <1>2, <2>3, <5>2
      <4>4. CASE i # Len(stack)
        <5>1. i < Len(stack)  BY <2>2, <4>4
        <5>2. m < p  BY <1>1, <2>2, <2>3, <2>6, <4>1, <4>2, <5>1 DEF PathInv, Top
        <5> QED  BY <1>2, <2>3, <4>1, <5>2
      <4> QED  BY <4>3, <4>4
    <3> QED  BY <3>1
  <2>8. Max(Unshut) = p
    <3>1. Unshut \in SUBSET Nat  BY <1>2
    <3> QED  BY <2>6, <2>7, <3>1, LastIs
  <2>9. chain'[p] = Top.entry  BY <1>3, <2>3
  <2>10. z # 1  BY <1>2, <2>3
  <2>11. FollowsWalk(z)' <=> chain'[z] = ParentAt(cat', Top.entry, Min(Unlisted(Top.entry, z)))
    BY <1>4, <2>6, <2>8, <2>9, <2>10 DEF FollowsWalk
  <2> QED  BY <1>3, <2>1, <2>5, <2>11
<1> QED  BY <1>5, <1>6

(* A call keeps the list in order; what it leaves open is on the stack or  *)
(* is the new entry.                                                       *)
LEMMA NoteKeepsOrder ==
  ASSUME MergeInv, MergeInv', ResolveInv, WalkInv, phase = "call", cat' = cat, Note(at)
  PROVE  /\ \A n \in DOMAIN chain' : FollowsWalk(n)' /\ chain'[n] \in Reach(cat, RootEntry)'
         /\ \A i \in DOMAIN stack :
              /\ stack[i].entry \in Shown'
              /\ \A k \in 1..(stack[i].next - 1) : ParentAt(cat, stack[i].entry, k) \in Shown'
         /\ at \in Shown'
<1>1. /\ TypeOK /\ TypeOK' /\ at \in Entries /\ at \in Reach(cat, RootEntry)
      /\ ListInv /\ PathInv
  BY CallFacts DEF MergeInv, TypeOK, WalkInv
<1>2. Len(chain) \in Nat /\ DOMAIN chain = 1..Len(chain)  BY <1>1, ChainShape
<1>3. /\ chain' \in Seq(Entries) /\ Len(chain) <= Len(chain')
      /\ \A n \in DOMAIN chain : chain'[n] = chain[n]
      /\ at \in Shown => chain' = chain
      /\ at \notin Shown => chain'[Len(chain) + 1] = at /\ DOMAIN chain' = 1..(Len(chain) + 1)
      /\ Shown' = Shown \cup {at}
  BY <1>1, NoteFacts
<1>4. RootEntry' = RootEntry /\ \A n \in DOMAIN chain : FollowsWalk(n)' <=> FollowsWalk(n)
  BY <1>1, <1>3, ListStays
<1>5. ASSUME NEW n \in DOMAIN chain' PROVE FollowsWalk(n)' /\ chain'[n] \in Reach(cat, RootEntry)'
  <2>1. CASE n \in DOMAIN chain  BY <1>1, <1>3, <1>4, <2>1 DEF ListInv
  <2>2. CASE n \notin DOMAIN chain
    <3>1. at \notin Shown /\ n = Len(chain) + 1  BY <1>2, <1>3, <1>5, <2>2
    <3>2. FollowsWalk(n)'  BY <3>1, NextFollowsWalk
    <3> QED  BY <1>1, <1>3, <1>4, <3>1, <3>2
  <2> QED  BY <2>1, <2>2
<1> QED  BY <1>1, <1>3, <1>5 DEF PathInv

LEMMA LeafKeepsWalk == ASSUME MergeInv, MergeInv', ResolveInv, WalkInv, Leaf PROVE WalkInv'
<1> USE DEF Leaf
<1>1. /\ TypeOK /\ TypeOK' /\ at \in Entries /\ at = Awaited /\ ListInv /\ PathInv
      /\ cat' = cat /\ stack' = stack /\ phase' = "return" /\ IsLeaf(cat, at) /\ ~OnStack(at)
  BY CallFacts DEF MergeInv, TypeOK, WalkInv, Extends, IsLeaf
<1>2. /\ \A n \in DOMAIN chain' : FollowsWalk(n)' /\ chain'[n] \in Reach(cat, RootEntry)'
      /\ \A i \in DOMAIN stack :
           /\ stack[i].entry \in Shown'
           /\ \A k \in 1..(stack[i].next - 1) : ParentAt(cat, stack[i].entry, k) \in Shown'
      /\ at \in Shown'
  BY NoteKeepsOrder
<1>3. /\ Len(chain) \in Nat /\ DOMAIN chain = 1..Len(chain)
      /\ \A n \in DOMAIN chain : chain'[n] = chain[n]
      /\ at \in Shown => chain' = chain
      /\ at \notin Shown => chain'[Len(chain) + 1] = at /\ DOMAIN chain' = 1..(Len(chain) + 1)
  BY <1>1, ChainShape, NoteFacts
<1>4. \A m \in Unshut' : m \in Unshut /\ m \in DOMAIN chain  BY <1>1, NoteOpens
<1>5. ListInv'
  <2>1. \A m \in Unshut' : OnStack(chain[m])'  BY <1>1, <1>3, <1>4 DEF ListInv, OnStack
  <2> QED  BY <1>2, <2>1 DEF ListInv
<1>6. ASSUME NEW i \in DOMAIN stack, NEW j \in DOMAIN stack, NEW m \in DOMAIN chain', NEW n \in Unshut',
             i < j, chain'[m] = stack[i].entry, chain'[n] = stack[j].entry
      PROVE  m < n
  <2>1. n \in Unshut /\ n \in DOMAIN chain /\ chain[n] = stack[j].entry  BY <1>3, <1>4, <1>6
  <2>2. m \in DOMAIN chain
    <3>1. chain'[m] # at  BY <1>1, <1>6 DEF OnStack
    <3> QED  BY <1>3, <1>6, <3>1
  <2>3. chain[m] = stack[i].entry  BY <1>3, <1>6, <2>2
  <2> QED  BY <1>1, <1>6, <2>1, <2>2, <2>3 DEF PathInv
<1>7. PathInv'  BY <1>1, <1>2, <1>6 DEF PathInv
<1>8. Awaited' = at  BY <1>1 DEF Awaited, CalledFor, RootEntry
<1> QED  BY <1>1, <1>2, <1>5, <1>7, <1>8 DEF WalkInv, Loading

LEMMA DescendKeepsWalk == ASSUME MergeInv, MergeInv', ResolveInv, WalkInv, Descend PROVE WalkInv'
<1> USE DEF Descend
<1> DEFINE g == [entry |-> at, next |-> 1, resolved |-> {}, merged |-> Blank]
           l == Len(stack)
<1>1. /\ TypeOK /\ TypeOK' /\ at \in Entries /\ at = Awaited /\ ListInv /\ PathInv
      /\ cat' = cat /\ phase' = "loop" /\ ~OnStack(at)
  BY CallFacts DEF MergeInv, TypeOK, WalkInv
<1>2. /\ \A n \in DOMAIN chain' : FollowsWalk(n)' /\ chain'[n] \in Reach(cat, RootEntry)'
      /\ \A i \in DOMAIN stack :
           /\ stack[i].entry \in Shown'
           /\ \A k \in 1..(stack[i].next - 1) : ParentAt(cat, stack[i].entry, k) \in Shown'
      /\ at \in Shown'
  BY NoteKeepsOrder
<1>3. /\ Len(chain) \in Nat /\ DOMAIN chain = 1..Len(chain)
      /\ \A n \in DOMAIN chain : chain'[n] = chain[n]
      /\ at \in Shown => chain' = chain
      /\ at \notin Shown => chain'[Len(chain) + 1] = at /\ DOMAIN chain' = 1..(Len(chain) + 1)
  BY <1>1, ChainShape, NoteFacts
<1>4. g.entry = at /\ g.next = 1 /\ stack' = Append(stack, g)  OBVIOUS
<1> HIDE DEF g
<1>5. /\ l \in Nat /\ DOMAIN stack = 1..l /\ DOMAIN stack' = 1..(l + 1) /\ stack'[l + 1] = g
      /\ \A i \in 1..l : stack'[i] = stack[i]
  <2>1. stack \in Seq(Frames)  BY <1>1 DEF TypeOK
  <2> QED  BY <1>4, <2>1
<1>6. \A m \in Unshut' : \/ m \in Unshut /\ m \in DOMAIN chain
                         \/ m = Len(chain) + 1 /\ at \notin Shown /\ chain'[m] = at
  BY <1>1, NoteOpens
<1>7. ListInv'
  <2>1. ASSUME NEW m \in Unshut' PROVE OnStack(chain[m])'
    <3>1. CASE m \in Unshut /\ m \in DOMAIN chain
      <4>1. PICK i \in DOMAIN stack : stack[i].entry = chain[m]  BY <1>1, <3>1 DEF ListInv, OnStack
      <4>2. i \in DOMAIN stack' /\ stack'[i].entry = chain'[m]  BY <1>3, <1>5, <3>1, <4>1
      <4> QED  BY <4>2 DEF OnStack
    <3>2. CASE chain'[m] = at
      <4>1. l + 1 \in DOMAIN stack' /\ stack'[l + 1].entry = chain'[m]  BY <1>4, <1>5, <3>2
      <4> QED  BY <4>1 DEF OnStack
    <3> QED  BY <1>6, <2>1, <3>1, <3>2
  <2> QED  BY <1>2, <2>1 DEF ListInv
<1>8. ASSUME NEW i \in DOMAIN stack', NEW j \in DOMAIN stack', NEW m \in DOMAIN chain', NEW n \in Unshut',
             i < j, chain'[m] = stack'[i].entry, chain'[n] = stack'[j].entry
      PROVE  m < n
  <2>1. i \in DOMAIN stack /\ stack'[i] = stack[i]  BY <1>5, <1>8
  <2>2. m \in DOMAIN chain /\ chain[m] = stack[i].entry
    <3>1. chain'[m] # at  BY <1>1, <1>8, <2>1 DEF OnStack
    <3> QED  BY <1>3, <1>8, <2>1, <3>1
  <2>3. CASE j = l + 1
    <3>1. chain'[n] = at  BY <1>4, <1>5, <1>8, <2>3
    <3>2. ~(n \in Unshut /\ n \in DOMAIN chain)
      BY <1>1, <1>3, <3>1 DEF ListInv
    <3>3. n = Len(chain) + 1  BY <1>6, <1>8, <3>2
    <3> QED  BY <1>3, <2>2, <3>3
  <2>4. CASE j # l + 1
    <3>1. j \in DOMAIN stack /\ stack'[j] = stack[j]  BY <1>5, <1>8, <2>4
    <3>2. chain'[n] # at  BY <1>1, <1>8, <3>1 DEF OnStack
    <3>3. n \in Unshut /\ n \in DOMAIN chain /\ chain[n] = stack[j].entry
      BY <1>3, <1>6, <1>8, <3>1, <3>2
    <3> QED  BY <1>1, <1>8, <2>1, <2>2, <3>1, <3>3 DEF PathInv
  <2> QED  BY <2>3, <2>4
<1>9. ASSUME NEW i \in DOMAIN stack'
      PROVE  /\ stack'[i].entry \in Shown'
             /\ \A k \in 1..(stack'[i].next - 1) : ParentAt(cat, stack'[i].entry, k) \in Shown'
  <2>1. CASE i = l + 1
    <3>1. stack'[i].entry = at /\ stack'[i].next = 1  BY <1>4, <1>5, <2>1
    <3> QED  BY <1>2, <3>1
  <2>2. CASE i # l + 1
    <3>1. i \in DOMAIN stack /\ stack'[i] = stack[i]  BY <1>5, <1>9, <2>2
    <3> QED  BY <1>2, <3>1
  <2> QED  BY <2>1, <2>2
<1>10. PathInv'  BY <1>1, <1>8, <1>9 DEF PathInv
<1> QED  BY <1>1, <1>7, <1>10 DEF WalkInv, Loading

(* A step of the frame in hand.                                            *)
LEMMA WalkWithTop ==
  ASSUME TypeOK, stack # <<>>, ListInv, PathInv, cat' = cat, chain' = chain,
         NEW g, g.entry = Top.entry, stack' = [stack EXCEPT ![Len(stack)] = g],
         \A k \in 1..(g.next - 1) : ParentAt(cat, g.entry, k) \in Shown
  PROVE  ListInv' /\ PathInv'
<1>1. Len(stack) \in Nat /\ DOMAIN stack = 1..Len(stack) /\ Len(stack) \in DOMAIN stack
  BY StackShape
<1>2. /\ DOMAIN stack' = DOMAIN stack
      /\ \A i \in DOMAIN stack : stack'[i] = IF i = Len(stack) THEN g ELSE stack[i]
      /\ \A i \in DOMAIN stack : stack'[i].entry = stack[i].entry
  BY <1>1 DEF TypeOK, Top
<1>3. /\ Shown' = Shown /\ Unshut' = Unshut /\ RootEntry' = RootEntry
      /\ \A n \in DOMAIN chain : FollowsWalk(n)' <=> FollowsWalk(n)
  <2>1. Len(chain) \in Nat /\ Len(chain) <= Len(chain') /\ chain' \in Seq(Entries)
    BY DEF TypeOK
  <2>2. Len(chain) + 1 \in 1..(Len(chain) + 1)  BY <2>1
  <2>3. /\ RootEntry' = RootEntry
        /\ \A n \in 1..(Len(chain) + 1) : Listed(n)' = Listed(n) /\ Open(n)' = Open(n)
        /\ \A n \in DOMAIN chain : FollowsWalk(n)' <=> FollowsWalk(n)
    BY <2>1, ListStays
  <2> QED  BY <2>2, <2>3 DEF Shown, Unshut
<1>4. ListInv'  BY <1>2, <1>3 DEF ListInv, OnStack
<1>5. ASSUME NEW i \in DOMAIN stack'
      PROVE  /\ stack'[i].entry \in Shown'
             /\ \A k \in 1..(stack'[i].next - 1) : ParentAt(cat, stack'[i].entry, k) \in Shown'
  <2>1. CASE i = Len(stack)  BY <1>1, <1>2, <1>3, <2>1 DEF PathInv, Top
  <2>2. CASE i # Len(stack)  BY <1>2, <1>3, <2>2 DEF PathInv
  <2> QED  BY <2>1, <2>2
<1>6. PathInv'  BY <1>2, <1>3, <1>5 DEF PathInv
<1> QED  BY <1>4, <1>6

LEMMA LoopKeepsWalk ==
  ASSUME MergeInv, ResolveInv, WalkInv, Skip \/ Call \/ MergeParent PROVE WalkInv'
<1>1. /\ TypeOK /\ ListInv /\ PathInv /\ stack # <<>> /\ LineInv
      /\ cat' = cat /\ chain' = chain /\ phase' \in {"loop", "call"}
  <2>1. phase \in {"loop", "return"} /\ stack # <<>>
    BY DEF MergeInv, PhaseInv, Skip, Call, MergeParent, InLoop
  <2>2. TypeOK /\ ListInv /\ PathInv /\ LineInv  BY <2>1 DEF MergeInv, ResolveInv, WalkInv
  <2>3. cat' = cat /\ chain' = chain /\ phase' \in {"loop", "call"}
    BY DEF Skip, Call, MergeParent, InLoop
  <2> QED  BY <2>1, <2>2, <2>3
<1>2. /\ IsCatalog(cat) /\ Top \in Frames /\ FrameIs(cat, Top, phase # "loop")
      /\ Awaited = ParentAt(cat, Top.entry, Top.next)
      /\ Top.next \in Nat \ {0}
  BY <1>1, TopFacts DEF Frames
<1>3. \A k \in 1..(Top.next - 1) : ParentAt(cat, Top.entry, k) \in Shown
  <2>1. Len(stack) \in DOMAIN stack  BY <1>1, StackShape
  <2> QED  BY <1>1, <2>1 DEF PathInv, Top
<1>4. ASSUME Skip \/ MergeParent PROVE ParentAt(cat, Top.entry, Top.next) \in Shown
  <2>1. CASE Skip
    <3>1. /\ phase = "loop" /\ ParentAt(cat, Top.entry, Top.next) \in Top.resolved
      BY <2>1 DEF Skip, InLoop, Parent, NextRef, Extends, ParentAt
    <3>2. Top.resolved = {ParentAt(cat, Top.entry, i) : i \in 1..(Top.next - 1)}
      BY <1>2, <3>1 DEF FrameIs
    <3> QED  BY <1>3, <3>1, <3>2
  <2>2. CASE MergeParent  BY <1>2, <2>2 DEF WalkInv, MergeParent
  <2> QED  BY <1>4, <2>1, <2>2
<1>5. ListInv' /\ PathInv'
  <2>1. PICK g : /\ g.entry = Top.entry /\ stack' = [stack EXCEPT ![Len(stack)] = g]
                 /\ g.next = IF Call THEN Top.next ELSE Top.next + 1
    <3>1. CASE Call
      <4> DEFINE g == [Top EXCEPT !.resolved = @ \cup {Parent}]
      <4>1. g.entry = Top.entry /\ g.next = Top.next  BY <1>2 DEF Frames
      <4>2. stack' = [stack EXCEPT ![Len(stack)] = g]  BY <3>1 DEF Call, Top
      <4> HIDE DEF g
      <4> QED  BY <3>1, <4>1, <4>2
    <3>2. CASE Skip /\ ~Call
      <4> DEFINE g == [Top EXCEPT !.next = @ + 1]
      <4>1. g.entry = Top.entry /\ g.next = Top.next + 1  BY <1>2 DEF Frames
      <4>2. stack' = [stack EXCEPT ![Len(stack)] = g]  BY <3>2 DEF Skip, Top
      <4> HIDE DEF g
      <4> QED  BY <3>2, <4>1, <4>2
    <3>3. CASE MergeParent /\ ~Call
      <4> DEFINE m == Merge(Top.merged, ret)
                 g == [Top EXCEPT !.next = @ + 1, !.merged = m]
      <4>1. stack' = [stack EXCEPT ![Len(stack)] = g]  BY <3>3 DEF MergeParent, Top
      <4> HIDE DEF m
      <4>2. g.entry = Top.entry /\ g.next = Top.next + 1  BY <1>2 DEF Frames
      <4> HIDE DEF g
      <4> QED  BY <3>3, <4>1, <4>2
    <3> QED  BY <3>1, <3>2, <3>3
  <2>2. \A k \in 1..(g.next - 1) : ParentAt(cat, g.entry, k) \in Shown
    <3>1. CASE Call  BY <1>3, <2>1, <3>1
    <3>2. CASE ~Call
      <4>1. 1..(g.next - 1) = (1..(Top.next - 1)) \cup {Top.next}  BY <1>2, <2>1, <3>2
      <4> QED  BY <1>3, <1>4, <2>1, <3>2, <4>1
    <3> QED  BY <3>1, <3>2
  <2> QED  BY <1>1, <2>1, <2>2, WalkWithTop
<1> QED  BY <1>1, <1>5 DEF WalkInv, Loading

LEMMA BodyKeepsWalk == ASSUME MergeInv, MergeInv', ResolveInv, WalkInv, MergeBody PROVE WalkInv'
<1> USE DEF MergeBody
<1> DEFINE l == Len(stack)
<1>1. /\ TypeOK /\ ListInv /\ PathInv /\ stack # <<>> /\ FrameIs(cat, Top, FALSE)
      /\ IsCatalog(cat) /\ Top.entry \in DOMAIN cat
      /\ cat' = cat /\ chain' = chain /\ phase' = "return" /\ Awaited' = Top.entry
  BY LoopFacts, TopFacts, MergeBodyResolves DEF WalkInv
<1>2. /\ l \in Nat /\ l \in DOMAIN stack /\ DOMAIN stack = 1..l
      /\ DOMAIN stack' = 1..(l - 1) /\ \A i \in 1..(l - 1) : stack'[i] = stack[i]
  <2>1. l \in Nat /\ l \in DOMAIN stack /\ DOMAIN stack = 1..l  BY <1>1, StackShape
  <2>2. stack \in Seq(Frames)  BY <1>1 DEF TypeOK
  <2> QED  BY <2>1, <2>2
<1>3. /\ Shown' = Shown /\ Unshut' = Unshut /\ RootEntry' = RootEntry
      /\ \A n \in DOMAIN chain : FollowsWalk(n)' <=> FollowsWalk(n)
  <2>1. Len(chain) \in Nat /\ Len(chain) <= Len(chain') /\ chain' \in Seq(Entries)
    BY <1>1 DEF TypeOK
  <2>2. Len(chain) + 1 \in 1..(Len(chain) + 1)  BY <2>1
  <2>3. /\ RootEntry' = RootEntry
        /\ \A n \in 1..(Len(chain) + 1) : Listed(n)' = Listed(n) /\ Open(n)' = Open(n)
        /\ \A n \in DOMAIN chain : FollowsWalk(n)' <=> FollowsWalk(n)
    BY <1>1, <2>1, ListStays
  <2> QED  BY <1>1, <2>2, <2>3 DEF Shown, Unshut
(* The frame that returns has no parent left.                              *)
<1>4. Unlisted(Top.entry, Len(chain) + 1) = {}
  <2>1. \A k \in 1..(Top.next - 1) : ParentAt(cat, Top.entry, k) \in Shown
    BY <1>1, <1>2 DEF PathInv, Top
  <2>2. /\ Len(cat[Top.entry].extends) \in Nat /\ Top.next \in Nat
        /\ DOMAIN cat[Top.entry].extends = 1..Len(cat[Top.entry].extends)
    BY <1>1, FrameFacts
  <2>3. DOMAIN Extends(Top.entry) \subseteq 1..(Top.next - 1)  BY <2>2 DEF Extends
  <2> QED  BY <2>1, <2>3 DEF Unlisted, Shown
<1>5. ASSUME NEW m \in Unshut PROVE OnStack(chain[m])'
  <2>1. m \in DOMAIN chain /\ Unlisted(chain[m], Len(chain) + 1) # {}  BY <1>1, ChainShape
  <2>2. PICK i \in DOMAIN stack : stack[i].entry = chain[m]  BY <1>1 DEF ListInv, OnStack
  <2>3. i # l  BY <1>4, <2>1, <2>2 DEF Top
  <2>4. i \in DOMAIN stack' /\ stack'[i] = stack[i]  BY <1>2, <2>2, <2>3
  <2> QED  BY <1>1, <2>2, <2>4 DEF OnStack
<1>6. ListInv'  BY <1>1, <1>3, <1>5 DEF ListInv
<1>7. DOMAIN stack' \subseteq DOMAIN stack /\ \A i \in DOMAIN stack' : stack'[i] = stack[i]
  BY <1>2
<1>8. PathInv'
  <2>1. ASSUME NEW i \in DOMAIN stack'
        PROVE  /\ stack'[i].entry \in Shown'
               /\ \A k \in 1..(stack'[i].next - 1) : ParentAt(cat, stack'[i].entry, k) \in Shown'
    BY <1>1, <1>3, <1>7 DEF PathInv
  <2>2. ASSUME NEW i \in DOMAIN stack', NEW j \in DOMAIN stack', NEW m \in DOMAIN chain', NEW n \in Unshut',
               i < j, chain'[m] = stack'[i].entry, chain'[n] = stack'[j].entry
        PROVE  m < n
    <3>1. i \in DOMAIN stack /\ j \in DOMAIN stack /\ m \in DOMAIN chain /\ n \in Unshut
          /\ chain[m] = stack[i].entry /\ chain[n] = stack[j].entry
      BY <1>1, <1>3, <1>7, <2>2
    <3> QED  BY <1>1, <2>2, <3>1 DEF PathInv
  <2> QED  BY <1>1, <2>1, <2>2 DEF PathInv
<1>9. Top.entry \in Shown  BY <1>1, <1>2 DEF PathInv, Top
<1> QED  BY <1>1, <1>3, <1>6, <1>8, <1>9 DEF WalkInv, Loading

LEMMA WalkStep ==
  ASSUME MergeInv, MergeInv', LoadInv, ResolveInv, WalkInv, [Next]_loadVars PROVE WalkInv'
<1>1. CASE Load
  <2>1. phase \in Loading /\ phase' \in Loading \cup {"lookup"} /\ chain' = chain
    BY <1>1 DEF Load, LoadBuiltins, LoadUserProfile, ProfilesLoaded, LoadUserFragment, FragmentsLoaded,
       LeaveOut, Add, Unmoved, Loading
  <2> QED  BY <2>1 DEF WalkInv, Loading
<1>2. CASE Lookup
  <2>1. chain' = <<>> /\ stack' = <<>> /\ phase' \in {"call", "failed"}
    BY <1>2 DEF WalkInv, ResolveInv, Lookup
  <2>2. DOMAIN chain' = {} /\ DOMAIN stack' = {} /\ Unshut' = {}
    <3>1. DOMAIN chain' = {} /\ DOMAIN stack' = {} /\ Len(chain') = 0  BY <2>1
    <3>2. 1..((Len(chain') + 1) - 1) = {}  BY <3>1
    <3> QED  BY <3>1, <3>2 DEF Unshut, Open
  <2> QED  BY <2>1, <2>2 DEF WalkInv, ListInv, PathInv, Loading
<1>3. CASE Cycle \/ Refuse \/ Missing \/ Validate
  <2>1. phase' \in {"failed", "accepted"}  BY <1>3 DEF Cycle, Refuse, Missing, Validate
  <2> QED  BY <2>1 DEF WalkInv, Loading
<1>4. CASE Leaf     BY <1>4, LeafKeepsWalk
<1>5. CASE Descend  BY <1>5, DescendKeepsWalk
<1>6. CASE Skip \/ Call \/ MergeParent  BY <1>6, LoopKeepsWalk
<1>7. CASE MergeBody  BY <1>7, BodyKeepsWalk
<1>8. CASE UNCHANGED loadVars
  <2>1. /\ cat' = cat /\ phase' = phase /\ stack' = stack /\ chain' = chain
    BY <1>8 DEF loadVars, vars
  <2>2. /\ RootEntry' = RootEntry /\ Awaited' = Awaited
        /\ \A n : Listed(n)' = Listed(n) /\ \A e : Unlisted(e, n)' = Unlisted(e, n)
    BY <2>1 DEF RootEntry, CalledFor, Awaited, Listed, Unlisted, Extends
  <2>3. \A n : Open(n)' = Open(n)  BY <2>1, <2>2 DEF Open
  <2>4. \A n : FollowsWalk(n)' <=> FollowsWalk(n)  BY <2>1, <2>2, <2>3 DEF FollowsWalk
  <2>5. Shown' = Shown /\ Unshut' = Unshut  BY <2>1, <2>2, <2>3 DEF Shown, Unshut
  <2>6. ListInv => ListInv'  BY <2>1, <2>2, <2>4, <2>5 DEF ListInv, OnStack
  <2>7. PathInv => PathInv'  BY <2>1, <2>5 DEF PathInv
  <2> QED  BY <2>1, <2>2, <2>5, <2>6, <2>7 DEF WalkInv
<1> QED  BY <1>1, <1>2, <1>3, <1>4, <1>5, <1>6, <1>7, <1>8 DEF Next, Resolve

LEMMA WalkIsWhole == ASSUME MergeInv, ResolveInv, WalkInv PROVE ChainInOrder
<1> SUFFICES ASSUME phase = "return", stack = <<>>
             PROVE  Shown = Reach(cat, RootEntry) /\ \A n \in DOMAIN chain : FollowsWalk(n)
  BY DEF ChainInOrder, Shown
<1>1. /\ TypeOK /\ ListInv /\ RootEntry \in Shown
      /\ \A e : e \in Shown <=> \E n \in DOMAIN chain : chain[n] = e
      /\ \A n : n \in Unshut <=> n \in DOMAIN chain /\ Unlisted(chain[n], Len(chain) + 1) # {}
  <2>1. TypeOK /\ ListInv /\ RootEntry \in Shown
    BY DEF MergeInv, WalkInv, Awaited, CalledFor
  <2> QED  BY <2>1, ChainShape
<1>2. Shown \subseteq Reach(cat, RootEntry)  BY <1>1 DEF ListInv
<1>3. ASSUME NEW n \in DOMAIN chain PROVE Unlisted(chain[n], Len(chain) + 1) = {}
  <2>1. ~OnStack(chain[n])
    <3>1. DOMAIN stack = {}  OBVIOUS
    <3> QED  BY <3>1 DEF OnStack
  <2>2. n \notin Unshut  BY <1>1, <2>1 DEF ListInv
  <2> QED  BY <1>1, <2>2
<1>4. Closed(cat, Shown)
  <2>1. ASSUME NEW x \in Shown, NEW p \in Parents(cat, x) PROVE p \in Shown
    <3>1. PICK n \in DOMAIN chain : chain[n] = x  BY <1>1
    <3>2. PICK i \in DOMAIN Extends(x) : p = ParentAt(cat, x, i)  BY DEF Parents, Extends
    <3> QED  BY <1>3, <3>1, <3>2 DEF Unlisted, Shown
  <2> QED  BY <2>1 DEF Closed
<1>5. Shown \in SUBSET DOMAIN cat  BY <1>2 DEF Reach
<1>6. Reach(cat, RootEntry) \subseteq Shown  BY <1>1, <1>4, <1>5 DEF Reach
<1> QED  BY <1>1, <1>2, <1>6 DEF ListInv

(* chainState: the list that is shown has every entry the profile extends, *)
(* once, in the order of a depth-first walk, for all catalogs.             *)
THEOREM ChainFollowsWalk == Spec => []ChainInOrder
<1>1. Init => WalkInv  BY DEF Init, WalkInv, Loading
<1>2. MergeInv /\ LoadInv /\ (MergeInv /\ LoadInv)' /\ ResolveInv /\ WalkInv /\ [Next]_loadVars
      => WalkInv'
  BY WalkStep
<1>3. MergeInv /\ ResolveInv /\ WalkInv => ChainInOrder  BY WalkIsWhole
<1> QED  BY <1>1, <1>2, <1>3, MergeInvariant, FramesFollowCatalog, PTL DEF Spec

-----------------------------------------------------------------------------
(* That a resolution ends.  Its position is read off the stack: for the    *)
(* caller (0) and for each frame which parent it is at, and whether it is  *)
(* about to look at it, waits for it or has it.  With every step the       *)
(* position is a later one in lexicographic order, a catalog has only      *)
(* bounded ones, and among those nothing gets later forever.               *)

Over == phase \in {"accepted", "failed"}
Depth == IF Over THEN 0 ELSE Len(stack)
Turn(i) == IF i = 0 THEN (IF Over THEN 1 ELSE 0) ELSE stack[i].next
Stage(i) == IF i < Depth THEN 1
            ELSE IF phase = "return" THEN 2 ELSE IF phase = "call" THEN 1 ELSE 0
Digit(i) == IF i > Depth THEN 0 ELSE 3 * Turn(i) + Stage(i)
Position == [i \in Nat |-> Digit(i)]

Later(p, q) == \E i \in Nat : p[i] < q[i] /\ \A j \in Nat : j < i => q[j] = p[j]
Positions(D, B) == {p \in [Nat -> 0..B] : \A i \in Nat : i > D => p[i] = 0}

(* From N on the digits before i stay.                                     *)
Steady(f, i, N) == \A n \in Nat : n >= N => \A j \in Nat : j < i => f[n][j] = f[N][j]

(* A bounded number that never decreases stays, from some point on.        *)
LEMMA GrowsToAnEnd ==
  ASSUME NEW B \in Nat, NEW g \in [Nat -> 0..B], NEW N \in Nat,
         \A n \in Nat : n >= N => g[n] <= g[n + 1]
  PROVE  \E M \in Nat : M >= N /\ \A n \in Nat : n >= M => g[n] = g[M]
<1> DEFINE T == {B - g[n] : n \in {m \in Nat : m >= N}}
<1>1. T \in SUBSET Nat /\ T # {}
  <2>1. ASSUME NEW n \in Nat PROVE B - g[n] \in Nat
    <3>1. g[n] \in 0..B  OBVIOUS
    <3> QED  BY <3>1
  <2>2. B - g[N] \in T  OBVIOUS
  <2> QED  BY <2>1, <2>2
<1> HIDE DEF T
<1>2. PICK t \in T : \A x \in T : t <= x  BY <1>1, FirstPlace
<1>3. PICK M \in {m \in Nat : m >= N} : t = B - g[M]  BY <1>2 DEF T
<1>4. ASSUME NEW n \in Nat, n >= N PROVE g[n] <= g[M]
  <2>1. B - g[n] \in T  BY <1>4 DEF T
  <2>2. B - g[M] <= B - g[n]  BY <1>2, <1>3, <2>1
  <2>3. g[n] \in 0..B /\ g[M] \in 0..B  OBVIOUS
  <2> QED  BY <2>2, <2>3
<1> DEFINE U == {n \in Nat : n >= M /\ g[n] # g[M]}
<1>5. U = {}
  <2> SUFFICES ASSUME U # {} PROVE FALSE  OBVIOUS
  <2>1. PICK u \in U : \A x \in U : u <= x  BY FirstPlace
  <2>2. u \in Nat /\ u >= M /\ u # M /\ g[u] # g[M]  BY <2>1
  <2>3. u - 1 \in Nat /\ u - 1 >= M /\ u - 1 \notin U  BY <2>1, <2>2
  <2>4. g[u - 1] = g[M]  BY <2>3
  <2>5. u - 1 >= N /\ (u - 1) + 1 = u  BY <2>2, <2>3
  <2>6. g[u - 1] <= g[u]  BY <2>3, <2>5
  <2>7. g[u] <= g[M]  BY <1>4, <2>2
  <2>8. g[u] \in Nat /\ g[M] \in Nat  BY <2>2
  <2>9. g[M] <= g[u]  BY <2>4, <2>6
  <2> QED  BY <2>2, <2>7, <2>8, <2>9
<1> QED  BY <1>5

(* If the digits before i stay then so does that at i, later on.           *)
LEMMA OneMoreSteady ==
  ASSUME NEW D \in Nat, NEW B \in Nat, NEW f \in [Nat -> Positions(D, B)],
         \A n \in Nat : Later(f[n], f[n + 1]),
         NEW i \in Nat, NEW N \in Nat, Steady(f, i, N)
  PROVE  \E M \in Nat : Steady(f, i + 1, M)
<1> DEFINE g == [n \in Nat |-> f[n][i]]
<1>1. \A n, j \in Nat : f[n] \in [Nat -> 0..B] /\ f[n][j] \in 0..B
  BY DEF Positions
<1>2. g \in [Nat -> 0..B]  BY <1>1
<1>3. ASSUME NEW n \in Nat, n >= N PROVE f[n][i] <= f[n + 1][i]
  <2>1. PICK k \in Nat : f[n][k] < f[n + 1][k] /\ \A j \in Nat : j < k => f[n + 1][j] = f[n][j]
    BY DEF Later
  <2>2. ~(k < i)
    <3> SUFFICES ASSUME k < i PROVE FALSE  OBVIOUS
    <3>1. n + 1 \in Nat /\ n + 1 >= N  BY <1>3
    <3>2. f[n][k] = f[N][k] /\ f[n + 1][k] = f[N][k]  BY <1>3, <3>1 DEF Steady
    <3>3. f[n][k] \in 0..B  BY <1>1
    <3> QED  BY <2>1, <3>2, <3>3
  <2>3. f[n][i] \in 0..B /\ f[n + 1][i] \in 0..B
    <3>1. n + 1 \in Nat  OBVIOUS
    <3> QED  BY <1>1, <3>1, Zenon
  <2> QED  BY <2>1, <2>2, <2>3
<1>4. PICK M \in Nat : M >= N /\ \A n \in Nat : n >= M => g[n] = g[M]
  <2>1. \A n \in Nat : n >= N => g[n] <= g[n + 1]  BY <1>3
  <2> HIDE DEF g
  <2> QED  BY <1>2, <2>1, GrowsToAnEnd
<1>5. ASSUME NEW n \in Nat, n >= M, NEW j \in Nat, j < i + 1 PROVE f[n][j] = f[M][j]
  <2>1. CASE j = i  BY <1>4, <1>5, <2>1
  <2>2. CASE j # i
    <3>1. j < i /\ n >= N  BY <1>4, <1>5, <2>2
    <3>2. f[n][j] = f[N][j] /\ f[M][j] = f[N][j]  BY <1>4, <3>1 DEF Steady
    <3> QED  BY <3>2
  <2> QED  BY <2>1, <2>2
<1> QED  BY <1>5 DEF Steady

(* Positions of bounded length and bounded digits cannot get later         *)
(* forever: from the first digit on each comes to stay.                    *)
THEOREM NoEndlessWalk ==
  ASSUME NEW D \in Nat, NEW B \in Nat, NEW f \in [Nat -> Positions(D, B)]
  PROVE  ~\A n \in Nat : Later(f[n], f[n + 1])
<1> SUFFICES ASSUME \A n \in Nat : Later(f[n], f[n + 1]) PROVE FALSE  OBVIOUS
<1> DEFINE U == {i \in Nat : ~\E N \in Nat : Steady(f, i, N)}
<1>1. U = {}
  <2> SUFFICES ASSUME U # {} PROVE FALSE  OBVIOUS
  <2>1. PICK u \in U : \A x \in U : u <= x  BY FirstPlace
  <2>2. u # 0
    <3>1. Steady(f, 0, 0)  BY DEF Steady
    <3> QED  BY <3>1
  <2>3. u - 1 \in Nat /\ u - 1 \notin U /\ (u - 1) + 1 = u  BY <2>1, <2>2
  <2>4. PICK N \in Nat : Steady(f, u - 1, N)  BY <2>3
  <2>5. \E M \in Nat : Steady(f, (u - 1) + 1, M)  BY <2>3, <2>4, OneMoreSteady
  <2> QED  BY <2>3, <2>5
<1>2. PICK N \in Nat : Steady(f, D + 1, N)
  <2>1. D + 1 \in Nat  OBVIOUS
  <2> QED  BY <1>1, <2>1, Zenon
<1>3. PICK k \in Nat : f[N][k] < f[N + 1][k]  BY DEF Later
<1>4. \A n, j \in Nat : f[n][j] \in 0..B /\ (j > D => f[n][j] = 0)  BY DEF Positions
<1>5. N + 1 \in Nat /\ N + 1 >= N  OBVIOUS
<1>6. CASE k <= D
  <2>1. k < D + 1  BY <1>6
  <2>2. f[N + 1][k] = f[N][k]  BY <1>2, <1>5, <2>1 DEF Steady
  <2>3. f[N][k] \in 0..B  BY <1>4
  <2> QED  BY <1>3, <2>2, <2>3
<1>7. CASE k > D
  <2>1. f[N][k] = 0 /\ f[N + 1][k] = 0  BY <1>4, <1>5, <1>7
  <2> QED  BY <1>3, <2>1
<1> QED  BY <1>6, <1>7

(* The digits of a position: none beyond the frames, and the place to look *)
(* at if a step makes it a later one.                                      *)
LEMMA LaterAt ==
  ASSUME NEW i \in Nat, Digit(i) < Digit(i)', \A j \in Nat : j < i => Digit(j)' = Digit(j)
  PROVE  Later(Position, Position')
<1>1. \A j \in Nat : Position[j] = Digit(j) /\ Position'[j] = Digit(j)'
  BY DEF Position
<1> QED  BY <1>1 DEF Later

(* A frame below the one in hand waits, before the step and after.         *)
LEMMA LowerDigits ==
  ASSUME TypeOK, ~Over, ~Over', NEW n \in Nat, n <= Len(stack), n <= Len(stack'),
         \A j \in 1..(n - 1) : stack'[j].next = stack[j].next
  PROVE  \A j \in Nat : j < n => Digit(j)' = Digit(j)
<1> SUFFICES ASSUME NEW j \in Nat, j < n PROVE Digit(j)' = Digit(j)  OBVIOUS
<1>1. Depth = Len(stack) /\ Depth' = Len(stack') /\ Len(stack) \in Nat
  BY StackShape DEF Depth
<1>2. j < Len(stack) /\ j < Len(stack')  BY <1>1
<1>3. Stage(j) = 1 /\ Stage(j)' = 1  BY <1>1, <1>2 DEF Stage
<1>4. Turn(j)' = Turn(j)
  <2>1. CASE j = 0  BY <2>1 DEF Turn
  <2>2. CASE j # 0  BY <2>2 DEF Turn
  <2> QED  BY <2>1, <2>2
<1> QED  BY <1>1, <1>2, <1>3, <1>4 DEF Digit

(* Stopping is later than everything.                                      *)
LEMMA StopIsLater == ASSUME TypeOK, ~Over, Over' PROVE Later(Position, Position')
<1>1. Len(stack) \in Nat  BY StackShape
<1>2. Digit(0) \in 0..2  BY <1>1 DEF Digit, Turn, Stage, Depth
<1>3. Digit(0)' = 3  BY DEF Digit, Turn, Stage, Depth, Over
<1>4. Digit(0) < Digit(0)'  BY <1>2, <1>3
<1> QED  BY <1>4, LaterAt

LEMMA StepIsLater ==
  ASSUME MergeInv, MergeInv', ResolveInv, Resolve PROVE Later(Position, Position')
<1>1. TypeOK /\ TypeOK' /\ StackInv  BY DEF MergeInv
<1>2. ~Over
  BY DEF Over, Resolve, Lookup, Cycle, Leaf, Refuse, Descend, Missing, Skip, Call, MergeParent, MergeBody,
     Validate, InLoop
<1>3. CASE Over'  BY <1>1, <1>2, <1>3, StopIsLater
<1>4. CASE ~Over'
  <2> USE <1>1, <1>2, <1>4
  <2>0. PICK n \in Nat : n = Len(stack)
    <3>1. Len(stack) \in Nat  BY StackShape
    <3> QED  BY <3>1, Zenon
  <2>1. n = Len(stack) /\ (n = 0 <=> stack = <<>>) /\ (n # 0 => stack[n] \in Frames /\ Top = stack[n])
    BY <2>0, StackShape DEF TypeOK, Top
  <2>2. CASE Lookup
    <3>1. phase = "lookup" /\ phase' = "call" /\ stack = <<>> /\ stack' = <<>>
      BY <2>2 DEF Lookup, Over, ResolveInv
    <3>2. Digit(0) = 0 /\ Digit(0)' = 1  BY <3>1 DEF Digit, Turn, Stage, Depth
    <3> QED  BY <3>2, LaterAt
  <2>3. CASE Leaf
    <3>1. phase = "call" /\ phase' = "return" /\ stack' = stack  BY <2>3 DEF Leaf
    <3>2. \A j \in Nat : j < n => Digit(j)' = Digit(j)  BY <2>1, <3>1, LowerDigits
    <3>3. Digit(n) < Digit(n)'
      <4>1. Turn(n)' = Turn(n) /\ Turn(n) \in Nat /\ Depth = n /\ Depth' = n
        BY <2>1, <3>1 DEF Turn, Depth, Frames
      <4> QED  BY <2>1, <3>1, <4>1 DEF Digit, Stage
    <3> QED  BY <2>1, <3>2, <3>3, LaterAt
  <2>4. CASE Descend
    <3>1. phase = "call" /\ phase' = "loop"  BY <2>4 DEF Descend
    <3>2. /\ Len(stack') = n + 1 /\ stack'[n + 1].next = 1
          /\ \A j \in 1..n : stack'[j] = stack[j]
      BY <2>1, <2>4 DEF Descend, TypeOK
    <3>3. Depth = n /\ Depth' = n + 1  BY <2>1, <3>2 DEF Depth
    <3>4. \A j \in Nat : j < n + 1 => Digit(j)' = Digit(j)
      <4> SUFFICES ASSUME NEW j \in Nat, j < n + 1 PROVE Digit(j)' = Digit(j)  OBVIOUS
      <4>1. Stage(j) = 1 /\ Stage(j)' = 1  BY <2>1, <3>1, <3>3 DEF Stage
      <4>2. Turn(j)' = Turn(j)  BY <2>1, <3>2 DEF Turn
      <4> QED  BY <2>1, <3>3, <4>1, <4>2 DEF Digit
    <3>5. Digit(n + 1) < Digit(n + 1)'
      <4>1. Turn(n + 1)' = 1 /\ Stage(n + 1)' = 0  BY <3>1, <3>2, <3>3 DEF Turn, Stage
      <4> QED  BY <3>3, <4>1 DEF Digit
    <3>6. n + 1 \in Nat  BY <2>1
    <3> QED  BY <3>4, <3>5, <3>6, LaterAt
  <2>5. CASE Skip \/ Call \/ MergeParent
    <3>1. n # 0 /\ stack # <<>>
      BY <2>1, <2>5 DEF MergeInv, PhaseInv, Skip, Call, MergeParent, InLoop
    <3>2. Len(stack') = n /\ (\A j \in 1..(n - 1) : stack'[j] = stack[j])
      BY <2>1, <2>5 DEF Skip, Call, MergeParent, TypeOK
    <3>3. Top \in Frames /\ Top = stack[n]  BY <2>1, <3>1
    <3>4. \/ phase = "loop" /\ phase' = "loop" /\ stack'[n].next = Top.next + 1
          \/ phase = "loop" /\ phase' = "call" /\ stack'[n].next = Top.next
          \/ phase = "return" /\ phase' = "loop" /\ stack'[n].next = Top.next + 1
      <4>1. n \in DOMAIN stack /\ n = Len(stack)  BY <2>1, <3>1, StackShape
      <4>2. CASE Skip  BY <3>3, <4>1, <4>2 DEF Skip, InLoop, Top, Frames
      <4>3. CASE Call  BY <3>3, <4>1, <4>3 DEF Call, InLoop, Top, Frames
      <4>4. CASE MergeParent  BY <3>3, <4>1, <4>4 DEF MergeParent, Top, Frames
      <4> QED  BY <2>5, <4>2, <4>3, <4>4
    <3>5. Depth = n /\ Depth' = n  BY <2>1, <3>2 DEF Depth
    <3>6. Turn(n) = Top.next /\ Turn(n)' = stack'[n].next /\ Top.next \in Nat
      BY <3>1, <3>3 DEF Turn, Frames
    <3>7. Digit(n) < Digit(n)'
      <4>1. Digit(n) = 3 * Top.next + Stage(n) /\ Digit(n)' = 3 * stack'[n].next + Stage(n)'
        BY <3>5, <3>6 DEF Digit
      <4>2. /\ phase = "loop" => Stage(n) = 0
            /\ phase = "return" => Stage(n) = 2
            /\ phase' = "loop" => Stage(n)' = 0
            /\ phase' = "call" => Stage(n)' = 1
        BY <3>5 DEF Stage
      <4>3. Top.next \in Nat  BY <3>6
      <4> QED  BY <3>4, <4>1, <4>2, <4>3
    <3>8. \A j \in Nat : j < n => Digit(j)' = Digit(j)  BY <2>1, <3>2, LowerDigits
    <3> QED  BY <2>1, <3>7, <3>8, LaterAt
  <2>6. CASE MergeBody
    <3>1. n # 0 /\ phase = "loop" /\ phase' = "return"
      BY <2>1, <2>6 DEF MergeInv, PhaseInv, MergeBody
    <3>2. Len(stack') = n - 1 /\ (\A j \in 1..(n - 1) : stack'[j] = stack[j])
      BY <2>1, <2>6, <3>1 DEF MergeBody, TypeOK
    <3>3. Depth = n /\ Depth' = n - 1 /\ n - 1 \in Nat  BY <2>1, <3>1, <3>2 DEF Depth
    <3>4. Digit(n - 1) < Digit(n - 1)'
      <4>1. Turn(n - 1)' = Turn(n - 1) /\ Turn(n - 1) \in Nat
        <5>1. CASE n - 1 = 0  BY <5>1 DEF Turn
        <5>2. CASE n - 1 # 0
          <6>1. n - 1 \in DOMAIN stack /\ stack'[n - 1] = stack[n - 1]
            BY <2>1, <3>2, <3>3, <5>2, StackShape
          <6> QED  BY <5>2, <6>1, StackShape DEF Turn, Frames
        <5> QED  BY <5>1, <5>2
      <4> QED  BY <3>1, <3>3, <4>1 DEF Digit, Stage
    <3>5. \A j \in Nat : j < n - 1 => Digit(j)' = Digit(j)
      <4>1. n - 1 <= Len(stack) /\ n - 1 <= Len(stack')  BY <2>1, <3>2, <3>3
      <4>2. \A j \in 1..((n - 1) - 1) : stack'[j].next = stack[j].next  BY <3>2
      <4> QED  BY <3>3, <4>1, <4>2, LowerDigits, Zenon
    <3> QED  BY <3>3, <3>4, <3>5, LaterAt
  <2>7. CASE Cycle \/ Refuse \/ Missing \/ Validate
    BY <2>7 DEF Cycle, Refuse, Missing, Validate, Over
  <2> QED  BY <2>2, <2>3, <2>4, <2>5, <2>6, <2>7 DEF Resolve
<1> QED  BY <1>3, <1>4

(* resolveChain: whatever the catalog, each step of a resolution goes on   *)
(* to a later position, never back to one it has been at.                  *)
WalkGoesOn == [][Load \/ Later(Position, Position')]_loadVars
THEOREM EachStepGoesOn == Spec => WalkGoesOn
<1>1. MergeInv /\ (MergeInv /\ LoadInv)' /\ ResolveInv /\ [Next]_loadVars
      => [Load \/ Later(Position, Position')]_loadVars
  BY StepIsLater DEF Next
<1> QED  BY <1>1, MergeInvariant, FramesFollowCatalog, PTL DEF Spec, WalkGoesOn

(* A catalog of at most D entries that extend at most B others each.       *)
FitsIn(D, B) ==
  /\ IsFiniteSet(DOMAIN cat) /\ Cardinality(DOMAIN cat) <= D
  /\ \A e \in DOMAIN cat : Len(Extends(e)) <= B

(* The path is simple, so it is no longer than the catalog is large.       *)
LEMMA PathIsShort ==
  ASSUME TypeOK, PathIsSimple, NEW D \in Nat, NEW B \in Nat, FitsIn(D, B)
  PROVE  Len(stack) \in Nat /\ Len(stack) <= D
<1> DEFINE n == Len(stack)
           p == [i \in 1..n |-> stack[i].entry]
<1>1. n \in Nat /\ DOMAIN stack = 1..n /\ \A i \in 1..n : stack[i].entry \in DOMAIN cat
  BY StackShape
<1>2. p \in Injection(1..n, DOMAIN cat)
  <2>1. p \in [1..n -> DOMAIN cat]  BY <1>1
  <2>2. \A i, j \in 1..n : p[i] = p[j] => i = j  BY <1>1 DEF PathIsSimple
  <2> QED  BY <2>1, <2>2 DEF Injection, IsInjective
<1> HIDE DEF p
<1>3. Cardinality(1..n) <= Cardinality(DOMAIN cat)  BY <1>2, FS_Injection, Zenon DEF FitsIn
<1>4. Cardinality(1..n) = n
  <2>1. Cardinality(1..n) = IF 1 > n THEN 0 ELSE n - 1 + 1
    <3>1. n \in Int /\ 1 \in Int  BY <1>1
    <3> QED  BY <3>1, FS_Interval, Zenon
  <2> QED  BY <1>1, <2>1
<1>5. Cardinality(DOMAIN cat) \in Nat /\ Cardinality(DOMAIN cat) <= D
  BY FS_CardinalityType DEF FitsIn
<1> QED  BY <1>1, <1>3, <1>4, <1>5

LEMMA PositionIsBounded ==
  ASSUME MergeInv, ResolveInv, LoadInv, NEW D \in Nat, NEW B \in Nat, FitsIn(D, B)
  PROVE  Position \in Positions(D, 3 * B + 5)
<1>1. TypeOK /\ PathIsSimple  BY DEF MergeInv, StackInv
<1>2. Len(stack) \in Nat /\ Len(stack) <= D  BY <1>1, PathIsShort
<1>3. Depth \in Nat /\ Depth <= D  BY <1>2 DEF Depth
<1>4. ASSUME NEW i \in Nat, i # 0, i <= Depth PROVE Turn(i) \in 0..(B + 1)
  <2>1. ~Over /\ i \in DOMAIN stack  BY <1>1, <1>2, <1>4, StackShape DEF Depth
  <2>2. LineInv
    <3>1. stack # <<>>  BY <2>1
    <3>2. phase \in {"call", "loop", "return"}
      BY <1>1, <2>1, <3>1 DEF TypeOK, Resolving, LoadInv, ResolveInv, Over
    <3> QED  BY <3>2 DEF ResolveInv
  <2>3. stack[i].next \in 1..(Len(Extends(stack[i].entry)) + 1) /\ stack[i].entry \in DOMAIN cat
    BY <1>1, <2>1, <2>2, StackShape DEF LineInv, FrameIs, Extends
  <2>4. Len(Extends(stack[i].entry)) \in Nat
    <3>1. Extends(stack[i].entry) \in Seq(Refs)  BY <1>1, <2>3 DEF TypeOK, IsCatalog, Files, Extends
    <3> QED  BY <3>1
  <2>5. Len(Extends(stack[i].entry)) <= B  BY <2>3 DEF FitsIn
  <2> QED  BY <1>4, <2>3, <2>4, <2>5 DEF Turn
<1>5. ASSUME NEW i \in Nat PROVE Digit(i) \in 0..(3 * B + 5) /\ (i > D => Digit(i) = 0)
  <2>1. Stage(i) \in 0..2  BY DEF Stage
  <2>2. CASE i > Depth  BY <1>3, <2>2 DEF Digit
  <2>3. CASE i <= Depth
    <3>1. Turn(i) \in 0..(B + 1)  BY <1>4, <2>3 DEF Turn
    <3>2. ~(i > D) /\ ~(i > Depth)  BY <1>3, <2>3
    <3> QED  BY <2>1, <3>1, <3>2 DEF Digit
  <2> QED  BY <1>3, <2>2, <2>3
<1> QED  BY <1>5 DEF Position, Positions

(* In a catalog of a given size a resolution has a bounded position: it    *)
(* goes no deeper than there are entries.                                  *)
THEOREM WalkIsBounded ==
  ASSUME NEW D \in Nat, NEW B \in Nat
  PROVE  Spec => [](FitsIn(D, B) => Position \in Positions(D, 3 * B + 5))
<1>1. MergeInv /\ LoadInv /\ ResolveInv => (FitsIn(D, B) => Position \in Positions(D, 3 * B + 5))
  BY PositionIsBounded
<1> QED  BY <1>1, MergeInvariant, FramesFollowCatalog, PTL
=============================================================================
