---------------------------- MODULE ProfileMerge ----------------------------
(***************************************************************************)
(* The resolution of a profile: its extends chain is walked depth first,   *)
(* every entry is merged over what was merged before it, and each value    *)
(* carries the contributor it is credited to, by which the approval gate   *)
(* decides whether it is the user's own.                                   *)
(*                                                                         *)
(* The recursion of resolveChain is an explicit stack, one frame per call. *)
(* A value stands for itself as the entry whose file declares it, so a     *)
(* credit is right when it equals the value.                               *)
(*                                                                         *)
(* Source: internal/profile/merge.go, provenance.go, ref.go.               *)
(***************************************************************************)
EXTENDS Naturals, Sequences

CONSTANTS
  Names,      \* entry names
  Scalars,    \* fields with one value: image, command, network, memory ...
  Required,   \* those a profile cannot be without
  MapFields,  \* fields with keys: mounts, environment, dbus.talk ...
  Keys,       \* their keys
  Packages,   \* package names
  Root,       \* the name of the profile to resolve
  Nobody      \* no value; the contributor without a name, who is trusted

Entries == {"user", "core"} \X Names
(* A reference names a namespace or, without one, prefers the user's.      *)
Refs == [ns : {"any", "core"}, name : Names]

Nulls == [scalars : SUBSET Scalars, fields : SUBSET MapFields,
          keys : [MapFields -> SUBSET Keys], packages : BOOLEAN]
(* What a file says; a key that is null is declared as well.               *)
Files == [extends : Seq(Refs), fragment : BOOLEAN, scalars : SUBSET Scalars,
          keys : [MapFields -> SUBSET Keys], packages : SUBSET Packages, nulls : Nulls]

ASSUME NobodyAssumption == Nobody \notin Entries
ASSUME RequiredAssumption == Required \subseteq Scalars
ASSUME RootAssumption == Root \in Refs
IsCatalog(c) == DOMAIN c \subseteq Entries /\ c \in [DOMAIN c -> Files]

VARIABLES
  cat,    \* the catalog
  phase,  \* of loading; lookup, call, loop, return, accepted, failed
  at,     \* the entry resolveChain is called for
  ret,    \* what the last call returned
  stack,  \* the frames of the calls in progress
  chain   \* the entries met, for display

Loading == {"builtins", "profiles", "fragments", "unloaded"}
Resolving == {"lookup", "call", "loop", "return", "accepted", "failed"}

vars == <<cat, phase, at, ret, stack, chain>>

Empty == [x \in {} |-> Nobody]
NoNulls == [scalars |-> {}, fields |-> {}, keys |-> [f \in MapFields |-> {}], packages |-> FALSE]

(* RawProfile{}                                                            *)
Blank == [name |-> Nobody,
          scalars |-> [s \in Scalars |-> Nobody], scalarsBy |-> [s \in Scalars |-> Nobody],
          maps |-> [f \in MapFields |-> Empty], mapsBy |-> [f \in MapFields |-> Empty],
          packages |-> Empty, packagesBy |-> Empty, nulls |-> NoNulls]

(* An entry as it was parsed.                                              *)
Get(e) ==
  [name |-> e,
   scalars |-> [s \in Scalars |-> IF s \in cat[e].scalars THEN e ELSE Nobody],
   scalarsBy |-> [s \in Scalars |-> Nobody],
   maps |-> [f \in MapFields |-> [k \in cat[e].keys[f] |-> e]],
   mapsBy |-> [f \in MapFields |-> Empty],
   packages |-> [p \in cat[e].packages |-> e], packagesBy |-> Empty,
   nulls |-> cat[e].nulls]

(* Mutant: an entry that extends nothing is credited with nothing.         *)
NoProvenance(r) == r

InitProvenance(r) ==
  [r EXCEPT !.scalarsBy = [s \in Scalars |-> IF r.scalars[s] = Nobody THEN Nobody ELSE r.name],
            !.mapsBy = [f \in MapFields |-> [k \in DOMAIN r.maps[f] |-> r.name]],
            !.packagesBy = [p \in DOMAIN r.packages |-> r.name]]

ResolveRef(c, ref) ==
  IF ref.ns = "any" /\ <<"user", ref.name>> \in DOMAIN c THEN <<"user", ref.name>>
  ELSE <<"core", ref.name>>
Known(ref) == ResolveRef(cat, ref) \in DOMAIN cat

-----------------------------------------------------------------------------
(* Merging.                                                                *)

MergeScalar(parent, child, null) ==
  IF null THEN Nobody ELSE IF child # Nobody THEN child ELSE parent

MergeScalarProv(parentProv, child, childProv, contributor, null) ==
  IF null THEN Nobody
  ELSE IF child = Nobody THEN parentProv
  ELSE IF childProv # Nobody THEN childProv ELSE contributor

MergeMap(parent, child, nullKeys, all) ==
  IF all THEN Empty
  ELSE [k \in (DOMAIN parent \cup DOMAIN child) \ nullKeys |->
          IF k \in DOMAIN child THEN child[k] ELSE parent[k]]

MergeProvMap(parentProv, childProv, childKeys, nullKeys, all, contributor) ==
  IF all THEN Empty
  ELSE [k \in (DOMAIN parentProv \cup childKeys) \ nullKeys |->
          IF k \notin childKeys THEN parentProv[k]
          ELSE IF k \in DOMAIN childProv THEN childProv[k] ELSE contributor]

(* Packages add up; the first to declare one is credited with it.          *)
MergePackages(parent, child, null) ==
  IF null THEN Empty
  ELSE [p \in DOMAIN parent \cup DOMAIN child |->
          IF p \in DOMAIN parent THEN parent[p] ELSE child[p]]

MergePackageProv(parentProv, childPkgs, childProv, null, contributor) ==
  IF null THEN Empty
  ELSE [p \in DOMAIN parentProv \cup childPkgs |->
          IF p \in DOMAIN parentProv THEN parentProv[p]
          ELSE IF p \in DOMAIN childProv THEN childProv[p] ELSE contributor]

(* MergeProfiles: the result has the parent's name and no tombstones.      *)
Merge(parent, child) ==
  LET n == child.nulls IN
  [name |-> parent.name,
   scalars |-> [s \in Scalars |->
     MergeScalar(parent.scalars[s], child.scalars[s], s \in n.scalars)],
   scalarsBy |-> [s \in Scalars |->
     MergeScalarProv(parent.scalarsBy[s], child.scalars[s], child.scalarsBy[s],
                     child.name, s \in n.scalars)],
   maps |-> [f \in MapFields |->
     MergeMap(parent.maps[f], child.maps[f], n.keys[f], f \in n.fields)],
   mapsBy |-> [f \in MapFields |->
     MergeProvMap(parent.mapsBy[f], child.mapsBy[f], DOMAIN child.maps[f],
                  n.keys[f], f \in n.fields, child.name)],
   packages |-> MergePackages(parent.packages, child.packages, n.packages),
   packagesBy |-> MergePackageProv(parent.packagesBy, DOMAIN child.packages,
                                   child.packagesBy, n.packages, child.name),
   nulls |-> NoNulls]

-----------------------------------------------------------------------------
(* Resolving.                                                              *)

Top == stack[Len(stack)]
Extends(e) == cat[e].extends
OnStack(e) == \E i \in DOMAIN stack : stack[i].entry = e
Met(e) == \E i \in DOMAIN chain : chain[i] = e
(* Mutant: an entry is listed at each of its places.                       *)
NoteEvery(e) == chain' = Append(chain, e)
(* The part of chainState every call changes.                              *)
Note(e) == chain' = IF Met(e) THEN chain ELSE Append(chain, e)

Lookup ==
  /\ phase = "lookup"
  /\ IF Known(Root) THEN phase' = "call" /\ at' = ResolveRef(cat, Root)
     ELSE phase' = "failed" /\ UNCHANGED at
  /\ UNCHANGED <<cat, ret, stack, chain>>

(* Mutant: an entry met in another branch counts as a cycle.               *)
AnyRepeat ==
  /\ phase = "call" /\ (OnStack(at) \/ Met(at)) /\ Note(at)
  /\ phase' = "failed"
  /\ UNCHANGED <<cat, at, ret, stack>>

Cycle ==
  /\ phase = "call" /\ OnStack(at) /\ Note(at)
  /\ phase' = "failed"
  /\ UNCHANGED <<cat, at, ret, stack>>

Leaf ==
  /\ phase = "call" /\ ~OnStack(at) /\ Note(at)
  /\ Extends(at) = <<>>
  /\ phase' = "return" /\ ret' = InitProvenance(Get(at))
  /\ UNCHANGED <<cat, at, stack>>

(* Fragments may extend only fragments.                                    *)
Composes(e) ==
  cat[e].fragment =>
    \A i \in DOMAIN Extends(e) :
      Known(Extends(e)[i]) /\ cat[ResolveRef(cat, Extends(e)[i])].fragment

Refuse ==
  /\ phase = "call" /\ ~OnStack(at) /\ Note(at)
  /\ Extends(at) # <<>> /\ ~Composes(at)
  /\ phase' = "failed"
  /\ UNCHANGED <<cat, at, ret, stack>>

Descend ==
  /\ phase = "call" /\ ~OnStack(at) /\ Note(at)
  /\ Extends(at) # <<>> /\ Composes(at)
  /\ phase' = "loop"
  /\ stack' = Append(stack, [entry |-> at, next |-> 1, resolved |-> {}, merged |-> Blank])
  /\ UNCHANGED <<cat, at, ret>>

InLoop == phase = "loop" /\ Top.next <= Len(Extends(Top.entry))
NextRef == Extends(Top.entry)[Top.next]
Parent == ResolveRef(cat, NextRef)

Missing ==
  /\ InLoop /\ ~Known(NextRef)
  /\ phase' = "failed"
  /\ UNCHANGED <<cat, at, ret, stack, chain>>

(* Mutant: the loop does not go on.                                        *)
SkipForever ==
  /\ InLoop /\ Known(NextRef) /\ Parent \in Top.resolved
  /\ UNCHANGED vars

Skip ==
  /\ InLoop /\ Known(NextRef) /\ Parent \in Top.resolved
  /\ stack' = [stack EXCEPT ![Len(stack)].next = @ + 1]
  /\ UNCHANGED <<cat, phase, at, ret, chain>>

Call ==
  /\ InLoop /\ Known(NextRef) /\ Parent \notin Top.resolved
  /\ phase' = "call" /\ at' = Parent
  /\ stack' = [stack EXCEPT ![Len(stack)].resolved = @ \cup {Parent}]
  /\ UNCHANGED <<cat, ret, chain>>

(* Mutant: what came first wins.                                           *)
MergeParentUnder ==
  /\ phase = "return" /\ stack # <<>>
  /\ phase' = "loop"
  /\ stack' = [stack EXCEPT ![Len(stack)].next = @ + 1, ![Len(stack)].merged = Merge(ret, @)]
  /\ UNCHANGED <<cat, at, ret, chain>>

MergeParent ==
  /\ phase = "return" /\ stack # <<>>
  /\ phase' = "loop"
  /\ stack' = [stack EXCEPT ![Len(stack)].next = @ + 1, ![Len(stack)].merged = Merge(@, ret)]
  /\ UNCHANGED <<cat, at, ret, chain>>

(* The entry's own body comes last.                                        *)
MergeBody ==
  /\ phase = "loop" /\ Top.next > Len(Extends(Top.entry))
  /\ phase' = "return" /\ ret' = Merge(Top.merged, Get(Top.entry))
  /\ stack' = SubSeq(stack, 1, Len(stack) - 1)
  /\ UNCHANGED <<cat, at, chain>>

(* ResolveProfile validates what the outermost call has returned.          *)
Validate ==
  /\ phase = "return" /\ stack = <<>>
  /\ phase' = IF \A s \in Required : ret.scalars[s] # Nobody THEN "accepted" ELSE "failed"
  /\ UNCHANGED <<cat, at, ret, stack, chain>>

Resolve == \/ Lookup \/ Cycle \/ Leaf \/ Refuse \/ Descend \/ Missing \/ Skip \/ Call
           \/ MergeParent \/ MergeBody \/ Validate

-----------------------------------------------------------------------------
(* Properties.                                                             *)

Dicts(S) == UNION {[D -> Entries] : D \in SUBSET S}
Profiles ==
  [name : Entries \cup {Nobody},
   scalars : [Scalars -> Entries \cup {Nobody}], scalarsBy : [Scalars -> Entries \cup {Nobody}],
   maps : [MapFields -> Dicts(Keys)], mapsBy : [MapFields -> Dicts(Keys)],
   packages : Dicts(Packages), packagesBy : Dicts(Packages), nulls : Nulls]
Frames == [entry : DOMAIN cat, next : Nat \ {0}, resolved : SUBSET Entries, merged : Profiles]

(* A credit is an entry: the contributor without a name gets none.         *)
TypeOK ==
  /\ IsCatalog(cat) /\ phase \in Loading \cup Resolving
  /\ at \in Entries /\ ret \in Profiles
  /\ stack \in Seq(Frames) /\ chain \in Seq(Entries)

Credited(r) ==
  r.scalarsBy = r.scalars /\ r.mapsBy = r.maps /\ r.packagesBy = r.packages

(* Whatever a call returns, each of its values is credited to the entry    *)
(* that wrote it, through overrides, tombstones and shared parents, and    *)
(* nothing else is credited: otherwise the gate would let a value pass as  *)
(* the user's own, or ask about the user's.                                *)
CreditsAreRight == phase \in {"return", "accepted"} => Credited(ret)

(* No entry is being resolved while it is being resolved, so the depth of  *)
(* the recursion is bounded by the catalog.                                *)
PathIsSimple == \A i, j \in DOMAIN stack : stack[i].entry = stack[j].entry => i = j
=============================================================================
