--------------------------- MODULE MergeReference ---------------------------
(***************************************************************************)
(* What resolving a profile has to give, said of the catalog alone: which  *)
(* profiles resolve, who has written each value of the result, and in what *)
(* order the entries are shown.  Where resolveChain walks and merges, this *)
(* is defined value by value and place by place.                           *)
(***************************************************************************)
EXTENDS CatalogLoad, FiniteSetsExt

(* A datum is a scalar field, a key of a map field or a package.           *)
Data == [kind : {"scalar"}, field : Scalars]
          \cup [kind : {"map"}, field : MapFields, key : Keys]
          \cup [kind : {"package"}, name : Packages]
Value(r, d) ==
  CASE d.kind = "scalar" -> r.scalars[d.field]
    [] d.kind = "map" -> IF d.key \in DOMAIN r.maps[d.field] THEN r.maps[d.field][d.key] ELSE Nobody
    [] d.kind = "package" -> IF d.name \in DOMAIN r.packages THEN r.packages[d.name] ELSE Nobody

(* What the file of an entry says of a datum.                              *)
Declares(file, d) ==
  CASE d.kind = "scalar" -> d.field \in file.scalars
    [] d.kind = "map" -> d.key \in file.keys[d.field]
    [] d.kind = "package" -> d.name \in file.packages
Deletes(file, d) ==
  CASE d.kind = "scalar" -> d.field \in file.nulls.scalars
    [] d.kind = "map" -> d.field \in file.nulls.fields \/ d.key \in file.nulls.keys[d.field]
    [] d.kind = "package" -> file.nulls.packages

-----------------------------------------------------------------------------
(* The graph of a catalog c.                                               *)
IsLeaf(c, e) == c[e].extends = <<>>
ParentAt(c, e, i) == ResolveRef(c, c[e].extends[i])
Parents(c, e) == {ParentAt(c, e, i) : i \in DOMAIN c[e].extends}
(* The places at which a parent is named first.                            *)
Turns(c, e) ==
  {i \in DOMAIN c[e].extends : \A j \in 1..(i - 1) : ParentAt(c, e, j) # ParentAt(c, e, i)}

Closed(c, S) == \A x \in S : Parents(c, x) \cap DOMAIN c \subseteq S
(* The entries that e extends, directly or not, and e.                     *)
Reach(c, e) ==
  {x \in DOMAIN c : \A S \in SUBSET DOMAIN c : e \in S /\ Closed(c, S) => x \in S}
Ancestors(c, e) == UNION {Reach(c, p) : p \in Parents(c, e) \cap DOMAIN c}

(* No parent is missing, and a fragment's are fragments.                   *)
Fits(c, e) == \A p \in Parents(c, e) : p \in DOMAIN c /\ (c[e].fragment => c[p].fragment)
Resolvable(c, e) == \A x \in Reach(c, e) : Fits(c, x) /\ x \notin Ancestors(c, x)

-----------------------------------------------------------------------------
(* Who wrote d, w[x] being who wrote it in an entry x that is extended.    *)

(* The tombstones of a parent that extends nothing delete what its elder   *)
(* siblings gave; those of one that extends only what it inherits.         *)
Clears(c, p, d) == IsLeaf(c, p) /\ Deletes(c[p], d)

(* The last parent with a say has it; a package is the first's to declare  *)
(* it after the last clearing of the list.                                 *)
Inherited(c, w, e, d, turns) ==
  LET clears == {i \in turns : Clears(c, ParentAt(c, e, i), d)}
      givers == {i \in turns : w[ParentAt(c, e, i)] # Nobody /\ \A j \in clears : i > j}
      giver == IF d.kind = "package" THEN Min(givers) ELSE Max(givers)
  IN IF givers = {} THEN Nobody ELSE w[ParentAt(c, e, giver)]

Written(c, w, e, d) ==
  LET own == IF Declares(c[e], d) THEN e ELSE Nobody
      inherited == Inherited(c, w, e, d, Turns(c, e))
  IN IF IsLeaf(c, e) THEN own
     ELSE IF Deletes(c[e], d) THEN Nobody
     ELSE IF inherited # Nobody /\ (d.kind = "package" \/ own = Nobody) THEN inherited
     ELSE own

Writer(c, e, d) == LET W[x \in Reach(c, e)] == Written(c, W, x, d) IN W[e]

-----------------------------------------------------------------------------
RootEntry == ResolveRef(cat, Root)

(* What resolving gives is what the definitions above say of the catalog,  *)
(* value by value, for overrides, tombstones and parents named twice.  A   *)
(* parent that is shared by branches counts once in each, as in the code.  *)
MeetsReference ==
  phase = "return" /\ stack = <<>> => \A d \in Data : Value(ret, d) = Writer(cat, RootEntry, d)

(* What the design says of it instead: every entry is merged exactly once, *)
(* also one named again "via nested extends", and the first resolution     *)
(* wins.  Then an entry comes after all those it extends, and a value that *)
(* it overrides stays overridden.                                          *)
MergedOnce ==
  phase = "return" /\ stack = <<>> =>
    \A x \in Reach(cat, RootEntry) : \A d \in Data :
      /\ d.kind # "package" /\ Declares(cat[x], d) /\ ~Deletes(cat[x], d)
      => Value(ret, d) \notin Ancestors(cat, x)

-----------------------------------------------------------------------------
(* What is listed before place n, and where an entry with a parent that is *)
(* not is.                                                                 *)
Listed(n) == {chain[m] : m \in 1..(n - 1)}
Unlisted(e, n) == {i \in DOMAIN Extends(e) : ParentAt(cat, e, i) \notin Listed(n)}
Open(n) == {m \in 1..(n - 1) : Unlisted(chain[m], n) # {}}
(* A depth-first walk goes on from the last entry it met that has a parent *)
(* left, with the first of them.                                           *)
FollowsWalk(n) ==
  IF n = 1 THEN chain[n] = RootEntry
  ELSE /\ Open(n) # {}
       /\ LET e == chain[Max(Open(n))] IN chain[n] = ParentAt(cat, e, Min(Unlisted(e, n)))

(* The chain shown to the user lists each entry the profile extends once,  *)
(* in the order of a depth-first walk (chainState), also where an entry is *)
(* shared by branches and walked again.                                    *)
ChainInOrder ==
  phase = "return" /\ stack = <<>> =>
    /\ Listed(Len(chain) + 1) = Reach(cat, RootEntry)
    /\ \A n \in DOMAIN chain : FollowsWalk(n)

(* A profile is refused when, and only when, its chain has a cycle, a hole *)
(* or a profile under a fragment, or leaves a required field empty.        *)
RefusedForCause ==
  phase \in {"accepted", "failed"} =>
    (phase = "accepted" <=>
       /\ RootEntry \in DOMAIN cat /\ Resolvable(cat, RootEntry)
       /\ \A s \in Required : Writer(cat, RootEntry, [kind |-> "scalar", field |-> s]) # Nobody)
=============================================================================
