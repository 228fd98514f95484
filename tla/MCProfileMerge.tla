--------------------------- MODULE MCProfileMerge ---------------------------
(***************************************************************************)
(* Files for CatalogLoad, whose resolution and whose chain are compared    *)
(* with MergeReference.                                                    *)
(***************************************************************************)
EXTENDS MergeReference, TLC

(* Four files, of which core/d may be shadowed by user/d, in every         *)
(* arrangement that tells the rules apart: self-reference, cycle, missing  *)
(* entry, diamond, repeated parent, shadowing, fragments over profiles.    *)
MCNames == {"a", "b", "c", "d"}
MCRoot == [ns |-> "any", name |-> "a"]
Plain(n) == [ns |-> "any", name |-> n]
Core(n) == [ns |-> "core", name |-> n]

(* What a file says about itself: nothing, a value for everything, no key, *)
(* no field.  A fragment has no image.                                     *)
Says == {"nothing", "values", "no key", "no field"}
File(says, extends, fragment) ==
  [extends |-> extends, fragment |-> fragment,
   scalars |-> {s \in Scalars : /\ says = "values" \/ (says = "no key" /\ s = "image")
                                /\ s = "image" => ~fragment},
   keys |-> [f \in MapFields |-> IF says \in {"values", "no key"} THEN Keys ELSE {}],
   packages |-> IF says = "values" THEN Packages ELSE {},
   nulls |-> [scalars |-> IF says = "no field" THEN Scalars ELSE {},
              fields |-> IF says = "no field" THEN MapFields ELSE {},
              keys |-> [f \in MapFields |-> IF says = "no key" THEN Keys ELSE {}],
              packages |-> says = "no field"]]

FilesOf(extends, fragments) ==
  {File(s, x, g) : s \in Says, x \in extends, g \in fragments}
None == <<>>
Shadow(d) == "d" :> File("values", <<Core("d")>>, d.fragment)

(* Directories without an error: every a of as over every b, c and d.      *)
LoadsOf(as, bs, cs, ds) ==
  {[mode |-> "strict", core |-> "b" :> b @@ "c" :> c @@ "d" :> d,
    profiles |-> "a" :> a @@ IF shadow /\ ~d.fragment THEN Shadow(d) ELSE None,
    fragments |-> IF shadow /\ d.fragment THEN Shadow(d) ELSE None] :
     a \in as, b \in bs, c \in cs, d \in ds, shadow \in BOOLEAN}
Bs == FilesOf({<<>>, <<Plain("d")>>, <<Plain("c")>>}, {FALSE})
Cs == FilesOf({<<>>, <<Plain("d")>>}, {TRUE}) \cup FilesOf({<<Plain("b")>>}, {FALSE})
        \cup {File("values", <<Plain("b")>>, TRUE)}
Ds == FilesOf({<<>>}, {TRUE}) \cup {File("values", <<>>, FALSE), File("no field", <<>>, FALSE)}
Families ==
  LoadsOf(FilesOf({<<Plain("b")>>, <<Plain("b"), Plain("c")>>, <<Plain("b"), Plain("c"), Core("b")>>}, {FALSE}),
          Bs, Cs, Ds)
Loners ==
  LoadsOf(FilesOf({<<>>, <<Core("a")>>, <<Plain("d"), Plain("a")>>}, {FALSE}),
          {File("values", <<>>, FALSE)}, {File("values", <<>>, TRUE)}, Ds)

(* Directories with errors and with names that are taken.                  *)
Dirs(files, names) == UNION {[D -> files] : D \in SUBSET names}
DirtyLoads ==
  {[mode |-> mode, core |-> "b" :> b @@ "c" :> File("values", <<>>, TRUE) @@ "d" :> File("no key", <<>>, g),
    profiles |-> profiles, fragments |-> fragments] :
     mode \in {"strict", "tolerant"},
     b \in {File("nothing", <<Plain("d"), Plain("c")>>, FALSE)}, g \in BOOLEAN,
     profiles \in Dirs({Faulty, File("values", <<Plain("b")>>, FALSE)}, {"a", "c", "d"}),
     fragments \in Dirs({Faulty, File("values", <<>>, FALSE), File("no field", <<Plain("c")>>, TRUE)},
                        {"b", "c", "d"})}
MCLoads == {Families, Loners, DirtyLoads}
=============================================================================
