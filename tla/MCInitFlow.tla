----------------------------- MODULE MCInitFlow -----------------------------
(* A catalog of two profiles, a folder with one fragment and another       *)
(* fragment; two host grants and a benign one.                             *)
EXTENDS InitFlow

CRows == [approve |-> <<"socket", "mount", "env">>, pick |-> <<"New", "go">>,
          name |-> <<"mise", "go">>, nav |-> <<"cloud", "cloud/aws", "git">>]
CInside == [i \in {"cloud/aws"} |-> "cloud"]
CBenign == {"env"}
CFound == [q \in {"", "x"} |->
             IF q = "" THEN Entries ELSE {"mount", "go", "cloud/aws"}]
CLines == [w \in {"wide", "narrow"} |-> [i \in Entries |->
             CASE i \in {"New", "cloud"} -> 0
               [] i \in {"git", "go", "mount"} -> IF w = "wide" THEN 1 ELSE 4
               [] OTHER -> IF w = "wide" THEN 3 ELSE 4]]
CSpare == [k \in DOMAIN CRows |-> [w \in {"wide", "narrow"} |->
             CASE k = "approve" -> IF w = "wide" THEN 0 ELSE -2
               [] k = "nav" -> 2 [] k = "pick" -> 3 [] OTHER -> -1]]
CKey == [i \in {"mise", "go", "cloud/aws", "git"} |-> "core/" \o i]
CShadows == [i \in {"go"} |-> "core/go"]
Command == [named |-> TRUE, interactive |-> TRUE, extends |-> <<>>,
            force |-> FALSE, merge |-> FALSE, dry |-> FALSE]
CCommands ==
  {[Command EXCEPT !.named = FALSE],
   [Command EXCEPT !.interactive = FALSE, !.extends = <<"bogus">>]}
  \cup [named : BOOLEAN, interactive : {FALSE}, extends : {<<>>},
        force : BOOLEAN, merge : {FALSE}, dry : BOOLEAN]
  \cup [named : {TRUE}, interactive : {FALSE}, extends : {<<"core/git">>, <<"core/go", "core/git">>},
        force : BOOLEAN, merge : BOOLEAN, dry : BOOLEAN]
Own == [extends |-> <<"core/git", "core/go">>, command |-> "user"]
CEarlier == {Absent, Blank, Broken, Own, [Own EXCEPT !.command = NoKey]}
=============================================================================
