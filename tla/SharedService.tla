---------------------------- MODULE SharedService ----------------------------
(***************************************************************************)
(* The contract of a companion service (README.md, "Companion services"):  *)
(* a client runs only while everything it needs is up, services start      *)
(* before it, keep running while it does, and are stopped only when no     *)
(* client needs them.                                                      *)
(***************************************************************************)
CONSTANTS Clients, Services, Needs

VARIABLES
  up,      \* the services that run
  using    \* the clients that use the services they need

sharedVars == <<up, using>>

Init == up \subseteq Services /\ using = {}

Start(s) == up' = up \cup {s} /\ UNCHANGED using

(* Also when a service is replaced: only without a client.                 *)
Stop(s) ==
  /\ \A c \in using : s \notin Needs[c]
  /\ up' = up \ {s}
  /\ UNCHANGED using

Join(c) ==
  /\ Needs[c] \subseteq up
  /\ using' = using \cup {c}
  /\ UNCHANGED up

Leave(c) == using' = using \ {c} /\ UNCHANGED up

Next == (\E s \in Services : Start(s) \/ Stop(s)) \/ (\E c \in Clients : Join(c) \/ Leave(c))

Spec == Init /\ [][Next]_sharedVars
=============================================================================
