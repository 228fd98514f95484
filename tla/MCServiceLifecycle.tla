------------------------- MODULE MCServiceLifecycle -------------------------
(* Finite instances of ServiceLifecycle for TLC: two launches, the first   *)
(* declaring both services, the second one or both of them.                *)
EXTENDS ServiceLifecycle

CONSTANTS l1, l2

TwoServices == {1, 2}

BothNeedBoth == [l \in Launches |-> TwoServices]
SecondNeedsOne == [l \in Launches |-> IF l = l1 THEN TwoServices ELSE {1}]

SameHash == [l \in Launches |-> [s \in Services |-> "h1"]]

(* The second launch was started after the definition of service 1 changed.*)
ChangedHash ==
  [l \in Launches |-> [s \in Services |-> IF l = l2 /\ s = 1 THEN "h2" ELSE "h1"]]

(* No service container is left over from an earlier tpd.                  *)
FreshInit == Init /\ \A s \in Services : state[s] = "absent"
FreshSpec == FreshInit /\ [][Next]_vars
=============================================================================
