------------------------------ MODULE MCPrune ------------------------------
(* Two launches of one profile and a prune; another profile only has the   *)
(* same cache.                                                             *)
EXTENDS Prune, TLC

CONSTANTS p, q, c, l1, l2

MCCaches == p :> {c} @@ q :> {c}
MCProfileOf == l1 :> p @@ l2 :> p

(* No flags; --all; --images --networks.                                   *)
MCCommands == {[all |-> FALSE, types |-> {}], [all |-> TRUE, types |-> {}],
               [all |-> FALSE, types |-> {"images", "networks"}]}

(* What an earlier launch of p has left, or nothing.                       *)
MCInit == /\ Init
          /\ volumes = filled /\ owned = volumes
          /\ images # {} => base # Absent
          /\ catalog[q] # "ok" /\ ~network
MCSpec == MCInit /\ [][Next]_vars
Same == Permutations(Launches)
=============================================================================
