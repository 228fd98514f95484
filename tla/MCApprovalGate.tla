--------------------------- MODULE MCApprovalGate ---------------------------
(* A finite instance of ApprovalGate for TLC: a service whose definition   *)
(* changes (in what the fingerprint renders, or only in its image), the    *)
(* mount of its socket, and a benign variable.                             *)
EXTENDS ApprovalGate

CONSTANTS l1, l2

G(f, k, v, i, s, b) ==
  [field |-> f, key |-> k, value |-> v, rest |-> i, service |-> s, benign |-> b]

Daemon  == G("services", "podman", "v1", "image1", NoService, FALSE)
Rebased == G("services", "podman", "v1", "image2", NoService, FALSE)
Daemon2 == G("services", "podman", "v2", "image1", NoService, FALSE)
Socket  == G("mounts", "/run/podman", "v1", "", "podman", FALSE)
Term    == G("env", "TERM", "v1", "", NoService, TRUE)

P(G1, T) == [grants |-> G1, trusted |-> T]

GateGrants == {Daemon, Rebased, Daemon2, Socket, Term}
(* A catalog's service whose socket the user mounts himself; the same with *)
(* another image; after an update of the service, with the variable.       *)
GateProfiles ==
  {P({Daemon, Socket}, {Socket}), P({Rebased, Socket}, {Socket}), P({Daemon2, Term}, {})}
=============================================================================
