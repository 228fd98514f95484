----------------------------- MODULE MCSession -----------------------------
(* An instance of Session for TLC: a session with or without a terminal.   *)
EXTENDS Session
=============================================================================
