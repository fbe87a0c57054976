------------------------------ MODULE MCFanout ------------------------------
(* An instance of Fanout for TLC. *)
EXTENDS Fanout, TLC

CONSTANTS r1, r2
=============================================================================
