--------------------------- MODULE MCConformance ---------------------------
(* An instance of Conformance for TLC. *)
EXTENDS Conformance, TLC

CONSTANT tokens

OneReplyUsage == {[f \in Fields |-> 1]}
=============================================================================
