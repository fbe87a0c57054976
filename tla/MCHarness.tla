----------------------------- MODULE MCHarness -----------------------------
(* Instances of Harness for TLC. *)
EXTENDS Harness, TLC

CONSTANTS tokens, s1, s2, t1, t2

\* A reply with usage metadata and one without.
SomeReplyUsages == {[f \in Fields |-> 1], UNKNOWN}

\* Sessions, and tasks, are interchangeable.
SessionTaskSymmetry == Permutations(Sessions) \cup Permutations(Tasks)
=============================================================================
