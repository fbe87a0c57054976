----------------------------- MODULE MCCleanup -----------------------------
(* Instances of Cleanup for TLC. *)
EXTENDS Cleanup, TLC

CONSTANTS s1, s2

\* No time at all, one unit, and more than that: either bound may be the longer one.
SmallBounds == 0 .. 2

Symmetry == Permutations(Sessions)
=============================================================================
