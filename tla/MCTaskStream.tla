---------------------------- MODULE MCTaskStream ----------------------------
(* An instance of TaskStream for TLC. *)
EXTENDS TaskStream, TLC

CONSTANTS tokens, s1, t1, r1

\* Every reply is measured.
MeasuredReplies == {[f \in Fields |-> 1]}

\* A cancellation waits only in a session and a harness nobody has begun to clean up;
\* both at a time are in the runs of Harness.
OneWay == canceller[t1] = "stopping" => release[s1] = "none" /\ closer = "none"

MCSpec == /\ Init /\ Stream!Init
          /\ [][\/ Next /\ Follows /\ OneWay'
                \/ \E r \in Readers : Reads(r)]_<<vars, streamVars>>
          /\ Fairness /\ Stream!Fairness
=============================================================================
