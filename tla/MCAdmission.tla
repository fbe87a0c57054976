---------------------------- MODULE MCAdmission ----------------------------
(* The requirements suite, and callers bound to no scenario, on small sets. *)
EXTENDS RequirementSuite, TLC

\* The smallest capacity the constructor accepts, and one less.
AroundTheLimit == {1, 2}

\* A harness of any configuration, and callers who ask it anything in any order.
FreeInit == /\ Init
            /\ profile = "none" /\ case = "none" /\ preflight = FALSE
            /\ at = "free" /\ verdict = "passing"

FreeNext == at = "free" /\ Next /\ UNCHANGED <<profile, case, preflight, at, verdict>>

MCSpec == (FreeInit \/ RequirementInit) /\ [][FreeNext \/ RequirementNext]_requirementVars
=============================================================================
