-------------------------- MODULE RequirementSuite --------------------------
(***************************************************************************)
(* The requirements conformance suite (conformance/requirements.py) over   *)
(* the four profiles the LangGraph adapter declares                        *)
(* (tests/test_conformance.py): what support, preflight and admission are  *)
(* expected to answer of every case, and the scenario that asks them, with *)
(* preflight and without.                                                  *)
(***************************************************************************)
EXTENDS Admission

CONSTANTS bound, other,   \* the model the harness is built around, and another one
          s1

ASSUME SuiteAssumption == bound # other /\ {bound, other} \subseteq Models /\ s1 \in Sessions
ASSUME CapacityAssumption == 2 \in Capacities

VARIABLES profile, case, preflight,
          at,        \* what the scenario does next
          verdict    \* an assertion failed, or none has

requirementVars == <<vars, profile, case, preflight, at, verdict>>

-----------------------------------------------------------------------------
(* The declared expectations.                                              *)

OK == "compatible"
NO == "incompatible"
UNSURE == "unconfirmed"

Plain == [input |-> "text", output |-> "text"]
Structured == [input |-> "text", output |-> "structured"]

With(field, value) == [NoRequirement EXCEPT ![field] = value]
Case(session, sp) == [spec |-> sp, request |-> Plain, session |-> session, task |-> OK]

CommonCases ==
  {Case(OK, NoRequirement), Case(OK, With("model", bound)), Case(NO, With("model", other)),
   Case(OK, With("diagnostics", "required")), Case(OK, With("approval", "deny_all")),
   Case(NO, With("approval", "caller_decides")), Case(NO, With("approval", "agent_reviewed")),
   Case(NO, With("questions", "caller_answers")), Case(NO, With("persistence", TRUE)),
   Case(NO, With("workspace", TRUE)), Case(NO, With("execution", TRUE)),
   [Case(OK, NoRequirement) EXCEPT !.request = Structured, !.task = NO]}

DispositionCases(retention, visibility) ==
  {Case(retention, With("retention", "ephemeral")), Case(visibility, With("visibility", "hidden"))}

ExpectedSupport(retention, visibility) ==
  [c \in Capabilities |-> CASE c = "diagnostics" -> "supported"
                            [] c = "context_retention" -> retention
                            [] c = "user_history_visibility" -> visibility
                            [] OTHER -> "unsupported"]

Built(owned, retention, visibility) ==
  [model |-> bound, owned |-> owned, retention |-> retention, visibility |-> visibility,
   eventCapacity |-> 2, diagnosticCapacity |-> 2]

Profiles ==
  {[harness |-> Built(TRUE, "undeclared", "unknown"),
    support |-> ExpectedSupport("supported", "unknown"),
    cases   |-> CommonCases \cup DispositionCases(OK, UNSURE)],
   [harness |-> Built(FALSE, "undeclared", "unknown"),
    support |-> ExpectedSupport("unknown", "unknown"),
    cases   |-> CommonCases \cup DispositionCases(UNSURE, UNSURE)],
   [harness |-> Built(FALSE, "ephemeral", "hidden"),
    support |-> ExpectedSupport("supported", "supported"),
    cases   |-> CommonCases \cup DispositionCases(OK, OK)],
   [harness |-> Built(FALSE, "materialized", "visible"),
    support |-> ExpectedSupport("unsupported", "unsupported"),
    cases   |-> CommonCases \cup DispositionCases(NO, NO)]}

\* _check_profiles: every capability is expected something, and one case requires nothing.
Declared(p) == DOMAIN p.support = Capabilities /\ Case(OK, NoRequirement) \in p.cases

-----------------------------------------------------------------------------
(* The scenario.                                                           *)

Asserts(condition) == verdict' = IF condition THEN verdict ELSE "failed"
Goes(next) == at' = next /\ UNCHANGED <<profile, case, preflight>>

\* _decide: admitted when compatible, refused with that very status otherwise.
Decision(expected) == [to |-> s1, is |-> IF expected = OK THEN "admitted" ELSE expected]

\* The model was not called.
Uncalled == running[s1] = "none"

RequirementInit == /\ Init
                   /\ profile \in Profiles /\ case \in profile.cases /\ preflight \in BOOLEAN
                   /\ at = "construct" /\ verdict = "passing"

Constructs == /\ at = "construct" /\ Construct(profile.harness)
              /\ Asserts(Declared(profile)) /\ Goes("validate")

Validates == /\ at = "validate" /\ UNCHANGED vars
             /\ Asserts(/\ \A c \in Capabilities : Support(c) = profile.support[c]
                        /\ preflight => Status(SessionIssues(case.spec)) = case.session)
             /\ Goes("create")

Creates == /\ at = "create" /\ CreateSession(s1, case.spec)
           /\ Asserts(answer' = Decision(case.session) /\ Uncalled)
           /\ Goes(IF case.session = OK THEN "start" ELSE "close")

Starts == /\ at = "start" /\ StartTask(s1, case.request)
          /\ Asserts(/\ Uncalled
                     /\ preflight => Status(TaskIssues(case.request)) = case.task
                     /\ answer' = Decision(case.task))
          /\ Goes(IF case.task = OK THEN "outcome" ELSE "retry")

Retries == /\ at = "retry" /\ StartTask(s1, Plain)
           /\ Asserts(Uncalled /\ answer' = Decision(OK))
           /\ Goes("outcome")

\* The model replies, and the task completes.
Completes == at = "outcome" /\ RunEnds(s1) /\ Asserts(TRUE) /\ Goes("release")

Releases == at = "release" /\ Release(s1) /\ Asserts(TRUE) /\ Goes("close")

Closes == at = "close" /\ Aclose /\ Asserts(TRUE) /\ Goes("over")

RequirementNext == Constructs \/ Validates \/ Creates \/ Starts \/ Retries \/ Completes
                     \/ Releases \/ Closes

RequirementSpec == RequirementInit /\ [][RequirementNext]_requirementVars

\* Every profile and case of the adapter's requirements suite is answered as declared
\* (tests/test_conformance.py:159-386): by discovery, by preflight, by create_session and
\* start_task whether or not they were preceded by a preflight, and after a refusal.
RequirementSuitePasses == verdict = "passing"
=============================================================================
