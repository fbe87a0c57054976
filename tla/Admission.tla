----------------------------- MODULE Admission -----------------------------
(***************************************************************************)
(* What the LangGraph adapter admits: the construction of a harness with   *)
(* its declared dispositions, capability discovery (support), preflight    *)
(* (validate) and the decisions of create_session and start_task           *)
(* (harness.py, with compatibility.py, requirements.py and support.py).    *)
(*                                                                         *)
(* A requirement is modelled by what the adapter tells apart: the contents *)
(* of a persistence, workspace or execution requirement, or of a schema,   *)
(* decide nothing, so that such a requirement is present or absent.        *)
(***************************************************************************)
EXTENDS Integers

CONSTANTS Sessions,
          Models,       \* model identities
          NoModel,      \* None, where a model identity is expected
          NoSpec,       \* a session not admitted yet
          NoAnswer,     \* the last operation asked for no decision
          Capacities    \* the buffer capacities a caller may ask for

ASSUME NoModelAssumption == NoModel \notin Models
ASSUME CapacitiesAssumption == Capacities \subseteq Int

Retentions == {"ephemeral", "materialized", "unknown"}
Visibilities == {"visible", "hidden", "unknown"}
Disposition == [retention : Retentions, visibility : Visibilities]

\* The arguments of __init__ that admission depends on: whether the adapter
\* owns its checkpointer, and what is declared of it and of the model.
Arguments == [model : Models \cup {NoModel}, owned : BOOLEAN,
              retention : Retentions \cup {"undeclared"}, visibility : Visibilities,
              eventCapacity : Capacities, diagnosticCapacity : Capacities]

Approvals == {"provider_default", "deny_all", "agent_reviewed", "caller_decides"}
Questions == {"not_required", "caller_answers"}

\* What a caller requires of a session; instructions decide nothing.
SessionSpec == [model : Models \cup {NoModel},
          approval : Approvals,
          questions : Questions,
          persistence : BOOLEAN, workspace : BOOLEAN, execution : BOOLEAN,
          diagnostics : {"not_required", "required"},
          retention : {"provider_default", "ephemeral"},
          visibility : {"provider_default", "hidden"}]

Request == [input : {"text", "other"}, output : {"text", "structured"}]

ASSUME NoSpecAssumption == NoSpec \notin SessionSpec

VARIABLES harness,      \* "none", "refused" by its constructor, "open" or "closed"
          model,        \* _model_id
          disposition,  \* runtime.disposition
          spec,         \* of each session: the admitted spec
          closed,       \* of each session: _closed
          running,      \* of each session: _running is None ("none"), a task, or
                        \* a settled task whose graph run goes on ("outlived")
          answer        \* the decision the last operation made

vars == <<harness, model, disposition, spec, closed, running, answer>>

-----------------------------------------------------------------------------
(* Decisions.                                                              *)

Unless(condition, path, kind) == IF condition THEN {} ELSE {[path |-> path, kind |-> kind]}

\* _declared_issue: an undeclared fact cannot be confirmed, another one is known.
DeclaredIssue(declared) == IF declared = "unknown" THEN "unconfirmed" ELSE "unsupported"

\* LangGraphHarness.validate
SessionIssues(sp) ==
  Unless(sp.model \in {NoModel, model}, "model", "unsupported")
  \cup Unless(sp.approval \in {"provider_default", "deny_all"}, "approval", "unsupported")
  \cup Unless(sp.questions = "not_required", "questions", "unsupported")
  \cup Unless(~sp.persistence, "persistence", "unsupported")
  \cup Unless(~sp.workspace, "workspace", "unsupported")
  \cup Unless(~sp.execution, "execution", "unsupported")
  \cup Unless(sp.retention = "ephemeral" => disposition.retention = "ephemeral",
              "retention", DeclaredIssue(disposition.retention))
  \cup Unless(sp.visibility = "hidden" => disposition.visibility = "hidden",
              "history_visibility", DeclaredIssue(disposition.visibility))

\* _LangGraphSession.validate
TaskIssues(request) ==
  Unless(request.input = "text", "input", "unsupported")
  \cup Unless(request.output # "structured", "output", "unsupported")

\* Wrong Status: an unconfirmed requirement hides one that cannot be kept.
FirstDoubt(issues) ==
  IF \E i \in issues : i.kind = "unconfirmed" THEN "unconfirmed"
  ELSE IF \E i \in issues : i.kind = "unsupported" THEN "incompatible"
  ELSE "compatible"

\* CompatibilityReport.status
Status(issues) ==
  IF \E i \in issues : i.kind = "unsupported" THEN "incompatible"
  ELSE IF \E i \in issues : i.kind = "unconfirmed" THEN "unconfirmed"
  ELSE "compatible"

\* Wrong Refuses: nothing is raised for an unconfirmed requirement.
RefusesIncompatible(issues) == Status(issues) = "incompatible"

\* require_compatible raises.
Refuses(issues) == Status(issues) # "compatible"

\* Wrong DeclaredSupport: what was not declared counts as missing.
DeclaredOrMissing(declared, satisfies) ==
  IF declared = satisfies THEN "supported" ELSE "unsupported"

\* _declared_support
DeclaredSupport(declared, satisfies) ==
  IF declared = satisfies THEN "supported"
  ELSE IF declared = "unknown" THEN "unknown" ELSE "unsupported"

Capabilities == {"caller_approval", "questions", "persistence", "workspace",
                 "execution_constraint", "structured_output", "diagnostics",
                 "context_retention", "user_history_visibility"}

\* LangGraphHarness.support
Support(capability) ==
  CASE capability = "diagnostics" -> "supported"
    [] capability = "context_retention" ->
         DeclaredSupport(disposition.retention, "ephemeral")
    [] capability = "user_history_visibility" ->
         DeclaredSupport(disposition.visibility, "hidden")
    [] OTHER -> "unsupported"

-----------------------------------------------------------------------------

Init == /\ harness = "none"
        /\ model = NoModel
        /\ disposition = [retention |-> "unknown", visibility |-> "unknown"]
        /\ spec = [s \in Sessions |-> NoSpec]
        /\ closed = [s \in Sessions |-> FALSE]
        /\ running = [s \in Sessions |-> "none"]
        /\ answer = NoAnswer

\* An adapter-owned checkpointer is deleted on release, hence ephemeral.
DeclaredRetention(a) == IF a.owned THEN "ephemeral"
                        ELSE IF a.retention = "undeclared" THEN "unknown"
                        ELSE a.retention

\* __init__; it raises ValueError for a contradiction.
Construct(a) ==
  /\ harness = "none"
  /\ IF \/ a.owned /\ a.retention \notin {"undeclared", "ephemeral"}
        \/ a.eventCapacity < 2
        \/ a.diagnosticCapacity < 2
       THEN harness' = "refused" /\ UNCHANGED <<model, disposition>>
       ELSE /\ harness' = "open"
            /\ model' = a.model
            /\ disposition' = [retention |-> DeclaredRetention(a),
                               visibility |-> a.visibility]
  /\ UNCHANGED <<spec, closed, running, answer>>

\* create_session, for a session of its own.
CreateSession(s, sp) ==
  /\ harness \in {"open", "closed"} /\ spec[s] = NoSpec
  /\ IF harness = "closed"
       THEN answer' = [to |-> s, is |-> "harness_closed"] /\ UNCHANGED spec
     ELSE IF Refuses(SessionIssues(sp))
       THEN answer' = [to |-> s, is |-> Status(SessionIssues(sp))] /\ UNCHANGED spec
     ELSE /\ answer' = [to |-> s, is |-> "admitted"]
          /\ spec' = [spec EXCEPT ![s] = sp]
  /\ UNCHANGED <<harness, model, disposition, closed, running>>

\* What start_task answers; the first reason that applies is given.
StartAnswer(s, request) ==
  IF closed[s] \/ harness = "closed" \/ running[s] = "outlived" THEN "blocked"
  ELSE IF running[s] = "task" THEN "overlap"
  ELSE IF Refuses(TaskIssues(request)) THEN Status(TaskIssues(request))
  ELSE "admitted"

\* Wrong StartTask: the session is taken before the request is validated.
TakeThenValidate(s, request) ==
  /\ spec[s] # NoSpec
  /\ answer' = [to |-> s, is |-> StartAnswer(s, request)]
  /\ running' = IF StartAnswer(s, request) \in {"admitted", "incompatible"}
                  THEN [running EXCEPT ![s] = "task"] ELSE running
  /\ UNCHANGED <<harness, model, disposition, spec, closed>>

StartTask(s, request) ==
  /\ spec[s] # NoSpec
  /\ answer' = [to |-> s, is |-> StartAnswer(s, request)]
  /\ running' = IF StartAnswer(s, request) = "admitted"
                  THEN [running EXCEPT ![s] = "task"] ELSE running
  /\ UNCHANGED <<harness, model, disposition, spec, closed>>

\* A task is settled although its graph run goes on.
TaskForced(s) ==
  /\ running[s] = "task"
  /\ running' = [running EXCEPT ![s] = "outlived"]
  /\ answer' = NoAnswer
  /\ UNCHANGED <<harness, model, disposition, spec, closed>>

\* The graph run ends, which also settles its task.
RunEnds(s) ==
  /\ running[s] # "none"
  /\ running' = [running EXCEPT ![s] = "none"]
  /\ answer' = NoAnswer
  /\ UNCHANGED <<harness, model, disposition, spec, closed>>

Release(s) ==
  /\ spec[s] # NoSpec /\ ~closed[s]
  /\ closed' = [closed EXCEPT ![s] = TRUE]
  /\ answer' = NoAnswer
  /\ UNCHANGED <<harness, model, disposition, spec, running>>

Aclose ==
  /\ harness = "open"
  /\ harness' = "closed"
  /\ answer' = NoAnswer
  /\ UNCHANGED <<model, disposition, spec, closed, running>>

Next == \/ \E a \in Arguments : Construct(a)
        \/ \E s \in Sessions : \/ \E sp \in SessionSpec : CreateSession(s, sp)
                               \/ \E request \in Request : StartTask(s, request)
                               \/ TaskForced(s)
                               \/ RunEnds(s)
                               \/ Release(s)
        \/ Aclose

Spec == Init /\ [][Next]_vars

-----------------------------------------------------------------------------
(* Properties.                                                             *)

\* The facts that a disposition leaves open.
Worlds == [retention : {"ephemeral", "materialized"}, visibility : {"visible", "hidden"}]
Possible == {w \in Worlds : /\ disposition.retention \in {"unknown", w.retention}
                            /\ disposition.visibility \in {"unknown", w.visibility}}

\* What a text graph around one model keeps if the facts are those of w.
Keeps(sp, w) ==
  /\ sp.model \in {NoModel, model}
  /\ sp.approval \notin {"agent_reviewed", "caller_decides"}
  /\ sp.questions # "caller_answers"
  /\ ~(sp.persistence \/ sp.workspace \/ sp.execution)
  /\ sp.retention = "ephemeral" => w.retention = "ephemeral"
  /\ sp.visibility = "hidden" => w.visibility = "hidden"

\* "INCOMPATIBLE means the adapter knows it cannot preserve a required meaning.
\* UNCONFIRMED means it cannot establish the necessary fact" (protocol.md:13-14):
\* for every combination of requirements, the verdict is incompatible when no
\* possible facts keep them all, and unconfirmed when it depends on the facts.
VerdictIsExact ==
  harness = "open" => \A sp \in SessionSpec :
    Status(SessionIssues(sp)) =
      IF \A w \in Possible : Keeps(sp, w) THEN "compatible"
      ELSE IF \E w \in Possible : Keeps(sp, w) THEN "unconfirmed"
      ELSE "incompatible"

\* "Refusal instead of silent downgrade" (README.md:23): whatever the facts turn
\* out to be, an admitted session's requirements are kept, also those that the
\* harness was only told of.
AdmittedIsKept ==
  \A s \in Sessions : spec[s] # NoSpec =>
    /\ harness \in {"open", "closed"}
    /\ \A w \in Possible : Keeps(spec[s], w)

\* A spec that requires one capability of the session and nothing else.
NoRequirement == [model |-> NoModel, approval |-> "provider_default",
                  questions |-> "not_required", persistence |-> FALSE,
                  workspace |-> FALSE, execution |-> FALSE,
                  diagnostics |-> "not_required", retention |-> "provider_default",
                  visibility |-> "provider_default"]
Requires(capability) ==
  CASE capability = "caller_approval" -> [NoRequirement EXCEPT !.approval = "caller_decides"]
    [] capability = "questions" -> [NoRequirement EXCEPT !.questions = "caller_answers"]
    [] capability = "persistence" -> [NoRequirement EXCEPT !.persistence = TRUE]
    [] capability = "workspace" -> [NoRequirement EXCEPT !.workspace = TRUE]
    [] capability = "execution_constraint" -> [NoRequirement EXCEPT !.execution = TRUE]
    [] capability = "diagnostics" -> [NoRequirement EXCEPT !.diagnostics = "required"]
    [] capability = "context_retention" -> [NoRequirement EXCEPT !.retention = "ephemeral"]
    [] capability = "user_history_visibility" -> [NoRequirement EXCEPT !.visibility = "hidden"]
    [] capability = "structured_output" -> NoRequirement

Matches == [supported |-> "compatible", unknown |-> "unconfirmed",
            unsupported |-> "incompatible"]

\* Discovery and preflight are computed apart (harness.py:137-192 and 318-416) and
\* have to tell the same of every capability (langgraph/README.md:50-89).
DiscoveryAgrees ==
  harness = "open" =>
    /\ \A c \in Capabilities \ {"structured_output"} :
         Status(SessionIssues(Requires(c))) = Matches[Support(c)]
    /\ Status(TaskIssues([input |-> "text", output |-> "structured"])) =
         Matches[Support("structured_output")]
=============================================================================
