-------------------------- MODULE AdmissionProofs --------------------------
(***************************************************************************)
(* Proofs about Admission, for any models, sessions and capacities, and    *)
(* about the requirements suite that is run on it.                         *)
(***************************************************************************)
EXTENDS RequirementSuite, TLAPS

-----------------------------------------------------------------------------
(* What a list of issues says.                                             *)

Has(issues, kind) == \E i \in issues : i.kind = kind

LEMMA HasUnless ==
  ASSUME NEW c \in BOOLEAN, NEW path, NEW kind, NEW k
  PROVE  Has(Unless(c, path, kind), k) <=> ~c /\ kind = k
<1>1. CASE c
  BY <1>1 DEF Has, Unless
<1>2. CASE ~c
  <2>1. Unless(c, path, kind) = {[path |-> path, kind |-> kind]}
    BY <1>2 DEF Unless
  <2> QED BY <1>2, <2>1 DEF Has
<1> QED BY <1>1, <1>2

\* The requirements a text graph around one model keeps or not, whatever is declared.
Fixed(sp) ==
  /\ sp.model \in {NoModel, model}
  /\ sp.approval \notin {"agent_reviewed", "caller_decides"}
  /\ sp.questions # "caller_answers"
  /\ ~(sp.persistence \/ sp.workspace \/ sp.execution)

Disposed == disposition \in Disposition

\* A requirement cannot be kept, or nobody can say so.
LEMMA KindsOfIssues ==
  ASSUME Disposed, NEW sp \in SessionSpec
  PROVE  /\ Has(SessionIssues(sp), "unsupported") <=>
              \/ ~Fixed(sp)
              \/ sp.retention = "ephemeral" /\ disposition.retention = "materialized"
              \/ sp.visibility = "hidden" /\ disposition.visibility = "visible"
         /\ Has(SessionIssues(sp), "unconfirmed") <=>
              \/ sp.retention = "ephemeral" /\ disposition.retention = "unknown"
              \/ sp.visibility = "hidden" /\ disposition.visibility = "unknown"
<1> DEFINE retained == DeclaredIssue(disposition.retention)
           seen == DeclaredIssue(disposition.visibility)
           keptShort == sp.retention = "ephemeral" => disposition.retention = "ephemeral"
           keptHidden == sp.visibility = "hidden" => disposition.visibility = "hidden"
           knownModel == sp.model \in {NoModel, model}
           noReviewer == sp.approval \in {"provider_default", "deny_all"}
           noQuestions == sp.questions = "not_required"
           A == Unless(knownModel, "model", "unsupported")
           B == Unless(noReviewer, "approval", "unsupported")
           C == Unless(noQuestions, "questions", "unsupported")
           D == Unless(~sp.persistence, "persistence", "unsupported")
           E == Unless(~sp.workspace, "workspace", "unsupported")
           F == Unless(~sp.execution, "execution", "unsupported")
           G == Unless(keptShort, "retention", retained)
           H == Unless(keptHidden, "history_visibility", seen)
<1>1. ASSUME NEW k
      PROVE  Has(SessionIssues(sp), k) <=>
               \/ Has(A, k) \/ Has(B, k) \/ Has(C, k) \/ Has(D, k)
               \/ Has(E, k) \/ Has(F, k) \/ Has(G, k) \/ Has(H, k)
  <2>1. SessionIssues(sp) = A \cup B \cup C \cup D \cup E \cup F \cup G \cup H
    BY DEF SessionIssues
  <2> HIDE DEF A, B, C, D, E, F, G, H
  <2> QED BY <2>1 DEF Has
<1>2. sp.persistence \in BOOLEAN /\ sp.workspace \in BOOLEAN /\ sp.execution \in BOOLEAN
  BY DEF SessionSpec
<1>3. ASSUME NEW k
      PROVE  Has(SessionIssues(sp), k) <=>
        \/ /\ k = "unsupported"
           /\ ~(/\ knownModel /\ noReviewer /\ noQuestions
                /\ ~sp.persistence /\ ~sp.workspace /\ ~sp.execution)
        \/ k = retained /\ ~keptShort
        \/ k = seen /\ ~keptHidden
  <2>0. knownModel \in BOOLEAN /\ noReviewer \in BOOLEAN
    OBVIOUS
  <2> HIDE DEF retained, seen, knownModel, noReviewer
  <2>1. Has(A, k) <=> ~knownModel /\ k = "unsupported"
    BY <2>0, HasUnless
  <2>2. Has(B, k) <=> ~noReviewer /\ k = "unsupported"
    BY <2>0, HasUnless
  <2>3. Has(C, k) <=> ~noQuestions /\ k = "unsupported"
    BY HasUnless
  <2>4. Has(D, k) <=> sp.persistence /\ k = "unsupported"
    BY <1>2, HasUnless
  <2>5. Has(E, k) <=> sp.workspace /\ k = "unsupported"
    BY <1>2, HasUnless
  <2>6. Has(F, k) <=> sp.execution /\ k = "unsupported"
    BY <1>2, HasUnless
  <2>7. Has(G, k) <=> ~keptShort /\ k = retained
    BY HasUnless
  <2>8. Has(H, k) <=> ~keptHidden /\ k = seen
    BY HasUnless
  <2> HIDE DEF A, B, C, D, E, F, G, H, keptShort, keptHidden
  <2> QED BY <1>1, <2>1, <2>2, <2>3, <2>4, <2>5, <2>6, <2>7, <2>8
<1>4. /\ sp.approval \in {"provider_default", "deny_all"} <=>
           sp.approval \notin {"agent_reviewed", "caller_decides"}
      /\ sp.questions = "not_required" <=> sp.questions # "caller_answers"
  BY DEF SessionSpec, Approvals, Questions
<1>5. /\ disposition.retention \in Retentions /\ disposition.visibility \in Visibilities
      /\ retained = IF disposition.retention = "unknown" THEN "unconfirmed" ELSE "unsupported"
      /\ seen = IF disposition.visibility = "unknown" THEN "unconfirmed" ELSE "unsupported"
  BY DEF Disposed, Disposition, DeclaredIssue
<1> HIDE DEF retained, seen
<1> QED BY <1>2, <1>3, <1>4, <1>5 DEF Fixed, Retentions, Visibilities

\* The verdict is what the possible facts make of the requirements.
LEMMA Exact ==
  ASSUME Disposed, NEW sp \in SessionSpec
  PROVE  Status(SessionIssues(sp)) =
           IF \A w \in Possible : Keeps(sp, w) THEN "compatible"
           ELSE IF \E w \in Possible : Keeps(sp, w) THEN "unconfirmed"
           ELSE "incompatible"
<1> DEFINE r == disposition.retention
           v == disposition.visibility
           World(x, y) == [retention |-> x, visibility |-> y]
<1>1. r \in Retentions /\ v \in Visibilities
  BY DEF Disposed, Disposition
<1>2. \A x \in {"ephemeral", "materialized"}, y \in {"visible", "hidden"} :
        /\ World(x, y) \in Possible <=> r \in {"unknown", x} /\ v \in {"unknown", y}
        /\ Keeps(sp, World(x, y)) <=>
             /\ Fixed(sp)
             /\ sp.retention = "ephemeral" => x = "ephemeral"
             /\ sp.visibility = "hidden" => y = "hidden"
  BY DEF Possible, Worlds, Keeps, Fixed
<1>3. \A w \in Possible : \E x \in {"ephemeral", "materialized"}, y \in {"visible", "hidden"} :
        w = World(x, y)
  BY DEF Possible, Worlds
<1>4. /\ (\A w \in Possible : Keeps(sp, w)) <=>
           \A x \in {"ephemeral", "materialized"}, y \in {"visible", "hidden"} :
             r \in {"unknown", x} /\ v \in {"unknown", y} => Keeps(sp, World(x, y))
      /\ (\E w \in Possible : Keeps(sp, w)) <=>
           \E x \in {"ephemeral", "materialized"}, y \in {"visible", "hidden"} :
             r \in {"unknown", x} /\ v \in {"unknown", y} /\ Keeps(sp, World(x, y))
  <2> HIDE DEF World
  <2> QED BY <1>2, <1>3
<1>5. (\A w \in Possible : Keeps(sp, w)) <=>
        /\ Fixed(sp)
        /\ sp.retention = "ephemeral" => r = "ephemeral"
        /\ sp.visibility = "hidden" => v = "hidden"
  <2> HIDE DEF World
  <2> QED BY <1>1, <1>2, <1>4 DEF Retentions, Visibilities
<1>6. (\E w \in Possible : Keeps(sp, w)) <=>
        /\ Fixed(sp)
        /\ sp.retention = "ephemeral" => r # "materialized"
        /\ sp.visibility = "hidden" => v # "visible"
  <2> HIDE DEF World
  <2> QED BY <1>1, <1>2, <1>4 DEF Retentions, Visibilities
<1>7. Status(SessionIssues(sp)) =
        IF Has(SessionIssues(sp), "unsupported") THEN "incompatible"
        ELSE IF Has(SessionIssues(sp), "unconfirmed") THEN "unconfirmed"
        ELSE "compatible"
  BY DEF Status, Has
<1> QED BY <1>1, <1>5, <1>6, <1>7, KindsOfIssues DEF Retentions, Visibilities

-----------------------------------------------------------------------------
(* Invariants.                                                             *)

LEMMA DisposedInvariant == Spec => []Disposed
<1>1. Init => Disposed
  BY DEF Init, Disposed, Disposition, Retentions, Visibilities
<1>2. Disposed /\ [Next]_vars => Disposed'
  <2> SUFFICES ASSUME Disposed, [Next]_vars PROVE Disposed'
    OBVIOUS
  <2>1. ASSUME NEW a \in Arguments, Construct(a) PROVE Disposed'
    BY <2>1 DEF Construct, DeclaredRetention, Arguments, Disposed, Disposition, Retentions,
         Visibilities
  <2>2. CASE UNCHANGED disposition
    BY <2>2 DEF Disposed
  <2> QED BY <2>1, <2>2 DEF Next, vars, CreateSession, StartTask, TaskForced, RunEnds,
           Release, Aclose
<1> QED BY <1>1, <1>2, PTL DEF Spec

\* No session before there is a harness.
Books == /\ spec \in [Sessions -> SessionSpec \cup {NoSpec}]
         /\ harness = "none" => \A s \in Sessions : spec[s] = NoSpec

LEMMA BooksInvariant == Spec => []Books
<1>1. Init => Books
  BY DEF Init, Books
<1>2. Books /\ [Next]_vars => Books'
  BY DEF Books, Next, vars, Construct, CreateSession, StartTask, TaskForced, RunEnds,
         Release, Aclose
<1> QED BY <1>1, <1>2, PTL DEF Spec

\* For every combination of requirements, the verdict is exact.
THEOREM VerdictHolds == Spec => []VerdictIsExact
<1>1. Spec => []Disposed
  BY DisposedInvariant
<1>2. Disposed => VerdictIsExact
  BY Exact DEF VerdictIsExact
<1> QED BY <1>1, <1>2, PTL

-----------------------------------------------------------------------------
(* What was admitted, and what is discovered.                              *)

Compatible(sp) == Status(SessionIssues(sp)) = "compatible"

Admitted ==
  \A s \in Sessions : spec[s] # NoSpec => /\ spec[s] \in SessionSpec
                                          /\ harness \in {"open", "closed"}
                                          /\ Compatible(spec[s])

\* The requirements of an admitted session are kept, whatever the facts.
THEOREM AdmittedStaysKept == Spec => []AdmittedIsKept
<1>1. Init => Admitted
  BY DEF Init, Admitted
<1>2. ASSUME Disposed, Books, Admitted, [Next]_vars PROVE Admitted'
  <2>1. ASSUME NEW a \in Arguments, Construct(a) PROVE Admitted'
    BY <1>2, <2>1 DEF Construct, Books, Admitted
  <2>2. ASSUME NEW z \in Sessions, NEW sp \in SessionSpec, CreateSession(z, sp)
        PROVE  Admitted'
    <3>1. UNCHANGED <<model, disposition, harness>>
      BY <2>2 DEF CreateSession
    <3>2. \A x : Compatible(x)' <=> Compatible(x)
      BY <3>1 DEF Compatible, SessionIssues, Status
    <3>3. CASE spec' = spec
      BY <1>2, <3>1, <3>2, <3>3 DEF Admitted
    <3>4. CASE spec' # spec
      <4>1. harness = "open" /\ Compatible(sp) /\ spec' = [spec EXCEPT ![z] = sp]
        BY <2>2, <3>4 DEF CreateSession, Refuses, Compatible
      <4>2. ASSUME NEW s \in Sessions, spec'[s] # NoSpec
            PROVE  /\ spec'[s] \in SessionSpec /\ harness' \in {"open", "closed"}
                   /\ Compatible(spec'[s])
        BY <1>2, <3>1, <4>1, <4>2 DEF Admitted, Books
      <4> QED BY <3>2, <4>2 DEF Admitted
    <3> QED BY <3>3, <3>4
  <2>3. ASSUME UNCHANGED <<model, disposition, spec>>,
               harness' = harness \/ harness' = "closed"
        PROVE  Admitted'
    <3>1. \A x : Compatible(x)' <=> Compatible(x)
      BY <2>3 DEF Compatible, SessionIssues, Status
    <3> QED BY <1>2, <2>3, <3>1 DEF Admitted
  <2> QED BY <1>2, <2>1, <2>2, <2>3
       DEF Next, vars, StartTask, TaskForced, RunEnds, Release, Aclose
<1>3. Disposed /\ Admitted => AdmittedIsKept
  BY Exact DEF Admitted, Compatible, AdmittedIsKept
<1> QED BY <1>1, <1>2, <1>3, DisposedInvariant, BooksInvariant, PTL DEF Spec

\* What discovery says of a capability is what preflight says of its requirement.
THEOREM DiscoveryTellsTheSame == Spec => []DiscoveryAgrees
<1>1. ASSUME Disposed PROVE DiscoveryAgrees
  <2>1. /\ disposition.retention \in Retentions /\ disposition.visibility \in Visibilities
    BY <1>1 DEF Disposed, Disposition
  <2>2. ASSUME NEW sp \in SessionSpec
        PROVE  Status(SessionIssues(sp)) =
                 IF Has(SessionIssues(sp), "unsupported") THEN "incompatible"
                 ELSE IF Has(SessionIssues(sp), "unconfirmed") THEN "unconfirmed"
                 ELSE "compatible"
    BY DEF Status, Has
  <2>3. ASSUME NEW c \in Capabilities \ {"structured_output"}
        PROVE  Status(SessionIssues(Requires(c))) = Matches[Support(c)]
    <3> DEFINE sp == Requires(c)
    <3>1. /\ sp \in SessionSpec /\ sp.model = NoModel
          /\ sp.approval = IF c = "caller_approval" THEN "caller_decides" ELSE "provider_default"
          /\ sp.questions = IF c = "questions" THEN "caller_answers" ELSE "not_required"
          /\ sp.persistence = (c = "persistence")
          /\ sp.workspace = (c = "workspace")
          /\ sp.execution = (c = "execution_constraint")
          /\ sp.retention = IF c = "context_retention" THEN "ephemeral" ELSE "provider_default"
          /\ sp.visibility = IF c = "user_history_visibility" THEN "hidden"
                                                              ELSE "provider_default"
      BY DEF Requires, NoRequirement, Capabilities, SessionSpec, Approvals, Questions
    <3> HIDE DEF sp
    <3>2. /\ Has(SessionIssues(sp), "unsupported") <=>
               \/ c \notin {"diagnostics", "context_retention", "user_history_visibility"}
               \/ c = "context_retention" /\ disposition.retention = "materialized"
               \/ c = "user_history_visibility" /\ disposition.visibility = "visible"
          /\ Has(SessionIssues(sp), "unconfirmed") <=>
               \/ c = "context_retention" /\ disposition.retention = "unknown"
               \/ c = "user_history_visibility" /\ disposition.visibility = "unknown"
      BY <1>1, <3>1, KindsOfIssues DEF Fixed, Capabilities
    <3> QED BY <2>1, <2>2, <3>1, <3>2
         DEF sp, Support, DeclaredSupport, Matches, Capabilities, Retentions, Visibilities
  <2>4. Status(TaskIssues([input |-> "text", output |-> "structured"])) =
          Matches[Support("structured_output")]
    <3> DEFINE issues == TaskIssues([input |-> "text", output |-> "structured"])
    <3>1. issues = {[path |-> "output", kind |-> "unsupported"]}
      BY DEF TaskIssues, Unless
    <3> HIDE DEF issues
    <3>2. \E i \in issues : i.kind = "unsupported"
      BY <3>1
    <3>3. Status(issues) = "incompatible"
      BY <3>2 DEF Status
    <3>4. Matches[Support("structured_output")] = "incompatible"
      BY DEF Support, Matches
    <3> QED BY <3>3, <3>4 DEF issues
  <2> QED BY <2>3, <2>4 DEF DiscoveryAgrees
<1> QED BY <1>1, DisposedInvariant, PTL

-----------------------------------------------------------------------------
(* The requirements suite.                                                 *)

\* The disposition of a harness built as a profile says.
Declares(p) == [retention |-> DeclaredRetention(p.harness), visibility |-> p.harness.visibility]

\* A spec with one requirement.
LEMMA OneRequirement ==
  ASSUME NEW m \in Models
  PROVE  /\ NoRequirement \in SessionSpec
         /\ With("model", m) \in SessionSpec /\ With("model", m).model = m
         /\ With("diagnostics", "required") \in SessionSpec
         /\ \A a \in Approvals : With("approval", a) \in SessionSpec
         /\ \A q \in Questions : With("questions", q) \in SessionSpec
         /\ With("persistence", TRUE) \in SessionSpec
         /\ With("workspace", TRUE) \in SessionSpec
         /\ With("execution", TRUE) \in SessionSpec
         /\ With("retention", "ephemeral") \in SessionSpec
         /\ With("visibility", "hidden") \in SessionSpec
BY DEF With, NoRequirement, SessionSpec, Approvals, Questions

\* The verdict on a spec, from what it requires and what is declared.
LEMMA VerdictOn ==
  ASSUME Disposed, NEW sp \in SessionSpec
  PROVE  Status(SessionIssues(sp)) =
           IF \/ ~Fixed(sp)
              \/ sp.retention = "ephemeral" /\ disposition.retention = "materialized"
              \/ sp.visibility = "hidden" /\ disposition.visibility = "visible"
             THEN NO
           ELSE IF \/ sp.retention = "ephemeral" /\ disposition.retention = "unknown"
                   \/ sp.visibility = "hidden" /\ disposition.visibility = "unknown"
             THEN UNSURE
           ELSE OK
<1>1. Status(SessionIssues(sp)) =
        IF Has(SessionIssues(sp), "unsupported") THEN NO
        ELSE IF Has(SessionIssues(sp), "unconfirmed") THEN UNSURE
        ELSE OK
  BY DEF Status, Has, NO, UNSURE, OK
<1> QED BY <1>1, KindsOfIssues

\* What the suite expects of a case is what validation answers.
Answered(c) == /\ c.spec \in SessionSpec
               /\ Status(SessionIssues(c.spec)) = c.session
               /\ Status(TaskIssues(c.request)) = c.task

LEMMA TaskAnswers == Status(TaskIssues(Plain)) = OK /\ Status(TaskIssues(Structured)) = NO
<1>1. TaskIssues(Plain) = {}
  BY DEF TaskIssues, Unless, Plain
<1>2. TaskIssues(Structured) = {[path |-> "output", kind |-> "unsupported"]}
  BY DEF TaskIssues, Unless, Structured
<1>3. \E i \in TaskIssues(Structured) : i.kind = "unsupported"
  BY <1>2
<1> QED BY <1>1, <1>3 DEF Status, OK, NO

LEMMA CommonAnswers ==
  ASSUME Disposed, model = bound, NEW c \in CommonCases
  PROVE  Answered(c)
<1> USE SuiteAssumption
<1> DEFINE Undisposed(sp) == /\ sp \in SessionSpec
                             /\ sp.retention = "provider_default"
                             /\ sp.visibility = "provider_default"
<1>0. bound # NoModel /\ other # NoModel /\ bound \in Models /\ other \in Models
  BY NoModelAssumption
<1>1. ASSUME NEW sp, Undisposed(sp), NEW session \in {OK, NO}, session = OK <=> Fixed(sp)
      PROVE  /\ Case(session, sp) = [spec |-> sp, request |-> Plain, session |-> session,
                                     task |-> OK]
             /\ Status(SessionIssues(sp)) = session
  BY <1>1, VerdictOn DEF Case
<1>2. ASSUME NEW sp, Undisposed(sp), NEW session \in {OK, NO}, session = OK <=> Fixed(sp)
      PROVE  Answered(Case(session, sp))
  <2> DEFINE d == Case(session, sp)
  <2>1. d.spec = sp /\ d.request = Plain /\ d.session = session /\ d.task = OK
    BY DEF Case
  <2> HIDE DEF d
  <2> QED BY <1>1, <1>2, <2>1, TaskAnswers DEF Answered, d
<1> USE DEF OK, NO
<1>3. Undisposed(NoRequirement) /\ Fixed(NoRequirement)
  BY <1>0, OneRequirement DEF NoRequirement, Fixed
<1>4. /\ Undisposed(With("model", bound)) /\ Fixed(With("model", bound))
      /\ Undisposed(With("model", other)) /\ ~Fixed(With("model", other))
  BY <1>0, OneRequirement DEF With, NoRequirement, Fixed
<1>5. /\ Undisposed(With("diagnostics", "required")) /\ Fixed(With("diagnostics", "required"))
      /\ Undisposed(With("approval", "deny_all")) /\ Fixed(With("approval", "deny_all"))
  BY <1>0, OneRequirement DEF With, NoRequirement, Fixed, Approvals
<1>6. /\ \A a \in {"caller_decides", "agent_reviewed"} :
           Undisposed(With("approval", a)) /\ ~Fixed(With("approval", a))
      /\ Undisposed(With("questions", "caller_answers"))
      /\ ~Fixed(With("questions", "caller_answers"))
  BY <1>0, OneRequirement DEF With, NoRequirement, Fixed, Approvals, Questions
<1>7. /\ Undisposed(With("persistence", TRUE)) /\ ~Fixed(With("persistence", TRUE))
      /\ Undisposed(With("workspace", TRUE)) /\ ~Fixed(With("workspace", TRUE))
      /\ Undisposed(With("execution", TRUE)) /\ ~Fixed(With("execution", TRUE))
  BY <1>0, OneRequirement DEF With, NoRequirement, Fixed
<1> DEFINE s == [Case(OK, NoRequirement) EXCEPT !.request = Structured, !.task = NO]
<1>8. Answered(s)
  <2>1. /\ s.spec = NoRequirement /\ s.request = Structured /\ s.session = OK /\ s.task = NO
    BY DEF Case
  <2> HIDE DEF s
  <2> QED BY <1>1, <1>3, <2>1, TaskAnswers DEF Answered
<1> HIDE DEF s, Undisposed
<1>9. \/ c = Case(OK, NoRequirement) \/ c = Case(OK, With("model", bound))
      \/ c = Case(NO, With("model", other)) \/ c = Case(OK, With("diagnostics", "required"))
      \/ c = Case(OK, With("approval", "deny_all"))
      \/ c = Case(NO, With("approval", "caller_decides"))
      \/ c = Case(NO, With("approval", "agent_reviewed"))
      \/ c = Case(NO, With("questions", "caller_answers"))
      \/ c = Case(NO, With("persistence", TRUE)) \/ c = Case(NO, With("workspace", TRUE))
      \/ c = Case(NO, With("execution", TRUE)) \/ c = s
  BY DEF CommonCases, s
<1> QED BY <1>2, <1>3, <1>4, <1>5, <1>6, <1>7, <1>8, <1>9

\* The cases of a profile that say what is declared of retention and visibility.
Expected(declared, wanted) ==
  IF declared = wanted THEN OK ELSE IF declared = "unknown" THEN UNSURE ELSE NO

LEMMA DispositionAnswers ==
  ASSUME Disposed,
         NEW c \in DispositionCases(Expected(disposition.retention, "ephemeral"),
                                    Expected(disposition.visibility, "hidden"))
  PROVE  Answered(c)
<1> DEFINE short == With("retention", "ephemeral")
           hidden == With("visibility", "hidden")
<1>1. /\ short \in SessionSpec /\ short.retention = "ephemeral"
      /\ short.visibility = "provider_default" /\ Fixed(short)
  BY DEF With, NoRequirement, SessionSpec, Approvals, Questions, Fixed
<1>2. /\ hidden \in SessionSpec /\ hidden.visibility = "hidden"
      /\ hidden.retention = "provider_default" /\ Fixed(hidden)
  BY DEF With, NoRequirement, SessionSpec, Approvals, Questions, Fixed
<1> HIDE DEF short, hidden
<1>3. disposition.retention \in Retentions /\ disposition.visibility \in Visibilities
  BY DEF Disposed, Disposition
<1>4. Status(SessionIssues(short)) = Expected(disposition.retention, "ephemeral")
  BY <1>1, <1>3, VerdictOn DEF Expected, Retentions
<1>5. Status(SessionIssues(hidden)) = Expected(disposition.visibility, "hidden")
  BY <1>2, <1>3, VerdictOn DEF Expected, Visibilities
<1>6. \A session, sp : LET d == Case(session, sp) IN
        d.spec = sp /\ d.request = Plain /\ d.session = session /\ d.task = OK
  BY DEF Case
<1>7. \/ c = Case(Expected(disposition.retention, "ephemeral"), short)
      \/ c = Case(Expected(disposition.visibility, "hidden"), hidden)
  BY DEF DispositionCases, short, hidden
<1> QED BY <1>1, <1>2, <1>4, <1>5, <1>6, <1>7, TaskAnswers DEF Answered

\* Every profile is declared in full, and answered as it declares.
LEMMA ProfileAnswers ==
  ASSUME NEW p \in Profiles
  PROVE  /\ p.harness \in Arguments /\ p.harness.model = bound
         /\ ~(p.harness.owned /\ p.harness.retention \notin {"undeclared", "ephemeral"})
         /\ p.harness.eventCapacity = 2 /\ p.harness.diagnosticCapacity = 2
         /\ Declared(p) /\ Declares(p) \in Disposition
         /\ p.cases = CommonCases \cup
                        DispositionCases(Expected(Declares(p).retention, "ephemeral"),
                                         Expected(Declares(p).visibility, "hidden"))
         /\ p.support = ExpectedSupport(
                          DeclaredSupport(Declares(p).retention, "ephemeral"),
                          DeclaredSupport(Declares(p).visibility, "hidden"))
<1> DEFINE ProfileOf(o, r, v, er, ev, cr, cv) ==
             [harness |-> Built(o, r, v), support |-> ExpectedSupport(er, ev),
              cases |-> CommonCases \cup DispositionCases(cr, cv)]
<1>1. PICK o \in BOOLEAN, r \in Retentions \cup {"undeclared"}, v \in Visibilities,
           er \in {"supported", "unknown", "unsupported"},
           ev \in {"supported", "unknown", "unsupported"},
           cr \in {OK, NO, UNSURE}, cv \in {OK, NO, UNSURE} :
        /\ p = ProfileOf(o, r, v, er, ev, cr, cv)
        /\ \/ /\ o /\ r = "undeclared" /\ v = "unknown"
              /\ er = "supported" /\ ev = "unknown" /\ cr = OK /\ cv = UNSURE
           \/ /\ ~o /\ r = "undeclared" /\ v = "unknown"
              /\ er = "unknown" /\ ev = "unknown" /\ cr = UNSURE /\ cv = UNSURE
           \/ /\ ~o /\ r = "ephemeral" /\ v = "hidden"
              /\ er = "supported" /\ ev = "supported" /\ cr = OK /\ cv = OK
           \/ /\ ~o /\ r = "materialized" /\ v = "visible"
              /\ er = "unsupported" /\ ev = "unsupported" /\ cr = NO /\ cv = NO
  BY DEF Profiles, Retentions, Visibilities
<1>2. /\ p.harness = Built(o, r, v) /\ p.support = ExpectedSupport(er, ev)
      /\ p.cases = CommonCases \cup DispositionCases(cr, cv)
  BY <1>1
<1>3. /\ p.harness.model = bound /\ p.harness.owned = o /\ p.harness.retention = r
      /\ p.harness.visibility = v
      /\ p.harness.eventCapacity = 2 /\ p.harness.diagnosticCapacity = 2
  BY <1>2 DEF Built
<1>4. p.harness \in Arguments
  BY <1>1, <1>2, SuiteAssumption, CapacityAssumption DEF Built, Arguments
<1>5. /\ Declares(p).retention = IF o THEN "ephemeral"
                                 ELSE IF r = "undeclared" THEN "unknown" ELSE r
      /\ Declares(p).visibility = v
  BY <1>3 DEF Declares, DeclaredRetention
<1>6. Declares(p) \in Disposition
  BY <1>1, <1>3, <1>5 DEF Declares, DeclaredRetention, Disposition, Retentions, Visibilities
<1>7. Declared(p)
  BY <1>2 DEF Declared, ExpectedSupport, CommonCases
<1>8. /\ cr = Expected(Declares(p).retention, "ephemeral")
      /\ cv = Expected(Declares(p).visibility, "hidden")
      /\ er = DeclaredSupport(Declares(p).retention, "ephemeral")
      /\ ev = DeclaredSupport(Declares(p).visibility, "hidden")
  BY <1>1, <1>5 DEF Expected, DeclaredSupport, OK, NO, UNSURE
<1> QED BY <1>1, <1>2, <1>3, <1>4, <1>6, <1>7, <1>8

\* The decisions a case may expect.
LEMMA CaseAnswers ==
  ASSUME NEW p \in Profiles, NEW c \in p.cases, model = bound, disposition = Declares(p)
  PROVE  /\ Answered(c) /\ c.task \in {OK, NO} /\ c.request \in Request
         /\ \A k \in Capabilities : Support(k) = p.support[k]
<1>1. Disposed
  BY ProfileAnswers DEF Disposed
<1>2. /\ c \in CommonCases \cup DispositionCases(Expected(disposition.retention, "ephemeral"),
                                                 Expected(disposition.visibility, "hidden"))
  BY ProfileAnswers
<1>3. Answered(c)
  BY <1>1, <1>2, CommonAnswers, DispositionAnswers
<1> DEFINE s == [Case(OK, NoRequirement) EXCEPT !.request = Structured, !.task = NO]
<1>4. /\ \A session, sp : Case(session, sp).request = Plain /\ Case(session, sp).task = OK
      /\ s.request = Structured /\ s.task = NO
  BY DEF Case
<1>5. c.task \in {OK, NO} /\ c.request \in {Plain, Structured}
  <2> HIDE DEF s
  <2>1. c = s \/ \E session, sp : c = Case(session, sp)
    BY <1>2 DEF CommonCases, DispositionCases, s
  <2> QED BY <1>4, <2>1
<1>6. {Plain, Structured} \subseteq Request
  BY DEF Plain, Structured, Request
<1>7. \A k \in Capabilities : Support(k) = p.support[k]
  <2>1. p.support = ExpectedSupport(DeclaredSupport(disposition.retention, "ephemeral"),
                                    DeclaredSupport(disposition.visibility, "hidden"))
    BY ProfileAnswers
  <2> QED BY <2>1 DEF Support, ExpectedSupport
<1> QED BY <1>3, <1>5, <1>6, <1>7

\* Where the scenario is: what was built is what the profile declares, no task runs
\* on the session before one is admitted, and nothing was answered wrongly.
Along ==
  /\ profile \in Profiles /\ case \in profile.cases
  /\ at = "construct" => harness = "none"
  /\ at # "construct" => model = bound /\ disposition = Declares(profile)
  /\ at \in {"validate", "create", "start", "retry"} => harness = "open"
  /\ at \in {"construct", "validate", "create", "start", "retry"} =>
       running[s1] = "none" /\ ~closed[s1]
  /\ at = "start" => case.session = OK
  /\ verdict = "passing"

LEMMA AlongStep ==
  ASSUME Along, [RequirementNext]_requirementVars
  PROVE  Along' /\ [Next]_vars
<1> USE SuiteAssumption DEF Along
<1>1. CASE UNCHANGED requirementVars
  BY <1>1 DEF requirementVars, vars
<1>2. CASE Constructs
  <2>1. Construct(profile.harness) /\ profile.harness \in Arguments
    BY <1>2, ProfileAnswers DEF Constructs
  <2>2. ~(\/ profile.harness.owned /\ profile.harness.retention \notin {"undeclared", "ephemeral"}
          \/ profile.harness.eventCapacity < 2
          \/ profile.harness.diagnosticCapacity < 2)
    <3>1. profile.harness.eventCapacity = 2 /\ profile.harness.diagnosticCapacity = 2
      BY ProfileAnswers
    <3> QED BY <3>1, ProfileAnswers
  <2>3. harness' = "open" /\ model' = bound /\ disposition' = Declares(profile)
    BY <2>1, <2>2, ProfileAnswers DEF Construct, Declares
  <2> QED BY <1>2, <2>1, <2>3, ProfileAnswers
       DEF Constructs, Construct, Asserts, Goes, Next
<1>3. CASE Validates
  BY <1>3, CaseAnswers DEF Validates, Asserts, Goes, Answered, vars
<1>4. CASE Creates
  <2>1. Status(SessionIssues(case.spec)) = case.session /\ case.spec \in SessionSpec
    BY <1>4, CaseAnswers DEF Creates, Answered
  <2>2. answer' = Decision(case.session)
    BY <1>4, <2>1 DEF Creates, CreateSession, Refuses, Decision, OK
  <2> QED BY <1>4, <2>1, <2>2 DEF Creates, CreateSession, Asserts, Goes, Uncalled, Next
<1>5. CASE Starts
  <2>1. Status(TaskIssues(case.request)) = case.task /\ case.request \in Request
        /\ case.task \in {OK, NO}
    BY <1>5, CaseAnswers DEF Starts, Answered
  <2>2. StartAnswer(s1, case.request) = IF case.task = OK THEN "admitted" ELSE case.task
    BY <1>5, <2>1 DEF Starts, StartAnswer, Refuses, OK, NO
  <2>3. answer' = Decision(case.task)
    BY <1>5, <2>2 DEF Starts, StartTask, Decision
  <2>4. case.task # OK => running' = running
    BY <1>5, <2>1, <2>2 DEF Starts, StartTask, OK, NO
  <2> QED BY <1>5, <2>1, <2>3, <2>4 DEF Starts, StartTask, Asserts, Goes, Uncalled, Next
<1>6. CASE Retries
  <2>1. StartAnswer(s1, Plain) = "admitted" /\ Plain \in Request
    BY <1>6, TaskAnswers DEF Retries, StartAnswer, Refuses, OK, Plain, Request
  <2>2. answer' = Decision(OK)
    BY <1>6, <2>1 DEF Retries, StartTask, Decision
  <2> QED BY <1>6, <2>1, <2>2 DEF Retries, StartTask, Asserts, Goes, Uncalled, Next
<1>7. CASE Completes
  BY <1>7 DEF Completes, RunEnds, Asserts, Goes, Next
<1>8. CASE Releases
  BY <1>8 DEF Releases, Release, Asserts, Goes, Next
<1>9. CASE Closes
  BY <1>9 DEF Closes, Aclose, Asserts, Goes, Next
<1> QED BY <1>1, <1>2, <1>3, <1>4, <1>5, <1>6, <1>7, <1>8, <1>9 DEF RequirementNext

\* Every profile and case is answered as declared, whichever the models are: by
\* discovery, by preflight, by create_session and start_task with and without a
\* preflight, and by the start that follows a refused one.
THEOREM RequirementsAreMet == RequirementSpec => []RequirementSuitePasses
<1>1. RequirementInit => Along
  BY SuiteAssumption DEF RequirementInit, Init, Along
<1>2. Along /\ [RequirementNext]_requirementVars => Along'
  BY AlongStep
<1>3. Along => RequirementSuitePasses
  BY DEF Along, RequirementSuitePasses
<1> QED BY <1>1, <1>2, <1>3, PTL DEF RequirementSpec

\* A scenario asks the adapter nothing that Admission leaves out: what is proved of
\* any callers holds of the suite's.
THEOREM ScenariosAreAdmission == RequirementSpec => Spec
<1>1. RequirementInit => Along /\ Init
  BY SuiteAssumption DEF RequirementInit, Init, Along
<1>2. Along /\ [RequirementNext]_requirementVars => Along' /\ [Next]_vars
  BY AlongStep
<1> QED BY <1>1, <1>2, PTL DEF RequirementSpec, Spec
=============================================================================
