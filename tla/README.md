# Verification of the agent harness protocol

TLA+ models, model-checking configurations and machine-checked proofs for
`agent-harness-protocol`: a port (`src/src/agent_harness_protocol`) through which an
application talks to an agent, and its one adapter, for LangGraph
(`src/implementations/langgraph`). The port consists of abstract methods and value types,
and of conformance suites for its adapters; what keeps state and runs concurrently is in the
adapter, and most of the models are of it. It runs in one asyncio event loop: there are no
threads, and what a coroutine or a callback does between two `await`s that suspend is one
step. What the port promises beyond this adapter (approvals, responses and starts that get
lost, stored contexts) is modelled as its suites describe it.

Paths below: `harness.py`, `_fanout.py`, `_graph.py` are the adapter's; the other module
names are the port's.

## 1. The system

| Component | State | Operations | Interacts with |
|---|---|---|---|
| Bounded fan-out (`_fanout.py`), one for events and one for diagnostics of each task | subscribers, per subscription a bounded buffer, a wake-up event, the retained final item | `publish`, `close`, `subscribe`, the two generators and their abandonment | called by the task; read by any number of callers |
| Task (`_LangGraphTask`) | state, outcome future, worker, `_cancel_sent`, `_model_called`, observed usage | `start`, `_run`, `_graph_run_ended` (done callback), `request_cancellation`, `stop`, `force_unresolved`, `_settle` | drives the graph; commits usage to, and frees, its session |
| Session (`_LangGraphSession`) | `_running`, `_closed`, cumulative usage, the release task; its checkpoint thread | `validate`, `start_task`, `release`, `_call_model`, `commit_usage`, `graph_run_ended`, forced cleanup | stops its task, deletes its thread, leaves `runtime.sessions` |
| Harness (`LangGraphHarness`, `_Runtime`) | declared disposition, open sessions, `closed`, the close task | constructor, `support`, `validate`, `create_session`, `aclose` | releases all sessions within a total budget |
| Graph (`_graph.py`) | none of its own; one turn reads and writes the session's thread | `run_turn` | calls the session's model hook |
| Usage (`outcome.py`) | pure: fields that may be unknown | addition, subtraction | session totals, outcomes |
| The abstract port (`harness.py` of the port) | handles, snapshots, outcomes, totals | `create_session`, `start_task`, `release`, `aclose`, `await_outcome` | implemented by the adapter |
| Interactions (`interaction.py`), stored contexts | a pending approval, its response; contexts that outlive handles | `respond`, `reopen_session` | a runtime behind a boundary that loses messages |
| Outcomes, events, identity, diagnostics | value types | – | – |
| Compatibility, requirements, support, cleanup budget | pure decisions over declared facts | `status`, `require_compatible`, reports | harness and session |
| Conformance suites (`conformance/`) | scenarios | – | drive any adapter; the LangGraph tests subscribe to three suites |

What is hard here, and what each component owes:

* **Two runs on one thread.** A task may be settled by force while its graph run goes on.
  The session must stay blocked until that run has really ended, or two runs would write
  the same thread (`SingleGraphRun`, `ContextContinuity`), and must be freed then
  (`ConfirmedOutcomeFreesSession`, `EndedRunFreesSession`).
* **Many judges of one task.** Its run's end, the caller's cancellation, the release and
  the close of the harness each wait for the same run with timers of their own and settle
  the same task. The first judgment stands, its usage is committed with it and once,
  a handle is withdrawn only after what it owns is judged (`PortSpec`), and the stream and
  the state tell the same story (`StoryAgrees`).
* **Honesty.** `Cancelled` is only said where it is proved (`HonestCancellation`), an
  unmeasured amount is never zero (`UnknownIsNotZero`), and a difference of two totals is
  what was committed between them or unknown (`DifferencesAreHonest`).
* **Cleanup against late work.** Releases and closes settle everything (`PortSpec`) and end,
  although a run may never end (`CleanupEnds`, `CancellationIsAnswered`); a run that ends
  after its session was released writes its conversation into a thread that was deleted
  (`ReleasedThreadStaysDeleted`); the two bounds of the budget apply to waits that follow
  each other (`ReleaseWithinLongerBound`, `SettledInTime`, `DeletionGetsTheRest`).
* **Loss without silence.** A slow reader loses events, but each loss is counted, at its
  place, and it always hears how the task ended (`ExactAccounting`, `GapsAreMaximal`,
  `FinalIsLast`, `NoLostWakeup`, `DiligentReaderHearsFinal`).
* **Admission is a promise.** Preflight, discovery and admission are computed apart and
  have to agree; nothing is admitted that the declared facts do not guarantee
  (`VerdictIsExact`, `AdmittedIsKept`, `DiscoveryAgrees`).
* **Two components, one story.** The task is judged in one place and read in another: what a
  reader was shown agrees with the outcome (`StreamTellsTheOutcome`), and every way of
  ending a task ends the iteration over its events (`EndReachesReaders`).
* **Lost acknowledgements.** A start or a response may have arrived although nobody heard of
  it: nothing that may have arrived is submitted again (`NothingIsResubmitted`,
  `OneWorkPerContext`), not through another handle of the context and not by a recreated
  harness; no effect happens without the caller's approval of that very task
  (`EffectsAreAuthorised`); a request that is answered, withdrawn and overtaken by the end of
  its task at the same time ends once, and everybody is told the same end (`ResolvedOnce`).

The list of hazards, each at its line and with the properties that would catch it, is in
`PROJECT.json`.

## 2. Modules

```
EventLog   <-- implements --  Fanout  <-- FanoutProofs
Usage  <-- AgentPort  <-- implements --  Harness
Harness  <-- HarnessProofs <-- PortProofs
Harness  <-- Conformance;  Conformance, PortProofs <-- ConformanceProofs
Harness, Fanout <-- TaskStream;  TaskStream, HarnessProofs, FanoutProofs <-- TaskStreamProofs
Admission  <-- RequirementSuite <-- AdmissionProofs
Delivery   <-- DeliverySuite <-- DeliveryProofs
Cleanup    <-- CleanupTimeProofs
MC*        instances of these for TLC
```

**Fanout** models `BoundedFanout`, one variable for each attribute. `published`,
`closed`, `final`, `subscribers` are the publisher's; `entries`, `ready`, `ended` are those of
`_Subscription`; `phase` is where a subscription's generator is suspended: `fresh` (not
started), `yielded` (between two items), `waiting` (on the wake-up event), `late` (the
generator of a closed source), `over`, `left`. Publications are numbers, and a buffer
entry is a range of them, kept or lost. `base`, `heard` and `told` are history. The three
tests of `publish` are two in `Offer`, because a full buffer always ends in a gap
(`BoundedBuffer`, proved).

**EventLog** is what a subscription promises, without buffers: reports account for one
publication after the other; only a reader at least `Slack` publications behind loses
one; neighbouring losses are one gap; the final item comes last and once. `Fanout!LogSpec`
instantiates it (`lost` from the gaps of buffer and history, `status` from `phase`).

**AgentPort** is what the port's abstract classes let callers rely on, whatever adapter is
behind them: sequential tasks in a session, one judgment per task with its usage in the
session total and that total in the outcome, a snapshot that follows the judgment, handles
withdrawn and `release`/`aclose` ended only when everything they own is judged. One step may
judge tasks of several sessions, and none is forced to happen. `Harness!PortSpec` instantiates
it; `Phase` maps `shut` and `closer` to open, closing and closed.

**Usage** is `AgentUsage`: addition and subtraction with unknown fields.

**Harness** is the adapter: one action for each stretch of code between two suspensions.
A task's `run` says where its coroutine is (`scheduled`, `entered`, `recorded` after the
input was stored, `model` in the model node, `replied`) or how it ended; `due` says that
its done callbacks are queued, so that a `stop()` woken earlier, which also settles, and
the callback race as they do in the code. `release` and `closer` are the program counters of
`_release` and `_close_all`. `_settle` is `Settle`, applied to a set of tasks because
`_close_all` settles several without suspending. A wait with a timeout may end by its
timeout whenever the code could be in it. `ConfirmsWorkStopped` is the cancellation
semantics of the harness, `DeleteSuspends` says whether the checkpointer's
`adelete_thread` suspends (the in-memory one does not). The graph, the model and the
checkpointer are external; they are modelled by how the adapter uses them: a turn stores
its input, calls the model, stores the conversation with the reply, and may fail, be
cancelled, cancel itself or never end at any of these points. After the reply `_run` publishes
before it returns, so it can still fail with its message published: before its usage is read
(`RunBreaksOff`) or after it was announced (`RunReports`). A thread is the set of the messages
stored in it; their order is not modelled.

**Cleanup** adds a clock to cancellation, release and close, and leaves out what they
judge. A budget is any pair of bounds, since the code accepts any.

**Admission** is everything that decides: the constructor's declarations, `support`,
`validate` in both places, `CompatibilityReport.status`, and the decisions of
`create_session` and `start_task` in their order. A requirement is reduced to what the
adapter tells apart.

**TaskStream** composes a task of `Harness` with the `Fanout` of its events. `Harness` keeps
the list of what a task published; a step that makes it longer is, in the same step, the
publication or the close of the stream (`Follows`), and readers move on their own (`Reads`). The
number of a publication is its place in that list, so what a reader was shown can be compared
with the outcome.

**Delivery** is a harness with what the LangGraph adapter refuses: starts and responses
submitted over a boundary that may accept, reject or lose them, or lose the
acknowledgement (`Fates`), guarded tasks that ask for an approval, contexts that several
handles stand for and that a recreated harness finds again. A submission is one action and
its fate another one, with anything in between. There is no code of such an adapter here, so
its actions are marked external in the map: they are what the suites `acceptance.py`,
`interaction.py`, `approval.py`, `context.py`, `persistence.py` and `lifecycle.py` ask of one, and
**DeliverySuite** runs the scenarios of these suites against it, with the controls of
their fixtures.

**Conformance** drives `Harness` through the scenarios of `conformance/runtime.py` and
`conformance/cleanup.py`. A scenario is a sequence of instructions, calls, waits and
assertions; `LoopStep` runs the adapter in any order the loop may choose, with the
controlled model of `tests/model_boundary.py`. The callers that two scenarios cancel while they
await an outcome or a release are instructions too (`CancelsWaiter`, `CancelsCaller`): they wait on
a shield, so nothing of the adapter changes, and the mutation check puts what happens without the
shield in its place. The idle check at the end waits, as `settle()` does, for tasks that are not
done (`TasksDone`), not for the callbacks that done ones have queued. **RequirementSuite** does the same for
`conformance/requirements.py` against `Admission`, with the four profiles and all cases
that `tests/test_conformance.py` declares.

Every definition of these modules that translates code is listed in `PROJECT.json` with
its lines, or as external. Definitions called "Wrong ..." are plausible bugs; nothing uses them except the
mutation check, which puts one in the place of the definition it varies and expects the
named property to fail.

## 3. Runs

| Run | Instance | What it shows |
|---|---|---|
| `Fanout` | two readers (one diligent), capacity 3, 5 publications; 350 246 states | Loss accounting, bounded buffers, wake-ups, final item, refinement of `EventLog`, and that a reader that keeps reading hears the end |
| `HarnessTasks` | one session, two tasks, unconfirmed cancellation, a deletion that does not suspend; 2 054 001 states up to symmetry | Every safety property and the refinement of `AgentPort`, with cancellation, release and close at any moment |
| `HarnessLive` | one session, one task, confirmed cancellation, a deletion that suspends, fairness; 30 733 | Cancellation, release and close end even if the run does not |
| `TaskStream` | one task, one reader with a buffer of three, confirmed cancellation, fairness; 275 145 | A reader is told the end after the outcome is there, was shown what it reports unless it was told of a loss, and hears it whoever ends the task |
| `Admission` | every configuration, every combination of requirements, one session; and 4 profiles with 14 cases each (the 16 declared ones, those that differ in a text or in the contents of a constraint taken together), with and without preflight; 8 831 | Preflight, discovery and admission agree, and exactly with the facts; the declared expectations are what the adapter answers |
| `Suites` | confirmed cancellation, twelve scenarios, two sessions, three tasks; 881 | The runtime and cleanup suites pass in every order of the event loop, although callers are cancelled in their waits; they end; and they leave no session, and no thread that is not about to be deleted |
| `Delivery` | the scenarios of six suites, each on the controls of its fixture; and two tasks, one guarded, on one context with two handles, two responses per request, and callers and a boundary that do what they like; 266 285 | The suites' expectations are consistent, each scenario reaches its end, and the contract behind them holds beyond the scenarios |
| `CleanupTimes` | two sessions, bounds 0 to 2, clock to 4; 536 571 | How long cleanup takes, for budgets with either bound the longer one |
| `CloseFailures`, `LateWrite`, `Output`, `ReleaseTime` | expected violations | section 6 |

### Bounds, and why they are enough

* Fan-out: a buffer of three entries has two for items and the one kept for a gap. Five
  publications fill it, lose two in one gap, and, after a delivery, open a second gap.
  Two readers show that subscriptions do not disturb each other. `MaxPublished` is the only
  bound of the model; the proofs hold for every value of it.
* Harness: what one task leaves behind concerns the next task of its session, hence two
  tasks and one session. What forced settling of one session does beside ordinary settling
  of another one is in the two-session scenarios of `Suites` and, for any number of sessions,
  proved (section 4). Usage is one field; a
  reply carries one unit or no metadata, which distinguishes unknown, zero and measured. Nothing
  else is bounded: a task is started once, a session is created and released once, as in the code.
  Sessions, and tasks, are interchangeable (no action or property names one), so symmetry
  is used in the runs that check no liveness.
* Live: every liveness property concerns one task or one session, so one of each is
  enough.
* Task and stream: a task publishes three events, so a buffer of three loses some to a slow
  reader and none to a quick one. Replies are measured. While a cancellation waits the
  session is not released nor the harness closed, and no cancellation begins after that
  (`OneWay`); that callers do both at a time is in `HarnessTasks` and `HarnessLive`.
* Admission: the constructor's capacities are only compared with two, hence one and two.
  A model identity is the bound one, another one, or none.
* Suites: the scenario that closes four sessions is run with two. Assertions about
  elapsed time are left to `Cleanup`, assertions about texts to nobody. Each scenario is run with
  the models its tests subscribe it with. The cleanup scenarios under the default semantics,
  which does not confirm cancellation, have no run of their own: `SuiteAssertionsHold` is
  proved for both semantics.
* Cleanup: with bounds of zero, one and two, per_task is below, equal to and above total;
  the clock runs long enough for both waits of a release that starts at time zero.
* Delivery: a lost start is followed by one attempt on the same context, through the same
  handle or another one, and a response by one retry. Contexts are hidden only while no
  harness is open, as the fixture does it. The proofs bound none of this.

Deadlock is not checked where the system may stop: callers need not do anything more, and
a finished scenario is over. In `Delivery` it is: only a finished scenario may stop, so none
waits for something that never comes.

### Fairness

Only what the event loop does by itself is fair: it runs what is scheduled (`ReleaseBegins`,
`CloseBegins`, done callbacks, the first step of a worker) and fires timers
(`CancellationReturns`, `ReleaseStopWakes`, `CloseExpires`); a deletion ends, if only by its
`asyncio.timeout`. The second, unreported deletion has no timeout: that it ends is assumed of the
checkpointer, and only that deletion depends on it. No fairness is given to callers, or to the graph run after
its first step, which may never end; `EndedRunFreesSession` speaks of runs that do. In the
fan-out a waiting reader whose event is set is woken by the loop; that a reader asks for
the next item is assumed only of those in `Diligent`. `TaskStream` takes the fairness of
`Harness` and that of `Fanout`, and no more. In `Suites` the model is the suite's
own and replies when let go, and the loop goes on as long as something is ready; the scenarios never wait for
a second, so a timer there fires only when nothing else can run, and the total bound,
three times the other one, does not.

## 4. Proofs

TLAPS checks these for every number of sessions, tasks, readers and publications, every
capacity, and both settings of each switch. They assume only the named assumptions on the
constants: values that stand for `None` are not among the values they are distinguished
from, capacities are at least two, bounds are natural numbers.

**FanoutProofs.** Types; `Registered` (per subscription: its phase, whether the publisher knows
it, what it was told); `Accounts` (history and buffer, one after the other, are a
contiguous sequence of reports that reaches the last publication, without neighbouring
gaps). `Accounts` is the invariant that makes the accounting inductive: delivery moves the head of
the buffer to the end of the history, and `Offer` extends the last report or appends one, so the
concatenation is what a step changes simply. From these: `TypeOK`, `NoLostWakeup`,
`ExactAccounting`, `GapsAreMaximal`, `BoundedBuffer`, `FinalIsLast`, `NothingAfterFinal`.
`EndTellsTheFinal` is their converse: a stream that has a final item does not end without it.
`ImplementsLog` is the refinement of `EventLog`. `Accounts` alone does not give it: the set of losses
that the log keeps is read off the reports, so `Ordered` says that each report begins after the one
before it, what has been heard before what is buffered. Then appending a publication changes the
set by that publication or by nothing, and moving the head of the buffer does not change it. That a
loss strikes only a reader `Slack` behind is `Lag`: every entry of a buffer accounts for at
least one publication, so a full one is as far behind as it is long.

**HarnessProofs.** The core invariant is `TypeOK /\ Linked /\ Requested /\ Judged`.
`Linked` ties tasks to sessions: a live run is the one its session is blocked by, which is
`SingleGraphRun` with what it takes to be preserved. `Requested`: who waits for a run has
asked it to stop. `Judged`: a settled task has ended or was asked to stop, and an unsettled
one still has its session; without it a forced judgment could be followed by the first
step of the run. `Measured` adds when the model was called and what was observed. From
these: `SingleGraphRun`, `OutcomeIsFinal`, `StoryAgrees`, `ConfirmedOutcomeFreesSession`,
`UnknownIsNotZero`, `HonestCancellation`. The lemma `Judgments` says that a step settles a task by the
end of its run, by force, or not at all; the later proofs use it in place of `Next`. `Projected`
adds the session total a running task will show: `ProjectionAgrees`; with the arithmetic of amounts
that may be unknown, `DifferencesAreHonest`. `Narrated` gives the events of a task at every moment,
from its run and its outcome: nothing, its start, its start and message, or its start, message and
usage, and then its judgment. `OutputRetention` reads off it where a published message is not in the
outcome (`OutputIsLostInTwoWays`): of a task that failed, as after `RunBreaksOff`, and of one judged by
the total budget, which is the finding **Output** of section 6. No other judgment loses it.

**PortProofs.** First what releases and closing leave behind. `Releasing` (a session whose release
is past its wait has only settled tasks) and `Closing` (`aclose` knows every session that is not
released, because `shut` is set before its snapshot is taken): `ReleaseSettles`,
`CloseSettlesEverything`. `Deleting` and `Conversation` (a run between its storing steps works on
exactly what the thread holds) give `ContextContinuity`. `Swept` says that once a thread was
deleted, every run that can still write to it has been given a second deletion, and that what
the thread holds awaits that deletion or survives only its failure: `DeletedStays`, where a
deletion does not suspend (where it does, LateWrite shows that the property fails).
Then `ImplementsPort`: every step of `Harness` is a step of `AgentPort` under the mapping
of `PortSpec`, or changes nothing of it. Creating a session and starting a task map to the
actions of these names, everything else to `Work`: `JudgmentsMap` turns `Judgments` into one
judgment per session with its usage committed, `ReleaseSettles` and `CloseSettlesEverything` give
what the ends of `release` and `aclose` claim, and `Books` that no session is known that was
not created.

**TaskStreamProofs.** The composition is proved from its parts. `SameSteps`: the task's side of every
step is a step of `Harness`, so that the invariants of `HarnessProofs` hold. The stream's side is
not one step of `Fanout`: the reply and its usage are published without a suspension between
them, so `PublishTwoStep` preserves the invariants of the fan-out through the state between the two.
`Tied` links both: as many publications as events, and a stream that is closed with its final item
exactly when the task is settled. `NothingIsHindered` says that `Tied` is not bought by blocking:
whatever `Harness` may do next, the stream accepts the publications it calls for. With `Narrated` and
the accounts of a reader who saw no gap, `StreamTells` is `StreamTellsTheOutcome`.

**AdmissionProofs.** `SessionIssues` is a union of eight conditional issues: `KindsOfIssues` says which
kinds it has in terms of the spec and of what was declared, and `Exact` that this is what
quantifying over the possible facts gives. `VerdictHolds` and `DiscoveryTellsTheSame` follow for
every configuration; `AdmittedStaysKept` needs that the declarations of a harness do not
change once there is a session (`Books`). For the requirements suite, `CommonAnswers` and
`DispositionAnswers` compute the verdict on every declared case, and `Along` follows a scenario: what
was built is what its profile declares, and no task runs before one is admitted. Hence
`RequirementSuitePasses` (`RequirementsAreMet`), whichever the models are; and every scenario is a run
of `Admission` (`ScenariosAreAdmission`).

**ConformanceProofs.** `SuiteRunsTheAdapter`: a scenario, its model boundary and its event loop are a
choice among the runs of `Harness`, so that all of the above holds in the suite. From there
`NothingLeftBehind` takes what is the suite's own: nothing fails and no close times out (`Orderly`), and
what is left of a script ends in the idle check and still waits for the close unless
that is over (`Unfinished`). Once the harness is closed, no run starts any more
(`NoneStarts`), and that what is left of a thread is about to be deleted is `Swept`: every run that could
still write to a deleted thread was given a second deletion, which its done callback spawns.

`SuiteAssertionsHold` is `SuitePasses`. Its invariant, `OnTrack`, does not go through the scripts
position by position: it says that some script `sc` is done up to its instruction `n` (`At`), that
the adapter is where those `n` instructions alone let it be (`Facts`), and that the script only
asserts what follows from that (`Prepared`). `Facts` has six parts, each kept by every step of the
loop and by every instruction: the adapter closed, cancelled and started what it was told to and
nothing else (`Obeyed`); a run that is settled ended as its outcome says, and an unresolved one
was stopped while its end shows nothing (`Fated`); an outcome the scenario awaited is still there
(`Known`); no model replies to a task begun behind the gate (`Behind`); a task of a session began
after those before it ended (`Ordered`); and a thread stores the inputs and replies of exactly
these, which is also what the task works on (`Remembered`). `PreparedHolds` gets each kind of
assertion from them. What is left is about the scripts alone, and each scenario has its lemma: it
refuses only a session it closed, expects a cancelled task only where the gate was shut, and so on
(`ScenariosArePrepared`). `OnTrack` is needed because an assertion late in a script depends on what
held many instructions before it, on another task or session.

**CleanupTimeProofs.** `TimedInv` says of each wait when its timer fires, in terms of when the
release started: `SettledInTime`, `ReleaseWithinLongerBound`, `DeletionGetsTheRest`, types.

**DeliveryProofs.** The invariant is one of requests and one of contexts. `Request`: a request
that is shown can be answered (`Shown`), nothing is said of one before it is asked
(`Unasked`), it is resolved at most once (`Resolved`), an effect is preceded by an approval
that arrived (`Authorised`), only the last submission may have arrived (`Submitted`), and only
an ended or stopped task is judged (`Judged`). `ContextInv`: work, and starts on their way to
it, occupy their context alone (`Exclusive`), and every task is where its admission says
(`Placed`). They are needed together: a late response finds its request still open only
because no judgment came first. From these: `EffectsAreAuthorised`,
`NothingIsResubmitted`, `OneWorkPerContext`, `ResolvedOnce`, and types.

`SuiteRunsTheContract`: every run of a scenario is a run of `Delivery`, so the scenarios
assert nothing that callers and boundary of the contract could not bring about, and all of the
above holds in them. A script says only what the contract knows (`Meaningful`): its calls are
about existing handles, contexts and tasks, the fates it sets are `Fates`. What is left of such a
script is one again, so `OnScript` is inductive, and with it each instruction and each step
of a fixture is a step of `Next` or changes nothing of the contract.

`DeliverySuiteHolds` is `DeliverySuitePasses`, for any handles, contexts and tasks, as long as a
scenario's names for them differ (`NamesAssumption`). Its invariant, `Planned`, says that the
scenario stands in a scene (`Fits`) from which what is left of its script leads somewhere
(`Leads`). A scene is what one can know without knowing whose turn it is: for each task the set
of its possible standings (`StandingOf`: all that the contract's variables say of it), and
exactly the controls and what only calls change (handles, contexts, configurations). It has to
be `Closed`: no move of the fixture (`Moves`) leads out of these sets. An instruction turns a scene
into the next one (`Turns`), a wait by leaving only the standings that satisfy it, and an
assertion demands that every standing shows what it asserts (`Shows`). Two halves meet in
`PlannedStep`. That a scene stays true: fixture steps are moves (`FixtureMoves`), calls take a
task where `Takes` says (`CallTakes`), and what a scene shows is so (`Showing`), so that
`InstructionFits` and `FixtureFits` follow. That every script leads to its end: `Leads` can be composed
(`LeadsOn`), which gives a lemma for each phrase a script is made of (`ThenOpens`, `ThenReplies`;
for several tasks `SceneRuns`, `SceneAwaits`), and from these one lemma for each of the 27
scenarios. `Planned` is needed because what an assertion may find depends on
everything the scenario did and waited for before, while the adapter has any number of steps
still to do. `SuiteInv` adds to the contract's own invariant that exactly a start
that arrived was shown to the model (`Seen`), and that only an accepted task is asked to stop
(`Marked`).

### Only model-checked

* Liveness (`DiligentReaderHearsFinal`, `CancellationIsAnswered`, `CleanupEnds`,
  `EndedRunFreesSession`, `EndReachesReaders`, `SuiteEnds`): the prover does not reason about
  fairness and `ENABLED`.
* That a delivery scenario reaches its end. `DeliverySuiteHolds` says of a scenario that waits
  forever only that nothing it asserted was wrong; that none does is the absence of deadlock in
  the run `Delivery`.

## 5. What is not modelled

* Texts, message contents, ids, provider references, stop reasons and diagnostics content:
  no decision of the adapter depends on them.
* The diagnostics of a task: their stream is a `Fanout` without a final item, and what is
  published to it decides nothing.
* `Harness` has no clock and `Cleanup` no judgments; both take the order of the waits from the same code.
* The releases that `_close_all` starts begin in its own step; they are scheduled before its
  timer can fire.
* Questions, session-wide approval grants, and the contents of requests and answers:
  a request has one kind of answer in `Delivery`, given once. An adapter's own code for
  approvals, stored contexts and delivery does not exist here; `Delivery` is the contract only.
* The suites `accounting.py`, `outcome.py` (contents of outputs and amounts), `execution.py` and
  `workspace.py` (constraints on a runtime that the repository does not have), and what
  `lifecycle.py` and `observation.py` say of thousands of streamed fragments: no adapter streams
  them, and losing, counting and ending are `Fanout`'s for any number.
* LangGraph, checkpointers, models and asyncio itself, beyond how the adapter uses them.

## 6. Where code and documents disagree

* **CloseFailures** (`harness.py:467`). `aclose` promises `CheckpointCleanupError` "if stored
  context could not be deleted" (`harness.py:445`). A deletion still under way when the
  total budget expires, and failing afterwards, is in nobody's report; `aclose` returns
  normally.
* **LateWrite** (`harness.py:604`). "A graph run that outlived cleanup may still write; delete
  again once it ends" (`harness.py:603`). With a deletion that suspends, a run can write and
  end after the rows are gone and before `_delete_after_graph_run` looks: it sees no run,
  and the released thread stays.
* **Output** (`harness.py:613`). "All four outcomes retain acquired output and usage"
  (`docs/protocol.md:61`). When the total budget expires between the end of a run and its
  done callback, `force_unresolved` settles the task without the output its
  `MessageCompleted` event already showed. This takes a `per_task` that is not shorter than
  `total`, or `stop()` has settled the task before. A run that fails after that event
  (`harness.py:776-779`) ends without its output too; `OutputIsRetained` excludes it, so that
  the run shows the race.
* **ReleaseTime** (`harness.py:590`). The bounds are "upper bounds for one task and one whole
  cleanup operation" (`support.py:86`). Nothing keeps `per_task` below `total`, and a release
  waits `per_task` for its task whatever `total` says. (`ReleaseWithinLongerBound` is what
  does hold.)

## 7. Plan

Done, in this order: the fan-out and its abstract log; usage and the adapter core; their
proofs; admission; the suites the adapter runs; cleanup times; the abstract port and the
proof that the adapter implements it; the delivery contract of starts, responses and stored
contexts with its suites and proofs; the composition of a task with its event stream; the proofs of
that composition, of the requirements suite, of the runtime and cleanup suites and of the suites of
the delivery contract.

Next:

1. Partial output in `Delivery`, from `conformance/outcome.py`.
