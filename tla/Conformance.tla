---------------------------- MODULE Conformance ----------------------------
(***************************************************************************)
(* The LangGraph adapter under the conformance scenarios it subscribes to  *)
(* (conformance/runtime.py and cleanup.py, tests/test_conformance.py): one *)
(* scenario calls the adapter step by step while the event loop runs the   *)
(* adapter, in every order the loop may choose.                            *)
(*                                                                         *)
(* A scenario is the sequence of its calls, waits and assertions.  The     *)
(* model boundary (tests/model_boundary.py) is the suite's own: calls can  *)
(* be held, it always replies, and it may ignore cancellation.             *)
(*                                                                         *)
(* Time: a bound of stop() expires only when the event loop has nothing    *)
(* else to run, and total, being three times per_task, never does: that is *)
(* what the scenarios, which never wait for a second, rely on.             *)
(***************************************************************************)
EXTENDS Harness

CONSTANTS s1, s2, t1, t2, t3

ASSUME ParticipantsAssumption ==
  /\ {s1, s2} \subseteq Sessions /\ s1 # s2
  /\ {t1, t2, t3} \subseteq Tasks /\ t1 # t2 /\ t1 # t3 /\ t2 # t3

VARIABLES ignoring, \* the controlled model waits on when cancelled
          script,   \* what the scenario has left to do
          held,     \* the model boundary holds its calls
          seen,     \* the outcomes the scenario awaited so far
          verdict   \* of the scenario: an assertion failed, or none has

suiteVars == <<vars, ignoring, script, held, seen, verdict>>

-----------------------------------------------------------------------------
(* Instructions.                                                           *)

Creates(s)        == [do |-> "create_session", s |-> s]
Starts(s, t)      == [do |-> "start_task", s |-> s, t |-> t]
Refused(s, why)   == [do |-> "start_refused", s |-> s, why |-> why]
Cancels(t)        == [do |-> "request_cancellation", t |-> t]
Releases(s)       == [do |-> "release", s |-> s]
Closes            == [do |-> "aclose"]
Holds             == [do |-> "hold"]
LetsGo            == [do |-> "let_go"]
UntilCalled(t)    == [do |-> "until_called", t |-> t]
UntilAnswered(t)  == [do |-> "until_answered", t |-> t]
UntilReleased(s)  == [do |-> "until_released", s |-> s]
UntilClosed       == [do |-> "until_closed"]
UntilIdle         == [do |-> "until_idle"]
Awaits(t, kinds)  == [do |-> "outcome", t |-> t, kinds |-> kinds]
Unchanged(t)      == [do |-> "same_outcome", t |-> t]
StillRunning(t)   == [do |-> "not_terminal", t |-> t]
Recalls(t, known) == [do |-> "context", t |-> t, known |-> known]
CancelsWaiter(t)  == [do |-> "cancel_waiter", t |-> t]
CancelsCaller(s)  == [do |-> "cancel_release", s |-> s]

Stopped == {"cancelled", "unresolved"}

\* Leaving a scenario closes the harness, lets held calls go and waits for the
\* graph runs they belong to.
RuntimeExit == <<Closes, UntilClosed, LetsGo, UntilIdle>>
CleanupExit == <<LetsGo, Closes, UntilClosed, UntilIdle>>

CompletesWithoutObserver ==
  <<Creates(s1), Starts(s1, t1), Awaits(t1, {"completed"})>> \o RuntimeExit

CarriesContext ==
  <<Creates(s1), Starts(s1, t1), Awaits(t1, {"completed"}),
    Starts(s1, t2), Awaits(t2, {"completed"}), Recalls(t2, {t1}),
    Creates(s2), Starts(s2, t3), Awaits(t3, {"completed"}), Recalls(t3, {})>> \o RuntimeExit

RejectsOverlap ==
  <<Creates(s1), Holds, Starts(s1, t1), UntilCalled(t1), CancelsWaiter(t1), StillRunning(t1),
    Refused(s1, "overlap"), LetsGo, Awaits(t1, {"completed"}), Unchanged(t1)>> \o RuntimeExit

BoundsClose ==
  <<Creates(s1), Holds, Starts(s1, t1), UntilCalled(t1), Closes, UntilClosed,
    Awaits(t1, Stopped), LetsGo, Closes, UntilClosed, UntilIdle>>

ReusableAfterCancellation ==
  <<Creates(s1), Holds, Starts(s1, t1), UntilCalled(t1), Cancels(t1), UntilAnswered(t1),
    Awaits(t1, {"cancelled"}), LetsGo, Starts(s1, t2), Awaits(t2, {"completed"})>> \o RuntimeExit

LateCancellation ==
  <<Holds, Creates(s1), Starts(s1, t1), LetsGo, Awaits(t1, {"completed"}), Cancels(t1),
    UntilAnswered(t1), Unchanged(t1)>> \o RuntimeExit

CloseSettlesActive ==
  <<Holds, Creates(s1), Creates(s2), Starts(s1, t1), Starts(s2, t2), UntilCalled(t1),
    UntilCalled(t2), Closes, UntilClosed, Awaits(t1, Stopped), Awaits(t2, Stopped),
    Refused(s1, "blocked"), Refused(s2, "blocked"), LetsGo, Closes, UntilClosed,
    Unchanged(t1), Unchanged(t2)>> \o CleanupExit

ReleaseOutlivesCaller ==
  <<Holds, Creates(s1), Starts(s1, t1), UntilCalled(t1), Releases(s1), CancelsCaller(s1),
    Awaits(t1, Stopped), Refused(s1, "blocked"), Releases(s1), UntilReleased(s1),
    Unchanged(t1)>> \o CleanupExit

CleanupKeepsCompleted ==
  <<Creates(s1), Starts(s1, t1), Awaits(t1, {"completed"}), Holds, Creates(s2),
    Starts(s2, t2), UntilCalled(t2), Closes, UntilClosed, Awaits(t2, TerminalStates),
    Unchanged(t1)>> \o CleanupExit

RuntimeSuite == {CompletesWithoutObserver, CarriesContext, RejectsOverlap, BoundsClose,
                 ReusableAfterCancellation, LateCancellation}
CleanupSuite == {CloseSettlesActive, ReleaseOutlivesCaller, CleanupKeepsCompleted}

\* Each scenario with the models it is run with: the runtime suite needs confirmed
\* cancellation, and only with it do models ignore theirs.
Subscribed == IF ConfirmsWorkStopped THEN (RuntimeSuite \X {FALSE}) \cup (CleanupSuite \X BOOLEAN)
                                     ELSE CleanupSuite \X {FALSE}

SuiteInit == /\ Init
             /\ \E test \in Subscribed : script = test[1] /\ ignoring = test[2]
             /\ held = FALSE
             /\ seen = [t \in Tasks |-> NoOutcome]
             /\ verdict = "passing"

-----------------------------------------------------------------------------
(* The scenario.                                                           *)

\* What start_task would answer.
Answer(s) == IF closed[s] \/ shut THEN "blocked"
             ELSE IF running[s] = NoTask THEN "admitted"
             ELSE IF Settled(running[s]) THEN "blocked" ELSE "overlap"

\* No task of the event loop is left that is not done: graph runs, releases, second
\* deletions and aclose.  Callbacks of those that are may still be queued.
TasksDone ==
  /\ \A t \in Tasks : run[t] \in {"none"} \cup Ended
  /\ \A s \in Sessions : release[s] \in {"none", "done"} /\ again[s] # "spawned"
  /\ closer \in {"none", "done"}

\* The instruction's await is over.
Ready(i) ==
  CASE i.do = "until_called"   -> modelCalled[i.t]
    [] i.do = "until_answered" -> canceller[i.t] # "stopping"
    [] i.do = "until_released" -> release[i.s] = "done"
    [] i.do = "until_closed"   -> closer = "done"
    [] i.do = "until_idle"     -> TasksDone
    [] i.do = "outcome"        -> Settled(i.t)
    [] OTHER                   -> TRUE

\* What the scenario asserts there.
Holding(i) ==
  CASE i.do = "start_task"    -> Answer(i.s) = "admitted"
    [] i.do = "start_refused" -> Answer(i.s) = i.why
    [] i.do = "outcome"       -> outcome[i.t].kind \in i.kinds /\ state[i.t] = outcome[i.t].kind
    [] i.do = "same_outcome"  -> outcome[i.t] = seen[i.t]
    [] i.do = "not_terminal"  -> ~Settled(i.t)
    [] i.do = "context"       -> context[i.t] = {<<i.t, "input">>, <<i.t, "reply">>} \cup
                                                (i.known \X {"input", "reply"})
    [] OTHER                  -> TRUE

\* Wrong WaiterCancelled: the future of the outcome is cancelled with its waiter.
OutcomeCancelled(t) ==
  /\ outcome' = [outcome EXCEPT ![t] = IF Settled(t) THEN @
                    ELSE Final(CancelledWhenEnded(t), usage[owner[t]])]
  /\ UNCHANGED <<graphVars, state, events, usage, taskVars, releaseVars, closeVars,
                 running, thread>>

\* Who awaits an outcome, or a release, awaits a shield: cancelling the one who waits does
\* not reach what is waited for.
WaiterCancelled(t) == UNCHANGED vars

\* Wrong ReleaseCallerCancelled: the release is cancelled with its caller, and what is
\* left of it is its finally block.
ReleaseCancelled(s) ==
  IF release[s] = "done" THEN UNCHANGED vars
  ELSE /\ Detach(s, "error")
       /\ UNCHANGED <<graphVars, settleVars, owner, projected, cancelSent, canceller,
                      closed, stopping, opened, shut, closer, closeResult, closing,
                      returned, running, thread>>

ReleaseCallerCancelled(s) == UNCHANGED vars

\* The call it makes; repeated calls of release, aclose and request_cancellation
\* change nothing.
Calls(i) ==
  CASE i.do = "create_session" -> CreateSession(i.s)
    [] i.do = "start_task" /\ Answer(i.s) = "admitted" -> StartTask(i.s, i.t)
    [] i.do = "release" /\ release[i.s] = "none" -> Release(i.s)
    [] i.do = "aclose" /\ closer = "none" -> Aclose
    [] i.do = "request_cancellation" /\ ~Settled(i.t) -> RequestCancellation(i.t)
    [] i.do = "cancel_waiter" -> WaiterCancelled(i.t)
    [] i.do = "cancel_release" -> ReleaseCallerCancelled(i.s)
    [] OTHER -> UNCHANGED vars

ScenarioStep ==
  LET i == Head(script)
  IN /\ script # <<>> /\ Ready(i)
     /\ script' = Tail(script)
     /\ verdict' = IF Holding(i) THEN verdict ELSE "failed"
     /\ Calls(i)
     /\ UNCHANGED ignoring
     /\ held' = IF i.do = "hold" THEN TRUE ELSE IF i.do = "let_go" THEN FALSE ELSE held
     /\ seen' = IF i.do = "outcome" THEN [seen EXCEPT ![i.t] = outcome[i.t]] ELSE seen

-----------------------------------------------------------------------------
(* The event loop and the model boundary.                                  *)

\* A call that waits for the gate is let go or, unless it ignores it, cancelled.
Cancellable(t) == ~(ignoring /\ modelCalled[t])
Runnable(t) == \/ due[t]
               \/ run[t] \in Live \ {"model"}
               \/ run[t] = "model" /\ (~held \/ (cancelSent[t] /\ Cancellable(t)))
Expired(t) == run[t] \in Ended \/ \A x \in Tasks : ~Runnable(x)

GraphRuns(t) == \/ RunBegins(t) \/ RecordInput(t) \/ CallModel(t)
                \/ ~held /\ ModelReturns(t) /\ <<t, "reply">> \in context'[t]
                \/ RunReports(t) /\ run'[t] = "returned"
                \/ cancelSent[t] /\ Cancellable(t) /\ RunCancelled(t)

LoopStep ==
  /\ \/ \E t \in Tasks : \/ GraphRuns(t)
                         \/ DoneCallbacks(t)
                         \/ CancellationReturns(t) /\ Expired(t)
     \/ \E s \in Sessions : \/ ReleaseBegins(s)
                            \/ ReleaseStopWakes(s) /\ Expired(stopping[s])
                            \/ DeleteAtOnce(s)
                            \/ DeleteAgain(s) /\ again'[s] = "ok"
                            \/ ReleaseReturns(s)
     \/ CloseBegins
     \/ CloseReturns
  /\ UNCHANGED <<ignoring, script, held, seen, verdict>>

SuiteNext == ScenarioStep \/ LoopStep

\* The event loop goes on as long as something is ready.
SuiteSpec == SuiteInit /\ [][SuiteNext]_suiteVars /\ WF_suiteVars(SuiteNext)

-----------------------------------------------------------------------------
(* Properties.                                                             *)

\* The adapter meets every assertion of every scenario it subscribes to
\* (tests/test_conformance.py:95-153), in every order of the event loop.
SuitePasses == verdict = "passing"

\* No scenario waits for ever, its teardown included: every await of the suite is
\* answered, and every graph run ends once its model call is let go.
SuiteEnds == <>(script = <<>>)

\* When a scenario is over the harness knows no session any more, and what is left of a
\* thread, by a run that outlived its release, is about to be deleted: a deletion is under
\* way, or the queued callback of that run makes one (tests/model_boundary.py:143-158).
NothingLeftBehind ==
  script = <<>> =>
    /\ registry = {}
    /\ \A s \in Sessions : thread[s] # {} =>
         again[s] = "spawned" \/ \E t \in Tasks : owner[t] = s /\ due[t] /\ deleteAfter[t]
=============================================================================
