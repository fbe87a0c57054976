------------------------------ MODULE Harness ------------------------------
(***************************************************************************)
(* The LangGraph adapter (harness.py): one harness, its sessions and their *)
(* tasks, with the parts the adapter drives: the graph run of a task (a    *)
(* coroutine in an event-loop task, the worker) and the checkpoint thread  *)
(* of a session.                                                           *)
(*                                                                         *)
(* The adapter runs in one event loop, so what a coroutine or a callback   *)
(* does between two suspensions is one action.  Timers are not modelled as *)
(* clocks: a wait with a timeout may end by its timeout at any moment.     *)
(***************************************************************************)
EXTENDS Usage, Sequences, FiniteSets

CONSTANTS Sessions, Tasks,
          NoTask,              \* None, where a task is expected
          NoSession,           \* the session of a task not started yet
          NoOutcome,           \* an outcome future without a result
          NoUsage,             \* no usage observed yet
          ReplyUsages,         \* what usage metadata a model reply may carry
          ConfirmsWorkStopped, \* CancellationSemantics of the harness
          DeleteSuspends       \* adelete_thread suspends its caller

ASSUME NoTaskAssumption == NoTask \notin Tasks
ASSUME NoSessionAssumption == NoSession \notin Sessions
ASSUME NoUsageAssumption == NoUsage \notin AgentUsage
ASSUME ReplyUsagesAssumption == ReplyUsages \subseteq AgentUsage
ASSUME SwitchAssumption == /\ ConfirmsWorkStopped \in BOOLEAN
                           /\ DeleteSuspends \in BOOLEAN

VARIABLES
  \* the graph run of each task
  run,          \* where it is, or how it ended
  due,          \* it ended and its done callbacks are queued
  context,      \* the conversation it works on
  \* _LangGraphTask
  owner,        \* its session
  state,        \* TaskState
  outcome,      \* its terminal outcome
  events,       \* what its event stream published
  projected,    \* session usage shown by its UsageChanged event
  cancelSent,   \* _cancel_sent
  modelCalled,  \* _model_called
  observed,     \* _observed_usage
  deleteAfter,  \* the second deletion waits for the end of the run
  canceller,    \* its caller of request_cancellation
  \* _LangGraphSession
  running,      \* _running
  closed,       \* _closed
  usage,        \* _usage
  release,      \* where _release is
  released,     \* how _release ended
  stopping,     \* the task _release is stopping
  again,        \* the second, unreported deletion
  thread,       \* the stored conversation
  \* LangGraphHarness
  opened,       \* the sessions created so far
  registry,     \* runtime.sessions
  shut,         \* runtime.closed
  closer,       \* where _close_all is
  closeResult,  \* how aclose ended
  closing,      \* the sessions _close_all releases
  returned      \* those whose release() returned to it

graphVars   == <<run, due, context, modelCalled, observed>>
settleVars  == <<state, outcome, events, usage>>
taskVars    == <<owner, projected, cancelSent, deleteAfter, canceller>>
releaseVars == <<closed, release, released, stopping, again>>
closeVars   == <<opened, registry, shut, closer, closeResult, closing, returned>>

vars == <<graphVars, settleVars, taskVars, releaseVars, closeVars, running, thread>>

-----------------------------------------------------------------------------

Ended == {"returned", "empty", "failed", "cancelled"}
Live  == {"scheduled", "entered", "recorded", "model", "replied"}
TerminalStates == {"completed", "failed", "cancelled", "unresolved"}

\* A turn is stored as an input message and, when the model replied, its reply.
Message == Tasks \X {"input", "reply"}

Settled(t) == outcome[t] # NoOutcome

Init ==
  /\ run = [t \in Tasks |-> "none"]
  /\ due = [t \in Tasks |-> FALSE]
  /\ context = [t \in Tasks |-> {}]
  /\ owner = [t \in Tasks |-> NoSession]
  /\ state = [t \in Tasks |-> "starting"]
  /\ outcome = [t \in Tasks |-> NoOutcome]
  /\ events = [t \in Tasks |-> <<>>]
  /\ projected = [t \in Tasks |-> UNKNOWN]
  /\ cancelSent = [t \in Tasks |-> FALSE]
  /\ modelCalled = [t \in Tasks |-> FALSE]
  /\ observed = [t \in Tasks |-> NoUsage]
  /\ deleteAfter = [t \in Tasks |-> FALSE]
  /\ canceller = [t \in Tasks |-> "idle"]
  /\ running = [s \in Sessions |-> NoTask]
  /\ closed = [s \in Sessions |-> FALSE]
  /\ usage = [s \in Sessions |-> ZERO]
  /\ release = [s \in Sessions |-> "none"]
  /\ released = [s \in Sessions |-> "none"]
  /\ stopping = [s \in Sessions |-> NoTask]
  /\ again = [s \in Sessions |-> "none"]
  /\ thread = [s \in Sessions |-> {}]
  /\ opened = {}
  /\ registry = {}
  /\ shut = FALSE
  /\ closer = "none"
  /\ closeResult = "none"
  /\ closing = {}
  /\ returned = {}

-----------------------------------------------------------------------------
(* Fragments shared by several handlers.                                   *)

\* An event reaches the stream until the task is settled.
Publish(t, e) == IF Settled(t) THEN events[t] ELSE Append(events[t], e)

\* Wrong UsageSoFar: what was not measured counts as zero.
UsageOrZero(t) == IF observed[t] # NoUsage THEN observed[t] ELSE ZERO

UsageSoFar(t) == IF observed[t] # NoUsage THEN observed[t]
                 ELSE IF modelCalled[t] THEN UNKNOWN ELSE ZERO

Verdict(kind, reason, output, used) ==
  [kind |-> kind, reason |-> reason, output |-> output, usage |-> used]

Final(v, total) ==
  [kind |-> v.kind, reason |-> v.reason, output |-> v.output,
   usage |-> v.usage, sessionUsage |-> total]

\* Wrong CancellationVerdict: the end of the coroutine always confirms the stop.
CancelledWhenEnded(t) == Verdict("cancelled", "none", FALSE, UsageSoFar(t))

\* The judgment a finished run calls for.
CancellationVerdict(t) ==
  IF ~modelCalled[t] \/ ConfirmsWorkStopped
    THEN Verdict("cancelled", "none", FALSE, UsageSoFar(t))
    ELSE Verdict("unresolved", "cancellation_unconfirmed", FALSE, UsageSoFar(t))

EndVerdict(t) ==
  CASE run[t] = "returned"  -> Verdict("completed", "none", TRUE, UsageSoFar(t))
    [] run[t] = "empty"     -> Verdict("completed", "none", FALSE, UsageSoFar(t))
    [] run[t] = "failed"    -> Verdict("failed", "none", FALSE, UsageSoFar(t))
    [] run[t] = "cancelled" -> CancellationVerdict(t)

\* Wrong ForcedVerdict: not a reason this adapter gives.
ObservationLost(t, reason) == Verdict("unresolved", "observation_lost", FALSE, UsageSoFar(t))

ForcedVerdict(t, reason) == Verdict("unresolved", reason, FALSE, UsageSoFar(t))

\* The tasks of S a judgment still applies to.
Unsettled(S) == {t \in S : ~Settled(t)}

\* _settle with verdict[t], for each t in its domain (tasks of different sessions)
\* that has no outcome yet.
Settle(verdict) ==
  LET T == Unsettled(DOMAIN verdict)
      OfSession(s) == {t \in T : owner[t] = s}
      Total(s) == IF OfSession(s) = {} THEN usage[s]
                  ELSE Add(usage[s], verdict[CHOOSE t \in OfSession(s) : TRUE].usage)
  IN /\ usage' = [s \in Sessions |-> Total(s)]
     /\ outcome' = [t \in Tasks |->
          IF t \in T THEN Final(verdict[t], Total(owner[t])) ELSE outcome[t]]
     /\ state' = [t \in Tasks |-> IF t \in T THEN verdict[t].kind ELSE state[t]]
     /\ events' = [t \in Tasks |-> IF t \in T THEN Append(events[t], "terminal")
                                              ELSE events[t]]

\* Wrong FreeSession: the end of any run frees its session.
FreeAnyway(t) == running' = [running EXCEPT ![owner[t]] = NoTask]

\* The session is free once the run of its current task has really ended.
FreeSession(t) ==
  running' = [s \in Sessions |-> IF running[s] = t THEN NoTask ELSE running[s]]

\* Wrong GraphRunEnded: a task settled before keeps its session.
SettleAtEnd(t) ==
  /\ IF Settled(t) THEN UNCHANGED running ELSE FreeSession(t)
  /\ Settle([x \in {t} |-> EndVerdict(x)])

\* Wrong GraphRunEnded: the session is left to the done callback.
SettleOnly(t) == UNCHANGED running /\ Settle([x \in {t} |-> EndVerdict(x)])

\* _graph_run_ended, from the done callback or from a stop() that was faster.
GraphRunEnded(t) == FreeSession(t) /\ Settle([x \in {t} |-> EndVerdict(x)])

\* _cancel_graph_run, for the tasks of S: one request, and none after the end.
CancelGraphRuns(S) ==
  cancelSent' = [t \in Tasks |-> cancelSent[t] \/ (t \in S /\ run[t] \notin Ended)]

\* Wrong StopWakes: it waits for the end of the run without a bound.
StopWaits(t, reason) == run[t] \in Ended /\ GraphRunEnded(t)

\* Wrong StopWakes: its timeout settles nothing.
StopGivesUp(t, reason) ==
  IF run[t] \in Ended THEN GraphRunEnded(t) ELSE UNCHANGED <<settleVars, running>>

\* What stop() does when its wait ends, by the end of the run or by its timeout.
StopWakes(t, reason) ==
  IF run[t] \in Ended
    THEN GraphRunEnded(t)
    ELSE /\ Settle([x \in {t} |-> ForcedVerdict(x, reason)])
         /\ UNCHANGED running

-----------------------------------------------------------------------------
(* The graph run: _run, and the graph, model and checkpointer it awaits.   *)
(* Cancellation is thrown into the await a run is suspended in: the graph  *)
(* starts no further node after it, but a model that ignores it may still  *)
(* reply, fail, or never end.                                              *)

\* Wrong RunBegins: the body runs although the task was cancelled before.
RunBeginsAnyway(t) ==
  /\ run[t] = "scheduled"
  /\ run' = [run EXCEPT ![t] = "entered"]
  /\ state' = [state EXCEPT ![t] = "running"]
  /\ events' = [events EXCEPT ![t] = Publish(t, "started")]
  /\ UNCHANGED <<due, context, modelCalled, observed, outcome, usage, taskVars,
                 releaseVars, closeVars, running, thread>>

\* The first step of the worker.
RunBegins(t) ==
  /\ run[t] = "scheduled" /\ ~cancelSent[t]
  /\ run' = [run EXCEPT ![t] = "entered"]
  /\ state' = [state EXCEPT ![t] = "running"]
  /\ events' = [events EXCEPT ![t] = Publish(t, "started")]
  /\ UNCHANGED <<due, context, modelCalled, observed, outcome, usage, taskVars,
                 releaseVars, closeVars, running, thread>>

\* The graph reads the thread, appends the input and stores the result.
RecordInput(t) ==
  /\ run[t] = "entered"
  /\ run' = [run EXCEPT ![t] = "recorded"]
  /\ LET history == thread[owner[t]] \cup {<<t, "input">>}
     IN  /\ context' = [context EXCEPT ![t] = history]
         /\ thread' = [thread EXCEPT ![owner[t]] = history]
  /\ UNCHANGED <<due, modelCalled, observed, settleVars, taskVars, releaseVars,
                 closeVars, running>>

\* The model node: _call_model marks the task its session is running.
CallModel(t) ==
  /\ run[t] = "recorded" /\ ~cancelSent[t]
  /\ run' = [run EXCEPT ![t] = "model"]
  /\ modelCalled' = [x \in Tasks |-> modelCalled[x] \/ x = running[owner[t]]]
  /\ UNCHANGED <<due, context, observed, settleVars, taskVars, releaseVars,
                 closeVars, running, thread>>

\* The model returns; the graph stores the whole conversation again.
ModelReturns(t) ==
  /\ run[t] = "model"
  /\ run' = [run EXCEPT ![t] = "replied"]
  /\ \E reply \in {{}, {<<t, "reply">>}} :
       /\ context' = [context EXCEPT ![t] = @ \cup reply]
       /\ thread' = [thread EXCEPT ![owner[t]] = context[t] \cup reply]
  /\ UNCHANGED <<due, modelCalled, observed, settleVars, taskVars, releaseVars,
                 closeVars, running>>

\* Wrong ProjectedUsage: the task's usage alone.
TaskUsage(s, u) == u

ProjectedUsage(s, u) == Add(usage[s], u)

\* run_turn returns the latest reply in the conversation: _run publishes it and its
\* usage, and then it returns, or raises on a finish reason it cannot look up.
RunReports(t) ==
  /\ run[t] = "replied" /\ \E x \in Tasks : <<x, "reply">> \in context[t]
  /\ \E how \in {"returned", "failed"} : run' = [run EXCEPT ![t] = how]
  /\ due' = [due EXCEPT ![t] = TRUE]
  /\ \E u \in ReplyUsages :
       /\ observed' = [observed EXCEPT ![t] = u]
       /\ projected' = [projected EXCEPT ![t] = ProjectedUsage(owner[t], u)]
  /\ events' = [events EXCEPT ![t] = IF Settled(t) THEN @
                                     ELSE @ \o <<"message", "usage">>]
  /\ UNCHANGED <<context, modelCalled, state, outcome, usage, owner, cancelSent,
                 deleteAfter, canceller, releaseVars, closeVars, running, thread>>

\* The reply is published, and reading its usage raises.
RunBreaksOff(t) ==
  /\ run[t] = "replied" /\ \E x \in Tasks : <<x, "reply">> \in context[t]
  /\ run' = [run EXCEPT ![t] = "failed"]
  /\ due' = [due EXCEPT ![t] = TRUE]
  /\ events' = [events EXCEPT ![t] = Publish(t, "message")]
  /\ UNCHANGED <<context, modelCalled, observed, state, outcome, usage, taskVars,
                 releaseVars, closeVars, running, thread>>

RunEnds(t, how) ==
  /\ run' = [run EXCEPT ![t] = how]
  /\ due' = [due EXCEPT ![t] = TRUE]
  /\ UNCHANGED <<context, modelCalled, observed, settleVars, taskVars,
                 releaseVars, closeVars, running, thread>>

\* There is no AI message in the conversation.
RunReturnsNothing(t) ==
  /\ run[t] = "replied" /\ \A x \in Tasks : <<x, "reply">> \notin context[t]
  /\ RunEnds(t, "empty")

RunFails(t) == run[t] \in Live \ {"scheduled"} /\ RunEnds(t, "failed")

\* The cancellation comes through, or the graph raises CancelledError by itself;
\* before the first step only the former, and then the body never runs.
RunCancelled(t) ==
  /\ run[t] \in Live /\ (run[t] = "scheduled" => cancelSent[t])
  /\ RunEnds(t, "cancelled")

\* The event loop runs the worker's done callbacks.
DoneCallbacks(t) ==
  /\ due[t]
  /\ due' = [due EXCEPT ![t] = FALSE]
  /\ GraphRunEnded(t)
  /\ again' = IF deleteAfter[t] THEN [again EXCEPT ![owner[t]] = "spawned"] ELSE again
  /\ UNCHANGED <<run, context, modelCalled, observed, taskVars, closed, release,
                 released, stopping, closeVars, thread>>

-----------------------------------------------------------------------------
(* Callers of the session and the task.                                    *)

CreateSession(s) ==
  /\ ~shut /\ s \notin opened
  /\ opened' = opened \cup {s}
  /\ registry' = registry \cup {s}
  /\ UNCHANGED <<graphVars, settleVars, taskVars, releaseVars, shut, closer,
                 closeResult, closing, returned, running, thread>>

\* Wrong Admits: a settled task does not block its session.
AdmitsOnceSettled(s) == /\ s \in opened /\ ~closed[s] /\ ~shut
                        /\ running[s] # NoTask => Settled(running[s])

\* start_task refuses otherwise.
Admits(s) == s \in opened /\ ~closed[s] /\ ~shut /\ running[s] = NoTask

StartTask(s, t) ==
  /\ Admits(s)
  /\ owner[t] = NoSession
  /\ owner' = [owner EXCEPT ![t] = s]
  /\ running' = [running EXCEPT ![s] = t]
  /\ run' = [run EXCEPT ![t] = "scheduled"]
  /\ UNCHANGED <<due, context, modelCalled, observed, settleVars, projected,
                 cancelSent, deleteAfter, canceller, releaseVars, closeVars, thread>>

\* request_cancellation up to its wait.  (On a settled task it does nothing.)
RequestCancellation(t) ==
  /\ run[t] # "none" /\ ~Settled(t)
  /\ canceller[t] = "idle"
  /\ canceller' = [canceller EXCEPT ![t] = "stopping"]
  /\ CancelGraphRuns({t})
  /\ UNCHANGED <<graphVars, settleVars, owner, projected, deleteAfter, releaseVars,
                 closeVars, running, thread>>

CancellationReturns(t) ==
  /\ canceller[t] = "stopping"
  /\ canceller' = [canceller EXCEPT ![t] = "idle"]
  /\ StopWakes(t, "cancellation_unconfirmed")
  /\ UNCHANGED <<graphVars, owner, projected, cancelSent, deleteAfter, releaseVars,
                 closeVars, thread>>

\* The caller is cancelled while it waits: nothing is settled on its behalf.
CancellationAbandoned(t) ==
  /\ canceller[t] = "stopping"
  /\ canceller' = [canceller EXCEPT ![t] = "idle"]
  /\ UNCHANGED <<graphVars, settleVars, owner, projected, cancelSent, deleteAfter,
                 releaseVars, closeVars, running, thread>>

-----------------------------------------------------------------------------
(* Release of one session.  Its callers wait on a shielded task, so that   *)
(* cancelling them changes nothing here.                                   *)

\* release(), by a user or by _close_all.
BeginRelease(S) ==
  LET T == {s \in S : release[s] = "none"}
  IN /\ closed' = [s \in Sessions |-> closed[s] \/ s \in T]
     /\ release' = [s \in Sessions |-> IF s \in T THEN "scheduled" ELSE release[s]]

Release(s) ==
  /\ s \in opened /\ release[s] = "none"
  /\ BeginRelease({s})
  /\ UNCHANGED <<graphVars, settleVars, taskVars, released, stopping, again,
                 closeVars, running, thread>>

\* The first step of _release: stop the running task, if there is one.
ReleaseBegins(s) ==
  /\ release[s] = "scheduled"
  /\ release' = [release EXCEPT ![s] =
                   IF running[s] = NoTask THEN "deleting" ELSE "stopping"]
  /\ stopping' = [stopping EXCEPT ![s] = running[s]]
  /\ CancelGraphRuns({running[s]})
  /\ UNCHANGED <<graphVars, settleVars, owner, projected, deleteAfter, canceller,
                 closed, released, again, closeVars, running, thread>>

ReleaseStopWakes(s) ==
  /\ release[s] = "stopping"
  /\ release' = [release EXCEPT ![s] = "deleting"]
  /\ StopWakes(stopping[s], "cleanup_bound_exceeded")
  /\ UNCHANGED <<graphVars, taskVars, closed, released, stopping, again, closeVars,
                 thread>>

\* Wrong Detach: no second deletion.
DetachOnly(s, how) ==
  /\ release' = [release EXCEPT ![s] = "done"]
  /\ released' = [released EXCEPT ![s] = how]
  /\ registry' = registry \ {s}
  /\ UNCHANGED <<deleteAfter, again>>

\* The finally block, with _delete_after_graph_run: a run that has not freed the
\* session is followed by a second deletion, at once if it has ended.
Detach(s, how) ==
  LET t == running[s]
  IN /\ release' = [release EXCEPT ![s] = "done"]
     /\ released' = [released EXCEPT ![s] = how]
     /\ registry' = registry \ {s}
     /\ deleteAfter' = [x \in Tasks |->
                          deleteAfter[x] \/ (x = t /\ run[x] \notin Ended)]
     /\ again' = IF t # NoTask /\ run[t] \in Ended
                   THEN [again EXCEPT ![s] = "spawned"] ELSE again

\* adelete_thread succeeds: in one step, or suspended before and after the
\* moment the thread is gone.
DeleteAtOnce(s) ==
  /\ release[s] = "deleting" /\ ~DeleteSuspends
  /\ thread' = [thread EXCEPT ![s] = {}]
  /\ Detach(s, "ok")
  /\ UNCHANGED <<graphVars, settleVars, owner, projected, cancelSent, canceller,
                 closed, stopping, opened, shut, closer, closeResult, closing,
                 returned, running>>

DeleteApplies(s) ==
  /\ release[s] = "deleting" /\ DeleteSuspends
  /\ thread' = [thread EXCEPT ![s] = {}]
  /\ release' = [release EXCEPT ![s] = "deleted"]
  /\ UNCHANGED <<graphVars, settleVars, taskVars, closed, released, stopping, again,
                 closeVars, running>>

DeleteReturns(s) ==
  /\ release[s] = "deleted"
  /\ Detach(s, "ok")
  /\ UNCHANGED <<graphVars, settleVars, owner, projected, cancelSent, canceller,
                 closed, stopping, opened, shut, closer, closeResult, closing,
                 returned, running, thread>>

\* It raises, or its timeout expires while it is suspended.
DeleteFails(s) ==
  /\ release[s] \in {"deleting", "deleted"}
  /\ Detach(s, "error")
  /\ UNCHANGED <<graphVars, settleVars, owner, projected, cancelSent, canceller,
                 closed, stopping, opened, shut, closer, closeResult, closing,
                 returned, running, thread>>

\* The background task, whose failure nobody sees.
DeleteAgain(s) ==
  /\ again[s] = "spawned"
  /\ \/ /\ thread' = [thread EXCEPT ![s] = {}]
        /\ again' = [again EXCEPT ![s] = "ok"]
     \/ /\ again' = [again EXCEPT ![s] = "error"]
        /\ UNCHANGED thread
  /\ UNCHANGED <<graphVars, settleVars, taskVars, closed, release, released,
                 stopping, closeVars, running>>

-----------------------------------------------------------------------------
(* Closing the harness.                                                    *)

Aclose ==
  /\ closer = "none"
  /\ shut' = TRUE
  /\ closer' = "scheduled"
  /\ UNCHANGED <<graphVars, settleVars, taskVars, releaseVars, opened, registry,
                 closeResult, closing, returned, running, thread>>

\* _close_all up to its wait.  (The tasks that call release() for it start before
\* its timeout can expire; their first step is part of this one.)
CloseBegins ==
  /\ closer = "scheduled"
  /\ closing' = registry
  /\ BeginRelease(registry)
  /\ closer' = IF registry = {} THEN "done" ELSE "waiting"
  /\ closeResult' = IF registry = {} THEN "ok" ELSE closeResult
  /\ UNCHANGED <<graphVars, settleVars, taskVars, released, stopping, again, opened,
                 registry, shut, returned, running, thread>>

\* The release() call _close_all made returns, or raises, to it.
ReleaseReturns(s) ==
  /\ s \in closing \ returned
  /\ release[s] = "done"
  /\ returned' = returned \cup {s}
  /\ UNCHANGED <<graphVars, settleVars, taskVars, releaseVars, opened, registry,
                 shut, closer, closeResult, closing, running, thread>>

Collect(done) == closeResult' = IF \E s \in done : released[s] = "error"
                                  THEN "error" ELSE "ok"

\* The total budget is spent: the timer queues _close_all.  What is queued before
\* it, done callbacks among them, runs before it; a run may still end meanwhile.
CloseExpires ==
  /\ closer = "waiting" /\ ~(closing \subseteq returned)
  /\ \A t \in Tasks : ~due[t]
  /\ closer' = "expired"
  /\ UNCHANGED <<graphVars, settleVars, taskVars, releaseVars, opened, registry,
                 shut, closeResult, closing, returned, running, thread>>

CloseReturns ==
  /\ closer \in {"waiting", "expired"} /\ closing \subseteq returned
  /\ closer' = "done"
  /\ Collect(closing)
  /\ UNCHANGED <<graphVars, settleVars, taskVars, releaseVars, opened, registry,
                 shut, closing, returned, running, thread>>

\* It goes on after its timeout: force_unresolved_cleanup for the sessions whose
\* release() has not returned, and failures from the others only.
CloseTimesOut ==
  /\ closer = "expired"
  /\ LET pending == closing \ returned
         tasks == {running[s] : s \in pending} \ {NoTask}
     IN /\ pending # {}
        /\ closed' = [s \in Sessions |-> closed[s] \/ s \in pending]
        /\ CancelGraphRuns(tasks)
        /\ Settle([x \in tasks |-> ForcedVerdict(x, "cleanup_bound_exceeded")])
  /\ closer' = "done"
  /\ Collect(returned)
  /\ UNCHANGED <<graphVars, owner, projected, deleteAfter, canceller, release,
                 released, stopping, again, opened, registry, shut, closing,
                 returned, running, thread>>

-----------------------------------------------------------------------------

GraphStep(t) == \/ RunBegins(t) \/ RecordInput(t) \/ CallModel(t)
                \/ ModelReturns(t) \/ RunReports(t) \/ RunBreaksOff(t)
                \/ RunReturnsNothing(t) \/ RunFails(t) \/ RunCancelled(t)

Next ==
  \/ \E t \in Tasks : \/ GraphStep(t)
                      \/ DoneCallbacks(t)
                      \/ RequestCancellation(t)
                      \/ CancellationReturns(t)
                      \/ CancellationAbandoned(t)
  \/ \E s \in Sessions : \/ CreateSession(s)
                         \/ \E t \in Tasks : StartTask(s, t)
                         \/ Release(s)
                         \/ ReleaseBegins(s)
                         \/ ReleaseStopWakes(s)
                         \/ DeleteAtOnce(s)
                         \/ DeleteApplies(s)
                         \/ DeleteReturns(s)
                         \/ DeleteFails(s)
                         \/ DeleteAgain(s)
                         \/ ReleaseReturns(s)
  \/ Aclose
  \/ CloseBegins
  \/ CloseExpires
  \/ CloseReturns
  \/ CloseTimesOut

Spec == Init /\ [][Next]_vars

\* The event loop runs what is scheduled and fires timers; the deletion ends, if
\* only by its timeout.  Nothing is assumed of callers, nor of the graph run once
\* it has begun: it may never end.
Fairness ==
  /\ \A t \in Tasks : /\ WF_vars(run[t] = "scheduled"
                                 /\ (RunBegins(t) \/ RunCancelled(t)))
                      /\ WF_vars(DoneCallbacks(t))
                      /\ WF_vars(CancellationReturns(t))
  /\ \A s \in Sessions : /\ WF_vars(ReleaseBegins(s))
                         /\ WF_vars(ReleaseStopWakes(s))
                         /\ WF_vars(DeleteAtOnce(s) \/ DeleteReturns(s) \/ DeleteFails(s))
                         /\ WF_vars(DeleteAgain(s))
                         /\ WF_vars(ReleaseReturns(s))
  /\ WF_vars(CloseBegins)
  /\ WF_vars(CloseExpires)
  /\ WF_vars(CloseReturns \/ CloseTimesOut)

FairSpec == Spec /\ Fairness

-----------------------------------------------------------------------------
(* Properties.                                                             *)

Outcome == [kind : TerminalStates,
            reason : {"none", "cancellation_unconfirmed", "cleanup_bound_exceeded"},
            output : BOOLEAN, usage : AgentUsage, sessionUsage : AgentUsage]

ASSUME NoOutcomeAssumption == NoOutcome \notin Outcome

\* Every variable keeps its type.
TypeOK ==
  /\ run \in [Tasks -> {"none"} \cup Live \cup Ended]
  /\ due \in [Tasks -> BOOLEAN]
  /\ context \in [Tasks -> SUBSET Message]
  /\ owner \in [Tasks -> Sessions \cup {NoSession}]
  /\ state \in [Tasks -> {"starting", "running"} \cup TerminalStates]
  /\ outcome \in [Tasks -> Outcome \cup {NoOutcome}]
  /\ events \in [Tasks -> Seq({"started", "message", "usage", "terminal"})]
  /\ projected \in [Tasks -> AgentUsage]
  /\ cancelSent \in [Tasks -> BOOLEAN]
  /\ modelCalled \in [Tasks -> BOOLEAN]
  /\ observed \in [Tasks -> AgentUsage \cup {NoUsage}]
  /\ deleteAfter \in [Tasks -> BOOLEAN]
  /\ canceller \in [Tasks -> {"idle", "stopping"}]
  /\ running \in [Sessions -> Tasks \cup {NoTask}]
  /\ closed \in [Sessions -> BOOLEAN]
  /\ usage \in [Sessions -> AgentUsage]
  /\ release \in [Sessions -> {"none", "scheduled", "stopping", "deleting",
                              "deleted", "done"}]
  /\ released \in [Sessions -> {"none", "ok", "error"}]
  /\ stopping \in [Sessions -> Tasks \cup {NoTask}]
  /\ again \in [Sessions -> {"none", "spawned", "ok", "error"}]
  /\ thread \in [Sessions -> SUBSET Message]
  /\ opened \in SUBSET Sessions
  /\ registry \in SUBSET Sessions
  /\ shut \in BOOLEAN
  /\ closer \in {"none", "scheduled", "waiting", "expired", "done"}
  /\ closeResult \in {"none", "ok", "error"}
  /\ closing \in SUBSET Sessions
  /\ returned \in SUBSET Sessions

Started(t) == owner[t] # NoSession

\* "Two runs never write to the same checkpoint thread" (README.md:111-112,
\* harness.py:550-557): a session has at most one live graph run, the one that
\* blocks it, whatever was settled, forced or released in the meantime.
SingleGraphRun ==
  \A t \in Tasks : run[t] \in Live => running[owner[t]] = t

\* Sessions keep their conversation (protocol.md:52, harness.py:236-237): what a
\* task had in its context, cancelled or not, is in the thread the next task
\* reads; no late write of an earlier run takes it back.
ContextContinuity ==
  \A t \in Tasks : Started(t) /\ ~closed[owner[t]] => context[t] \subseteq thread[owner[t]]

\* A session is blocked behind a settled task only while that task is Unresolved
\* (harness.py:552-556): after any confirmed outcome the next task is admitted.
ConfirmedOutcomeFreesSession ==
  \A s \in Sessions : LET t == running[s] IN
    t # NoTask /\ Settled(t) => outcome[t].kind = "unresolved"

\* Cancelled is only said of a run that has ended, and, unless the end of the
\* coroutine confirms it, never after the model was called (harness.py:803-817).
HonestCancellation ==
  \A t \in Tasks : Settled(t) /\ outcome[t].kind = "cancelled" =>
    run[t] = "cancelled" /\ (ConfirmsWorkStopped \/ ~modelCalled[t])

\* The accounting never guesses (outcome.py:35, harness.py:819-823): a settled
\* task whose model was called shows what its reply measured or UNKNOWN, one
\* whose model was not called shows ZERO, also when the run goes on afterwards.
UnknownIsNotZero ==
  \A t \in Tasks : Settled(t) =>
    outcome[t].usage \in IF modelCalled[t] THEN {UNKNOWN, observed[t]} ELSE {ZERO}

\* A completed task's last UsageChanged announced the session usage its outcome
\* reports (harness.py:778, 829): nothing is committed in between.
ProjectionAgrees ==
  \A t \in Tasks : Settled(t) /\ outcome[t].kind = "completed" /\ outcome[t].output =>
    outcome[t].sessionUsage = projected[t]

\* The event stream and the state tell the same story as the outcome, in every
\* race of the worker's first step, its end and a forced judgment.
StoryAgrees ==
  \A t \in Tasks :
    /\ Settled(t) => state[t] = outcome[t].kind
    /\ \A i \in 1 .. Len(events[t]) :
         events[t][i] = "terminal" <=> Settled(t) /\ i = Len(events[t])

\* The outcome, the terminal state and the closed stream never change again.
OutcomeIsFinal ==
  [][\A t \in Tasks : Settled(t) =>
       UNCHANGED <<outcome[t], state[t], events[t]>>]_vars

\* The adapter implements the abstract port.
Phase == IF ~shut THEN "open" ELSE IF closer = "done" THEN "closed" ELSE "closing"

Port == INSTANCE AgentPort WITH created   <- opened,
                                withdrawn <- {s \in Sessions : closed[s]},
                                gone      <- {s \in Sessions : release[s] = "done"},
                                phase     <- Phase,
                                total     <- usage

\* Whatever is cancelled, released or closed at any moment, callers see nothing the
\* port does not promise (harness.py:60-79, 103-128, 151-188 of the port).
PortSpec == Port!Spec

\* What a caller works out from two session totals is what was committed between
\* them, or unknown; a baseline above the current amount, as when the earlier total
\* is compared with the later one, is never taken for consumption
\* (outcome.py:62-66).
DifferencesAreHonest ==
  \A t, u \in Tasks : Settled(t) /\ Settled(u) /\ owner[t] = owner[u] =>
    LET between == Subtract(outcome[u].sessionUsage, outcome[t].sessionUsage)
    IN  \A f \in Fields :
          between[f] # Unknown =>
            /\ between[f] \in Nat
            /\ outcome[t].sessionUsage[f] + between[f] = outcome[u].sessionUsage[f]

\* When release() has ended, every task of the session is settled.
ReleaseSettles ==
  \A t \in Tasks : Started(t) /\ release[owner[t]] = "done" => Settled(t)

\* "Every task is still settled and every handle is still closed" when aclose()
\* ends (harness.py:445-446), also for tasks and sessions created, released or
\* cancelled while it was called.
CloseSettlesEverything ==
  closer = "done" => /\ \A t \in Tasks : Started(t) => Settled(t)
                     /\ \A s \in opened : closed[s]

\* A released thread does not come back (harness.py:603, README.md:128-129): once
\* the runs and deletions of a released session are over, its thread is empty
\* unless a deletion failed.
ReleasedThreadStaysDeleted ==
  \A s \in Sessions :
    /\ released[s] = "ok" /\ again[s] \in {"none", "ok"}
    /\ \A t \in Tasks : owner[t] = s => run[t] \in Ended /\ ~due[t]
   => thread[s] = {}

\* aclose() raises if stored context could not be deleted (harness.py:445).
CloseReportsFailures ==
  closer = "done" /\ closeResult = "ok" => \A s \in closing : released[s] # "error"

Announced(t) == \E i \in 1 .. Len(events[t]) : events[t][i] = "message"

\* "All four outcomes retain acquired output" (protocol.md:61), where the run did
\* not fail after it had published it.
OutputIsRetained ==
  \A t \in Tasks : Settled(t) /\ Announced(t) /\ run[t] # "failed" => outcome[t].output

\* A call of request_cancellation ends even if the graph run never does
\* (harness.py:698-702).
CancellationIsAnswered ==
  \A t \in Tasks : canceller[t] = "stopping" ~> canceller[t] = "idle"

\* release() and aclose() end, whatever the graph runs and deletions do.
CleanupEnds ==
  /\ \A s \in Sessions : release[s] = "scheduled" ~> release[s] = "done"
  /\ closer = "scheduled" ~> closer = "done"

\* A session is not blocked for ever once the run has ended (README.md:112).
EndedRunFreesSession ==
  \A s \in Sessions : \A t \in Tasks :
    running[s] = t /\ run[t] \in Ended ~> running[s] # t
=============================================================================
