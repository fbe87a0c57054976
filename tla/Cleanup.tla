------------------------------ MODULE Cleanup ------------------------------
(***************************************************************************)
(* The time cleanup takes: request_cancellation(), release() and aclose()  *)
(* of the LangGraph adapter against the two bounds of CleanupBudget        *)
(* (support.py, harness.py).                                               *)
(*                                                                         *)
(* What these operations judge and settle, and in which order, is Harness; *)
(* here their steps take no time, and time passes only while all of them   *)
(* wait.  The event loop is never late: a timer that is due fires before   *)
(* the clock goes on, where the real loop, and the conformance suite's     *)
(* assertions, allow it some slack.                                        *)
(***************************************************************************)
EXTENDS Integers

CONSTANTS Sessions,
          Bounds,    \* the durations a budget may be made of
          Horizon    \* how long the clock runs

ASSUME BoundsAssumption == Bounds \subseteq Nat     \* a negative bound is refused
ASSUME HorizonAssumption == Horizon \in Nat

VARIABLES budget,     \* cleanup_budget
          now,
          run,        \* of each session: no graph run, one whose task is unsettled ("active"),
                      \* one that outlived the judgment of its task ("outlived")
          canceller,  \* of each session: request_cancellation() waits for the run
                      \* ("waiting"), which ended ("woken"), or "none"
          release,    \* of each session: "none", "stopping", "deleting" or "done"
          started,    \* of each session: when its release started
          closer,     \* aclose(): "none", "waiting" or "done"
          cancelDue, releaseDue, closeDue   \* when the timers of these waits fire

dues == <<cancelDue, releaseDue, closeDue>>
vars == <<budget, now, run, canceller, release, started, closer, dues>>

\* Wrong CleanupBudget: negative bounds are not refused.
UncheckedBudget == [per_task : Bounds \cup {-1}, total : Bounds]

CleanupBudget == [per_task : Bounds, total : Bounds]

Longer(a, b) == IF a >= b THEN a ELSE b

Init == /\ budget \in CleanupBudget
        /\ now = 0
        /\ run = [s \in Sessions |-> "none"]
        /\ canceller = [s \in Sessions |-> "none"]
        /\ release = [s \in Sessions |-> "none"]
        /\ started = [s \in Sessions |-> 0]
        /\ closer = "none"
        /\ cancelDue = [s \in Sessions |-> 0]
        /\ releaseDue = [s \in Sessions |-> 0]
        /\ closeDue = 0

-----------------------------------------------------------------------------

Fires(due) == now >= due

\* Settle the task of a run that did not end in time.
Judged(s) == IF run[s] = "active" THEN "outlived" ELSE run[s]

StartTask(s) ==
  /\ closer = "none" /\ release[s] = "none" /\ run[s] = "none"
  /\ run' = [run EXCEPT ![s] = "active"]
  /\ UNCHANGED <<budget, now, canceller, release, started, closer, dues>>

RunEnds(s) ==
  /\ run[s] # "none"
  /\ run' = [run EXCEPT ![s] = "none"]
  /\ canceller' = [canceller EXCEPT ![s] = IF @ = "waiting" THEN "woken" ELSE @]
  /\ UNCHANGED <<budget, now, release, started, closer, dues>>

\* request_cancellation() of an unsettled task: stop() waits at most per_task.
RequestCancellation(s) ==
  /\ run[s] = "active" /\ canceller[s] = "none"
  /\ canceller' = [canceller EXCEPT ![s] = "waiting"]
  /\ cancelDue' = [cancelDue EXCEPT ![s] = now + budget.per_task]
  /\ UNCHANGED <<budget, now, run, release, started, closer, releaseDue, closeDue>>

CancellationReturns(s) ==
  /\ \/ canceller[s] = "woken" /\ UNCHANGED run
     \/ canceller[s] = "waiting" /\ Fires(cancelDue[s]) /\ run' = [run EXCEPT ![s] = Judged(s)]
  /\ canceller' = [canceller EXCEPT ![s] = "none"]
  /\ UNCHANGED <<budget, now, release, started, closer, dues>>

\* Wrong Remaining: the deletion is given the whole budget again.
WholeTotal(began) == budget.total

\* Wrong Remaining: the deletion has to end within the bound of one task.
RestOfPerTask(began) == Longer(0, budget.per_task - (now - began))

\* What is left of the total budget of a release that began then.
Remaining(began) == Longer(0, budget.total - (now - began))

\* The releases that begin together: each stops its run first, if there is one.
BeginReleases(S) ==
  /\ release' = [s \in Sessions |-> IF s \notin S THEN release[s]
                                    ELSE IF run[s] = "none" THEN "deleting" ELSE "stopping"]
  /\ started' = [s \in Sessions |-> IF s \in S THEN now ELSE started[s]]

BeginDue(s) == IF run[s] = "none" THEN now + Remaining(now) ELSE now + budget.per_task

Release(s) ==
  /\ release[s] = "none"
  /\ BeginReleases({s})
  /\ releaseDue' = [releaseDue EXCEPT ![s] = BeginDue(s)]
  /\ UNCHANGED <<budget, now, run, canceller, closer, cancelDue, closeDue>>

\* Wrong StopReturns: the run that did not end is left to the deletion's bound.
StopMovesOn(s) ==
  /\ release[s] = "stopping" /\ (run[s] = "none" \/ Fires(releaseDue[s]))
  /\ release' = [release EXCEPT ![s] = "deleting"]
  /\ releaseDue' = [releaseDue EXCEPT ![s] = now + Remaining(started[s])]
  /\ UNCHANGED <<budget, now, run, canceller, started, closer, cancelDue, closeDue>>

StopReturns(s) ==
  /\ release[s] = "stopping" /\ (run[s] = "none" \/ Fires(releaseDue[s]))
  /\ run' = [run EXCEPT ![s] = Judged(s)]
  /\ release' = [release EXCEPT ![s] = "deleting"]
  /\ releaseDue' = [releaseDue EXCEPT ![s] = now + Remaining(started[s])]
  /\ UNCHANGED <<budget, now, canceller, started, closer, cancelDue, closeDue>>

EndRelease(s) ==
  /\ release[s] = "deleting"
  /\ release' = [release EXCEPT ![s] = "done"]
  /\ UNCHANGED <<budget, now, run, canceller, started, closer, dues>>

\* adelete_thread returned or raised.
DeleteReturns(s) == EndRelease(s)

\* It was given up.
DeleteTimesOut(s) == Fires(releaseDue[s]) /\ EndRelease(s)

\* Releases every session, and waits for all at most total.
Aclose ==
  LET S == {s \in Sessions : release[s] = "none"}
  IN /\ closer = "none"
     /\ closer' = "waiting"
     /\ BeginReleases(S)
     /\ closeDue' = now + budget.total
     /\ releaseDue' = [s \in Sessions |-> IF s \in S THEN BeginDue(s) ELSE releaseDue[s]]
     /\ UNCHANGED <<budget, now, run, canceller, cancelDue>>

AllReleased == \A s \in Sessions : release[s] = "done"

\* In time, or else what is left is settled by force.
CloseReturns ==
  /\ closer = "waiting" /\ (AllReleased \/ Fires(closeDue))
  /\ closer' = "done"
  /\ run' = [s \in Sessions |-> IF release[s] = "done" THEN run[s] ELSE Judged(s)]
  /\ UNCHANGED <<budget, now, canceller, release, started, dues>>

\* Nothing the event loop could run is waiting for the clock.
Idle == /\ \A s \in Sessions :
             /\ canceller[s] # "woken"
             /\ canceller[s] = "waiting" => ~Fires(cancelDue[s])
             /\ release[s] = "stopping" => run[s] # "none" /\ ~Fires(releaseDue[s])
             /\ release[s] = "deleting" => ~Fires(releaseDue[s])
        /\ closer = "waiting" => ~AllReleased /\ ~Fires(closeDue)

Tick == /\ now < Horizon /\ Idle
        /\ now' = now + 1
        /\ UNCHANGED <<budget, run, canceller, release, started, closer, dues>>

Next == \/ \E s \in Sessions : \/ StartTask(s) \/ RunEnds(s)
                               \/ RequestCancellation(s) \/ CancellationReturns(s)
                               \/ Release(s) \/ StopReturns(s)
                               \/ DeleteReturns(s) \/ DeleteTimesOut(s)
        \/ Aclose \/ CloseReturns \/ Tick

Spec == Init /\ [][Next]_vars

-----------------------------------------------------------------------------
(* Properties.                                                             *)

\* Every variable keeps its type.
TypeOK == /\ budget \in CleanupBudget /\ now \in Nat
          /\ run \in [Sessions -> {"none", "active", "outlived"}]
          /\ canceller \in [Sessions -> {"none", "waiting", "woken"}]
          /\ release \in [Sessions -> {"none", "stopping", "deleting", "done"}]
          /\ started \in [Sessions -> Nat]
          /\ closer \in {"none", "waiting", "done"}
          /\ cancelDue \in [Sessions -> Nat] /\ releaseDue \in [Sessions -> Nat]
          /\ closeDue \in Nat

Releasing(s) == release[s] \in {"stopping", "deleting"}

\* However long a run goes on, and whatever else is waiting for it, its task is
\* settled per_task after the release of its session began, and total after aclose()
\* began.
SettledInTime ==
  \A s \in Sessions : run[s] = "active" =>
    /\ release[s] # "none" => now <= started[s] + budget.per_task
    /\ closer = "waiting" => now <= closeDue
    /\ closer # "done"

\* A release takes no longer than the longer of the two bounds, although it is made of
\* two waits: what the first one took is not given to the second one again.
ReleaseWithinLongerBound ==
  \A s \in Sessions : Releasing(s) => now <= started[s] + Longer(budget.per_task, budget.total)

\* The thread is given up no earlier than at the end of the total budget: "deletes its
\* checkpoint thread within the remaining total budget" (langgraph/README.md:125).
DeletionGetsTheRest ==
  [][\A s \in Sessions : DeleteTimesOut(s) => now >= started[s] + budget.total]_vars

\* "Published upper bounds for one task and one whole cleanup operation" (support.py:86):
\* a release takes no longer than total.
ReleaseWithinTotal == \A s \in Sessions : Releasing(s) => now <= started[s] + budget.total
=============================================================================
