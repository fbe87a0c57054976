------------------------- MODULE CleanupTimeProofs -------------------------
(***************************************************************************)
(* Proofs about Cleanup, for any sessions, any budget and any clock: the   *)
(* bounds that cleanup keeps.                                              *)
(***************************************************************************)
EXTENDS Cleanup, TLAPS

\* What the timers of a session's release say while it waits, and what is left of its
\* task after each wait.
Timed(s) ==
  /\ release[s] # "none" => started[s] <= now
  /\ release[s] = "stopping" =>
       now <= releaseDue[s] /\ releaseDue[s] = started[s] + budget.per_task
  /\ release[s] = "deleting" =>
       /\ run[s] # "active"
       /\ now <= releaseDue[s]
       /\ releaseDue[s] >= started[s] + budget.total
       /\ releaseDue[s] <= started[s] + Longer(budget.per_task, budget.total)
  /\ release[s] = "done" => run[s] # "active"

\* aclose() began every release, and leaves no task unsettled.
CloseTimed == /\ closer = "waiting" => now <= closeDue
              /\ closer # "none" => \A s \in Sessions : release[s] # "none"
              /\ closer = "done" => \A s \in Sessions : run[s] # "active"

TimedInv == TypeOK /\ (\A s \in Sessions : Timed(s)) /\ CloseTimed

-----------------------------------------------------------------------------

\* The remaining budget is a duration, and ends the release at the later of now and the
\* end of its total budget.
LEMMA RemainingEnds ==
  ASSUME TypeOK, NEW began \in Nat
  PROVE  /\ Remaining(began) \in Nat
         /\ now + Remaining(began) = Longer(now, began + budget.total)
  <1>1. now \in Nat /\ budget.total \in Nat
    BY BoundsAssumption DEF TypeOK, CleanupBudget
  <1> QED
    BY <1>1 DEF Remaining, Longer

LEMMA TimedInit == Init => TimedInv
  <1> SUFFICES ASSUME Init PROVE TimedInv
    OBVIOUS
  <1> QED
    BY BoundsAssumption DEF Init, TimedInv, TypeOK, Timed, CloseTimed

LEMMA TimedStep == TimedInv /\ [Next]_vars => TimedInv'
  <1> SUFFICES ASSUME TimedInv, [Next]_vars PROVE TimedInv'
    OBVIOUS
  <1> USE DEF TimedInv, TypeOK, Timed, CloseTimed
  <1>0. /\ budget.per_task \in Nat /\ budget.total \in Nat
        /\ \A began \in Nat : /\ Remaining(began) \in Nat
                              /\ now + Remaining(began) = Longer(now, began + budget.total)
    BY BoundsAssumption, RemainingEnds DEF CleanupBudget
  <1>1. ASSUME NEW s \in Sessions, StartTask(s) PROVE TimedInv'
    BY <1>1 DEF StartTask, dues
  <1>2. ASSUME NEW s \in Sessions, RunEnds(s) PROVE TimedInv'
    BY <1>2 DEF RunEnds, dues
  <1>3. ASSUME NEW s \in Sessions, RequestCancellation(s) PROVE TimedInv'
    BY <1>0, <1>3 DEF RequestCancellation
  <1>4. ASSUME NEW s \in Sessions, CancellationReturns(s) PROVE TimedInv'
    BY <1>4 DEF CancellationReturns, Judged, dues
  <1>5. ASSUME NEW s \in Sessions, Release(s) PROVE TimedInv'
    BY <1>0, <1>5 DEF Release, BeginReleases, BeginDue, Longer
  <1>6. ASSUME NEW s \in Sessions, StopReturns(s) PROVE TimedInv'
    BY <1>0, <1>6 DEF StopReturns, Judged, Longer
  <1>7. ASSUME NEW s \in Sessions, DeleteReturns(s) \/ DeleteTimesOut(s) PROVE TimedInv'
    BY <1>7 DEF DeleteReturns, DeleteTimesOut, EndRelease, dues
  <1>8. ASSUME Aclose PROVE TimedInv'
    BY <1>0, <1>8 DEF Aclose, BeginReleases, BeginDue, Longer
  <1>9. ASSUME CloseReturns PROVE TimedInv'
    BY <1>9 DEF CloseReturns, Judged, dues
  <1>10. ASSUME Tick PROVE TimedInv'
    BY <1>10 DEF Tick, Idle, Fires, dues
  <1>11. ASSUME UNCHANGED vars PROVE TimedInv'
    BY <1>11 DEF vars, dues
  <1> QED
    BY <1>1, <1>2, <1>3, <1>4, <1>5, <1>6, <1>7, <1>8, <1>9, <1>10, <1>11 DEF Next

\* In every reachable state the timers bound what they are meant to bound.
THEOREM CleanupTimed == Spec => []TimedInv
  BY TimedInit, TimedStep, PTL DEF Spec

\* Type correctness of the timed model.
THEOREM CleanupTypeCorrect == Spec => []TypeOK
  BY CleanupTimed, PTL DEF TimedInv

\* Tasks are settled within per_task of the release and total of aclose(), for every
\* budget, number of sessions and length of a run.
THEOREM CleanupSettlesInTime == Spec => []SettledInTime
  <1>1. TimedInv => SettledInTime
    BY BoundsAssumption DEF TimedInv, TypeOK, Timed, CloseTimed, SettledInTime, CleanupBudget
  <1> QED
    BY <1>1, CleanupTimed, PTL

\* A release ends within the longer of the two bounds, for every budget.
THEOREM ReleaseIsBounded == Spec => []ReleaseWithinLongerBound
  <1>1. TimedInv => ReleaseWithinLongerBound
    <2> SUFFICES ASSUME TimedInv, NEW s \in Sessions, Releasing(s)
                 PROVE  now <= started[s] + Longer(budget.per_task, budget.total)
      BY DEF ReleaseWithinLongerBound
    <2>1. /\ now \in Nat /\ started[s] \in Nat /\ releaseDue[s] \in Nat
          /\ budget.per_task \in Nat /\ budget.total \in Nat
      BY BoundsAssumption DEF TimedInv, TypeOK, CleanupBudget
    <2>2. CASE release[s] = "stopping"
      BY <2>1, <2>2 DEF TimedInv, Timed, Longer
    <2>3. CASE release[s] = "deleting"
      BY <2>1, <2>3 DEF TimedInv, Timed, Longer
    <2> QED
      BY <2>2, <2>3 DEF Releasing
  <1> QED
    BY <1>1, CleanupTimed, PTL

\* A deletion is given up only when the total budget of its release is over.
THEOREM DeletionIsGivenTheRest == Spec => DeletionGetsTheRest
  <1>1. TimedInv /\ [Next]_vars =>
          [\A s \in Sessions : DeleteTimesOut(s) => now >= started[s] + budget.total]_vars
    BY BoundsAssumption
    DEF TimedInv, TypeOK, Timed, DeleteTimesOut, EndRelease, Fires, CleanupBudget
  <1> QED
    BY <1>1, CleanupTimed, PTL DEF Spec, DeletionGetsTheRest
=============================================================================
