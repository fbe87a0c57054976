----------------------------- MODULE PortProofs -----------------------------
(***************************************************************************)
(* Proofs about Harness: what release() and aclose() leave behind, what    *)
(* becomes of the conversation of a session, and that the adapter          *)
(* implements the abstract port: every step of Harness is a step of        *)
(* AgentPort, or changes nothing the port speaks of.                       *)
(***************************************************************************)
EXTENDS HarnessProofs

-----------------------------------------------------------------------------
(* The release of a session.                                               *)

\* What one step may do to the release of session s.
LEMMA ReleaseChanges ==
  ASSUME TypeOK, [Next]_vars, NEW s \in Sessions
  PROVE  /\ closed[s] => closed'[s]
         /\ \/ release'[s] = release[s] /\ stopping'[s] = stopping[s]
            \/ release[s] = "none" /\ release'[s] = "scheduled" /\ closed'[s]
            \/ ReleaseBegins(s)
            \/ ReleaseStopWakes(s)
            \/ release[s] \in {"deleting", "deleted"} /\ release'[s] \in {"deleted", "done"}
<1> USE DEF graphVars, settleVars, taskVars, releaseVars, closeVars
<1> DEFINE Goal ==
      /\ closed[s] => closed'[s]
      /\ \/ release'[s] = release[s] /\ stopping'[s] = stopping[s]
         \/ release[s] = "none" /\ release'[s] = "scheduled" /\ closed'[s]
         \/ ReleaseBegins(s)
         \/ ReleaseStopWakes(s)
         \/ release[s] \in {"deleting", "deleted"} /\ release'[s] \in {"deleted", "done"}
<1>1. ASSUME NEW t \in Tasks, GraphStep(t) PROVE Goal
  BY <1>1 DEF GraphStep, RunBegins, RecordInput, CallModel, ModelReturns, RunReports, RunBreaksOff,
       RunReturnsNothing, RunFails, RunCancelled, RunEnds
<1>2. ASSUME NEW t \in Tasks,
             \/ DoneCallbacks(t) \/ RequestCancellation(t) \/ CancellationReturns(t)
             \/ CancellationAbandoned(t) \/ \E z \in Sessions : StartTask(z, t)
      PROVE  Goal
  BY <1>2 DEF DoneCallbacks, RequestCancellation, CancellationReturns,
       CancellationAbandoned, StartTask
<1>3. ASSUME NEW z \in Sessions, ReleaseBegins(z) \/ ReleaseStopWakes(z) PROVE Goal
  BY <1>3 DEF ReleaseBegins, ReleaseStopWakes, TypeOK
<1>4. ASSUME NEW z \in Sessions, \/ DeleteAtOnce(z) \/ DeleteApplies(z) \/ DeleteReturns(z)
                                 \/ DeleteFails(z)
      PROVE  Goal
  BY <1>4 DEF DeleteAtOnce, DeleteApplies, DeleteReturns, DeleteFails, Detach, TypeOK
<1>5. ASSUME NEW z \in Sessions, \/ CreateSession(z) \/ Release(z) \/ DeleteAgain(z)
                                 \/ ReleaseReturns(z)
      PROVE  Goal
  BY <1>5 DEF CreateSession, Release, BeginRelease, DeleteAgain, ReleaseReturns, TypeOK
<1>6. ASSUME CloseBegins PROVE Goal
  BY <1>6 DEF CloseBegins, BeginRelease, TypeOK
<1>7. ASSUME CloseTimesOut PROVE Goal
  <2>1. /\ UNCHANGED <<release, stopping>>
        /\ closed' = [x \in Sessions |-> closed[x] \/ x \in closing \ returned]
    BY <1>7 DEF CloseTimesOut
  <2> QED BY <2>1
<1>8. ASSUME Aclose \/ CloseExpires \/ CloseReturns \/ UNCHANGED vars PROVE Goal
  BY <1>8 DEF Aclose, CloseExpires, CloseReturns, vars
<1> HIDE DEF Goal
<1>9. Goal
  BY <1>1, <1>2, <1>3, <1>4, <1>5, <1>6, <1>7, <1>8 DEF Next
<1> QED BY <1>9 DEF Goal

\* A released session is closed; what its release waits for is all that is left
\* unsettled, and nothing is once it has stopped waiting.
Releasing(s) ==
  /\ release[s] # "none" => closed[s]
  /\ release[s] = "stopping" =>
       \A t \in Tasks : owner[t] = s /\ t # stopping[s] => Settled(t)
  /\ release[s] \in {"deleting", "deleted", "done"} =>
       \A t \in Tasks : owner[t] = s => Settled(t)

\* A closed session keeps its tasks, and those settled stay settled.
LEMMA ClosedSession ==
  ASSUME Core, [Next]_vars, NEW s \in Sessions, closed[s]
  PROVE  \A t \in Tasks : /\ owner'[t] = s => owner[t] = s
                          /\ Settled(t) => Settled(t)'
<1> SUFFICES ASSUME NEW t \in Tasks
             PROVE  /\ owner'[t] = s => owner[t] = s
                    /\ Settled(t) => Settled(t)'
  OBVIOUS
<1>1. Settled(t) => Settled(t)'
  BY SettledStays DEF Kept, Settled
<1>2. CASE run[t] # "none"
  BY <1>1, <1>2, Monotone DEF Core
<1>3. CASE run[t] = "none" /\ run'[t] = "none"
  BY <1>1, <1>3, CoreStep, NoSessionAssumption DEF Core, Linked, TaskLinks
<1>4. CASE \E z \in Sessions : StartTask(z, t)
  BY <1>1, <1>4 DEF StartTask, Admits, Core, TypeOK
<1> QED BY <1>2, <1>3, <1>4, Monotone DEF Core

\* The task a release stops waiting for is settled.
LEMMA StopSettles ==
  ASSUME Core, NEW s \in Sessions, ReleaseStopWakes(s)
  PROVE  \E t \in Tasks : t = stopping[s] /\ Settled(t)'
<1> USE DEF graphVars, settleVars, taskVars, releaseVars, closeVars
<1>1. PICK t \in Tasks : t = stopping[s] /\ owner[t] = s
  BY DEF ReleaseStopWakes, Core, Linked, SessionLinks, TypeOK
<1>2. /\ run[t] # "none" /\ GraphUnchanged
      /\ StopWakes(t, "cleanup_bound_exceeded")
      /\ cancelSent'[t] \/ run[t] \in Ended
  BY <1>1, NoSessionAssumption DEF ReleaseStopWakes, Core, Linked, TaskLinks, Requested,
       GraphUnchanged
<1>3. [Next]_vars /\ Core'
  <2>1. Next
    BY Zenon DEF Next
  <2> QED BY <2>1, CoreStep
<1>4. CASE Settled(t)
  BY <1>1, <1>3, <1>4, SettledStays DEF Kept, Settled
<1>5. CASE ~Settled(t)
  <2>1. JudgedByEnd(t) \/ JudgedByForce(t)
    BY <1>1, <1>2, <1>5, StopJudges DEF Core, Reasons
  <2> QED BY <1>1, <1>3, <2>1, JudgmentType DEF Core
<1> QED BY <1>1, <1>4, <1>5

LEMMA ReleasingStep ==
  ASSUME Core, [Next]_vars, NEW s \in Sessions, Releasing(s)
  PROVE  Releasing(s)'
<1>1. CASE release'[s] = release[s] /\ stopping'[s] = stopping[s]
  BY <1>1, ReleaseChanges, ClosedSession DEF Releasing, Core
<1>2. CASE release[s] = "none" /\ release'[s] = "scheduled" /\ closed'[s]
  BY <1>2 DEF Releasing
<1>3. CASE ReleaseBegins(s)
  <2>1. /\ release[s] = "scheduled" /\ closed[s] /\ closed'[s]
        /\ stopping'[s] = running[s]
        /\ release'[s] = IF running[s] = NoTask THEN "deleting" ELSE "stopping"
    BY <1>3, ReleaseChanges DEF ReleaseBegins, Releasing, Core, TypeOK
  <2>2. \A t \in Tasks : owner[t] = s /\ t # running[s] => Settled(t)
    BY NoSessionAssumption DEF Core, Linked, TaskLinks, Judged
  <2>3. \A t \in Tasks : owner'[t] = s /\ t # running[s] => Settled(t)'
    BY <2>1, <2>2, ClosedSession
  <2> QED BY <2>1, <2>3, NoTaskAssumption DEF Releasing
<1>4. CASE ReleaseStopWakes(s)
  <2>1. /\ release[s] = "stopping" /\ release'[s] = "deleting"
        /\ closed[s] /\ closed'[s]
    BY <1>4, ReleaseChanges DEF ReleaseStopWakes, Releasing, Core, TypeOK
  <2>2. \A t \in Tasks : owner'[t] = s => Settled(t)'
    BY <1>4, <2>1, ClosedSession, StopSettles DEF Releasing
  <2> QED BY <2>1, <2>2 DEF Releasing
<1>5. CASE release[s] \in {"deleting", "deleted"} /\ release'[s] \in {"deleted", "done"}
  BY <1>5, ReleaseChanges, ClosedSession DEF Releasing, Core
<1> QED BY <1>1, <1>2, <1>3, <1>4, <1>5, ReleaseChanges DEF Core

LEMMA ReleasingInvariant == Spec => [](\A s \in Sessions : Releasing(s))
<1>1. Init => \A s \in Sessions : Releasing(s)
  BY DEF Init, Releasing
<1>2. Core /\ (\A s \in Sessions : Releasing(s)) /\ [Next]_vars
        => (\A s \in Sessions : Releasing(s))'
  BY ReleasingStep
<1> QED BY <1>1, <1>2, CoreInvariant, PTL DEF Spec

\* When release() has ended, every task of the session is settled.
THEOREM ReleaseLeavesNothing == Spec => []ReleaseSettles
<1>1. Core /\ (\A s \in Sessions : Releasing(s)) => ReleaseSettles
  BY DEF Core, TypeOK, Releasing, ReleaseSettles, Started
<1> QED BY <1>1, CoreInvariant, ReleasingInvariant, PTL

-----------------------------------------------------------------------------
(* Closing the harness.                                                    *)

\* What one step may do to the books of the harness.
LEMMA BookChanges ==
  ASSUME TypeOK, [Next]_vars
  PROVE  /\ shut => shut'
         /\ \/ UNCHANGED <<closer, closing>>
            \/ Aclose \/ CloseBegins \/ CloseExpires \/ CloseReturns \/ CloseTimesOut
         /\ \A s \in Sessions :
              /\ s \in opened => s \in opened'
              /\ s \in opened' => s \in opened \/ (~shut /\ s \in registry')
              /\ s \in registry' => s \in registry \/ ~shut
              /\ s \in registry => s \in registry' \/ release'[s] = "done"
              /\ s \in returned' => s \in returned \/ release'[s] = "done"
<1> USE DEF graphVars, settleVars, taskVars, releaseVars, closeVars
<1> DEFINE Goal ==
      /\ shut => shut'
      /\ \/ UNCHANGED <<closer, closing>>
         \/ Aclose \/ CloseBegins \/ CloseExpires \/ CloseReturns \/ CloseTimesOut
      /\ \A s \in Sessions :
           /\ s \in opened => s \in opened'
           /\ s \in opened' => s \in opened \/ (~shut /\ s \in registry')
           /\ s \in registry' => s \in registry \/ ~shut
           /\ s \in registry => s \in registry' \/ release'[s] = "done"
           /\ s \in returned' => s \in returned \/ release'[s] = "done"
<1>1. ASSUME UNCHANGED closeVars PROVE Goal
  BY <1>1
<1>2. ASSUME NEW t \in Tasks, GraphStep(t) PROVE Goal
  BY <1>1, <1>2 DEF GraphStep, RunBegins, RecordInput, CallModel, ModelReturns, RunReports, RunBreaksOff,
       RunReturnsNothing, RunFails, RunCancelled, RunEnds
<1>3. ASSUME NEW t \in Tasks,
             \/ DoneCallbacks(t) \/ RequestCancellation(t) \/ CancellationReturns(t)
             \/ CancellationAbandoned(t) \/ \E z \in Sessions : StartTask(z, t)
      PROVE  Goal
  BY <1>1, <1>3 DEF DoneCallbacks, RequestCancellation, CancellationReturns,
       CancellationAbandoned, StartTask
<1>4. ASSUME NEW z \in Sessions,
             \/ Release(z) \/ ReleaseBegins(z) \/ ReleaseStopWakes(z) \/ DeleteApplies(z)
             \/ DeleteAgain(z)
      PROVE  Goal
  BY <1>1, <1>4 DEF Release, ReleaseBegins, ReleaseStopWakes, DeleteApplies, DeleteAgain
<1>5. ASSUME NEW z \in Sessions, DeleteAtOnce(z) \/ DeleteReturns(z) \/ DeleteFails(z)
      PROVE  Goal
  <2>1. /\ registry' = registry \ {z} /\ release' = [release EXCEPT ![z] = "done"]
        /\ UNCHANGED <<opened, shut, returned, closer, closing>>
    BY <1>5 DEF DeleteAtOnce, DeleteReturns, DeleteFails, Detach
  <2> QED BY <2>1 DEF TypeOK
<1>6. ASSUME NEW z \in Sessions, CreateSession(z) \/ ReleaseReturns(z) PROVE Goal
  BY <1>6 DEF CreateSession, ReleaseReturns
<1>7. ASSUME Aclose \/ CloseBegins \/ CloseExpires \/ CloseReturns \/ CloseTimesOut
      PROVE  Goal
  BY <1>7 DEF Aclose, CloseBegins, CloseExpires, CloseReturns, CloseTimesOut
<1>8. ASSUME UNCHANGED vars PROVE Goal
  BY <1>1, <1>8 DEF vars
<1> HIDE DEF Goal
<1>9. Goal
  BY <1>2, <1>3, <1>4, <1>5, <1>6, <1>7, <1>8 DEF Next
<1> QED BY <1>9 DEF Goal

\* Nothing is left to do for session s.
Finished(s) == closed[s] /\ \A t \in Tasks : owner[t] = s => Settled(t)

\* aclose() knows every session but those released; it waits for all it knows.
Closing ==
  /\ closer # "none" => shut
  /\ \A s \in opened : s \in registry \/ release[s] = "done"
  /\ \A t \in Tasks : Started(t) => owner[t] \in opened
  /\ closer \in {"waiting", "expired"} => registry \subseteq closing
  /\ \A s \in returned : release[s] = "done"
  /\ closer = "done" => \A s \in opened : Finished(s)

LEMMA FinishedStays ==
  ASSUME Core, [Next]_vars, NEW s \in Sessions, Finished(s)
  PROVE  Finished(s)'
BY ReleaseChanges, ClosedSession DEF Finished, Core

\* A session aclose() gives up is closed, and its task settled.
LEMMA GivenUp ==
  ASSUME Core, CloseTimesOut, NEW s \in closing \ returned
  PROVE  Finished(s)'
<1>1. [Next]_vars /\ s \in Sessions
  BY DEF Next, Core, TypeOK
<1>2. Core'
  BY <1>1, CoreStep
<1>3. /\ UNCHANGED owner
      /\ closed' = [x \in Sessions |-> closed[x] \/ x \in closing \ returned]
  BY DEF CloseTimesOut
<1>4. ASSUME NEW t \in Tasks, owner[t] = s PROVE Settled(t)'
  <2>1. CASE Settled(t)
    BY <1>1, <2>1, SettledStays DEF Kept, Settled
  <2>2. CASE ~Settled(t)
    <3>1. running[s] = t /\ t # NoTask
      BY <1>1, <1>4, <2>2, NoTaskAssumption, NoSessionAssumption
      DEF Core, Linked, TaskLinks, Judged
    <3>2. JudgedByForce(t)
      BY <2>2, <3>1, CloseJudges DEF Core
    <3> QED BY <1>2, <3>2, JudgmentType DEF Core
  <2> QED BY <2>1, <2>2
<1> QED BY <1>1, <1>3, <1>4 DEF Finished

LEMMA ClosingStep ==
  Core /\ (\A s \in Sessions : Releasing(s)) /\ Closing /\ [Next]_vars => Closing'
<1> SUFFICES ASSUME Core, \A s \in Sessions : Releasing(s), Closing, [Next]_vars
             PROVE  Closing'
  OBVIOUS
<1> USE DEF closeVars
<1>1. TypeOK /\ TypeOK'
  BY CoreStep DEF Core
<1>2. \A s \in Sessions : release[s] = "done" => release'[s] = "done" /\ Finished(s)'
  BY <1>1, ReleaseChanges, FinishedStays DEF Releasing, Finished, ReleaseBegins, ReleaseStopWakes
<1>3. closer' # "none" => shut'
  BY <1>1, BookChanges DEF Closing, Aclose, CloseBegins, CloseExpires, CloseReturns,
       CloseTimesOut
<1>4. \A s \in opened' : s \in registry' \/ release'[s] = "done"
  BY <1>1, <1>2, BookChanges DEF Closing, TypeOK
<1>5. ASSUME NEW t \in Tasks, owner'[t] # NoSession PROVE owner'[t] \in opened'
  <2>1. CASE run[t] # "none"
    <3>1. owner'[t] = owner[t] /\ owner[t] \in opened
      BY <1>1, <1>5, <2>1, Monotone DEF Core, Closing, Started
    <3> QED BY <1>1, <3>1, BookChanges DEF TypeOK
  <2>2. CASE \E s \in Sessions : StartTask(s, t)
    BY <1>1, <2>2 DEF StartTask, Admits, TypeOK
  <2>3. CASE run'[t] = "none"
    BY <1>5, <2>3, CoreStep DEF Core, Linked, TaskLinks
  <2> QED BY <2>1, <2>2, <2>3, Monotone DEF Core
<1>6. ASSUME closer' \in {"waiting", "expired"}, NEW s \in registry' PROVE s \in closing'
  <2>1. s \in Sessions
    BY <1>1 DEF TypeOK
  <2>2. CASE CloseBegins
    BY <2>2 DEF CloseBegins
  <2>3. CASE closer \in {"waiting", "expired"} /\ closing' = closing
    BY <1>1, <2>1, <2>3, BookChanges DEF Closing
  <2>4. CloseBegins \/ (closer \in {"waiting", "expired"} /\ closing' = closing)
    BY <1>1, <1>6, <2>1, BookChanges DEF Aclose, CloseExpires, CloseReturns, CloseTimesOut
  <2> QED BY <2>2, <2>3, <2>4
<1>7. \A s \in returned' : release'[s] = "done"
  BY <1>1, <1>2, BookChanges DEF Closing, TypeOK
<1>8. ASSUME closer' = "done", NEW s \in opened' PROVE Finished(s)'
  <2>1. s \in Sessions
    BY <1>1 DEF TypeOK
  <2>2. CASE UNCHANGED closer
    BY <1>1, <1>8, <2>1, <2>2, BookChanges, FinishedStays DEF Closing
  <2>3. CASE CloseBegins /\ registry = {}
    BY <1>2, <2>1, <2>3 DEF CloseBegins, Closing
  <2>4. CASE CloseReturns
    BY <1>2, <2>1, <2>4 DEF CloseReturns, Closing
  <2>5. CASE CloseTimesOut
    <3>1. s \in opened /\ closer = "expired"
      BY <2>5 DEF CloseTimesOut
    <3>2. release[s] = "done" \/ s \in closing \ returned
      BY <3>1 DEF Closing
    <3> QED BY <1>2, <2>1, <2>5, <3>2, GivenUp
  <2>6. UNCHANGED closer \/ (CloseBegins /\ registry = {}) \/ CloseReturns \/ CloseTimesOut
    BY <1>1, <1>8, <2>1, BookChanges DEF Aclose, CloseBegins, CloseExpires
  <2> QED BY <2>2, <2>3, <2>4, <2>5, <2>6
<1> QED BY <1>3, <1>4, <1>5, <1>6, <1>7, <1>8 DEF Closing, Started

LEMMA ClosingInvariant == Spec => []Closing
<1>1. Init => Closing
  BY DEF Init, Closing, Started
<1> QED BY <1>1, ClosingStep, CoreInvariant, ReleasingInvariant, PTL DEF Spec

\* Every task is settled and every session closed when aclose() has ended.
THEOREM CloseLeavesNothing == Spec => []CloseSettlesEverything
<1>1. Core /\ Closing => CloseSettlesEverything
  BY DEF Core, TypeOK, Closing, Finished, CloseSettlesEverything, Started
<1> QED BY <1>1, CoreInvariant, ClosingInvariant, PTL

-----------------------------------------------------------------------------
(* Deletions concern closed sessions.                                      *)

\* The second deletion is only asked for when the session is released.
Deleting ==
  /\ \A t \in Tasks : deleteAfter[t] => Started(t) /\ closed[owner[t]]
  /\ \A s \in Sessions : again[s] # "none" => closed[s]

\* What one step may do to the second deletions.
LEMMA DeletionChanges ==
  ASSUME Core, [Next]_vars
  PROVE  \/ UNCHANGED <<deleteAfter, again>>
         \/ \E t \in Tasks : /\ DoneCallbacks(t) /\ UNCHANGED deleteAfter
                             /\ again' = IF deleteAfter[t]
                                           THEN [again EXCEPT ![owner[t]] = "spawned"]
                                           ELSE again
         \/ \E s \in Sessions : /\ release[s] \in {"deleting", "deleted"}
                                /\ \A t \in Tasks : deleteAfter'[t] =>
                                                      deleteAfter[t] \/ t = running[s]
                                /\ \A z \in Sessions \ {s} : again'[z] = again[z]
         \/ \E s \in Sessions : /\ again[s] # "none" /\ UNCHANGED deleteAfter
                                /\ \A z \in Sessions \ {s} : again'[z] = again[z]
<1> USE DEF graphVars, settleVars, taskVars, releaseVars, closeVars
<1> DEFINE Same == UNCHANGED <<deleteAfter, again>>
<1>1. ASSUME NEW t \in Tasks, GraphStep(t) PROVE Same
  BY <1>1 DEF GraphStep, RunBegins, RecordInput, CallModel, ModelReturns, RunReports, RunBreaksOff,
       RunReturnsNothing, RunFails, RunCancelled, RunEnds
<1>2. ASSUME NEW t \in Tasks,
             \/ RequestCancellation(t) \/ CancellationReturns(t)
             \/ CancellationAbandoned(t) \/ \E z \in Sessions : StartTask(z, t)
      PROVE  Same
  BY <1>2 DEF RequestCancellation, CancellationReturns, CancellationAbandoned, StartTask
<1>3. ASSUME NEW z \in Sessions,
             \/ CreateSession(z) \/ Release(z) \/ ReleaseBegins(z) \/ ReleaseStopWakes(z)
             \/ DeleteApplies(z) \/ ReleaseReturns(z)
      PROVE  Same
  BY <1>3 DEF CreateSession, Release, ReleaseBegins, ReleaseStopWakes, DeleteApplies,
       ReleaseReturns
<1>4. ASSUME \/ Aclose \/ CloseBegins \/ CloseExpires \/ CloseReturns \/ CloseTimesOut
             \/ UNCHANGED vars
      PROVE  Same
  BY <1>4 DEF Aclose, CloseBegins, CloseExpires, CloseReturns, CloseTimesOut, vars
<1>5. ASSUME NEW t \in Tasks, DoneCallbacks(t)
      PROVE  /\ UNCHANGED deleteAfter
             /\ again' = IF deleteAfter[t] THEN [again EXCEPT ![owner[t]] = "spawned"]
                                           ELSE again
  BY <1>5 DEF DoneCallbacks
<1>6. ASSUME NEW s \in Sessions, DeleteAtOnce(s) \/ DeleteReturns(s) \/ DeleteFails(s)
      PROVE  /\ release[s] \in {"deleting", "deleted"}
             /\ \A t \in Tasks : deleteAfter'[t] => deleteAfter[t] \/ t = running[s]
             /\ \A z \in Sessions \ {s} : again'[z] = again[z]
  BY <1>6 DEF DeleteAtOnce, DeleteReturns, DeleteFails, Detach, Core, TypeOK
<1>7. ASSUME NEW s \in Sessions, DeleteAgain(s)
      PROVE  /\ again[s] # "none" /\ UNCHANGED deleteAfter
             /\ \A z \in Sessions \ {s} : again'[z] = again[z]
  BY <1>7 DEF DeleteAgain, Core, TypeOK
<1> HIDE DEF Same
<1>8. \/ Same
      \/ \E t \in Tasks : DoneCallbacks(t)
      \/ \E s \in Sessions : \/ DeleteAtOnce(s) \/ DeleteReturns(s) \/ DeleteFails(s)
                             \/ DeleteAgain(s)
  BY <1>1, <1>2, <1>3, <1>4 DEF Next
<1> QED BY <1>5, <1>6, <1>7, <1>8 DEF Same

LEMMA DeletingStep ==
  Core /\ (\A s \in Sessions : Releasing(s)) /\ Deleting /\ [Next]_vars => Deleting'
<1> SUFFICES ASSUME Core, \A s \in Sessions : Releasing(s), Deleting, [Next]_vars
             PROVE  Deleting'
  OBVIOUS
<1>1. /\ \A s \in Sessions : closed[s] => closed'[s]
      /\ \A t \in Tasks : Started(t) => owner'[t] = owner[t] /\ owner[t] \in Sessions
  BY ReleaseChanges, Monotone DEF Core, Linked, TaskLinks, TypeOK, Started
<1>2. \A s \in Sessions : running[s] \in Tasks => owner[running[s]] = s /\ Started(running[s])
  BY NoTaskAssumption, NoSessionAssumption DEF Core, Linked, SessionLinks, Started
<1>3. ASSUME NEW t \in Tasks, deleteAfter'[t] PROVE Started(t)' /\ closed'[owner'[t]]
  <2>1. \/ deleteAfter[t]
        \/ \E s \in Sessions : release[s] \in {"deleting", "deleted"} /\ t = running[s]
    BY <1>3, DeletionChanges
  <2>2. Started(t) /\ closed[owner[t]]
    BY <1>2, <2>1 DEF Deleting, Releasing
  <2> QED BY <1>1, <2>2 DEF Started
<1>4. ASSUME NEW s \in Sessions, again'[s] # "none" PROVE closed'[s]
  <2>1. CASE again'[s] = again[s]
    BY <1>1, <1>4, <2>1 DEF Deleting
  <2>2. CASE again'[s] # again[s]
    <3>1. \/ again[s] # "none"
          \/ release[s] \in {"deleting", "deleted"}
          \/ \E t \in Tasks : deleteAfter[t] /\ again' = [again EXCEPT ![owner[t]] = "spawned"]
      BY <2>2, DeletionChanges
    <3>2. closed[s]
      BY <1>1, <2>2, <3>1 DEF Deleting, Releasing, Core, TypeOK
    <3> QED BY <1>1, <3>2
  <2> QED BY <2>1, <2>2
<1> QED BY <1>3, <1>4 DEF Deleting

LEMMA DeletingInvariant == Spec => []Deleting
<1>1. Init => Deleting
  BY DEF Init, Deleting
<1> QED BY <1>1, DeletingStep, CoreInvariant, ReleasingInvariant, PTL DEF Spec

-----------------------------------------------------------------------------
(* What a task works on is what its session stores.                        *)

Before == {"none", "scheduled", "entered"}
During == {"recorded", "model", "replied"}

\* The run of a task works on its context between two steps of its own.
LEMMA Phases ==
  ASSUME TypeOK, Linked, [Next]_vars, NEW t \in Tasks
  PROVE  /\ run'[t] \in Before => run[t] \in Before
         /\ run'[t] \in During => run[t] \in During \/ RecordInput(t)
<1> USE DEF graphVars, settleVars, taskVars, releaseVars, closeVars, Before, During
<1>1. ASSUME NEW x \in Tasks, GraphStep(x)
      PROVE  /\ run'[t] \in Before => run[t] \in Before
             /\ run'[t] \in During => run[t] \in During \/ RecordInput(t)
  <2>1. CASE x # t
    BY <1>1, <2>1 DEF GraphStep, RunBegins, RecordInput, CallModel, ModelReturns, RunReports, RunBreaksOff,
         RunReturnsNothing, RunFails, RunCancelled, RunEnds, TypeOK
  <2>2. CASE x = t
    BY <1>1, <2>2 DEF GraphStep, RunBegins, RecordInput, CallModel, ModelReturns, RunReports, RunBreaksOff,
         RunReturnsNothing, RunFails, RunCancelled, RunEnds, TypeOK
  <2> QED BY <2>1, <2>2
<1>2. ASSUME NEW x \in Tasks, NEW s \in Sessions, StartTask(s, x)
      PROVE  run'[t] = run[t] \/ (run[t] = "none" /\ run'[t] = "scheduled")
  BY <1>2 DEF StartTask, Linked, TaskLinks, TypeOK
<1>3. ASSUME [Next]_vars, \A x \in Tasks : ~GraphStep(x),
             \A s \in Sessions, x \in Tasks : ~StartTask(s, x)
      PROVE  UNCHANGED run
  BY <1>3 DEF vars, Next, DoneCallbacks, CreateSession, RequestCancellation,
       CancellationReturns, CancellationAbandoned, Release, ReleaseBegins,
       ReleaseStopWakes, DeleteAtOnce, DeleteApplies, DeleteReturns, DeleteFails,
       DeleteAgain, Aclose, CloseBegins, ReleaseReturns, CloseExpires, CloseReturns,
       CloseTimesOut
<1> QED BY <1>1, <1>2, <1>3

\* Who writes to a thread: the two nodes of a run, and deletions.
LEMMA ThreadChanges ==
  ASSUME Core, \A s \in Sessions : Releasing(s), Deleting, [Next]_vars
  PROVE  \/ UNCHANGED <<context, thread>>
         \/ \E t \in Tasks : RecordInput(t) \/ ModelReturns(t)
         \/ /\ UNCHANGED <<context, run, owner>>
            /\ \E s \in Sessions : /\ closed[s]
                                   /\ \A z \in Sessions \ {s} : thread'[z] = thread[z]
<1> USE DEF graphVars, settleVars, taskVars, releaseVars, closeVars
<1> DEFINE Same == UNCHANGED <<context, thread>>
<1>1. ASSUME NEW t \in Tasks, GraphStep(t), ~RecordInput(t), ~ModelReturns(t) PROVE Same
  BY <1>1 DEF GraphStep, RunBegins, CallModel, RunReports, RunBreaksOff, RunReturnsNothing,
       RunFails, RunCancelled, RunEnds
<1>2. ASSUME NEW t \in Tasks,
             \/ DoneCallbacks(t) \/ RequestCancellation(t) \/ CancellationReturns(t)
             \/ CancellationAbandoned(t) \/ \E z \in Sessions : StartTask(z, t)
      PROVE  Same
  BY <1>2 DEF DoneCallbacks, RequestCancellation, CancellationReturns,
       CancellationAbandoned, StartTask
<1>3. ASSUME NEW z \in Sessions,
             \/ CreateSession(z) \/ Release(z) \/ ReleaseBegins(z) \/ ReleaseStopWakes(z)
             \/ DeleteReturns(z) \/ DeleteFails(z) \/ ReleaseReturns(z)
      PROVE  Same
  BY <1>3 DEF CreateSession, Release, ReleaseBegins, ReleaseStopWakes, DeleteReturns,
       DeleteFails, ReleaseReturns
<1>4. ASSUME \/ Aclose \/ CloseBegins \/ CloseExpires \/ CloseReturns \/ CloseTimesOut
             \/ UNCHANGED vars
      PROVE  Same
  BY <1>4 DEF Aclose, CloseBegins, CloseExpires, CloseReturns, CloseTimesOut, vars
<1>5. ASSUME NEW s \in Sessions, DeleteAtOnce(s) \/ DeleteApplies(s) \/ DeleteAgain(s)
      PROVE  /\ UNCHANGED <<context, run, owner>> /\ closed[s]
             /\ \A z \in Sessions \ {s} : thread'[z] = thread[z]
  BY <1>5 DEF DeleteAtOnce, DeleteApplies, DeleteAgain, Releasing, Deleting, Core, TypeOK
<1> HIDE DEF Same
<1>6. \/ Same
      \/ \E t \in Tasks : RecordInput(t) \/ ModelReturns(t)
      \/ \E s \in Sessions : DeleteAtOnce(s) \/ DeleteApplies(s) \/ DeleteAgain(s)
  BY <1>1, <1>2, <1>3, <1>4 DEF Next, GraphStep
<1> QED BY <1>5, <1>6 DEF Same

\* A run works on all that its session stores, and a session stores all that its
\* tasks worked on.
Conversation(t) ==
  /\ run[t] \in Before => context[t] = {}
  /\ Started(t) /\ ~closed[owner[t]] =>
       /\ context[t] \subseteq thread[owner[t]]
       /\ run[t] \in During => context[t] = thread[owner[t]]

LEMMA ConversationStep ==
  Core /\ (\A s \in Sessions : Releasing(s)) /\ Deleting
       /\ (\A t \in Tasks : Conversation(t)) /\ [Next]_vars
    => (\A t \in Tasks : Conversation(t))'
<1> SUFFICES ASSUME Core, \A s \in Sessions : Releasing(s), Deleting,
                    \A t \in Tasks : Conversation(t), [Next]_vars, NEW t \in Tasks
             PROVE  Conversation(t)'
  OBVIOUS
<1> USE DEF graphVars, settleVars, taskVars, releaseVars, closeVars
<1>1. \A s \in Sessions : closed[s] => closed'[s]
  BY ReleaseChanges DEF Core
<1>2. CASE UNCHANGED <<context, thread>> /\ ~RecordInput(t)
  <2>1. CASE run[t] = "none"
    BY <1>2, <2>1, Phases, Monotone, CoreStep
    DEF Core, Conversation, Before, During, Linked, TaskLinks, Started, RecordInput
  <2>2. CASE run[t] # "none"
    <3>1. owner'[t] = owner[t] /\ owner[t] \in Sessions /\ owner[t] # NoSession
      BY <2>2, Monotone DEF Core, TypeOK, Linked, TaskLinks
    <3> QED BY <1>1, <1>2, <3>1, Phases DEF Core, Conversation, Started
  <2> QED BY <2>1, <2>2
<1>3. \A x \in Tasks : run[x] \in Live /\ run[t] \in During /\ owner[x] = owner[t] => x = t
  BY DEF Core, Linked, TaskLinks, Live, During
<1>4. ASSUME NEW x \in Tasks, RecordInput(x) \/ ModelReturns(x) PROVE Conversation(t)'
  <2>1. /\ owner[x] \in Sessions /\ run[x] \in Live
        /\ UNCHANGED <<owner, closed>>
        /\ run' = [run EXCEPT ![x] = run'[x]] /\ run'[x] \in During
    BY <1>4 DEF RecordInput, ModelReturns, Live, During, Core, TypeOK, Linked, TaskLinks
  <2>2. PICK more \in SUBSET Message :
          LET base == IF RecordInput(x) THEN thread[owner[x]] ELSE context[x]
          IN /\ context' = [context EXCEPT ![x] = base \cup more]
             /\ thread' = [thread EXCEPT ![owner[x]] = base \cup more]
    <3>1. CASE RecordInput(x)
      <4>1. {<<x, "input">>} \in SUBSET Message
        BY DEF Message
      <4> QED BY <3>1, <4>1 DEF RecordInput
    <3>2. CASE ~RecordInput(x)
      <4>1. {<<x, "reply">>} \in SUBSET Message
        BY DEF Message
      <4> QED BY <1>4, <3>2, <4>1 DEF ModelReturns, Core, TypeOK
    <3> QED BY <3>1, <3>2
  <2>3. /\ context'[x] = thread'[owner[x]]
        /\ \A y \in Tasks \ {x} : context'[y] = context[y]
        /\ \A s \in Sessions \ {owner[x]} : thread'[s] = thread[s]
    BY <2>1, <2>2 DEF Core, TypeOK
  <2>4. ~closed[owner[x]] => thread[owner[x]] \subseteq thread'[owner[x]]
    <3>1. ~RecordInput(x) => run[x] \in During /\ Started(x)
      BY <1>4, <2>1, NoSessionAssumption DEF ModelReturns, During, Started
    <3> QED BY <2>1, <2>2, <3>1 DEF Conversation, Core, TypeOK
  <2>5. CASE t = x
    BY <2>1, <2>3, <2>5 DEF Conversation, Before, During, Core, TypeOK
  <2>6. CASE t # x
    <3>1. run'[t] = run[t]
      BY <2>1, <2>6 DEF Core, TypeOK
    <3>2. CASE Started(t) /\ owner[t] = owner[x]
      BY <1>3, <2>1, <2>3, <2>4, <2>6, <3>1, <3>2 DEF Conversation, Started
    <3>3. CASE ~Started(t) \/ owner[t] # owner[x]
      BY <2>1, <2>3, <2>6, <3>1, <3>3 DEF Conversation, Started, Core, TypeOK
    <3> QED BY <3>2, <3>3
  <2> QED BY <2>5, <2>6
<1>5. CASE /\ UNCHANGED <<context, run, owner>>
           /\ \E s \in Sessions : /\ closed[s]
                                  /\ \A z \in Sessions \ {s} : thread'[z] = thread[z]
  BY <1>1, <1>5 DEF Conversation, Started, Core, TypeOK
<1> QED BY <1>2, <1>4, <1>5, ThreadChanges

LEMMA ConversationInvariant == Spec => [](\A t \in Tasks : Conversation(t))
<1>1. Init => \A t \in Tasks : Conversation(t)
  BY DEF Init, Conversation, Before, During, Started
<1> QED BY <1>1, ConversationStep, CoreInvariant, ReleasingInvariant, DeletingInvariant, PTL
        DEF Spec

\* No write takes back what an earlier task of an open session left in its thread.
THEOREM ContextStays == Spec => []ContextContinuity
<1>1. (\A t \in Tasks : Conversation(t)) => ContextContinuity
  BY DEF Conversation, ContextContinuity
<1> QED BY <1>1, ConversationInvariant, PTL

-----------------------------------------------------------------------------
(* Where a deletion does not suspend, a released thread stays deleted.     *)

\* Once its thread was deleted, a session has no run that a second deletion will not
\* follow, and what its thread holds is still to be deleted, or was not and is lost.
SeenTo(s) ==
  \/ thread[s] = {}
  \/ again[s] \in {"spawned", "error"}
  \/ \E t \in Tasks : owner[t] = s /\ deleteAfter[t] /\ (run[t] \in Live \/ due[t])

Swept(s) ==
  /\ release[s] # "deleted"
  /\ released[s] = "ok" =>
       /\ release[s] = "done"
       /\ \A t \in Tasks : owner[t] = s /\ run[t] \in Live => deleteAfter[t]
       /\ SeenTo(s)

LEMMA SweptStep ==
  ASSUME Core, ~DeleteSuspends, [Next]_vars, NEW s \in Sessions, Releasing(s), Swept(s)
  PROVE  Swept(s)'
<1> USE DEF graphVars, settleVars, taskVars, releaseVars, closeVars
<1>1. TypeOK
  BY DEF Core
<1>2. ASSUME UNCHANGED <<run, due, owner, thread, deleteAfter, again, released>>,
             release'[s] = release[s] \/ (release[s] # "done" /\ release'[s] # "deleted")
      PROVE  Swept(s)'
  BY <1>2 DEF Swept, SeenTo
<1>3. ASSUME NEW t \in Tasks, GraphStep(t) PROVE Swept(s)'
  <2>1. /\ UNCHANGED <<owner, deleteAfter, again, released, release>>
        /\ run[t] \in Live /\ owner[t] \in Sessions
    BY <1>1, <1>3 DEF GraphStep, RunBegins, RecordInput, CallModel, ModelReturns, RunReports, RunBreaksOff,
         RunReturnsNothing, RunFails, RunCancelled, RunEnds, Live, Core, Linked, TaskLinks,
         TypeOK
  <2>2. CASE RunBegins(t) \/ RecordInput(t) \/ CallModel(t) \/ ModelReturns(t)
    <3>1. /\ UNCHANGED due
          /\ \E how \in Live : run' = [run EXCEPT ![t] = how]
          /\ \A z \in Sessions : z # owner[t] => thread'[z] = thread[z]
      BY <1>1, <2>2 DEF RunBegins, RecordInput, CallModel, ModelReturns, Live, TypeOK
    <3>2. \A x \in Tasks : run'[x] \in Live <=> run[x] \in Live
      BY <1>1, <2>1, <3>1 DEF TypeOK
    <3>3. CASE owner[t] = s
      BY <2>1, <3>1, <3>2, <3>3 DEF Swept, SeenTo
    <3>4. CASE owner[t] # s
      BY <2>1, <3>1, <3>2, <3>4 DEF Swept, SeenTo
    <3> QED BY <3>3, <3>4
  <2>3. CASE \/ RunReports(t) \/ RunBreaksOff(t) \/ RunReturnsNothing(t)
             \/ RunFails(t) \/ RunCancelled(t)
    <3>1. /\ UNCHANGED thread /\ due' = [due EXCEPT ![t] = TRUE]
          /\ \E how \in Ended : run' = [run EXCEPT ![t] = how]
      BY <2>3 DEF RunReports, RunBreaksOff, RunReturnsNothing, RunFails, RunCancelled,
           RunEnds, Ended
    <3>2. \A x \in Tasks : /\ run'[x] \in Live => run[x] \in Live
                           /\ run[x] \in Live \/ due[x] => run'[x] \in Live \/ due'[x]
      BY <1>1, <3>1 DEF TypeOK, Live, Ended
    <3> QED BY <2>1, <3>1, <3>2 DEF Swept, SeenTo
  <2> QED BY <1>3, <2>2, <2>3 DEF GraphStep
<1>4. ASSUME NEW t \in Tasks, DoneCallbacks(t) PROVE Swept(s)'
  <2>1. /\ UNCHANGED <<run, owner, thread, deleteAfter, released, release>>
        /\ due' = [due EXCEPT ![t] = FALSE]
        /\ again' = IF deleteAfter[t] THEN [again EXCEPT ![owner[t]] = "spawned"] ELSE again
    BY <1>4 DEF DoneCallbacks
  <2>2. again'[s] = IF deleteAfter[t] /\ owner[t] = s THEN "spawned" ELSE again[s]
    BY <1>1, <2>1 DEF TypeOK
  <2>3. \A x \in Tasks : x # t => due'[x] = due[x]
    BY <1>1, <2>1 DEF TypeOK
  <2> QED BY <2>1, <2>2, <2>3 DEF Swept, SeenTo
<1>5. ASSUME NEW t \in Tasks, NEW z \in Sessions, StartTask(z, t) PROVE Swept(s)'
  <2>1. /\ UNCHANGED <<due, thread, deleteAfter, again, released, release>>
        /\ owner' = [owner EXCEPT ![t] = z] /\ run' = [run EXCEPT ![t] = "scheduled"]
        /\ ~closed[z] /\ owner[t] = NoSession
    BY <1>5 DEF StartTask, Admits
  <2>2. released[s] = "ok" => z # s
    BY <2>1 DEF Swept, Releasing
  <2>3. \A x \in Tasks : x # t => owner'[x] = owner[x] /\ run'[x] = run[x]
    BY <1>1, <2>1 DEF TypeOK
  <2>4. owner'[t] = z
    BY <1>1, <2>1 DEF TypeOK
  <2> QED BY <2>1, <2>2, <2>3, <2>4, NoSessionAssumption DEF Swept, SeenTo
<1>6. ASSUME NEW t \in Tasks,
             RequestCancellation(t) \/ CancellationReturns(t) \/ CancellationAbandoned(t)
      PROVE  Swept(s)'
  BY <1>2, <1>6 DEF RequestCancellation, CancellationReturns, CancellationAbandoned
<1>7. ASSUME NEW z \in Sessions,
             \/ CreateSession(z) \/ Release(z) \/ ReleaseBegins(z) \/ ReleaseStopWakes(z)
             \/ ReleaseReturns(z)
      PROVE  Swept(s)'
  <2>1. /\ UNCHANGED <<run, due, owner, thread, deleteAfter, again, released>>
        /\ release'[s] = release[s] \/ (release[s] # "done" /\ release'[s] # "deleted")
    BY <1>1, <1>7 DEF CreateSession, Release, BeginRelease, ReleaseBegins, ReleaseStopWakes,
         ReleaseReturns, TypeOK
  <2> QED BY <1>2, <2>1
<1>8. ASSUME NEW z \in Sessions, z # s,
             DeleteAtOnce(z) \/ DeleteReturns(z) \/ DeleteFails(z) \/ DeleteAgain(z)
      PROVE  Swept(s)'
  <2>1. /\ UNCHANGED <<run, due, owner>>
        /\ thread'[s] = thread[s] /\ again'[s] = again[s]
        /\ release'[s] = release[s] /\ released'[s] = released[s]
        /\ \A t \in Tasks : deleteAfter[t] => deleteAfter'[t]
    BY <1>1, <1>8 DEF DeleteAtOnce, DeleteReturns, DeleteFails, DeleteAgain, Detach, TypeOK
  <2> QED BY <2>1 DEF Swept, SeenTo
<1>9. CASE DeleteAtOnce(s)
  <2>1. /\ UNCHANGED <<run, due, owner>>
        /\ thread'[s] = {} /\ release'[s] = "done"
        /\ \A t \in Tasks : deleteAfter'[t] <=>
             deleteAfter[t] \/ (t = running[s] /\ run[t] \notin Ended)
    BY <1>1, <1>9 DEF DeleteAtOnce, Detach, TypeOK
  <2>2. \A t \in Tasks : owner[t] = s /\ run[t] \in Live => t = running[s]
    BY DEF Core, Linked, TaskLinks
  <2> QED BY <2>1, <2>2 DEF Swept, SeenTo, Live, Ended
<1>10. CASE DeleteFails(s)
  <2>1. release'[s] = "done" /\ released'[s] = "error"
    BY <1>1, <1>10 DEF DeleteFails, Detach, TypeOK
  <2> QED BY <2>1 DEF Swept
<1>11. CASE DeleteAgain(s)
  <2>1. /\ UNCHANGED <<run, due, owner, deleteAfter, release, released>>
        /\ thread'[s] = {} \/ again'[s] = "error"
    BY <1>1, <1>11 DEF DeleteAgain, TypeOK
  <2> QED BY <2>1 DEF Swept, SeenTo
<1>12. ASSUME NEW z \in Sessions, DeleteApplies(z) PROVE FALSE
  BY <1>12 DEF DeleteApplies
<1>13. CASE DeleteReturns(s)
  BY <1>13 DEF DeleteReturns, Swept
<1>14. CASE CloseBegins
  <2>1. /\ UNCHANGED <<run, due, owner, thread, deleteAfter, again, released>>
        /\ release'[s] = release[s] \/ (release[s] # "done" /\ release'[s] # "deleted")
    BY <1>1, <1>14 DEF CloseBegins, BeginRelease, TypeOK
  <2> QED BY <1>2, <2>1
<1>15. CASE \/ Aclose \/ CloseExpires \/ CloseReturns \/ CloseTimesOut \/ UNCHANGED vars
  BY <1>2, <1>15 DEF Aclose, CloseExpires, CloseReturns, CloseTimesOut, vars
<1>16. ASSUME NEW z \in Sessions,
              DeleteAtOnce(z) \/ DeleteReturns(z) \/ DeleteFails(z) \/ DeleteAgain(z)
       PROVE  Swept(s)'
  BY <1>8, <1>9, <1>10, <1>11, <1>13, <1>16
<1> QED
  BY <1>3, <1>4, <1>5, <1>6, <1>7, <1>12, <1>14, <1>15, <1>16 DEF Next

LEMMA SweptInvariant == Spec => [](~DeleteSuspends => \A s \in Sessions : Swept(s))
<1> DEFINE Inv == ~DeleteSuspends => \A s \in Sessions : Swept(s)
<1>1. Init => Inv
  BY DEF Init, Swept
<1>2. Core /\ (\A s \in Sessions : Releasing(s)) /\ Inv /\ [Next]_vars => Inv'
  BY SweptStep
<1> QED BY <1>1, <1>2, CoreInvariant, ReleasingInvariant, PTL DEF Spec

\* A released thread does not come back, if a deletion is over as soon as it is applied;
\* for one that suspends it may (harness.py:604).
THEOREM DeletedStays == Spec => [](~DeleteSuspends => ReleasedThreadStaysDeleted)
<1>1. ASSUME \A s \in Sessions : Swept(s) PROVE ReleasedThreadStaysDeleted
  <2> SUFFICES ASSUME NEW s \in Sessions, released[s] = "ok", again[s] \in {"none", "ok"},
                      \A t \in Tasks : owner[t] = s => run[t] \in Ended /\ ~due[t]
               PROVE  thread[s] = {}
    BY DEF ReleasedThreadStaysDeleted
  <2> QED BY <1>1 DEF Swept, SeenTo, Live, Ended
<1>2. (~DeleteSuspends => \A s \in Sessions : Swept(s))
        => (~DeleteSuspends => ReleasedThreadStaysDeleted)
  BY <1>1
<1> QED BY <1>2, SweptInvariant, PTL

-----------------------------------------------------------------------------
(* The sessions the harness knows are the ones it created.                 *)

Books == /\ registry \subseteq opened /\ closing \subseteq opened
         /\ \A s \in Sessions : closed[s] => s \in opened

LEMMA BooksStep == ASSUME TypeOK, Books, [Next]_vars PROVE Books'
<1> USE DEF graphVars, settleVars, taskVars, releaseVars, closeVars
<1>1. ASSUME NEW t \in Tasks, GraphStep(t) PROVE Books'
  BY <1>1 DEF GraphStep, RunBegins, RecordInput, CallModel, ModelReturns, RunReports, RunBreaksOff,
       RunReturnsNothing, RunFails, RunCancelled, RunEnds, Books
<1>2. ASSUME NEW t \in Tasks,
             \/ DoneCallbacks(t) \/ RequestCancellation(t) \/ CancellationReturns(t)
             \/ CancellationAbandoned(t) \/ \E z \in Sessions : StartTask(z, t)
      PROVE  Books'
  BY <1>2 DEF DoneCallbacks, RequestCancellation, CancellationReturns,
       CancellationAbandoned, StartTask, Books
<1>3. ASSUME NEW z \in Sessions,
             \/ CreateSession(z) \/ ReleaseBegins(z) \/ ReleaseStopWakes(z)
             \/ DeleteApplies(z) \/ DeleteAgain(z) \/ ReleaseReturns(z)
      PROVE  Books'
  BY <1>3 DEF CreateSession, ReleaseBegins, ReleaseStopWakes, DeleteApplies, DeleteAgain,
       ReleaseReturns, Books
<1>4. ASSUME NEW z \in Sessions, DeleteAtOnce(z) \/ DeleteReturns(z) \/ DeleteFails(z)
      PROVE  Books'
  BY <1>4 DEF DeleteAtOnce, DeleteReturns, DeleteFails, Detach, Books
<1>5. ASSUME NEW z \in Sessions, Release(z) PROVE Books'
  BY <1>5 DEF Release, BeginRelease, Books
<1>6. ASSUME CloseBegins PROVE Books'
  BY <1>6 DEF CloseBegins, BeginRelease, Books
<1>7. ASSUME CloseTimesOut PROVE Books'
  <2>1. /\ closed' = [s \in Sessions |-> closed[s] \/ s \in closing \ returned]
        /\ UNCHANGED <<opened, registry, closing>>
    BY <1>7 DEF CloseTimesOut
  <2> QED BY <2>1 DEF Books
<1>8. ASSUME Aclose \/ CloseExpires \/ CloseReturns \/ UNCHANGED vars PROVE Books'
  BY <1>8 DEF Aclose, CloseExpires, CloseReturns, vars, Books
<1> QED BY <1>1, <1>2, <1>3, <1>4, <1>5, <1>6, <1>7, <1>8 DEF Next

LEMMA BooksInvariant == Spec => []Books
<1>1. Init => Books
  BY DEF Init, Books
<1> QED BY <1>1, BooksStep, CoreInvariant, PTL DEF Spec, Core

-----------------------------------------------------------------------------
(* What a step that admits neither a session nor a task does.              *)

LEMMA OwnersStay ==
  ASSUME [Next]_vars, \A s \in Sessions : ~CreateSession(s),
         \A s \in Sessions, t \in Tasks : ~StartTask(s, t)
  PROVE  UNCHANGED <<opened, owner>>
<1> USE DEF graphVars, settleVars, taskVars, releaseVars, closeVars
<1>1. CASE \E t \in Tasks : GraphStep(t)
  BY <1>1 DEF GraphStep, RunBegins, RecordInput, CallModel, ModelReturns, RunReports, RunBreaksOff,
       RunReturnsNothing, RunFails, RunCancelled, RunEnds
<1>2. CASE \E t \in Tasks : \/ DoneCallbacks(t) \/ RequestCancellation(t)
                            \/ CancellationReturns(t) \/ CancellationAbandoned(t)
  BY <1>2 DEF DoneCallbacks, RequestCancellation, CancellationReturns,
       CancellationAbandoned
<1>3. CASE \E s \in Sessions :
             \/ Release(s) \/ ReleaseBegins(s) \/ ReleaseStopWakes(s) \/ DeleteAtOnce(s)
             \/ DeleteApplies(s) \/ DeleteReturns(s) \/ DeleteFails(s) \/ DeleteAgain(s)
             \/ ReleaseReturns(s)
  BY <1>3 DEF Release, ReleaseBegins, ReleaseStopWakes, DeleteAtOnce, DeleteApplies,
       DeleteReturns, DeleteFails, DeleteAgain, ReleaseReturns
<1>4. CASE \/ Aclose \/ CloseBegins \/ CloseExpires \/ CloseReturns \/ CloseTimesOut
           \/ UNCHANGED vars
  BY <1>4 DEF Aclose, CloseBegins, CloseExpires, CloseReturns, CloseTimesOut, vars
<1> QED BY <1>1, <1>2, <1>3, <1>4 DEF Next

\* Each session is left alone, or one of its tasks is judged.
LEMMA JudgmentsMap ==
  ASSUME Core, Core', [Next]_vars, UNCHANGED owner
  PROVE  Port!Judgments
<1>1. outcome' \in [Tasks -> Outcome \cup {NoOutcome}]
  BY DEF Core, TypeOK
<1>2. CASE UNCHANGED <<usage, outcome>>
  <2>1. \A s \in Sessions : Port!NoJudgment(s)
    BY <1>2 DEF Port!NoJudgment
  <2>2. ASSUME NEW t \in Tasks PROVE Port!Snapshot(t)
    <3>1. ~JudgedByEnd(t) /\ ~JudgedByForce(t)
      BY <1>2, JudgmentType DEF Core, JudgedByEnd, JudgedByForce, SettledWith, Settled
    <3>2. RunBegins(t) => state'[t] = "running" /\ ~Settled(t)
      <4>1. state \in [Tasks -> {"starting", "running"} \cup TerminalStates]
        BY DEF Core, TypeOK
      <4>2. Settled(t) => run[t] \in Ended \/ cancelSent[t]
        BY DEF Core, Judged
      <4> QED BY <4>1, <4>2 DEF RunBegins, Ended
    <3>3. RunReports(t) \/ RunBreaksOff(t) => state'[t] = state[t]
      BY DEF RunReports, RunBreaksOff
    <3> QED BY <1>2, <3>1, <3>2, <3>3, Judgments
        DEF Core, Kept, Port!Snapshot, Port!Settled, Settled
  <2> QED BY <1>1, <1>2, <2>1, <2>2 DEF Port!Judgments
<1>3. CASE \E V : Settle(V) /\ Verdicts(V)
  <2>1. PICK V : Settle(V) /\ Verdicts(V)
    BY <1>3
  <2>2. /\ \A t \in Tasks : IF t \in DOMAIN V /\ ~Settled(t)
                              THEN SettledWith(t, V[t])
                              ELSE UNCHANGED <<outcome[t], state[t], events[t]>>
        /\ \A s \in Sessions :
             (\A t \in DOMAIN V : owner[t] = s => Settled(t)) => usage'[s] = usage[s]
    BY <2>1, SettleEffect DEF Core, Verdicts
  <2>3. ASSUME NEW t \in DOMAIN V, ~Settled(t)
        PROVE  /\ t \in Tasks /\ owner[t] \in Sessions
               /\ Port!Judgment(owner[t], t) /\ Port!Snapshot(t)
    <3>1. t \in Tasks /\ owner[t] \in Sessions /\ V[t] \in Judgment
      BY <2>1 DEF Verdicts
    <3>2. SettledWith(t, V[t])
      BY <2>2, <2>3, <3>1
    <3>3. outcome'[t] # NoOutcome
      BY <3>1, <3>2, SettledWithType DEF Core, Settled
    <3>4. /\ outcome'[t].usage = V[t].usage
          /\ outcome'[t].sessionUsage = usage'[owner[t]]
          /\ state'[t] = outcome'[t].kind
      BY <3>2 DEF SettledWith, Final
    <3>5. \A x \in Tasks \ {t} : owner[x] = owner[t] => outcome'[x] = outcome[x]
      BY <2>1, <2>2 DEF Verdicts
    <3>6. Port!Judgment(owner[t], t)
      BY <2>3, <3>2, <3>3, <3>4, <3>5
      DEF Port!Judgment, Port!OfSession, Port!Settled, Settled, SettledWith, Port!Add, Add,
          Port!AddAmounts, AddAmounts
    <3>7. Port!Snapshot(t)
      BY <2>3, <3>3, <3>4 DEF Port!Snapshot, Settled
    <3> QED BY <3>1, <3>6, <3>7
  <2>4. ASSUME NEW s \in Sessions
        PROVE  Port!NoJudgment(s) \/ \E t \in Port!OfSession(s) : Port!Judgment(s, t)
    <3>1. CASE \E t \in DOMAIN V : owner[t] = s /\ ~Settled(t)
      BY <2>3, <3>1 DEF Port!OfSession
    <3>2. CASE \A t \in DOMAIN V : owner[t] = s => Settled(t)
      BY <2>2, <3>2 DEF Port!NoJudgment, Port!OfSession
    <3> QED BY <3>1, <3>2
  <2>5. ASSUME NEW t \in Tasks
        PROVE  (owner[t] = NoSession => outcome'[t] = outcome[t]) /\ Port!Snapshot(t)
    <3>1. CASE t \in DOMAIN V /\ ~Settled(t)
      BY <2>3, <3>1, NoSessionAssumption
    <3>2. CASE ~(t \in DOMAIN V /\ ~Settled(t))
      BY <2>2, <3>2 DEF Port!Snapshot
    <3> QED BY <3>1, <3>2
  <2> QED BY <1>1, <2>4, <2>5 DEF Port!Judgments
<1> QED BY <1>2, <1>3, UsageChanges DEF Core

Invariants == Core /\ Closing /\ Books /\ \A s \in Sessions : Releasing(s)

LEMMA WithdrawalsMap ==
  ASSUME Invariants, Invariants', [Next]_vars, UNCHANGED <<opened, owner>>
  PROVE  Port!Withdrawals
<1> DEFINE W == {s \in Sessions : closed[s]}
           G == {s \in Sessions : release[s] = "done"}
<1>1. W \subseteq W' /\ G \subseteq G'
  BY ReleaseChanges DEF Invariants, Core, ReleaseBegins, ReleaseStopWakes
<1>2. W' \subseteq opened
  BY DEF Invariants, Books
<1>3. G' \subseteq W'
  BY DEF Invariants, Releasing
<1>4. \A s \in G' : Port!Judged(s)
  BY DEF Invariants, Releasing, Port!Judged, Port!OfSession, Settled
<1> HIDE DEF W, G
<1> QED BY <1>1, <1>2, <1>3, <1>4 DEF Port!Withdrawals, W, G

LEMMA ClosingMaps ==
  ASSUME Invariants, Invariants', [Next]_vars, UNCHANGED <<opened, owner>>
  PROVE  Port!Closing /\ Port!ClosedMeansDone
<1>1. Port!Closing
  <2>1. /\ shut => shut'
        /\ \/ closer' = closer \/ closer = "none"
           \/ closer \in {"scheduled", "waiting", "expired"}
    BY BookChanges DEF Invariants, Core, Aclose, CloseBegins, CloseExpires, CloseReturns,
       CloseTimesOut, closeVars
  <2>2. (closer # "none" => shut) /\ (closer' = "done" => shut \/ closer = "none")
    BY <2>1 DEF Invariants, Closing
  <2>3. closer = "none" => closer' # "done"
    BY BookChanges DEF Invariants, Core, Aclose, CloseBegins, CloseExpires, CloseReturns,
       CloseTimesOut, closeVars
  <2> QED BY <2>1, <2>2, <2>3 DEF Port!Closing, Phase, Invariants, Closing
<1>2. ASSUME Phase' = "closed" PROVE Port!ClosedMeansDone
  <2>1. closer' = "done"
    BY <1>2 DEF Phase
  <2>2. \A s \in opened' : Finished(s)'
    BY <2>1 DEF Invariants, Closing
  <2>3. {s \in Sessions : closed[s]}' = opened
    BY <2>2 DEF Invariants, Books, Finished, Core, TypeOK
  <2>4. \A s \in Sessions : Port!Judged(s)
    <3> SUFFICES ASSUME NEW s \in Sessions, NEW t \in Tasks, owner[t] = s
                 PROVE  outcome'[t] # NoOutcome
      BY DEF Port!Judged, Port!OfSession
    <3>1. s \in opened'
      BY NoSessionAssumption DEF Invariants, Closing, Started
    <3> QED BY <2>2, <3>1 DEF Finished, Settled
  <2> QED BY <2>3, <2>4 DEF Port!ClosedMeansDone
<1> QED BY <1>1, <1>2 DEF Port!ClosedMeansDone

-----------------------------------------------------------------------------
(* The refinement.                                                         *)

LEMMA InitMaps == Init => Port!Init
BY DEF Init, Port!Init, Phase, Port!ZERO, ZERO

LEMMA CreateSessionMaps ==
  ASSUME Core, NEW s \in Sessions, CreateSession(s)
  PROVE  Port!CreateSession(s)
BY DEF CreateSession, Port!CreateSession, Phase, graphVars, settleVars, taskVars,
       releaseVars

\* A session that admits a task has no unsettled one.
LEMMA StartTaskMaps ==
  ASSUME Core, NEW s \in Sessions, NEW t \in Tasks, StartTask(s, t)
  PROVE  Port!StartTask(s, t)
<1>1. \A x \in Tasks : owner[x] = s => Settled(x)
  BY NoTaskAssumption, NoSessionAssumption
  DEF StartTask, Admits, Core, Judged, Linked, TaskLinks
<1> QED BY <1>1 DEF StartTask, Admits, Port!StartTask, Port!OfSession, Port!Settled,
        Settled, Phase, graphVars, settleVars, taskVars, releaseVars, closeVars

LEMMA StepMaps ==
  ASSUME Invariants, Invariants', [Next]_vars
  PROVE  Port!Next
<1>1. CASE \E s \in Sessions : CreateSession(s)
  BY <1>1, CreateSessionMaps DEF Invariants, Port!Next
<1>2. CASE \E s \in Sessions, t \in Tasks : StartTask(s, t)
  BY <1>2, StartTaskMaps DEF Invariants, Port!Next
<1>3. CASE ~(\/ \E s \in Sessions : CreateSession(s)
             \/ \E s \in Sessions, t \in Tasks : StartTask(s, t))
  <2>1. UNCHANGED <<opened, owner>>
    BY <1>3, OwnersStay
  <2>2. Port!Work
    BY <2>1, JudgmentsMap, WithdrawalsMap, ClosingMaps DEF Invariants, Port!Work
  <2> QED BY <2>2 DEF Port!Next
<1> QED BY <1>1, <1>2, <1>3

\* The adapter implements the abstract port, for any number of sessions and tasks.
THEOREM ImplementsPort == Spec => PortSpec
<1>1. Spec => []Invariants
  BY CoreInvariant, ClosingInvariant, BooksInvariant, ReleasingInvariant, PTL DEF Invariants
<1>2. Invariants /\ Invariants' /\ [Next]_vars => [Port!Next]_(Port!portVars)
  BY StepMaps
<1> QED BY <1>1, <1>2, InitMaps, PTL DEF Spec, PortSpec, Port!Spec
=============================================================================
