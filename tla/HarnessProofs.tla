--------------------------- MODULE HarnessProofs ---------------------------
(***************************************************************************)
(* Proofs about Harness, for any number of sessions and tasks.             *)
(***************************************************************************)
EXTENDS Harness, SequenceTheorems, TLAPS

-----------------------------------------------------------------------------
(* Usage.                                                                  *)

LEMMA AddType == ASSUME NEW u \in AgentUsage, NEW v \in AgentUsage
                 PROVE  Add(u, v) \in AgentUsage
BY UnknownAssumption DEF Add, AddAmounts, AgentUsage, Amount

LEMMA ConstantUsage == ZERO \in AgentUsage /\ UNKNOWN \in AgentUsage
BY DEF ZERO, UNKNOWN, AgentUsage, Amount

-----------------------------------------------------------------------------
(* Settling.                                                               *)

Reasons == {"none", "cancellation_unconfirmed", "cleanup_bound_exceeded"}
Judgment == [kind : TerminalStates, reason : Reasons, output : BOOLEAN, usage : AgentUsage]

LEMMA UsageSoFarType == ASSUME TypeOK, NEW t \in Tasks
                        PROVE  UsageSoFar(t) \in AgentUsage
BY ConstantUsage DEF TypeOK, UsageSoFar

LEMMA ForcedVerdictType ==
  ASSUME TypeOK, NEW t \in Tasks, NEW reason \in Reasons
  PROVE  ForcedVerdict(t, reason) \in Judgment
BY UsageSoFarType DEF ForcedVerdict, Verdict, Judgment, TerminalStates

LEMMA EndVerdictType ==
  ASSUME TypeOK, NEW t \in Tasks, run[t] \in Ended
  PROVE  EndVerdict(t) \in Judgment
BY UsageSoFarType DEF EndVerdict, CancellationVerdict, Verdict, Judgment, TerminalStates,
                      Ended, Reasons

SettledTypes == /\ state \in [Tasks -> {"starting", "running"} \cup TerminalStates]
                /\ outcome \in [Tasks -> Outcome \cup {NoOutcome}]
                /\ events \in [Tasks -> Seq({"started", "message", "usage", "terminal"})]
                /\ usage \in [Sessions -> AgentUsage]

LEMMA SettleType ==
  ASSUME TypeOK, NEW V, DOMAIN V \subseteq Tasks, Settle(V),
         \A t \in DOMAIN V : owner[t] \in Sessions /\ V[t] \in Judgment
  PROVE  SettledTypes'
<1> DEFINE T == Unsettled(DOMAIN V)
           OfSession(s) == {t \in T : owner[t] = s}
           Total(s) == IF OfSession(s) = {} THEN usage[s]
                       ELSE Add(usage[s], V[CHOOSE t \in OfSession(s) : TRUE].usage)
<1>1. T \subseteq DOMAIN V /\ T \subseteq Tasks
  BY DEF Unsettled
<1>2. \A s \in Sessions : Total(s) \in AgentUsage
  <2> SUFFICES ASSUME NEW s \in Sessions PROVE Total(s) \in AgentUsage
    OBVIOUS
  <2>1. usage[s] \in AgentUsage
    BY DEF TypeOK
  <2>2. CASE OfSession(s) = {}
    BY <2>1, <2>2
  <2>3. CASE OfSession(s) # {}
    <3> DEFINE c == CHOOSE t \in OfSession(s) : TRUE
    <3>1. c \in OfSession(s)
      BY <2>3
    <3>2. V[c] \in Judgment
      BY <3>1, <1>1
    <3>3. V[c].usage \in AgentUsage
      BY <3>2 DEF Judgment
    <3> QED BY <2>1, <2>3, <3>3, AddType
  <2> QED BY <2>2, <2>3
<1>3. /\ usage' = [s \in Sessions |-> Total(s)]
      /\ outcome' = [t \in Tasks |-> IF t \in T THEN Final(V[t], Total(owner[t])) ELSE outcome[t]]
      /\ state' = [t \in Tasks |-> IF t \in T THEN V[t].kind ELSE state[t]]
      /\ events' = [t \in Tasks |-> IF t \in T THEN Append(events[t], "terminal") ELSE events[t]]
  BY DEF Settle
<1> HIDE DEF T, Total
<1>4. usage' \in [Sessions -> AgentUsage]
  BY <1>2, <1>3
<1>5. outcome' \in [Tasks -> Outcome \cup {NoOutcome}]
  <2>1. \A t \in T : Final(V[t], Total(owner[t])) \in Outcome
    BY <1>1, <1>2 DEF Final, Judgment, Outcome, Reasons
  <2> QED BY <1>3, <2>1 DEF TypeOK
<1>6. state' \in [Tasks -> {"starting", "running"} \cup TerminalStates]
  BY <1>1, <1>3 DEF TypeOK, Judgment
<1>7. events' \in [Tasks -> Seq({"started", "message", "usage", "terminal"})]
  BY <1>3 DEF TypeOK
<1> QED BY <1>4, <1>5, <1>6, <1>7 DEF SettledTypes

-----------------------------------------------------------------------------
(* Types, and the links between sessions, tasks and their graph runs.      *)

\* What ties a task to its session, its run and those who wait for it.
TaskLinks(t) ==
  /\ owner[t] = NoSession <=> run[t] = "none"
  /\ due[t] => run[t] \in Ended
  /\ canceller[t] = "stopping" => run[t] # "none"
  /\ run[t] \in Live => running[owner[t]] = t

SessionLinks(s) ==
  /\ running[s] # NoTask => owner[running[s]] = s
  /\ stopping[s] # NoTask => owner[stopping[s]] = s
  /\ release[s] = "stopping" => stopping[s] # NoTask

Linked == (\A t \in Tasks : TaskLinks(t)) /\ (\A s \in Sessions : SessionLinks(s))

\* A session may only be freed, and of an ended run only.
Freed(t) ==
  /\ running' \in [Sessions -> Tasks \cup {NoTask}]
  /\ \A s \in Sessions :
       \/ running'[s] = running[s]
       \/ /\ running[s] = t /\ run[t] \in Ended
          /\ running'[s] = NoTask

LEMMA GraphRunEndedFrees ==
  ASSUME TypeOK, Linked, NEW t \in Tasks, run[t] \in Ended, GraphRunEnded(t)
  PROVE  SettledTypes' /\ Freed(t)
<1>1. owner[t] \in Sessions
  BY DEF TypeOK, Linked, TaskLinks, Ended
<1>2. SettledTypes'
  <2> DEFINE V == [x \in {t} |-> EndVerdict(x)]
  <2>1. Settle(V) /\ DOMAIN V = {t}
    BY DEF GraphRunEnded
  <2>2. V[t] \in Judgment
    BY EndVerdictType
  <2> HIDE DEF V
  <2> QED BY <1>1, <2>1, <2>2, SettleType
<1> QED BY <1>2 DEF GraphRunEnded, FreeSession, Freed, TypeOK

LEMMA StopFrees ==
  ASSUME TypeOK, Linked, NEW t \in Tasks, run[t] # "none", NEW reason \in Reasons,
         StopWakes(t, reason)
  PROVE  SettledTypes' /\ Freed(t)
<1>1. CASE run[t] \in Ended
  BY <1>1, GraphRunEndedFrees DEF StopWakes
<1>2. CASE run[t] \notin Ended
  <2> DEFINE V == [x \in {t} |-> ForcedVerdict(x, reason)]
  <2>1. Settle(V) /\ DOMAIN V = {t} /\ UNCHANGED running
    BY <1>2 DEF StopWakes
  <2>2. V[t] \in Judgment
    BY ForcedVerdictType
  <2> HIDE DEF V
  <2>3. owner[t] \in Sessions
    BY DEF TypeOK, Linked, TaskLinks
  <2> QED BY <2>1, <2>2, <2>3, SettleType DEF Freed, TypeOK
<1> QED BY <1>1, <1>2

LEMMA FreedLinks ==
  ASSUME TypeOK, Linked, NEW t, Freed(t)
  PROVE  /\ \A x \in Tasks : run[x] \in Live => running'[owner[x]] = x
         /\ \A x \in Sessions : running'[x] # NoTask => owner[running'[x]] = x
<1>1. ASSUME NEW x \in Tasks, run[x] \in Live PROVE running'[owner[x]] = x
  <2>1. owner[x] \in Sessions /\ running[owner[x]] = x
    BY <1>1 DEF TypeOK, Linked, TaskLinks, Live
  <2>2. run[x] \notin Ended
    BY <1>1 DEF Live, Ended
  <2> QED BY <2>1, <2>2 DEF Freed
<1>2. ASSUME NEW x \in Sessions, running'[x] # NoTask PROVE owner[running'[x]] = x
  BY <1>2 DEF Linked, SessionLinks, Freed
<1> QED BY <1>1, <1>2

LEMMA ReturnEvents ==
  ASSUME NEW q \in Seq({"started", "message", "usage", "terminal"})
  PROVE  q \o <<"message", "usage">> \in Seq({"started", "message", "usage", "terminal"})
<1>1. <<"message", "usage">> \in Seq({"started", "message", "usage", "terminal"})
  OBVIOUS
<1> QED BY <1>1, ConcatProperties

LEMMA CloseTimesOutTypes ==
  ASSUME TypeOK, Linked, CloseTimesOut
  PROVE  SettledTypes'
<1> DEFINE tasks == {running[s] : s \in closing \ returned} \ {NoTask}
           V == [x \in tasks |-> ForcedVerdict(x, "cleanup_bound_exceeded")]
<1>1. \A t \in tasks : t \in Tasks /\ owner[t] \in Sessions
  BY DEF TypeOK, Linked, SessionLinks
<1>2. Settle(V) /\ DOMAIN V = tasks
  BY DEF CloseTimesOut
<1>3. \A t \in tasks : V[t] \in Judgment
  BY <1>1, ForcedVerdictType DEF Reasons
<1> HIDE DEF tasks, V
<1> QED BY <1>1, <1>2, <1>3, SettleType

LEMMA CancelType ==
  ASSUME TypeOK, NEW S, CancelGraphRuns(S)
  PROVE  cancelSent' \in [Tasks -> BOOLEAN]
BY DEF TypeOK, CancelGraphRuns

LEMMA DetachTypes ==
  ASSUME TypeOK, NEW s \in Sessions, NEW how \in {"ok", "error"}, Detach(s, how)
  PROVE  /\ release' \in [Sessions -> {"none", "scheduled", "stopping", "deleting",
                                       "deleted", "done"}]
         /\ released' \in [Sessions -> {"none", "ok", "error"}]
         /\ registry' \in SUBSET Sessions
         /\ deleteAfter' \in [Tasks -> BOOLEAN]
         /\ again' \in [Sessions -> {"none", "spawned", "ok", "error"}]
         /\ \A x \in Sessions : release'[x] = "stopping" => release[x] = "stopping"
BY DEF TypeOK, Detach

LEMMA BeginReleaseTypes ==
  ASSUME TypeOK, NEW S, BeginRelease(S)
  PROVE  /\ release' \in [Sessions -> {"none", "scheduled", "stopping", "deleting",
                                       "deleted", "done"}]
         /\ closed' \in [Sessions -> BOOLEAN]
         /\ \A x \in Sessions : release'[x] = "stopping" => release[x] = "stopping"
BY DEF TypeOK, BeginRelease

LEMMA InitLinked == Init => TypeOK /\ Linked
<1> SUFFICES ASSUME Init PROVE TypeOK /\ Linked
  OBVIOUS
<1>1. <<>> \in Seq({"started", "message", "usage", "terminal"})
  OBVIOUS
<1>2. TypeOK
  BY <1>1, ConstantUsage DEF Init, TypeOK
<1>3. Linked
  BY NoSessionAssumption DEF Init, Linked, TaskLinks, SessionLinks, Live, Ended
<1> QED BY <1>2, <1>3

LEMMA NextLinked == TypeOK /\ Linked /\ [Next]_vars => TypeOK' /\ Linked'
<1> SUFFICES ASSUME TypeOK, Linked, [Next]_vars
             PROVE  TypeOK' /\ Linked'
  OBVIOUS
<1> USE DEF graphVars, settleVars, taskVars, releaseVars, closeVars
<1>1. ASSUME NEW t \in Tasks, RunBegins(t) PROVE TypeOK' /\ Linked'
  <2>a. TypeOK'
    BY <1>1, NoTaskAssumption DEF TypeOK, RunBegins, Publish, Live, Ended
  <2>b. Linked'
    BY <1>1, NoSessionAssumption DEF TypeOK, Linked, TaskLinks, SessionLinks, Live, Ended, RunBegins, Publish
  <2> QED BY <2>a, <2>b
<1>2. ASSUME NEW t \in Tasks, RecordInput(t) PROVE TypeOK' /\ Linked'
  <2>1. owner[t] \in Sessions
    BY <1>2 DEF TypeOK, Linked, TaskLinks, RecordInput, Live, Ended
  <2>a. TypeOK'
    BY <1>2, <2>1, NoTaskAssumption DEF TypeOK, RecordInput, Message, Live, Ended
  <2>b. Linked'
    BY <1>2, NoSessionAssumption DEF TypeOK, Linked, TaskLinks, SessionLinks, Live, Ended, RecordInput, Message
  <2> QED BY <2>a, <2>b
<1>3. ASSUME NEW t \in Tasks, CallModel(t) PROVE TypeOK' /\ Linked'
  <2>a. TypeOK'
    BY <1>3, NoTaskAssumption DEF TypeOK, CallModel, Live, Ended
  <2>b. Linked'
    BY <1>3, NoSessionAssumption DEF TypeOK, Linked, TaskLinks, SessionLinks, Live, Ended, CallModel
  <2> QED BY <2>a, <2>b
<1>4. ASSUME NEW t \in Tasks, ModelReturns(t) PROVE TypeOK' /\ Linked'
  <2>1. owner[t] \in Sessions /\ {<<t, "reply">>} \subseteq Message /\ {<<t, "input">>} \subseteq Message
    BY <1>4 DEF TypeOK, Linked, TaskLinks, ModelReturns, Message
  <2>a. TypeOK'
    BY <1>4, <2>1, NoTaskAssumption DEF TypeOK, ModelReturns, Message, Live, Ended
  <2>b. Linked'
    BY <1>4, NoSessionAssumption DEF TypeOK, Linked, TaskLinks, SessionLinks, Live, Ended, ModelReturns, Message
  <2> QED BY <2>a, <2>b
<1>5. ASSUME NEW t \in Tasks, RunReports(t) PROVE TypeOK' /\ Linked'
  <2>1. owner[t] \in Sessions /\ events' \in [Tasks -> Seq({"started", "message", "usage", "terminal"})]
    <3>1. owner[t] \in Sessions
      BY <1>5 DEF TypeOK, Linked, TaskLinks, RunReports
    <3> DEFINE E == Seq({"started", "message", "usage", "terminal"})
    <3>2. events[t] \in E /\ events \in [Tasks -> E]
      BY DEF TypeOK
    <3>3. events[t] \o <<"message", "usage">> \in E
      BY <3>2, ReturnEvents
    <3>4. events' = [events EXCEPT ![t] = IF Settled(t) THEN events[t]
                                          ELSE events[t] \o <<"message", "usage">>]
      BY <1>5 DEF RunReports
    <3> HIDE DEF E
    <3>5. events' \in [Tasks -> E]
      BY <3>2, <3>3, <3>4
    <3> QED BY <3>1, <3>5 DEF E
  <2>a. TypeOK'
    BY <1>5, <2>1, AddType, ReplyUsagesAssumption, NoTaskAssumption DEF TypeOK, RunReports, ProjectedUsage, Live, Ended
  <2>b. Linked'
    BY <1>5, NoSessionAssumption DEF TypeOK, Linked, TaskLinks, SessionLinks, Live, Ended, RunReports, ProjectedUsage
  <2> QED BY <2>a, <2>b
<1>30. ASSUME NEW t \in Tasks, RunBreaksOff(t) PROVE TypeOK' /\ Linked'
  <2>a. TypeOK'
    BY <1>30, NoTaskAssumption DEF TypeOK, RunBreaksOff, Publish, Live, Ended
  <2>b. Linked'
    BY <1>30, NoSessionAssumption DEF TypeOK, Linked, TaskLinks, SessionLinks, Live, Ended, RunBreaksOff, Publish
  <2> QED BY <2>a, <2>b
<1>6. ASSUME NEW t \in Tasks, RunReturnsNothing(t) PROVE TypeOK' /\ Linked'
  <2>a. TypeOK'
    BY <1>6, NoTaskAssumption DEF TypeOK, RunReturnsNothing, RunEnds, Live, Ended
  <2>b. Linked'
    BY <1>6, NoSessionAssumption DEF TypeOK, Linked, TaskLinks, SessionLinks, Live, Ended, RunReturnsNothing, RunEnds
  <2> QED BY <2>a, <2>b
<1>7. ASSUME NEW t \in Tasks, RunFails(t) PROVE TypeOK' /\ Linked'
  <2>a. TypeOK'
    BY <1>7, NoTaskAssumption DEF TypeOK, RunFails, RunEnds, Live, Ended
  <2>b. Linked'
    BY <1>7, NoSessionAssumption DEF TypeOK, Linked, TaskLinks, SessionLinks, Live, Ended, RunFails, RunEnds
  <2> QED BY <2>a, <2>b
<1>8. ASSUME NEW t \in Tasks, RunCancelled(t) PROVE TypeOK' /\ Linked'
  <2>a. TypeOK'
    BY <1>8, NoTaskAssumption DEF TypeOK, RunCancelled, RunEnds, Live, Ended
  <2>b. Linked'
    BY <1>8, NoSessionAssumption DEF TypeOK, Linked, TaskLinks, SessionLinks, Live, Ended, RunCancelled, RunEnds
  <2> QED BY <2>a, <2>b
<1>9. ASSUME NEW t \in Tasks, DoneCallbacks(t) PROVE TypeOK' /\ Linked'
  <2>1. run[t] \in Ended
    BY <1>9 DEF DoneCallbacks, Linked, TaskLinks
  <2>2. SettledTypes' /\ Freed(t)
    BY <1>9, <2>1, GraphRunEndedFrees DEF DoneCallbacks
  <2>3. /\ \A x \in Tasks : run[x] \in Live => running'[owner[x]] = x
       /\ \A x \in Sessions : running'[x] # NoTask => owner[running'[x]] = x
    BY <2>2, FreedLinks
  <2>a. TypeOK'
    BY <1>9, <2>1, <2>2, <2>3, NoTaskAssumption DEF TypeOK, SettledTypes, Freed, DoneCallbacks
  <2>b. Linked'
    BY <1>9, <2>1, <2>2, <2>3, NoTaskAssumption, NoSessionAssumption DEF TypeOK, Linked, TaskLinks, SessionLinks, Live, Ended, Freed, DoneCallbacks
  <2> QED BY <2>a, <2>b
<1>10. ASSUME NEW s \in Sessions, CreateSession(s) PROVE TypeOK' /\ Linked'
  <2>a. TypeOK'
    BY <1>10, NoTaskAssumption DEF TypeOK, SettledTypes, Freed, CreateSession
  <2>b. Linked'
    BY <1>10, NoTaskAssumption, NoSessionAssumption DEF TypeOK, Linked, TaskLinks, SessionLinks, Live, Ended, Freed, CreateSession
  <2> QED BY <2>a, <2>b
<1>11. ASSUME NEW s \in Sessions, NEW t \in Tasks, StartTask(s, t) PROVE TypeOK' /\ Linked'
  <2>1. /\ owner[t] = NoSession /\ running[s] = NoTask
       /\ owner' = [owner EXCEPT ![t] = s] /\ running' = [running EXCEPT ![s] = t]
       /\ run' = [run EXCEPT ![t] = "scheduled"]
       /\ UNCHANGED <<due, canceller, stopping, release>>
    BY <1>11 DEF StartTask, Admits
  <2>2. \A x \in Tasks : TaskLinks(x)'
    BY <2>1, NoSessionAssumption, NoTaskAssumption DEF TypeOK, Linked, TaskLinks, SessionLinks, Live, Ended
  <2>3. \A x \in Sessions : SessionLinks(x)'
    BY <2>1, NoSessionAssumption, NoTaskAssumption DEF TypeOK, Linked, TaskLinks, SessionLinks
  <2>a. TypeOK'
    BY <1>11, <2>1, <2>2, <2>3, NoTaskAssumption DEF TypeOK, SettledTypes, Freed, StartTask, Admits, Live
  <2>b. Linked'
    BY <1>11, <2>1, <2>2, <2>3, NoTaskAssumption, NoSessionAssumption DEF TypeOK, Linked, TaskLinks, SessionLinks, Live, Ended, Freed, StartTask, Admits, Live
  <2> QED BY <2>a, <2>b
<1>12. ASSUME NEW t \in Tasks, RequestCancellation(t) PROVE TypeOK' /\ Linked'
  <2>1. cancelSent' \in [Tasks -> BOOLEAN]
    BY <1>12, CancelType DEF RequestCancellation
  <2>a. TypeOK'
    BY <1>12, <2>1, NoTaskAssumption DEF TypeOK, SettledTypes, Freed, RequestCancellation
  <2>b. Linked'
    BY <1>12, <2>1, NoTaskAssumption, NoSessionAssumption DEF TypeOK, Linked, TaskLinks, SessionLinks, Live, Ended, Freed, RequestCancellation
  <2> QED BY <2>a, <2>b
<1>13. ASSUME NEW t \in Tasks, CancellationReturns(t) PROVE TypeOK' /\ Linked'
  <2>1. SettledTypes' /\ Freed(t)
    BY <1>13, StopFrees DEF CancellationReturns, Reasons, Linked, TaskLinks
  <2>2. /\ \A x \in Tasks : run[x] \in Live => running'[owner[x]] = x
       /\ \A x \in Sessions : running'[x] # NoTask => owner[running'[x]] = x
    BY <2>1, FreedLinks
  <2>a. TypeOK'
    BY <1>13, <2>1, <2>2, NoTaskAssumption DEF TypeOK, SettledTypes, Freed, CancellationReturns
  <2>b. Linked'
    BY <1>13, <2>1, <2>2, NoTaskAssumption, NoSessionAssumption DEF TypeOK, Linked, TaskLinks, SessionLinks, Live, Ended, Freed, CancellationReturns
  <2> QED BY <2>a, <2>b
<1>14. ASSUME NEW t \in Tasks, CancellationAbandoned(t) PROVE TypeOK' /\ Linked'
  <2>a. TypeOK'
    BY <1>14, NoTaskAssumption DEF TypeOK, SettledTypes, Freed, CancellationAbandoned
  <2>b. Linked'
    BY <1>14, NoTaskAssumption, NoSessionAssumption DEF TypeOK, Linked, TaskLinks, SessionLinks, Live, Ended, Freed, CancellationAbandoned
  <2> QED BY <2>a, <2>b
<1>15. ASSUME NEW s \in Sessions, Release(s) PROVE TypeOK' /\ Linked'
  <2>1. /\ release' \in [Sessions -> {"none", "scheduled", "stopping", "deleting",
                                       "deleted", "done"}]
       /\ closed' \in [Sessions -> BOOLEAN]
       /\ \A x \in Sessions : release'[x] = "stopping" => release[x] = "stopping"
    BY <1>15, BeginReleaseTypes DEF Release
  <2>a. TypeOK'
    BY <1>15, <2>1, NoTaskAssumption DEF TypeOK, SettledTypes, Freed, Release
  <2>b. Linked'
    BY <1>15, <2>1, NoTaskAssumption, NoSessionAssumption DEF TypeOK, Linked, TaskLinks, SessionLinks, Live, Ended, Freed, Release
  <2> QED BY <2>a, <2>b
<1>16. ASSUME NEW s \in Sessions, ReleaseBegins(s) PROVE TypeOK' /\ Linked'
  <2>1. cancelSent' \in [Tasks -> BOOLEAN]
    BY <1>16, CancelType DEF ReleaseBegins
  <2>a. TypeOK'
    BY <1>16, <2>1, NoTaskAssumption DEF TypeOK, SettledTypes, Freed, ReleaseBegins
  <2>b. Linked'
    BY <1>16, <2>1, NoTaskAssumption, NoSessionAssumption DEF TypeOK, Linked, TaskLinks, SessionLinks, Live, Ended, Freed, ReleaseBegins
  <2> QED BY <2>a, <2>b
<1>17. ASSUME NEW s \in Sessions, ReleaseStopWakes(s) PROVE TypeOK' /\ Linked'
  <2>1. stopping[s] \in Tasks /\ owner[stopping[s]] = s
    BY <1>17 DEF TypeOK, ReleaseStopWakes, Linked, SessionLinks
  <2>2. SettledTypes' /\ Freed(stopping[s])
    BY <1>17, <2>1, StopFrees, NoSessionAssumption DEF ReleaseStopWakes, Reasons, Linked, TaskLinks
  <2>3. /\ \A x \in Tasks : run[x] \in Live => running'[owner[x]] = x
       /\ \A x \in Sessions : running'[x] # NoTask => owner[running'[x]] = x
    BY <2>2, FreedLinks
  <2>a. TypeOK'
    BY <1>17, <2>1, <2>2, <2>3, NoTaskAssumption DEF TypeOK, SettledTypes, Freed, ReleaseStopWakes
  <2>b. Linked'
    BY <1>17, <2>1, <2>2, <2>3, NoTaskAssumption, NoSessionAssumption DEF TypeOK, Linked, TaskLinks, SessionLinks, Live, Ended, Freed, ReleaseStopWakes
  <2> QED BY <2>a, <2>b
<1>18. ASSUME NEW s \in Sessions, DeleteAtOnce(s) PROVE TypeOK' /\ Linked'
  <2>1. /\ release' \in [Sessions -> {"none", "scheduled", "stopping", "deleting",
                                       "deleted", "done"}]
       /\ released' \in [Sessions -> {"none", "ok", "error"}]
       /\ registry' \in SUBSET Sessions
       /\ deleteAfter' \in [Tasks -> BOOLEAN]
       /\ again' \in [Sessions -> {"none", "spawned", "ok", "error"}]
       /\ \A x \in Sessions : release'[x] = "stopping" => release[x] = "stopping"
    BY <1>18, DetachTypes DEF DeleteAtOnce
  <2>a. TypeOK'
    BY <1>18, <2>1, NoTaskAssumption DEF TypeOK, SettledTypes, Freed, DeleteAtOnce
  <2>b. Linked'
    BY <1>18, <2>1, NoTaskAssumption, NoSessionAssumption DEF TypeOK, Linked, TaskLinks, SessionLinks, Live, Ended, Freed, DeleteAtOnce
  <2> QED BY <2>a, <2>b
<1>19. ASSUME NEW s \in Sessions, DeleteApplies(s) PROVE TypeOK' /\ Linked'
  <2>a. TypeOK'
    BY <1>19, NoTaskAssumption DEF TypeOK, SettledTypes, Freed, DeleteApplies
  <2>b. Linked'
    BY <1>19, NoTaskAssumption, NoSessionAssumption DEF TypeOK, Linked, TaskLinks, SessionLinks, Live, Ended, Freed, DeleteApplies
  <2> QED BY <2>a, <2>b
<1>20. ASSUME NEW s \in Sessions, DeleteReturns(s) PROVE TypeOK' /\ Linked'
  <2>1. /\ release' \in [Sessions -> {"none", "scheduled", "stopping", "deleting",
                                       "deleted", "done"}]
       /\ released' \in [Sessions -> {"none", "ok", "error"}]
       /\ registry' \in SUBSET Sessions
       /\ deleteAfter' \in [Tasks -> BOOLEAN]
       /\ again' \in [Sessions -> {"none", "spawned", "ok", "error"}]
       /\ \A x \in Sessions : release'[x] = "stopping" => release[x] = "stopping"
    BY <1>20, DetachTypes DEF DeleteReturns
  <2>a. TypeOK'
    BY <1>20, <2>1, NoTaskAssumption DEF TypeOK, SettledTypes, Freed, DeleteReturns
  <2>b. Linked'
    BY <1>20, <2>1, NoTaskAssumption, NoSessionAssumption DEF TypeOK, Linked, TaskLinks, SessionLinks, Live, Ended, Freed, DeleteReturns
  <2> QED BY <2>a, <2>b
<1>21. ASSUME NEW s \in Sessions, DeleteFails(s) PROVE TypeOK' /\ Linked'
  <2>1. /\ release' \in [Sessions -> {"none", "scheduled", "stopping", "deleting",
                                       "deleted", "done"}]
       /\ released' \in [Sessions -> {"none", "ok", "error"}]
       /\ registry' \in SUBSET Sessions
       /\ deleteAfter' \in [Tasks -> BOOLEAN]
       /\ again' \in [Sessions -> {"none", "spawned", "ok", "error"}]
       /\ \A x \in Sessions : release'[x] = "stopping" => release[x] = "stopping"
    BY <1>21, DetachTypes DEF DeleteFails
  <2>a. TypeOK'
    BY <1>21, <2>1, NoTaskAssumption DEF TypeOK, SettledTypes, Freed, DeleteFails
  <2>b. Linked'
    BY <1>21, <2>1, NoTaskAssumption, NoSessionAssumption DEF TypeOK, Linked, TaskLinks, SessionLinks, Live, Ended, Freed, DeleteFails
  <2> QED BY <2>a, <2>b
<1>22. ASSUME NEW s \in Sessions, DeleteAgain(s) PROVE TypeOK' /\ Linked'
  <2>a. TypeOK'
    BY <1>22, NoTaskAssumption DEF TypeOK, SettledTypes, Freed, DeleteAgain
  <2>b. Linked'
    BY <1>22, NoTaskAssumption, NoSessionAssumption DEF TypeOK, Linked, TaskLinks, SessionLinks, Live, Ended, Freed, DeleteAgain
  <2> QED BY <2>a, <2>b
<1>23. ASSUME Aclose PROVE TypeOK' /\ Linked'
  <2>a. TypeOK'
    BY <1>23, NoTaskAssumption DEF TypeOK, SettledTypes, Freed, Aclose
  <2>b. Linked'
    BY <1>23, NoTaskAssumption, NoSessionAssumption DEF TypeOK, Linked, TaskLinks, SessionLinks, Live, Ended, Freed, Aclose
  <2> QED BY <2>a, <2>b
<1>24. ASSUME CloseBegins PROVE TypeOK' /\ Linked'
  <2>1. /\ release' \in [Sessions -> {"none", "scheduled", "stopping", "deleting",
                                       "deleted", "done"}]
       /\ closed' \in [Sessions -> BOOLEAN]
       /\ \A x \in Sessions : release'[x] = "stopping" => release[x] = "stopping"
    BY <1>24, BeginReleaseTypes DEF CloseBegins
  <2>a. TypeOK'
    BY <1>24, <2>1, NoTaskAssumption DEF TypeOK, SettledTypes, Freed, CloseBegins
  <2>b. Linked'
    BY <1>24, <2>1, NoTaskAssumption, NoSessionAssumption DEF TypeOK, Linked, TaskLinks, SessionLinks, Live, Ended, Freed, CloseBegins
  <2> QED BY <2>a, <2>b
<1>25. ASSUME NEW s \in Sessions, ReleaseReturns(s) PROVE TypeOK' /\ Linked'
  <2>a. TypeOK'
    BY <1>25, NoTaskAssumption DEF TypeOK, SettledTypes, Freed, ReleaseReturns
  <2>b. Linked'
    BY <1>25, NoTaskAssumption, NoSessionAssumption DEF TypeOK, Linked, TaskLinks, SessionLinks, Live, Ended, Freed, ReleaseReturns
  <2> QED BY <2>a, <2>b
<1>26. ASSUME CloseExpires PROVE TypeOK' /\ Linked'
  <2>a. TypeOK'
    BY <1>26, NoTaskAssumption DEF TypeOK, SettledTypes, Freed, CloseExpires
  <2>b. Linked'
    BY <1>26, NoTaskAssumption, NoSessionAssumption DEF TypeOK, Linked, TaskLinks, SessionLinks, Live, Ended, Freed, CloseExpires
  <2> QED BY <2>a, <2>b
<1>27. ASSUME CloseReturns PROVE TypeOK' /\ Linked'
  <2>a. TypeOK'
    BY <1>27, NoTaskAssumption DEF TypeOK, SettledTypes, Freed, CloseReturns, Collect
  <2>b. Linked'
    BY <1>27, NoTaskAssumption, NoSessionAssumption DEF TypeOK, Linked, TaskLinks, SessionLinks, Live, Ended, Freed, CloseReturns, Collect
  <2> QED BY <2>a, <2>b
<1>28. ASSUME CloseTimesOut PROVE TypeOK' /\ Linked'
  <2>1. SettledTypes'
    BY <1>28, CloseTimesOutTypes
  <2>2. cancelSent' \in [Tasks -> BOOLEAN]
    BY <1>28, CancelType DEF CloseTimesOut
  <2>a. TypeOK'
    BY <1>28, <2>1, <2>2, NoTaskAssumption DEF TypeOK, SettledTypes, Freed, CloseTimesOut, Collect
  <2>b. Linked'
    BY <1>28, <2>1, <2>2, NoTaskAssumption, NoSessionAssumption DEF TypeOK, Linked, TaskLinks, SessionLinks, Live, Ended, Freed, CloseTimesOut, Collect
  <2> QED BY <2>a, <2>b
<1>29. CASE UNCHANGED vars
  <2>a. TypeOK'
    BY <1>29 DEF TypeOK, vars
  <2>b. Linked'
    BY <1>29 DEF Linked, TaskLinks, SessionLinks, vars
  <2> QED BY <2>a, <2>b
<1> QED BY <1>1, <1>2, <1>3, <1>4, <1>5, <1>6, <1>7, <1>8, <1>9, <1>10, <1>11, <1>12, <1>13, <1>14, <1>15, <1>16, <1>17, <1>18, <1>19, <1>20, <1>21, <1>22, <1>23, <1>24, <1>25, <1>26, <1>27, <1>28, <1>29, <1>30 DEF Next, GraphStep

\* Every variable keeps its type.
THEOREM TypeCorrect == Spec => []TypeOK
<1>1. Init => TypeOK /\ Linked
  BY InitLinked
<1>2. (TypeOK /\ Linked) /\ [Next]_vars => (TypeOK /\ Linked)'
  BY NextLinked
<1> QED BY <1>1, <1>2, PTL DEF Spec

-----------------------------------------------------------------------------
(* Cancellation requests stay with their runs.                             *)

\* A run ends once, and a request to cancel it is never taken back.
LEMMA Monotone ==
  ASSUME TypeOK, Linked, [Next]_vars, NEW t \in Tasks
  PROVE  /\ cancelSent[t] => cancelSent'[t]
         /\ run[t] \in Ended => run'[t] = run[t]
         /\ run[t] # "none" => run'[t] # "none" /\ owner'[t] = owner[t]
         /\ run[t] = "none" => run'[t] = "none" \/ \E s \in Sessions : StartTask(s, t)
<1> USE DEF graphVars, settleVars, taskVars, releaseVars, closeVars
<1>1. ASSUME NEW x \in Tasks, GraphStep(x)
      PROVE  UNCHANGED <<owner, cancelSent>> /\ run[x] \in Live
             /\ \E how \in Live \cup Ended : run' = [run EXCEPT ![x] = how]
  BY <1>1 DEF GraphStep, RunBegins, RecordInput, CallModel, ModelReturns, RunReports, RunBreaksOff,
       RunReturnsNothing, RunFails, RunCancelled, RunEnds, Live, Ended
<1>2. ASSUME NEW x \in Tasks, NEW s \in Sessions, StartTask(s, x)
      PROVE  /\ owner[x] = NoSession /\ UNCHANGED cancelSent
             /\ owner' = [owner EXCEPT ![x] = s]
             /\ run' = [run EXCEPT ![x] = "scheduled"]
  BY <1>2 DEF StartTask
<1>3. ASSUME Next, \A x \in Tasks : ~GraphStep(x),
             \A s \in Sessions, x \in Tasks : ~StartTask(s, x)
      PROVE  UNCHANGED <<run, owner>> /\ (cancelSent[t] => cancelSent'[t])
  BY <1>3 DEF Next, DoneCallbacks, CreateSession, RequestCancellation,
       CancellationReturns, CancellationAbandoned, Release, ReleaseBegins,
       ReleaseStopWakes, DeleteAtOnce, DeleteApplies, DeleteReturns, DeleteFails,
       DeleteAgain, Aclose, CloseBegins, ReleaseReturns, CloseExpires, CloseReturns,
       CloseTimesOut, CancelGraphRuns, TypeOK
<1>4. CASE UNCHANGED vars
  BY <1>4 DEF vars
<1>5. CASE \E x \in Tasks : GraphStep(x)
  BY <1>1, <1>5 DEF TypeOK, Live, Ended
<1>6. CASE \E s \in Sessions, x \in Tasks : StartTask(s, x)
  BY <1>2, <1>6 DEF TypeOK, Linked, TaskLinks, Ended
<1> QED BY <1>3, <1>4, <1>5, <1>6

\* Whoever waits for a run to end has asked it to.
Requested ==
  /\ \A t \in Tasks : canceller[t] = "stopping" => cancelSent[t] \/ run[t] \in Ended
  /\ \A s \in Sessions :
       release[s] = "stopping" => cancelSent[stopping[s]] \/ run[stopping[s]] \in Ended

LEMMA NextRequested == TypeOK /\ Linked /\ Requested /\ [Next]_vars => Requested'
<1> SUFFICES ASSUME TypeOK, Linked, Requested, [Next]_vars
             PROVE  Requested'
  OBVIOUS
<1> USE DEF graphVars, settleVars, taskVars, releaseVars, closeVars
<1>1. ASSUME NEW t \in Tasks, RequestCancellation(t)
      PROVE  Requested'
  <2>1. /\ UNCHANGED <<run, release, stopping>>
        /\ canceller' = [canceller EXCEPT ![t] = "stopping"]
        /\ cancelSent'[t] \/ run[t] \in Ended
    BY <1>1 DEF RequestCancellation, CancelGraphRuns, TypeOK
  <2>2. \A s \in Sessions : release[s] = "stopping" => stopping[s] \in Tasks
    BY DEF TypeOK, Linked, SessionLinks
  <2> QED BY <2>1, <2>2, Monotone DEF Requested, TypeOK
<1>2. ASSUME NEW s \in Sessions, ReleaseBegins(s)
      PROVE  Requested'
  <2>1. /\ UNCHANGED <<run, canceller>>
        /\ stopping' = [stopping EXCEPT ![s] = running[s]]
        /\ \A x \in Sessions \ {s} : release'[x] = release[x]
        /\ release'[s] = "stopping" => running[s] \in Tasks
        /\ \A t \in Tasks : cancelSent'[t] = (cancelSent[t] \/ (t = running[s] /\ run[t] \notin Ended))
    BY <1>2 DEF ReleaseBegins, CancelGraphRuns, TypeOK
  <2>2. \A x \in Sessions : release[x] = "stopping" => stopping[x] \in Tasks
    BY DEF TypeOK, Linked, SessionLinks
  <2> QED BY <2>1, <2>2 DEF Requested, TypeOK
<1>3. ASSUME [Next]_vars, \A t \in Tasks : ~RequestCancellation(t),
             \A s \in Sessions : ~ReleaseBegins(s)
      PROVE  Requested'
  <2> DEFINE Same == /\ \A t \in Tasks : canceller'[t] = "stopping" => canceller[t] = "stopping"
                     /\ \A s \in Sessions : release'[s] = "stopping" =>
                          release[s] = "stopping" /\ stopping'[s] = stopping[s]
  <2>a. ASSUME NEW t \in Tasks, GraphStep(t) PROVE Same
    BY <2>a DEF GraphStep, RunBegins, RecordInput, CallModel, ModelReturns, RunReports, RunBreaksOff,
         RunReturnsNothing, RunFails, RunCancelled, RunEnds
  <2>b. ASSUME NEW t \in Tasks, \/ DoneCallbacks(t) \/ CancellationReturns(t)
                                \/ CancellationAbandoned(t)
                                \/ \E s \in Sessions : StartTask(s, t)
        PROVE  Same
    BY <2>b DEF DoneCallbacks, CancellationReturns, CancellationAbandoned, StartTask, TypeOK
  <2>c. ASSUME NEW s \in Sessions, \/ CreateSession(s) \/ Release(s) \/ ReleaseStopWakes(s)
                                   \/ DeleteAgain(s) \/ ReleaseReturns(s)
        PROVE  Same
    BY <2>c DEF CreateSession, Release, BeginRelease, ReleaseStopWakes, DeleteAgain,
         ReleaseReturns, TypeOK
  <2>d. ASSUME NEW s \in Sessions, \/ DeleteAtOnce(s) \/ DeleteApplies(s) \/ DeleteReturns(s)
                                   \/ DeleteFails(s)
        PROVE  Same
    BY <2>d DEF DeleteAtOnce, DeleteApplies, DeleteReturns, DeleteFails, Detach, TypeOK
  <2>e. ASSUME Aclose \/ CloseBegins \/ CloseExpires \/ CloseReturns \/ CloseTimesOut
        PROVE  Same
    BY <2>e DEF Aclose, CloseBegins, BeginRelease, CloseExpires, CloseReturns, CloseTimesOut, TypeOK
  <2>f. ASSUME UNCHANGED vars PROVE Same
    BY <2>f DEF vars
  <2> HIDE DEF Same
  <2>1. Same
    BY <1>3, <2>a, <2>b, <2>c, <2>d, <2>e, <2>f DEF Next
  <2>2. \A s \in Sessions : release[s] = "stopping" => stopping[s] \in Tasks
    BY DEF TypeOK, Linked, SessionLinks
  <2> QED BY <2>1, <2>2, Monotone DEF Requested, Same
<1> QED BY <1>1, <1>2, <1>3

-----------------------------------------------------------------------------
(* What one step may judge.                                                *)

\* Task t is settled with verdict v.
SettledWith(t, v) ==
  /\ ~Settled(t)
  /\ usage'[owner[t]] = Add(usage[owner[t]], v.usage)
  /\ outcome'[t] = Final(v, usage'[owner[t]])
  /\ state'[t] = v.kind
  /\ events'[t] = Append(events[t], "terminal")

LEMMA SettleEffect ==
  ASSUME TypeOK, NEW V, DOMAIN V \subseteq Tasks, Settle(V),
         \A x, y \in DOMAIN V : owner[x] \in Sessions /\ (owner[x] = owner[y] => x = y)
  PROVE  /\ \A t \in Tasks : IF t \in DOMAIN V /\ ~Settled(t)
                              THEN SettledWith(t, V[t])
                              ELSE UNCHANGED <<outcome[t], state[t], events[t]>>
         /\ \A s \in Sessions :
              (\A t \in DOMAIN V : owner[t] = s => Settled(t)) => usage'[s] = usage[s]
<1> DEFINE T == Unsettled(DOMAIN V)
           OfSession(s) == {t \in T : owner[t] = s}
           Total(s) == IF OfSession(s) = {} THEN usage[s]
                       ELSE Add(usage[s], V[CHOOSE t \in OfSession(s) : TRUE].usage)
<1>1. /\ usage' = [s \in Sessions |-> Total(s)]
      /\ outcome' = [t \in Tasks |-> IF t \in T THEN Final(V[t], Total(owner[t])) ELSE outcome[t]]
      /\ state' = [t \in Tasks |-> IF t \in T THEN V[t].kind ELSE state[t]]
      /\ events' = [t \in Tasks |-> IF t \in T THEN Append(events[t], "terminal") ELSE events[t]]
  BY DEF Settle
<1>2. \A t \in T : OfSession(owner[t]) = {t} /\ t \in DOMAIN V
  BY DEF Unsettled
<1>3. \A t \in T : Total(owner[t]) = Add(usage[owner[t]], V[t].usage)
  <2> SUFFICES ASSUME NEW t \in T PROVE Total(owner[t]) = Add(usage[owner[t]], V[t].usage)
    OBVIOUS
  <2>1. (CHOOSE x \in {t} : TRUE) = t
    OBVIOUS
  <2> QED BY <1>2, <2>1
<1>4. \A s \in Sessions :
        (\A t \in DOMAIN V : owner[t] = s => Settled(t)) => Total(s) = usage[s]
  BY DEF Unsettled
<1>5. \A t \in Tasks : t \in T <=> t \in DOMAIN V /\ ~Settled(t)
  BY DEF Unsettled
<1> HIDE DEF T, Total
<1>6. ASSUME NEW t \in T PROVE SettledWith(t, V[t])
  <2>1. owner[t] \in Sessions /\ t \in Tasks /\ ~Settled(t)
    BY <1>2, <1>5
  <2> QED BY <1>1, <1>3, <2>1 DEF SettledWith
<1>7. ASSUME NEW t \in Tasks, t \notin T PROVE UNCHANGED <<outcome[t], state[t], events[t]>>
  BY <1>1, <1>7
<1> QED BY <1>1, <1>4, <1>5, <1>6, <1>7

Kept(t) == UNCHANGED <<outcome[t], state[t], events[t]>>

GraphUnchanged == UNCHANGED <<run, modelCalled, observed, projected, owner>>

\* Task t is judged by the end of its run, which leaves no session to it ...
JudgedByEnd(t) == /\ GraphUnchanged
                  /\ run[t] \in Ended
                  /\ SettledWith(t, EndVerdict(t))
                  /\ \A s \in Sessions : running'[s] # t

\* ... or by force, after a request to cancel it; once its run has ended, only when the
\* budget of aclose() is spent.
JudgedByForce(t) == /\ GraphUnchanged
                    /\ run[t] # "none"
                    /\ cancelSent'[t] \/ run[t] \in Ended
                    /\ \E reason \in Reasons \ {"none"} :
                         /\ run[t] \in Ended => reason = "cleanup_bound_exceeded"
                         /\ SettledWith(t, ForcedVerdict(t, reason))

LEMMA GraphRunEndedJudges ==
  ASSUME TypeOK, Linked, NEW t \in Tasks, run[t] \in Ended, GraphRunEnded(t), GraphUnchanged
  PROVE  /\ Kept(t) \/ JudgedByEnd(t)
         /\ ~Settled(t) => JudgedByEnd(t)
         /\ \A x \in Tasks \ {t} : Kept(x)
         /\ \A s \in Sessions : running'[s] # t
<1> DEFINE V == [x \in {t} |-> EndVerdict(x)]
<1>1. owner[t] \in Sessions
  BY DEF TypeOK, Linked, TaskLinks, Ended
<1>2. Settle(V) /\ DOMAIN V = {t} /\ V[t] = EndVerdict(t)
  BY DEF GraphRunEnded
<1>3. \A s \in Sessions : running'[s] # t
  BY NoTaskAssumption DEF GraphRunEnded, FreeSession, TypeOK
<1> HIDE DEF V
<1>4. \A x \in Tasks : IF x = t /\ ~Settled(x) THEN SettledWith(x, EndVerdict(x)) ELSE Kept(x)
  BY <1>1, <1>2, SettleEffect DEF Kept
<1> QED BY <1>3, <1>4 DEF JudgedByEnd

LEMMA StopJudges ==
  ASSUME TypeOK, Linked, NEW t \in Tasks, run[t] # "none",
         NEW reason \in Reasons \ {"none"}, StopWakes(t, reason), GraphUnchanged,
         cancelSent'[t] \/ run[t] \in Ended
  PROVE  /\ Kept(t) \/ JudgedByEnd(t) \/ JudgedByForce(t)
         /\ ~Settled(t) => JudgedByEnd(t) \/ JudgedByForce(t)
         /\ \A x \in Tasks \ {t} : Kept(x)
<1>1. CASE run[t] \in Ended
  BY <1>1, GraphRunEndedJudges DEF StopWakes
<1>2. CASE run[t] \notin Ended
  <2> DEFINE V == [x \in {t} |-> ForcedVerdict(x, reason)]
  <2>1. owner[t] \in Sessions
    BY DEF TypeOK, Linked, TaskLinks
  <2>2. Settle(V) /\ DOMAIN V = {t} /\ V[t] = ForcedVerdict(t, reason)
    BY <1>2 DEF StopWakes
  <2> HIDE DEF V
  <2>3. \A x \in Tasks : IF x = t /\ ~Settled(x) THEN SettledWith(x, ForcedVerdict(x, reason))
                                                ELSE Kept(x)
    BY <2>1, <2>2, SettleEffect DEF Kept
  <2> QED BY <1>2, <2>3 DEF JudgedByForce
<1> QED BY <1>1, <1>2

LEMMA CloseJudges ==
  ASSUME TypeOK, Linked, CloseTimesOut
  PROVE  /\ \A t \in Tasks : Kept(t) \/ JudgedByForce(t)
         /\ \A s \in closing \ returned :
              LET t == running[s] IN t # NoTask /\ ~Settled(t) => JudgedByForce(t)
<1> DEFINE tasks == {running[s] : s \in closing \ returned} \ {NoTask}
           V == [x \in tasks |-> ForcedVerdict(x, "cleanup_bound_exceeded")]
<1>1. \A t \in tasks : /\ t \in Tasks /\ owner[t] \in Sessions /\ running[owner[t]] = t
                       /\ run[t] # "none"
  BY NoSessionAssumption DEF TypeOK, Linked, SessionLinks, TaskLinks
<1>2. /\ Settle(V) /\ DOMAIN V = tasks
      /\ \A t \in tasks : V[t] = ForcedVerdict(t, "cleanup_bound_exceeded")
      /\ CancelGraphRuns(tasks) /\ GraphUnchanged
  BY DEF CloseTimesOut, GraphUnchanged, graphVars
<1>3. \A s \in closing \ returned : running[s] # NoTask => running[s] \in tasks
  OBVIOUS
<1> HIDE DEF V, tasks
<1>4. \A x \in Tasks : IF x \in tasks /\ ~Settled(x)
                        THEN SettledWith(x, ForcedVerdict(x, "cleanup_bound_exceeded"))
                        ELSE Kept(x)
  BY <1>1, <1>2, SettleEffect DEF Kept
<1>5. \A x \in tasks : cancelSent'[x] \/ run[x] \in Ended
  BY <1>1, <1>2 DEF CancelGraphRuns, TypeOK
<1>6. \A x \in Tasks : x \in tasks /\ ~Settled(x) => JudgedByForce(x)
  BY <1>1, <1>2, <1>4, <1>5 DEF JudgedByForce, Reasons
<1> QED BY <1>1, <1>3, <1>4, <1>6

\* The steps that judge, or report on, a task.
LEMMA Judgments ==
  ASSUME TypeOK, Linked, Requested, [Next]_vars, NEW t \in Tasks
  PROVE  \/ Kept(t) \/ JudgedByEnd(t) \/ JudgedByForce(t)
         \/ RunBegins(t) \/ RunReports(t) \/ RunBreaksOff(t)
<1> USE DEF graphVars, settleVars, taskVars, releaseVars, closeVars
<1> DEFINE Goal == \/ Kept(t) \/ JudgedByEnd(t) \/ JudgedByForce(t)
                   \/ RunBegins(t) \/ RunReports(t) \/ RunBreaksOff(t)
<1>1. ASSUME NEW x \in Tasks, GraphStep(x) PROVE Goal
  <2>1. CASE RunBegins(x) \/ RunReports(x) \/ RunBreaksOff(x)
    <3>1. x # t => Kept(t)
      BY <2>1 DEF RunBegins, RunReports, RunBreaksOff, Kept, TypeOK
    <3> QED BY <2>1, <3>1
  <2>2. CASE ~(RunBegins(x) \/ RunReports(x) \/ RunBreaksOff(x))
    BY <1>1, <2>2 DEF GraphStep, RecordInput, CallModel, ModelReturns, RunReturnsNothing,
         RunFails, RunCancelled, RunEnds, Kept
  <2> QED BY <2>1, <2>2
<1>2. ASSUME NEW x \in Tasks, DoneCallbacks(x) PROVE Goal
  <2>1. run[x] \in Ended /\ GraphRunEnded(x) /\ GraphUnchanged
    BY <1>2 DEF DoneCallbacks, Linked, TaskLinks, GraphUnchanged
  <2> QED BY <2>1, GraphRunEndedJudges
<1>3. ASSUME NEW x \in Tasks, CancellationReturns(x) PROVE Goal
  <2>1. /\ run[x] # "none" /\ GraphUnchanged
        /\ StopWakes(x, "cancellation_unconfirmed")
        /\ cancelSent'[x] \/ run[x] \in Ended
    BY <1>3 DEF CancellationReturns, Linked, TaskLinks, Requested, GraphUnchanged
  <2> QED BY <2>1, StopJudges DEF Reasons
<1>4. ASSUME NEW s \in Sessions, ReleaseStopWakes(s) PROVE Goal
  <2> DEFINE x == stopping[s]
  <2>1. x \in Tasks /\ owner[x] = s
    BY <1>4 DEF ReleaseStopWakes, Linked, SessionLinks, TypeOK
  <2>2. /\ run[x] # "none" /\ GraphUnchanged
        /\ StopWakes(x, "cleanup_bound_exceeded")
        /\ cancelSent'[x] \/ run[x] \in Ended
    BY <1>4, <2>1, NoSessionAssumption DEF ReleaseStopWakes, Linked, TaskLinks, Requested, GraphUnchanged
  <2> HIDE DEF x
  <2> QED BY <2>1, <2>2, StopJudges DEF Reasons
<1>5. ASSUME CloseTimesOut PROVE Goal
  BY <1>5, CloseJudges
<1>6. ASSUME NEW x \in Tasks,
             \/ RequestCancellation(x) \/ CancellationAbandoned(x)
             \/ \E s \in Sessions : StartTask(s, x)
      PROVE  Goal
  BY <1>6 DEF RequestCancellation, CancellationAbandoned, StartTask, Kept
<1>7. ASSUME NEW s \in Sessions,
             \/ CreateSession(s) \/ Release(s) \/ ReleaseBegins(s) \/ DeleteAtOnce(s)
             \/ DeleteApplies(s) \/ DeleteReturns(s) \/ DeleteFails(s) \/ DeleteAgain(s)
             \/ ReleaseReturns(s)
      PROVE  Goal
  BY <1>7 DEF CreateSession, Release, ReleaseBegins, DeleteAtOnce, DeleteApplies,
       DeleteReturns, DeleteFails, DeleteAgain, ReleaseReturns, Kept
<1>8. ASSUME Aclose \/ CloseBegins \/ CloseExpires \/ CloseReturns PROVE Goal
  BY <1>8 DEF Aclose, CloseBegins, CloseExpires, CloseReturns, Kept
<1>9. ASSUME UNCHANGED vars PROVE Goal
  BY <1>9 DEF vars, Kept
<1> HIDE DEF Goal
<1>10. Goal
  BY <1>1, <1>2, <1>3, <1>4, <1>5, <1>6, <1>7, <1>8, <1>9 DEF Next
<1> QED BY <1>10 DEF Goal

\* A session is kept for the task it runs until the end of the run is judged.
LEMMA Blocking ==
  ASSUME TypeOK, Linked, [Next]_vars, NEW t \in Tasks, ~Settled(t)
  PROVE  (\A s \in Sessions : running[s] = t => running'[s] = t) \/ JudgedByEnd(t)
<1> USE DEF graphVars, settleVars, taskVars, releaseVars, closeVars
<1> DEFINE Goal == (\A s \in Sessions : running[s] = t => running'[s] = t) \/ JudgedByEnd(t)
<1>1. ASSUME NEW x \in Tasks, run[x] \in Ended, GraphRunEnded(x), GraphUnchanged
      PROVE  Goal
  <2>1. CASE x = t
    BY <1>1, <2>1, GraphRunEndedJudges
  <2>2. CASE x # t
    BY <1>1, <2>2 DEF GraphRunEnded, FreeSession
  <2> QED BY <2>1, <2>2
<1>2. ASSUME NEW x \in Tasks, DoneCallbacks(x) PROVE Goal
  BY <1>1, <1>2 DEF DoneCallbacks, Linked, TaskLinks, GraphUnchanged
<1>3. ASSUME NEW x \in Tasks, CancellationReturns(x) PROVE Goal
  <2>1. CASE run[x] \in Ended
    BY <1>1, <1>3, <2>1 DEF CancellationReturns, StopWakes, GraphUnchanged
  <2>2. CASE run[x] \notin Ended
    BY <1>3, <2>2 DEF CancellationReturns, StopWakes
  <2> QED BY <2>1, <2>2
<1>4. ASSUME NEW s \in Sessions, ReleaseStopWakes(s) PROVE Goal
  <2>1. stopping[s] \in Tasks
    BY <1>4 DEF ReleaseStopWakes, Linked, SessionLinks, TypeOK
  <2>2. CASE run[stopping[s]] \in Ended
    BY <1>1, <1>4, <2>1, <2>2 DEF ReleaseStopWakes, StopWakes, GraphUnchanged
  <2>3. CASE run[stopping[s]] \notin Ended
    BY <1>4, <2>3 DEF ReleaseStopWakes, StopWakes
  <2> QED BY <2>2, <2>3
<1>5. ASSUME NEW x \in Tasks, NEW s \in Sessions, StartTask(s, x) PROVE Goal
  BY <1>5, NoTaskAssumption DEF StartTask, Admits, TypeOK
<1>6. ASSUME NEW x \in Tasks, \/ GraphStep(x) \/ RequestCancellation(x)
                              \/ CancellationAbandoned(x)
      PROVE  Goal
  BY <1>6 DEF GraphStep, RunBegins, RecordInput, CallModel, ModelReturns, RunReports, RunBreaksOff,
       RunReturnsNothing, RunFails, RunCancelled, RunEnds, RequestCancellation,
       CancellationAbandoned
<1>7. ASSUME NEW s \in Sessions,
             \/ CreateSession(s) \/ Release(s) \/ ReleaseBegins(s) \/ DeleteAtOnce(s)
             \/ DeleteApplies(s) \/ DeleteReturns(s) \/ DeleteFails(s) \/ DeleteAgain(s)
             \/ ReleaseReturns(s)
      PROVE  Goal
  BY <1>7 DEF CreateSession, Release, ReleaseBegins, DeleteAtOnce, DeleteApplies,
       DeleteReturns, DeleteFails, DeleteAgain, ReleaseReturns
<1>8. ASSUME Aclose \/ CloseBegins \/ CloseExpires \/ CloseReturns \/ CloseTimesOut
      PROVE  Goal
  BY <1>8 DEF Aclose, CloseBegins, CloseExpires, CloseReturns, CloseTimesOut
<1>9. ASSUME UNCHANGED vars PROVE Goal
  BY <1>9 DEF vars
<1> HIDE DEF Goal
<1>10. Goal
  BY <1>2, <1>3, <1>4, <1>5, <1>6, <1>7, <1>8, <1>9 DEF Next
<1> QED BY <1>10 DEF Goal

LEMMA SettledWithType ==
  ASSUME TypeOK, TypeOK', NEW t \in Tasks, owner[t] \in Sessions,
         NEW v \in Judgment, SettledWith(t, v)
  PROVE  /\ Settled(t)'
         /\ outcome'[t].kind = v.kind
         /\ outcome'[t].reason = v.reason
         /\ outcome'[t].output = v.output
         /\ outcome'[t].usage = v.usage
<1>1. outcome'[t] = Final(v, usage'[owner[t]]) /\ usage'[owner[t]] \in AgentUsage
  BY DEF SettledWith, TypeOK
<1>2. outcome'[t] \in Outcome
  BY <1>1 DEF Final, Judgment, Outcome, Reasons
<1> QED BY <1>1, <1>2, NoOutcomeAssumption DEF Settled, Final

\* A judgment is about a started task and has one of two verdicts.
LEMMA JudgmentType ==
  ASSUME TypeOK, TypeOK', Linked, NEW t \in Tasks, JudgedByEnd(t) \/ JudgedByForce(t)
  PROVE  /\ Settled(t)' /\ ~Settled(t) /\ owner[t] \in Sessions /\ run[t] # "none"
         /\ outcome'[t].usage = UsageSoFar(t)
         /\ outcome'[t].kind = state'[t]
         /\ JudgedByForce(t) => outcome'[t].kind = "unresolved"
         /\ JudgedByEnd(t) => outcome'[t].kind = EndVerdict(t).kind
<1>1. owner[t] \in Sessions /\ run[t] # "none"
  BY DEF TypeOK, Linked, TaskLinks, JudgedByEnd, JudgedByForce, Ended
<1>2. CASE JudgedByEnd(t)
  <2>1. EndVerdict(t) \in Judgment /\ SettledWith(t, EndVerdict(t)) /\ run[t] \in Ended
    BY <1>2, EndVerdictType DEF JudgedByEnd
  <2>2. EndVerdict(t).usage = UsageSoFar(t)
    BY <2>1 DEF EndVerdict, CancellationVerdict, Verdict, Ended
  <2>3. ~JudgedByForce(t) \/ outcome'[t].kind = "unresolved"
    <3> SUFFICES ASSUME NEW reason \in Reasons, SettledWith(t, ForcedVerdict(t, reason))
                 PROVE  outcome'[t].kind = "unresolved"
      BY DEF JudgedByForce
    <3> QED BY <1>1, ForcedVerdictType, SettledWithType DEF ForcedVerdict, Verdict
  <2> QED BY <1>1, <2>1, <2>2, <2>3, SettledWithType DEF SettledWith
<1>3. CASE JudgedByForce(t)
  <2>1. PICK reason \in Reasons : SettledWith(t, ForcedVerdict(t, reason))
    BY <1>3 DEF JudgedByForce
  <2>2. /\ ForcedVerdict(t, reason) \in Judgment
        /\ ForcedVerdict(t, reason).usage = UsageSoFar(t)
        /\ ForcedVerdict(t, reason).kind = "unresolved"
    BY ForcedVerdictType DEF ForcedVerdict, Verdict
  <2>3. ~JudgedByEnd(t) \/ outcome'[t].kind = EndVerdict(t).kind
    BY <1>1, EndVerdictType, SettledWithType DEF JudgedByEnd
  <2> QED BY <1>1, <2>1, <2>2, <2>3, SettledWithType DEF SettledWith
<1> QED BY <1>2, <1>3

-----------------------------------------------------------------------------
(* Outcomes and runs.                                                      *)

\* A settled task has ended or been cancelled; an unsettled one has its session.
Judged == \A t \in Tasks :
  /\ Settled(t) => run[t] # "none" /\ (run[t] \in Ended \/ cancelSent[t])
  /\ run[t] # "none" /\ ~Settled(t) => running[owner[t]] = t

LEMMA InitJudged == Init => Requested /\ Judged
BY DEF Init, Requested, Judged, Settled

LEMMA NextJudged ==
  ASSUME TypeOK, TypeOK', Linked, Linked', Requested, Judged, [Next]_vars
  PROVE  Judged'
<1> SUFFICES ASSUME NEW t \in Tasks
             PROVE  /\ Settled(t)' => run'[t] # "none" /\ (run'[t] \in Ended \/ cancelSent'[t])
                    /\ run'[t] # "none" /\ ~Settled(t)' => running'[owner'[t]] = t
  BY Zenon DEF Judged
<1>1. CASE JudgedByEnd(t) \/ JudgedByForce(t)
  BY <1>1, JudgmentType DEF JudgedByEnd, JudgedByForce, GraphUnchanged
<1>2. CASE ~(JudgedByEnd(t) \/ JudgedByForce(t))
  <2>1. outcome'[t] = outcome[t]
    BY <1>2, Judgments DEF Kept, RunBegins, RunReports, RunBreaksOff
  <2>2. CASE Settled(t)
    BY <2>1, <2>2, Monotone DEF Judged, Settled
  <2>3. CASE ~Settled(t) /\ run[t] # "none"
    <3>1. running[owner[t]] = t /\ owner[t] \in Sessions /\ owner'[t] = owner[t]
      BY <2>3, Monotone DEF Judged, Linked, TaskLinks, TypeOK
    <3> QED BY <1>2, <2>1, <2>3, <3>1, Blocking DEF Settled
  <2>4. CASE ~Settled(t) /\ run[t] = "none"
    <3>1. CASE \E s \in Sessions : StartTask(s, t)
      BY <2>1, <2>4, <3>1 DEF StartTask, TypeOK, Settled
    <3>2. CASE ~\E s \in Sessions : StartTask(s, t)
      BY <2>1, <2>4, <3>2, Monotone DEF Settled
    <3> QED BY <3>1, <3>2
  <2> QED BY <2>2, <2>3, <2>4
<1> QED BY <1>1, <1>2

Core == TypeOK /\ Linked /\ Requested /\ Judged

LEMMA CoreStep == Core /\ [Next]_vars => Core'
BY NextLinked, NextRequested, NextJudged DEF Core

LEMMA CoreInvariant == Spec => []Core
<1>1. Init => Core
  BY InitLinked, InitJudged DEF Core
<1> QED BY <1>1, CoreStep, PTL DEF Spec

\* A session has at most one live graph run, the one that blocks it.
THEOREM OneGraphRun == Spec => []SingleGraphRun
<1>1. Core => SingleGraphRun
  BY DEF Core, Linked, TaskLinks, SingleGraphRun
<1> QED BY <1>1, CoreInvariant, PTL

LEMMA SettledStays ==
  ASSUME Core, [Next]_vars, NEW t \in Tasks, Settled(t)
  PROVE  Kept(t)
<1>1. ~JudgedByEnd(t) /\ ~JudgedByForce(t)
  BY DEF JudgedByEnd, JudgedByForce, SettledWith
<1>2. ~RunBegins(t)
  BY DEF RunBegins, Core, Judged, Ended
<1>3. RunReports(t) => Kept(t)
  BY DEF RunReports, Kept, Core, TypeOK
<1>4. RunBreaksOff(t) => Kept(t)
  BY DEF RunBreaksOff, Publish, Kept, Core, TypeOK
<1> QED BY <1>1, <1>2, <1>3, <1>4, Judgments DEF Core

\* The outcome, the terminal state and the closed stream never change again.
THEOREM OutcomeStays == Spec => OutcomeIsFinal
<1>1. Core /\ [Next]_vars =>
        [\A t \in Tasks : Settled(t) => UNCHANGED <<outcome[t], state[t], events[t]>>]_vars
  BY SettledStays DEF Kept
<1> QED BY <1>1, CoreInvariant, PTL DEF Spec, OutcomeIsFinal

\* The state and the events of a task, as its outcome tells them.
Story(t) ==
  /\ Settled(t) => state[t] = outcome[t].kind
  /\ \A i \in 1 .. Len(events[t]) :
       events[t][i] = "terminal" <=> Settled(t) /\ i = Len(events[t])

\* The state, the outcome and the event stream tell the same story.
THEOREM StoryHolds == Spec => []StoryAgrees
<1>1. Init => StoryAgrees
  BY DEF Init, StoryAgrees, Settled
<1>2. Core /\ StoryAgrees /\ [Next]_vars => StoryAgrees'
  <2> SUFFICES ASSUME Core, StoryAgrees, [Next]_vars, Core', NEW t \in Tasks
               PROVE  Story(t)'
    BY CoreStep DEF StoryAgrees, Story
  <2> DEFINE E == {"started", "message", "usage", "terminal"}
  <2>1. Story(t) /\ events[t] \in Seq(E) /\ events'[t] \in Seq(E)
    BY DEF Core, TypeOK, StoryAgrees, Story
  <2>2. CASE Kept(t)
    BY <2>1, <2>2 DEF Kept, Story, Settled
  <2>3. CASE JudgedByEnd(t) \/ JudgedByForce(t)
    <3>1. Settled(t)' /\ ~Settled(t) /\ outcome'[t].kind = state'[t]
      BY <2>3, JudgmentType DEF Core
    <3>2. events'[t] = Append(events[t], "terminal")
      BY <2>3 DEF JudgedByEnd, JudgedByForce, SettledWith
    <3> QED BY <2>1, <3>1, <3>2, AppendProperties DEF Story
  <2>4. CASE (RunBegins(t) \/ RunBreaksOff(t)) /\ ~Settled(t)
    <3>1. ~Settled(t)'
      BY <2>4 DEF RunBegins, RunBreaksOff, Settled
    <3>2. PICK e \in {"started", "message"} : events'[t] = Append(events[t], e)
      BY <2>4 DEF RunBegins, RunBreaksOff, Publish, Core, TypeOK
    <3>3. e \in E /\ \A i \in 1 .. Len(events[t]) : events[t][i] # "terminal"
      BY <2>1, <2>4 DEF Story
    <3>4. \A i \in 1 .. Len(events'[t]) : events'[t][i] # "terminal"
      BY <2>1, <3>2, <3>3, AppendProperties
    <3> QED BY <3>1, <3>4 DEF Story
  <2>5. CASE RunReports(t) /\ ~Settled(t)
    <3>1. ~Settled(t)'
      BY <2>5 DEF RunReports, Settled
    <3>2. events'[t] = events[t] \o <<"message", "usage">>
      BY <2>5 DEF RunReports, Core, TypeOK
    <3>3. \A i \in 1 .. Len(events[t]) : events[t][i] # "terminal"
      BY <2>1, <2>5 DEF Story
    <3> DEFINE new == <<"message", "usage">>
    <3>4. /\ new \in Seq(E) /\ Len(new) = 2
          /\ \A i \in 1 .. 2 : new[i] # "terminal"
      OBVIOUS
    <3> HIDE DEF new, E
    <3>5. \A i \in 1 .. Len(events'[t]) : events'[t][i] # "terminal"
      BY <2>1, <3>2, <3>3, <3>4, ConcatProperties DEF new
    <3> QED BY <3>1, <3>5 DEF Story
  <2> QED BY <2>2, <2>3, <2>4, <2>5, SettledStays, Judgments DEF Core
<1> QED BY <1>1, <1>2, CoreInvariant, PTL DEF Spec

LEMMA RunningChanges ==
  ASSUME TypeOK, Linked, [Next]_vars, NEW s \in Sessions
  PROVE  \/ running'[s] = running[s]
         \/ running'[s] = NoTask
         \/ \E t \in Tasks : StartTask(s, t) /\ running'[s] = t
<1> USE DEF graphVars, settleVars, taskVars, releaseVars, closeVars
<1> DEFINE Goal == \/ running'[s] = running[s]
                   \/ running'[s] = NoTask
                   \/ \E t \in Tasks : StartTask(s, t) /\ running'[s] = t
<1>1. ASSUME NEW x \in Tasks, DoneCallbacks(x) PROVE Goal
  BY <1>1, GraphRunEndedFrees DEF DoneCallbacks, Linked, TaskLinks, Freed
<1>2. ASSUME NEW x \in Tasks, CancellationReturns(x) PROVE Goal
  BY <1>2, StopFrees DEF CancellationReturns, Reasons, Linked, TaskLinks, Freed
<1>3. ASSUME NEW z \in Sessions, ReleaseStopWakes(z) PROVE Goal
  <2>1. stopping[z] \in Tasks /\ owner[stopping[z]] = z
    BY <1>3 DEF ReleaseStopWakes, Linked, SessionLinks, TypeOK
  <2>2. Freed(stopping[z])
    BY <1>3, <2>1, StopFrees, NoSessionAssumption DEF ReleaseStopWakes, Reasons, Linked, TaskLinks
  <2> QED BY <2>2 DEF Freed
<1>4. ASSUME NEW x \in Tasks, NEW z \in Sessions, StartTask(z, x) PROVE Goal
  <2>1. running' = [running EXCEPT ![z] = x]
    BY <1>4 DEF StartTask
  <2> QED BY <1>4, <2>1 DEF TypeOK
<1>5. ASSUME NEW x \in Tasks, \/ GraphStep(x) \/ RequestCancellation(x)
                              \/ CancellationAbandoned(x)
      PROVE  Goal
  BY <1>5 DEF GraphStep, RunBegins, RecordInput, CallModel, ModelReturns, RunReports, RunBreaksOff,
       RunReturnsNothing, RunFails, RunCancelled, RunEnds, RequestCancellation,
       CancellationAbandoned
<1>6. ASSUME NEW z \in Sessions,
             \/ CreateSession(z) \/ Release(z) \/ ReleaseBegins(z) \/ DeleteAtOnce(z)
             \/ DeleteApplies(z) \/ DeleteReturns(z) \/ DeleteFails(z) \/ DeleteAgain(z)
             \/ ReleaseReturns(z)
      PROVE  Goal
  BY <1>6 DEF CreateSession, Release, ReleaseBegins, DeleteAtOnce, DeleteApplies,
       DeleteReturns, DeleteFails, DeleteAgain, ReleaseReturns
<1>7. ASSUME \/ Aclose \/ CloseBegins \/ CloseExpires \/ CloseReturns \/ CloseTimesOut
             \/ UNCHANGED vars
      PROVE  Goal
  BY <1>7 DEF Aclose, CloseBegins, CloseExpires, CloseReturns, CloseTimesOut, vars
<1> HIDE DEF Goal
<1>8. Goal
  BY <1>1, <1>2, <1>3, <1>4, <1>5, <1>6, <1>7 DEF Next
<1> QED BY <1>8 DEF Goal

\* After a confirmed outcome the session is free.
THEOREM ConfirmedFrees == Spec => []ConfirmedOutcomeFreesSession
<1>1. Init => ConfirmedOutcomeFreesSession
  BY DEF Init, ConfirmedOutcomeFreesSession
<1>2. Core /\ Core' /\ ConfirmedOutcomeFreesSession /\ [Next]_vars
        => ConfirmedOutcomeFreesSession'
  <2> SUFFICES ASSUME Core, Core', ConfirmedOutcomeFreesSession, [Next]_vars
               PROVE  ConfirmedOutcomeFreesSession'
    OBVIOUS
  <2>0. \A s \in Sessions : running'[s] # NoTask => running'[s] \in Tasks
    BY DEF Core, TypeOK
  <2> SUFFICES ASSUME NEW s \in Sessions, NEW t \in Tasks, running'[s] = t, Settled(t)'
               PROVE  outcome'[t].kind = "unresolved"
    BY <2>0 DEF ConfirmedOutcomeFreesSession, Settled
  <2>1. ~JudgedByEnd(t)
    BY DEF JudgedByEnd
  <2>2. CASE JudgedByForce(t)
    BY <2>2, JudgmentType DEF Core
  <2>3. CASE ~JudgedByForce(t)
    <3>1. outcome'[t] = outcome[t] /\ Settled(t)
      BY <2>1, <2>3, Judgments DEF Core, Kept, RunBegins, RunReports,
           RunBreaksOff, Settled
    <3>2. running[s] = t
      <4>1. \A x \in Tasks : StartTask(s, x) => owner[x] = NoSession
        BY DEF StartTask
      <4>2. owner[t] # NoSession
        BY <3>1 DEF Core, Judged, Linked, TaskLinks
      <4> QED BY <4>1, <4>2, NoTaskAssumption, RunningChanges DEF Core
    <3> QED BY <3>1, <3>2, NoTaskAssumption DEF ConfirmedOutcomeFreesSession
  <2> QED BY <2>2, <2>3
<1> QED BY <1>1, <1>2, CoreInvariant, PTL DEF Spec

-----------------------------------------------------------------------------
(* What the adapter knows of the model call.                               *)

LEMMA GraphChanges ==
  ASSUME TypeOK, Linked, [Next]_vars, NEW t \in Tasks
  PROVE  /\ modelCalled'[t] = modelCalled[t] \/ (CallModel(t) /\ modelCalled'[t])
         /\ observed'[t] = observed[t] \/ RunReports(t)
<1> USE DEF graphVars, settleVars, taskVars, releaseVars, closeVars
<1>1. ASSUME NEW x \in Tasks, CallModel(x)
      PROVE  /\ observed'[t] = observed[t]
             /\ modelCalled'[t] = modelCalled[t] \/ (CallModel(t) /\ modelCalled'[t])
  <2>1. running[owner[x]] = x
    BY <1>1 DEF CallModel, Linked, TaskLinks, Live
  <2>2. modelCalled' = [y \in Tasks |-> modelCalled[y] \/ y = x] /\ observed' = observed
    BY <1>1, <2>1 DEF CallModel
  <2> QED BY <1>1, <2>2 DEF TypeOK
<1>2. ASSUME NEW x \in Tasks, RunReports(x)
      PROVE  modelCalled' = modelCalled /\ (observed'[t] = observed[t] \/ RunReports(t))
  <2>1. x # t => observed'[t] = observed[t]
    BY <1>2 DEF RunReports, TypeOK
  <2> QED BY <1>2, <2>1 DEF RunReports
<1>3. ASSUME NEW x \in Tasks,
             \/ RunBegins(x) \/ RecordInput(x) \/ ModelReturns(x) \/ RunBreaksOff(x)
             \/ RunReturnsNothing(x) \/ RunFails(x) \/ RunCancelled(x) \/ DoneCallbacks(x)
             \/ RequestCancellation(x) \/ CancellationReturns(x) \/ CancellationAbandoned(x)
             \/ \E s \in Sessions : StartTask(s, x)
      PROVE  UNCHANGED <<modelCalled, observed>>
  BY <1>3 DEF RunBegins, RecordInput, ModelReturns, RunBreaksOff, RunReturnsNothing,
       RunFails, RunCancelled, RunEnds, DoneCallbacks, RequestCancellation, CancellationReturns,
       CancellationAbandoned, StartTask
<1>4. ASSUME NEW s \in Sessions,
             \/ CreateSession(s) \/ Release(s) \/ ReleaseBegins(s) \/ ReleaseStopWakes(s)
             \/ DeleteAtOnce(s) \/ DeleteApplies(s) \/ DeleteReturns(s) \/ DeleteFails(s)
             \/ DeleteAgain(s) \/ ReleaseReturns(s)
      PROVE  UNCHANGED <<modelCalled, observed>>
  BY <1>4 DEF CreateSession, Release, ReleaseBegins, ReleaseStopWakes, DeleteAtOnce,
       DeleteApplies, DeleteReturns, DeleteFails, DeleteAgain, ReleaseReturns
<1>5. ASSUME \/ Aclose \/ CloseBegins \/ CloseExpires \/ CloseReturns \/ CloseTimesOut
             \/ UNCHANGED vars
      PROVE  UNCHANGED <<modelCalled, observed>>
  BY <1>5 DEF Aclose, CloseBegins, CloseExpires, CloseReturns, CloseTimesOut, vars
<1> QED BY <1>1, <1>2, <1>3, <1>4, <1>5 DEF Next, GraphStep

\* A run past its model node has called the model, and only one that ended after
\* that has shown its usage.
Measured == \A t \in Tasks :
  /\ run[t] \in {"model", "replied", "returned", "empty"} => modelCalled[t]
  /\ observed[t] # NoUsage => modelCalled[t] /\ run[t] \in {"returned", "failed"}

\* How a run gets past its model node.
LEMMA RunProgress ==
  ASSUME TypeOK, Linked, [Next]_vars, NEW t \in Tasks
  PROVE  \/ run'[t] = run[t]
         \/ CallModel(t)
         \/ run[t] = "model" /\ run'[t] = "replied"
         \/ run[t] = "replied" /\ run'[t] \in {"returned", "empty"}
         \/ run[t] # "returned" /\ run'[t] \notin {"model", "replied", "returned", "empty"}
<1> USE DEF graphVars, settleVars, taskVars, releaseVars, closeVars
<1>1. ASSUME NEW x \in Tasks, GraphStep(x)
      PROVE  \/ run'[t] = run[t]
             \/ CallModel(t)
             \/ run[t] = "model" /\ run'[t] = "replied"
             \/ run[t] = "replied" /\ run'[t] \in {"returned", "empty"}
             \/ run[t] # "returned" /\ run'[t] \notin {"model", "replied", "returned", "empty"}
  <2>1. CASE x # t
    BY <1>1, <2>1 DEF GraphStep, RunBegins, RecordInput, CallModel, ModelReturns, RunReports, RunBreaksOff,
         RunReturnsNothing, RunFails, RunCancelled, RunEnds, TypeOK
  <2>2. CASE x = t
    BY <1>1, <2>2 DEF GraphStep, RunBegins, RecordInput, CallModel, ModelReturns, RunReports, RunBreaksOff,
         RunReturnsNothing, RunFails, RunCancelled, RunEnds, TypeOK, Live
  <2> QED BY <2>1, <2>2
<1>2. ASSUME NEW x \in Tasks, NEW s \in Sessions, StartTask(s, x)
      PROVE  \/ run'[t] = run[t]
             \/ run[t] # "returned" /\ run'[t] = "scheduled"
  BY <1>2 DEF StartTask, Linked, TaskLinks, TypeOK
<1>3. ASSUME [Next]_vars, \A x \in Tasks : ~GraphStep(x),
             \A s \in Sessions, x \in Tasks : ~StartTask(s, x)
      PROVE  UNCHANGED run
  BY <1>3 DEF vars, Next, DoneCallbacks, CreateSession, RequestCancellation,
       CancellationReturns, CancellationAbandoned, Release, ReleaseBegins,
       ReleaseStopWakes, DeleteAtOnce, DeleteApplies, DeleteReturns, DeleteFails,
       DeleteAgain, Aclose, CloseBegins, ReleaseReturns, CloseExpires, CloseReturns,
       CloseTimesOut
<1> QED BY <1>1, <1>2, <1>3

LEMMA MeasuredStep == Core /\ Measured /\ [Next]_vars => Measured'
<1> SUFFICES ASSUME Core, Measured, [Next]_vars, NEW t \in Tasks
             PROVE  /\ run'[t] \in {"model", "replied", "returned", "empty"} => modelCalled'[t]
                    /\ observed'[t] # NoUsage =>
                         modelCalled'[t] /\ run'[t] \in {"returned", "failed"}
  BY DEF Measured
<1>1. CallModel(t) => modelCalled'[t]
  <2> SUFFICES ASSUME CallModel(t) PROVE modelCalled'[t]
    OBVIOUS
  <2>1. running[owner[t]] = t
    BY DEF CallModel, Core, Linked, TaskLinks, Live
  <2>2. modelCalled' = [x \in Tasks |-> modelCalled[x] \/ x = running[owner[t]]]
    BY DEF CallModel
  <2> QED BY <2>1, <2>2
<1>2. modelCalled[t] => modelCalled'[t]
  BY GraphChanges DEF Core
<1>3. run'[t] \in {"model", "replied", "returned", "empty"} => modelCalled'[t]
  BY <1>1, <1>2, RunProgress DEF Core, Measured
<1>4. RunReports(t) => modelCalled[t] /\ run'[t] \in {"returned", "failed"}
  BY DEF RunReports, Core, TypeOK, Measured
<1>5. observed[t] # NoUsage => modelCalled[t] /\ run'[t] \in {"returned", "failed"}
  BY Monotone DEF Core, Measured, Ended
<1> QED BY <1>2, <1>3, <1>4, <1>5, GraphChanges DEF Core

LEMMA MeasuredInvariant == Spec => []Measured
<1>1. Init => Measured
  BY DEF Init, Measured
<1> QED BY <1>1, MeasuredStep, CoreInvariant, PTL DEF Spec

\* The accounting never guesses.
THEOREM NeverGuesses == Spec => []UnknownIsNotZero
<1>1. Init => UnknownIsNotZero
  BY DEF Init, UnknownIsNotZero, Settled
<1>2. Core /\ Core' /\ Measured /\ UnknownIsNotZero /\ [Next]_vars => UnknownIsNotZero'
  <2> SUFFICES ASSUME Core, Core', Measured, UnknownIsNotZero, [Next]_vars,
                      NEW t \in Tasks, Settled(t)'
               PROVE  outcome'[t].usage \in
                        IF modelCalled'[t] THEN {UNKNOWN, observed'[t]} ELSE {ZERO}
    BY DEF UnknownIsNotZero, Settled
  <2>1. CASE JudgedByEnd(t) \/ JudgedByForce(t)
    <3>1. outcome'[t].usage = UsageSoFar(t) /\ UNCHANGED <<modelCalled, observed>>
      BY <2>1, JudgmentType DEF Core, JudgedByEnd, JudgedByForce, GraphUnchanged
    <3>2. observed[t] # NoUsage => modelCalled[t]
      BY DEF Measured
    <3> QED BY <3>1, <3>2 DEF UsageSoFar
  <2>2. CASE ~(JudgedByEnd(t) \/ JudgedByForce(t))
    <3>1. outcome'[t] = outcome[t] /\ Settled(t)
      BY <2>2, Judgments DEF Core, Kept, RunBegins, RunReports,
           RunBreaksOff, Settled
    <3>2. ~CallModel(t)
      BY <3>1 DEF CallModel, Core, Judged, Ended
    <3>3. modelCalled'[t] = modelCalled[t]
      BY <3>2, GraphChanges DEF Core
    <3>4. CASE RunReports(t)
      <4>1. modelCalled[t] /\ observed[t] = NoUsage
        BY <3>4 DEF RunReports, Measured
      <4>2. outcome[t] \in Outcome
        BY <3>1 DEF Core, TypeOK, Settled
      <4>3. outcome[t].usage # NoUsage
        BY <4>2, NoUsageAssumption DEF Outcome
      <4> QED BY <3>1, <3>3, <4>1, <4>3 DEF UnknownIsNotZero
    <3>5. CASE ~RunReports(t)
      BY <3>1, <3>3, <3>5, GraphChanges DEF Core, UnknownIsNotZero
    <3> QED BY <3>4, <3>5
  <2> QED BY <2>1, <2>2
<1> QED BY <1>1, <1>2, CoreInvariant, MeasuredInvariant, PTL DEF Spec

\* Cancelled is only said of a run that ended without a doubt.
THEOREM HonestlyCancelled == Spec => []HonestCancellation
<1>1. Init => HonestCancellation
  BY DEF Init, HonestCancellation, Settled
<1>2. Core /\ Core' /\ HonestCancellation /\ [Next]_vars => HonestCancellation'
  <2> SUFFICES ASSUME Core, Core', HonestCancellation, [Next]_vars,
                      NEW t \in Tasks, Settled(t)', outcome'[t].kind = "cancelled"
               PROVE  run'[t] = "cancelled" /\ (ConfirmsWorkStopped \/ ~modelCalled'[t])
    BY DEF HonestCancellation, Settled
  <2>1. ~JudgedByForce(t)
    BY JudgmentType DEF Core
  <2>2. CASE JudgedByEnd(t)
    <3>1. EndVerdict(t).kind = "cancelled" /\ UNCHANGED <<run, modelCalled>> /\ run[t] \in Ended
      BY <2>2, JudgmentType DEF Core, JudgedByEnd, GraphUnchanged
    <3>2. run[t] = "cancelled" /\ CancellationVerdict(t).kind = "cancelled"
      BY <3>1 DEF EndVerdict, Verdict, Ended
    <3> QED BY <3>1, <3>2 DEF CancellationVerdict, Verdict
  <2>3. CASE ~JudgedByEnd(t)
    <3>1. outcome'[t] = outcome[t] /\ Settled(t)
      BY <2>1, <2>3, Judgments DEF Core, Kept, RunBegins, RunReports,
           RunBreaksOff, Settled
    <3>2. run[t] = "cancelled" /\ (ConfirmsWorkStopped \/ ~modelCalled[t])
      BY <3>1 DEF HonestCancellation
    <3>3. run'[t] = "cancelled"
      BY <3>2, Monotone DEF Core, Ended
    <3>4. modelCalled'[t] = modelCalled[t]
      BY <3>2, GraphChanges DEF Core, CallModel
    <3> QED BY <3>2, <3>3, <3>4
  <2> QED BY <2>2, <2>3
<1> QED BY <1>1, <1>2, CoreInvariant, PTL DEF Spec

-----------------------------------------------------------------------------
(* The usage of a session.                                                 *)

\* The judgments of one step are about tasks of different sessions.
Verdicts(V) ==
  /\ DOMAIN V \subseteq Tasks
  /\ \A x \in DOMAIN V : owner[x] \in Sessions /\ V[x] \in Judgment
  /\ \A x, y \in DOMAIN V : owner[x] = owner[y] => x = y

LEMMA EndSettles ==
  ASSUME TypeOK, Linked, NEW t \in Tasks, run[t] \in Ended, GraphRunEnded(t)
  PROVE  \E V : Settle(V) /\ Verdicts(V)
<1> DEFINE V == [x \in {t} |-> EndVerdict(x)]
<1>1. Settle(V) /\ DOMAIN V = {t} /\ V[t] = EndVerdict(t)
  BY DEF GraphRunEnded
<1>2. owner[t] \in Sessions /\ EndVerdict(t) \in Judgment
  BY EndVerdictType DEF TypeOK, Linked, TaskLinks, Ended
<1> HIDE DEF V
<1> QED BY <1>1, <1>2 DEF Verdicts

LEMMA StopSettlesOrNot ==
  ASSUME TypeOK, Linked, NEW t \in Tasks, run[t] # "none", NEW reason \in Reasons,
         StopWakes(t, reason)
  PROVE  \E V : Settle(V) /\ Verdicts(V)
<1>1. CASE run[t] \in Ended
  BY <1>1, EndSettles DEF StopWakes
<1>2. CASE run[t] \notin Ended
  <2> DEFINE V == [x \in {t} |-> ForcedVerdict(x, reason)]
  <2>1. Settle(V) /\ DOMAIN V = {t} /\ V[t] = ForcedVerdict(t, reason)
    BY <1>2 DEF StopWakes
  <2>2. owner[t] \in Sessions /\ ForcedVerdict(t, reason) \in Judgment
    BY ForcedVerdictType DEF TypeOK, Linked, TaskLinks
  <2> HIDE DEF V
  <2> QED BY <2>1, <2>2 DEF Verdicts
<1> QED BY <1>1, <1>2

LEMMA CloseSettles ==
  ASSUME TypeOK, Linked, CloseTimesOut
  PROVE  \E V : Settle(V) /\ Verdicts(V)
<1> DEFINE tasks == {running[s] : s \in closing \ returned} \ {NoTask}
           V == [x \in tasks |-> ForcedVerdict(x, "cleanup_bound_exceeded")]
<1>1. \A t \in tasks : t \in Tasks /\ owner[t] \in Sessions /\ running[owner[t]] = t
  BY DEF TypeOK, Linked, SessionLinks
<1>2. /\ Settle(V) /\ DOMAIN V = tasks
      /\ \A t \in tasks : V[t] = ForcedVerdict(t, "cleanup_bound_exceeded")
  BY DEF CloseTimesOut
<1> HIDE DEF V, tasks
<1>3. \A t \in tasks : V[t] \in Judgment
  BY <1>1, <1>2, ForcedVerdictType DEF Reasons
<1> QED BY <1>1, <1>2, <1>3 DEF Verdicts

\* Usage is committed by judgments only.
LEMMA UsageChanges ==
  ASSUME TypeOK, Linked, [Next]_vars
  PROVE  UNCHANGED <<usage, outcome>> \/ (UNCHANGED owner /\ \E V : Settle(V) /\ Verdicts(V))
<1> USE DEF graphVars, settleVars, taskVars, releaseVars, closeVars
<1> DEFINE Judging == UNCHANGED owner /\ \E V : Settle(V) /\ Verdicts(V)
<1>1. ASSUME NEW x \in Tasks, DoneCallbacks(x) PROVE Judging
  BY <1>1, EndSettles DEF DoneCallbacks, Linked, TaskLinks
<1>2. ASSUME NEW x \in Tasks, CancellationReturns(x) PROVE Judging
  BY <1>2, StopSettlesOrNot DEF CancellationReturns, Reasons, Linked, TaskLinks
<1>3. ASSUME NEW s \in Sessions, ReleaseStopWakes(s) PROVE Judging
  <2>1. stopping[s] \in Tasks /\ run[stopping[s]] # "none"
    BY <1>3, NoSessionAssumption DEF ReleaseStopWakes, Linked, SessionLinks, TaskLinks, TypeOK
  <2> QED BY <1>3, <2>1, StopSettlesOrNot DEF ReleaseStopWakes, Reasons
<1>4. ASSUME CloseTimesOut PROVE Judging
  BY <1>4, CloseSettles DEF CloseTimesOut
<1>5. ASSUME NEW x \in Tasks, \/ GraphStep(x) \/ RequestCancellation(x)
                              \/ CancellationAbandoned(x)
                              \/ \E s \in Sessions : StartTask(s, x)
      PROVE  UNCHANGED <<usage, outcome>>
  BY <1>5 DEF GraphStep, RunBegins, RecordInput, CallModel, ModelReturns, RunReports, RunBreaksOff,
       RunReturnsNothing, RunFails, RunCancelled, RunEnds, RequestCancellation,
       CancellationAbandoned, StartTask
<1>6. ASSUME NEW s \in Sessions,
             \/ CreateSession(s) \/ Release(s) \/ ReleaseBegins(s) \/ DeleteAtOnce(s)
             \/ DeleteApplies(s) \/ DeleteReturns(s) \/ DeleteFails(s) \/ DeleteAgain(s)
             \/ ReleaseReturns(s)
      PROVE  UNCHANGED <<usage, outcome>>
  BY <1>6 DEF CreateSession, Release, ReleaseBegins, DeleteAtOnce, DeleteApplies,
       DeleteReturns, DeleteFails, DeleteAgain, ReleaseReturns
<1>7. ASSUME Aclose \/ CloseBegins \/ CloseExpires \/ CloseReturns \/ UNCHANGED vars
      PROVE  UNCHANGED <<usage, outcome>>
  BY <1>7 DEF Aclose, CloseBegins, CloseExpires, CloseReturns, vars
<1> HIDE DEF Judging
<1>8. Judging \/ UNCHANGED <<usage, outcome>>
  BY <1>1, <1>2, <1>3, <1>4, <1>5, <1>6, <1>7 DEF Next
<1> QED BY <1>8 DEF Judging

\* The total of a session is still while one of its tasks runs unsettled.
LEMMA UsageKept ==
  ASSUME Core, Core', [Next]_vars, NEW t \in Tasks, run[t] # "none",
         ~Settled(t), ~Settled(t)'
  PROVE  usage'[owner[t]] = usage[owner[t]]
<1>1. CASE UNCHANGED usage
  BY <1>1
<1>2. CASE \E V : Settle(V) /\ Verdicts(V)
  <2>1. PICK V : Settle(V) /\ Verdicts(V)
    BY <1>2
  <2>2. owner[t] \in Sessions /\ running[owner[t]] = t
    BY DEF Core, TypeOK, Linked, TaskLinks, Judged
  <2>3. /\ \A x \in Tasks : x \in DOMAIN V /\ ~Settled(x) => SettledWith(x, V[x])
        /\ (\A x \in DOMAIN V : owner[x] = owner[t] => Settled(x))
              => usage'[owner[t]] = usage[owner[t]]
    BY <2>1, <2>2, SettleEffect DEF Core, Verdicts
  <2>4. ASSUME t \in DOMAIN V PROVE FALSE
    <3>1. SettledWith(t, V[t]) /\ V[t] \in Judgment
      BY <2>1, <2>3, <2>4 DEF Verdicts
    <3> QED BY <2>2, <3>1, SettledWithType DEF Core
  <2>5. \A x \in Tasks : x # t /\ owner[x] = owner[t] => Settled(x)
    BY <2>2, NoSessionAssumption DEF Core, Judged, Linked, TaskLinks
  <2> QED BY <2>1, <2>3, <2>4, <2>5 DEF Verdicts
<1> QED BY <1>1, <1>2, UsageChanges DEF Core

\* Only the return of its run announces usage.
LEMMA ReturnChanges ==
  ASSUME TypeOK, Linked, [Next]_vars, NEW t \in Tasks, ~RunReports(t)
  PROVE  /\ projected'[t] = projected[t]
         /\ run'[t] = "returned" => run[t] = "returned"
<1> USE DEF graphVars, settleVars, taskVars, releaseVars, closeVars
<1> DEFINE Goal == /\ projected'[t] = projected[t]
                   /\ run'[t] = "returned" => run[t] = "returned"
<1>1. ASSUME NEW x \in Tasks, GraphStep(x) PROVE Goal
  <2>1. CASE RunReports(x)
    <3>1. x # t
      BY <2>1
    <3>2. \E u : projected' = [projected EXCEPT ![x] = u]
      BY <2>1 DEF RunReports
    <3>3. \E how : run' = [run EXCEPT ![x] = how]
      BY <2>1 DEF RunReports
    <3> QED BY <3>1, <3>2, <3>3 DEF TypeOK
  <2>2. CASE ~RunReports(x)
    <3>1. UNCHANGED projected /\ \E how : how # "returned" /\ run' = [run EXCEPT ![x] = how]
      BY <1>1, <2>2 DEF GraphStep, RunBegins, RecordInput, CallModel, ModelReturns,
           RunBreaksOff, RunReturnsNothing, RunFails, RunCancelled, RunEnds
    <3> QED BY <3>1 DEF TypeOK
  <2> QED BY <2>1, <2>2
<1>2. ASSUME NEW x \in Tasks, NEW s \in Sessions, StartTask(s, x) PROVE Goal
  BY <1>2 DEF StartTask, TypeOK
<1>3. ASSUME NEW x \in Tasks,
             \/ DoneCallbacks(x) \/ RequestCancellation(x) \/ CancellationReturns(x)
             \/ CancellationAbandoned(x)
      PROVE  Goal
  BY <1>3 DEF DoneCallbacks, RequestCancellation, CancellationReturns, CancellationAbandoned
<1>4. ASSUME NEW s \in Sessions,
             \/ CreateSession(s) \/ Release(s) \/ ReleaseBegins(s) \/ ReleaseStopWakes(s)
             \/ DeleteAtOnce(s) \/ DeleteApplies(s) \/ DeleteReturns(s) \/ DeleteFails(s)
             \/ DeleteAgain(s) \/ ReleaseReturns(s)
      PROVE  Goal
  BY <1>4 DEF CreateSession, Release, ReleaseBegins, ReleaseStopWakes, DeleteAtOnce,
       DeleteApplies, DeleteReturns, DeleteFails, DeleteAgain, ReleaseReturns
<1>5. ASSUME \/ Aclose \/ CloseBegins \/ CloseExpires \/ CloseReturns \/ CloseTimesOut
             \/ UNCHANGED vars
      PROVE  Goal
  BY <1>5 DEF Aclose, CloseBegins, CloseExpires, CloseReturns, CloseTimesOut, vars
<1> HIDE DEF Goal
<1>6. Goal
  BY <1>1, <1>2, <1>3, <1>4, <1>5 DEF Next
<1> QED BY <1>6 DEF Goal

\* A run that returned announced the usage its task is going to be settled with.
Projected(t) ==
  /\ run[t] = "returned" /\ ~Settled(t) =>
       /\ observed[t] # NoUsage
       /\ projected[t] = Add(usage[owner[t]], observed[t])
  /\ Settled(t) /\ outcome[t].kind = "completed" /\ outcome[t].output =>
       run[t] = "returned" /\ outcome[t].sessionUsage = projected[t]

LEMMA ProjectedStep ==
  ASSUME Core, Core', [Next]_vars, NEW t \in Tasks, Projected(t)
  PROVE  Projected(t)'
<1>1. CASE JudgedByEnd(t)
  <2>1. /\ owner[t] \in Sessions /\ run[t] \in Ended /\ ~Settled(t) /\ Settled(t)'
        /\ EndVerdict(t) \in Judgment /\ SettledWith(t, EndVerdict(t))
        /\ UNCHANGED <<run, projected>>
    BY <1>1, JudgmentType, EndVerdictType DEF Core, JudgedByEnd, GraphUnchanged
  <2>2. /\ outcome'[t].kind = EndVerdict(t).kind
        /\ outcome'[t].output = EndVerdict(t).output
        /\ outcome'[t].sessionUsage = Add(usage[owner[t]], EndVerdict(t).usage)
    BY <2>1 DEF SettledWith, Final
  <2>3. EndVerdict(t).output => run[t] = "returned" /\ EndVerdict(t).usage = UsageSoFar(t)
    BY <2>1 DEF EndVerdict, CancellationVerdict, Verdict, Ended
  <2> QED BY <2>1, <2>2, <2>3 DEF Projected, UsageSoFar
<1>2. CASE JudgedByForce(t)
  BY <1>2, JudgmentType DEF Projected, Core
<1>3. CASE RunReports(t)
  <2>1. /\ run[t] # "returned" /\ UNCHANGED <<outcome, usage, owner>>
        /\ observed'[t] \in AgentUsage
        /\ projected'[t] = Add(usage[owner[t]], observed'[t])
    BY <1>3, ReplyUsagesAssumption DEF RunReports, ProjectedUsage, Core, TypeOK
  <2> QED BY <2>1, NoUsageAssumption DEF Projected, Settled
<1>4. CASE ~JudgedByEnd(t) /\ ~JudgedByForce(t) /\ ~RunReports(t)
  <2>1. outcome'[t] = outcome[t]
    BY <1>4, Judgments DEF Core, Kept, RunBegins, RunBreaksOff
  <2>2. projected'[t] = projected[t] /\ observed'[t] = observed[t]
    BY <1>4, ReturnChanges, GraphChanges DEF Core
  <2>3. run'[t] = "returned" => run[t] = "returned"
    BY <1>4, ReturnChanges DEF Core
  <2>4. run[t] = "returned" => run'[t] = "returned" /\ owner'[t] = owner[t]
    BY Monotone DEF Core, Ended
  <2>5. run[t] = "returned" /\ ~Settled(t) => usage'[owner[t]] = usage[owner[t]]
    BY <2>1, UsageKept DEF Settled
  <2> QED BY <2>1, <2>2, <2>3, <2>4, <2>5 DEF Projected, Settled
<1> QED BY <1>1, <1>2, <1>3, <1>4

LEMMA ProjectedInvariant == Spec => [](\A t \in Tasks : Projected(t))
<1>1. Init => \A t \in Tasks : Projected(t)
  BY DEF Init, Projected, Settled
<1>2. Core /\ Core' /\ (\A t \in Tasks : Projected(t)) /\ [Next]_vars
        => (\A t \in Tasks : Projected(t))'
  BY ProjectedStep
<1> QED BY <1>1, <1>2, CoreInvariant, PTL DEF Spec

\* The session usage a completed task reports is the one it announced.
THEOREM ProjectionHolds == Spec => []ProjectionAgrees
<1>1. (\A t \in Tasks : Projected(t)) => ProjectionAgrees
  BY DEF Projected, ProjectionAgrees
<1> QED BY <1>1, ProjectedInvariant, PTL

\* A difference of two session totals is what was committed between them, or unknown
\* (outcome.py:62-66).
THEOREM HonestDifferences == Spec => []DifferencesAreHonest
<1>1. ASSUME TypeOK PROVE DifferencesAreHonest
  <2> SUFFICES ASSUME NEW t \in Tasks, NEW u \in Tasks, Settled(t), Settled(u), NEW f \in Fields,
                      SubtractAmounts(outcome[u].sessionUsage[f], outcome[t].sessionUsage[f]) # Unknown
               PROVE  LET between == SubtractAmounts(outcome[u].sessionUsage[f],
                                                     outcome[t].sessionUsage[f])
                      IN  /\ between \in Nat
                          /\ outcome[t].sessionUsage[f] + between = outcome[u].sessionUsage[f]
    BY DEF DifferencesAreHonest, Subtract
  <2>1. outcome[t] \in Outcome /\ outcome[u] \in Outcome BY <1>1 DEF TypeOK, Settled
  <2>2. /\ outcome[t].sessionUsage[f] \in Amount
        /\ outcome[u].sessionUsage[f] \in Amount
    BY <2>1 DEF Outcome, AgentUsage
  <2> QED BY <2>2 DEF SubtractAmounts, Amount
<1> QED BY <1>1, TypeCorrect, PTL

-----------------------------------------------------------------------------
(* What a task publishes, and what its outcome says of it.                 *)

\* How the run of a task goes on.
LEMMA RunMoves ==
  ASSUME TypeOK, Linked, [Next]_vars, NEW t \in Tasks
  PROVE  \/ run'[t] = run[t]
         \/ run[t] = "none" /\ run'[t] = "scheduled"
         \/ RunBegins(t) /\ run'[t] = "entered"
         \/ RunReports(t) /\ run'[t] \in {"returned", "failed"}
         \/ RunBreaksOff(t) /\ run'[t] = "failed"
         \/ run[t] \in Live \ {"scheduled"} /\ run'[t] \in Live \ {"scheduled"}
         \/ run[t] \in Live /\ run'[t] \in Ended \ {"returned"}
<1> USE DEF graphVars, settleVars, taskVars, releaseVars, closeVars
<1>1. ASSUME NEW x \in Tasks, GraphStep(x), x # t
      PROVE  run'[t] = run[t]
  BY <1>1 DEF GraphStep, RunBegins, RecordInput, CallModel, ModelReturns, RunReports, RunBreaksOff,
       RunReturnsNothing, RunFails, RunCancelled, RunEnds, TypeOK
<1>2. ASSUME GraphStep(t)
      PROVE  \/ RunBegins(t) /\ run'[t] = "entered"
             \/ RunReports(t) /\ run'[t] \in {"returned", "failed"}
             \/ RunBreaksOff(t) /\ run'[t] = "failed"
             \/ run[t] \in Live \ {"scheduled"} /\ run'[t] \in Live \ {"scheduled"}
             \/ run[t] \in Live /\ run'[t] \in Ended \ {"returned"}
  <2>1. CASE RunBegins(t) \/ RunReports(t) \/ RunBreaksOff(t)
    BY <2>1 DEF RunBegins, RunReports, RunBreaksOff, TypeOK
  <2>2. CASE ~(RunBegins(t) \/ RunReports(t) \/ RunBreaksOff(t))
    BY <1>2, <2>2 DEF GraphStep, RecordInput, CallModel, ModelReturns, RunReturnsNothing,
         RunFails, RunCancelled, RunEnds, TypeOK, Live, Ended
  <2> QED BY <2>1, <2>2
<1>3. ASSUME NEW x \in Tasks, NEW s \in Sessions, StartTask(s, x)
      PROVE  run'[t] = run[t] \/ (run[t] = "none" /\ run'[t] = "scheduled")
  BY <1>3 DEF StartTask, Linked, TaskLinks, TypeOK
<1>4. ASSUME \A x \in Tasks : ~GraphStep(x),
             \A s \in Sessions, x \in Tasks : ~StartTask(s, x)
      PROVE  UNCHANGED run
  BY <1>4 DEF vars, Next, DoneCallbacks, CreateSession, RequestCancellation,
       CancellationReturns, CancellationAbandoned, Release, ReleaseBegins,
       ReleaseStopWakes, DeleteAtOnce, DeleteApplies, DeleteReturns, DeleteFails,
       DeleteAgain, Aclose, CloseBegins, ReleaseReturns, CloseExpires, CloseReturns,
       CloseTimesOut
<1> QED BY <1>1, <1>2, <1>3, <1>4

Told   == <<"started", "message", "usage">>
Broken == <<"started", "message">>

LEMMA StartAndEnd == <<"started">> \o <<"message", "usage">> = Told
<1> DEFINE S == {"started", "message", "usage"}
           a == <<"started">>
           b == <<"message", "usage">>
<1>1. /\ a \in Seq(S) /\ Len(a) = 1 /\ a[1] = "started"
      /\ b \in Seq(S) /\ Len(b) = 2 /\ b[1] = "message" /\ b[2] = "usage"
  OBVIOUS
<1>2. Told \in Seq(S) /\ Len(Told) = 3 /\ Told[1] = "started" /\ Told[2] = "message"
      /\ Told[3] = "usage"
  BY DEF Told
<1> HIDE DEF a, b, S
<1>3. /\ a \o b \in Seq(S) /\ Len(a \o b) = 3
      /\ \A i \in 1 .. 3 : (a \o b)[i] = IF i <= 1 THEN a[i] ELSE b[i - 1]
  BY <1>1, ConcatProperties
<1>4. \A i \in 1 .. 3 : (a \o b)[i] = Told[i]
  <2>1. (a \o b)[1] = Told[1] /\ (a \o b)[2] = Told[2] /\ (a \o b)[3] = Told[3]
    BY <1>1, <1>2, <1>3
  <2>2. \A i \in 1 .. 3 : i = 1 \/ i = 2 \/ i = 3
    OBVIOUS
  <2> QED BY <2>1, <2>2
<1>5. a \o b = Told
  BY <1>2, <1>3, <1>4, SeqEqual
<1> QED BY <1>5 DEF a, b

LEMMA AppendToOne ==
  ASSUME NEW X, NEW a \in Seq(X), NEW m \in X, NEW b \in Seq(X)
  PROVE  Len(a) = 1 /\ Len(b) = 2 /\ b[1] = a[1] /\ b[2] = m => Append(a, m) = b
<1> DEFINE p == Append(a, m)
<1>1. /\ p \in Seq(X) /\ Len(p) = Len(a) + 1 /\ p[Len(a) + 1] = m
      /\ \A i \in 1 .. Len(a) : p[i] = a[i]
  BY AppendProperties
<1> HIDE DEF p
<1>2. ASSUME Len(a) = 1, Len(b) = 2, b[1] = a[1], b[2] = m PROVE p = b
  <2>1. Len(p) = 2 /\ p[2] = b[2] /\ p[1] = b[1]
    BY <1>1, <1>2
  <2>2. \A i \in 1 .. 2 : i = 1 \/ i = 2
    OBVIOUS
  <2>3. \A i \in 1 .. 2 : p[i] = b[i]
    BY <2>1, <2>2
  <2> QED BY <1>1, <1>2, <2>1, <2>3, SeqEqual
<1> QED BY <1>2 DEF p

LEMMA StartAndBreak == Append(<<"started">>, "message") = Broken
<1> DEFINE X == {"started", "message"}
           a == <<"started">>
<1>1. a \in Seq(X) /\ Len(a) = 1 /\ a[1] = "started" /\ "message" \in X
  OBVIOUS
<1>2. Broken \in Seq(X) /\ Len(Broken) = 2 /\ Broken[1] = "started" /\ Broken[2] = "message"
  BY DEF Broken
<1> HIDE DEF a, X
<1>3. Append(a, "message") = Broken
  BY <1>1, <1>2, AppendToOne
<1> QED BY <1>3 DEF a

\* Before its judgment, task t published the sequence n.
Reported(t, n) ==
  /\ events[t] = IF Settled(t) THEN Append(n, "terminal") ELSE n
  /\ ~Settled(t) => /\ run[t] \in {"none", "scheduled"} => n = <<>>
                    /\ run[t] \in Live \ {"scheduled"} => n = <<"started">>
                    /\ run[t] = "returned" \/ observed[t] # NoUsage => n = Told
                    /\ n = Told => run[t] \in {"returned", "failed"}
                    /\ n = Broken => run[t] = "failed"
  /\ Settled(t) =>
       /\ outcome[t].output \/ outcome[t].usage \notin {ZERO, UNKNOWN} => n = Told
       /\ n \in {Told, Broken} /\ ~outcome[t].output =>
            \/ outcome[t].kind = "failed"
            \/ outcome[t].kind = "unresolved" /\ outcome[t].reason = "cleanup_bound_exceeded"

Reports == {<<>>, <<"started">>, Broken, Told}

Narrated == \A t \in Tasks : \E n \in Reports : Reported(t, n)

\* What the outcome says is what the run had come to.
LEMMA JudgmentContent ==
  ASSUME TypeOK, TypeOK', Linked, NEW t \in Tasks, JudgedByEnd(t) \/ JudgedByForce(t)
  PROVE  /\ outcome'[t].output => run[t] = "returned"
         /\ run[t] \in {"returned", "failed"} /\ ~outcome'[t].output =>
              \/ outcome'[t].kind = "failed"
              \/ outcome'[t].kind = "unresolved" /\ outcome'[t].reason = "cleanup_bound_exceeded"
<1>1. owner[t] \in Sessions
  BY JudgmentType
<1>2. CASE JudgedByEnd(t)
  <2>1. EndVerdict(t) \in Judgment /\ SettledWith(t, EndVerdict(t)) /\ run[t] \in Ended
    BY <1>2, EndVerdictType DEF JudgedByEnd
  <2>2. /\ EndVerdict(t).output <=> run[t] = "returned"
        /\ run[t] = "failed" => EndVerdict(t).kind = "failed"
    BY <2>1 DEF EndVerdict, CancellationVerdict, Verdict, Ended
  <2>3. outcome'[t].output = EndVerdict(t).output /\ outcome'[t].kind = EndVerdict(t).kind
    BY <1>1, <2>1, SettledWithType
  <2> QED BY <2>2, <2>3
<1>3. CASE JudgedByForce(t)
  <2>1. PICK reason \in Reasons : /\ run[t] \in Ended => reason = "cleanup_bound_exceeded"
                                  /\ SettledWith(t, ForcedVerdict(t, reason))
    BY <1>3 DEF JudgedByForce
  <2>2. /\ ForcedVerdict(t, reason) \in Judgment
        /\ ForcedVerdict(t, reason).kind = "unresolved"
        /\ ForcedVerdict(t, reason).reason = reason
        /\ ForcedVerdict(t, reason).output = FALSE
    BY ForcedVerdictType DEF ForcedVerdict, Verdict
  <2>3. /\ outcome'[t].kind = "unresolved" /\ outcome'[t].reason = reason
        /\ outcome'[t].output = FALSE
    BY <1>1, <2>1, <2>2, SettledWithType
  <2> QED BY <2>1, <2>3 DEF Ended
<1> QED BY <1>2, <1>3

LEMMA NarratedStep == Core /\ Core' /\ Measured /\ Narrated /\ [Next]_vars => Narrated'
<1> SUFFICES ASSUME Core, Core', Measured, Narrated, [Next]_vars, NEW t \in Tasks,
                    NEW n \in Reports, Reported(t, n)
             PROVE  \E m \in Reports : Reported(t, m)'
  BY DEF Narrated
<1>0. /\ Told \notin {<<>>, <<"started">>, Broken} /\ Broken \notin {<<>>, <<"started">>}
      /\ {<<>>, <<"started">>, Told, Broken} \subseteq Reports
  BY DEF Told, Broken, Reports
<1>1. CASE RunBegins(t)
  <2>1. run[t] = "scheduled" /\ run'[t] = "entered" /\ UNCHANGED <<outcome, observed>>
        /\ events'[t] = IF Settled(t) THEN events[t] ELSE Append(events[t], "started")
    BY <1>1 DEF RunBegins, Publish, Core, TypeOK
  <2>2. CASE Settled(t)
    <3>1. Reported(t, n)'
      BY <2>1, <2>2 DEF Reported, Settled
    <3> QED BY <3>1
  <2>3. CASE ~Settled(t)
    <3>1. n = <<>>
      BY <2>1, <2>3 DEF Reported
    <3>2. events'[t] = <<"started">>
      BY <2>1, <2>3, <3>1 DEF Reported
    <3>3. Reported(t, <<"started">>)'
      BY <1>0, <2>1, <2>3, <3>2 DEF Reported, Settled, Live
    <3> QED BY <1>0, <3>3
  <2> QED BY <2>2, <2>3
<1>2. CASE RunReports(t)
  <2>1. run[t] = "replied" /\ run'[t] \in {"returned", "failed"} /\ outcome' = outcome
        /\ events'[t] = IF Settled(t) THEN events[t] ELSE events[t] \o <<"message", "usage">>
    BY <1>2 DEF RunReports, Core, TypeOK
  <2>2. CASE Settled(t)
    <3>1. Reported(t, n)'
      BY <2>1, <2>2 DEF Reported, Settled
    <3> QED BY <3>1
  <2>3. CASE ~Settled(t)
    <3>1. n = <<"started">>
      BY <2>1, <2>3 DEF Reported, Live
    <3>2. events'[t] = Told
      <4>1. events'[t] = <<"started">> \o <<"message", "usage">>
        BY <2>1, <2>3, <3>1 DEF Reported
      <4> QED BY <4>1, StartAndEnd
    <3>3. Reported(t, Told)'
      BY <1>0, <2>1, <2>3, <3>2 DEF Reported, Settled, Live
    <3> QED BY <1>0, <3>3
  <2> QED BY <2>2, <2>3
<1>3. CASE JudgedByEnd(t) \/ JudgedByForce(t)
  <2>1. ~Settled(t) /\ Settled(t)' /\ outcome'[t].usage = UsageSoFar(t)
    BY <1>3, JudgmentType DEF Core
  <2>2. events'[t] = Append(n, "terminal")
    BY <1>3, <2>1 DEF JudgedByEnd, JudgedByForce, SettledWith, Reported
  <2>3. /\ run[t] = "returned" => n = Told
        /\ n \in {Told, Broken} => run[t] \in {"returned", "failed"}
    BY <2>1 DEF Reported
  <2>4. UsageSoFar(t) \notin {ZERO, UNKNOWN} => n = Told
    BY <2>1 DEF UsageSoFar, Reported
  <2>5. Reported(t, n)'
    BY <1>3, <2>1, <2>2, <2>3, <2>4, JudgmentContent DEF Reported, Core
  <2> QED BY <2>5
<1>4. CASE RunBreaksOff(t)
  <2>1. /\ run[t] = "replied" /\ run'[t] = "failed" /\ UNCHANGED <<outcome, observed>>
        /\ events'[t] = IF Settled(t) THEN events[t] ELSE Append(events[t], "message")
    BY <1>4 DEF RunBreaksOff, Publish, Core, TypeOK
  <2>0. observed[t] = NoUsage
    BY <2>1 DEF Measured
  <2>2. CASE Settled(t)
    <3>1. Reported(t, n)'
      BY <2>1, <2>2 DEF Reported, Settled
    <3> QED BY <3>1
  <2>3. CASE ~Settled(t)
    <3>1. n = <<"started">>
      BY <2>1, <2>3 DEF Reported, Live
    <3>2. events'[t] = Broken
      <4>1. events'[t] = Append(<<"started">>, "message")
        BY <2>1, <2>3, <3>1 DEF Reported
      <4> QED BY <4>1, StartAndBreak
    <3>3. Reported(t, Broken)'
      BY <1>0, <2>0, <2>1, <2>3, <3>2 DEF Reported, Settled, Live
    <3> QED BY <1>0, <3>3
  <2> QED BY <2>2, <2>3
<1>5. CASE ~(\/ RunBegins(t) \/ RunReports(t) \/ RunBreaksOff(t)
            \/ JudgedByEnd(t) \/ JudgedByForce(t))
  <2>1. Kept(t) /\ observed'[t] = observed[t]
    BY <1>5, Judgments, GraphChanges DEF Core
  <2>2. \/ run'[t] = run[t]
        \/ run[t] = "none" /\ run'[t] = "scheduled"
        \/ run[t] \in Live \ {"scheduled"} /\ run'[t] \in Live \ {"scheduled"}
        \/ run[t] \in Live /\ run'[t] \in Ended \ {"returned"}
    BY <1>5, RunMoves DEF Core
  <2>3. Reported(t, n)'
    BY <1>0, <2>1, <2>2 DEF Reported, Kept, Settled, Live, Ended
  <2> QED BY <2>3
<1> QED BY <1>1, <1>2, <1>3, <1>4, <1>5

LEMMA InitNarrated == Init => Narrated
BY DEF Init, Narrated, Reports, Reported, Settled, Live, Told, Broken

LEMMA NarratedInvariant == Spec => []Narrated
BY InitNarrated, NarratedStep, CoreInvariant, MeasuredInvariant, PTL DEF Spec

\* The exceptions to "All four outcomes retain acquired output" (protocol.md:61) are of
\* two kinds. A run that raises after MessageCompleted (harness.py:776-779) ends Failed
\* without the message it published; and force_unresolved_cleanup, when the budget of
\* aclose() is spent, settles a task whose run has published it.
OutputIsLostInTwoWays ==
  \A t \in Tasks :
    Settled(t) /\ Announced(t) =>
      \/ outcome[t].output
      \/ outcome[t].kind = "failed"
      \/ outcome[t].kind = "unresolved" /\ outcome[t].reason = "cleanup_bound_exceeded"

\* A published message is missing from the outcome of a failed task and of one settled at
\* the end of the cleanup budget, and from no other.
THEOREM OutputRetention == Spec => []OutputIsLostInTwoWays
<1>1. Narrated => OutputIsLostInTwoWays
  <2> SUFFICES ASSUME NEW t \in Tasks, Settled(t),
                      NEW n \in Reports, Reported(t, n),
                      NEW i \in 1 .. Len(events[t]), events[t][i] = "message"
               PROVE  \/ outcome[t].output
                      \/ outcome[t].kind = "failed"
                      \/ /\ outcome[t].kind = "unresolved"
                         /\ outcome[t].reason = "cleanup_bound_exceeded"
    BY DEF Narrated, OutputIsLostInTwoWays, Announced
  <2>1. events[t] = Append(n, "terminal")
    BY DEF Reported
  <2>2. n = <<>> => events[t] = <<"terminal">>
    BY <2>1
  <2>3. n = <<"started">> => events[t] = <<"started", "terminal">>
    BY <2>1
  <2>4. n \in {Told, Broken}
    BY <2>2, <2>3 DEF Reports
  <2> QED BY <2>4 DEF Reported
<1> QED BY <1>1, NarratedInvariant, PTL
=============================================================================
