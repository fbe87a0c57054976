------------------------- MODULE ConformanceProofs -------------------------
(***************************************************************************)
(* Proofs about Conformance: the scenarios are runs of the adapter, and    *)
(* whichever of them is run, in whatever order the event loop chooses, its *)
(* assertions hold and nothing of it is left when it is over.              *)
(***************************************************************************)
EXTENDS Conformance, PortProofs

-----------------------------------------------------------------------------
(* Scripts.                                                                *)

OnHarness == {Closes, Holds, LetsGo, UntilClosed, UntilIdle}
OnSession(s) == {Creates(s), Releases(s), UntilReleased(s), Refused(s, "overlap"),
                 Refused(s, "blocked"), CancelsCaller(s)} \cup {Starts(s, t) : t \in Tasks}
OnTask(t) == {Cancels(t), UntilCalled(t), UntilAnswered(t), Unchanged(t), StillRunning(t),
              CancelsWaiter(t)}
             \cup {Awaits(t, kinds) : kinds \in SUBSET TerminalStates}
             \cup {Recalls(t, known) : known \in SUBSET Tasks}

Instruction == OnHarness \cup (UNION {OnSession(s) : s \in Sessions})
                         \cup (UNION {OnTask(t) : t \in Tasks})

LEMMA InstructionParts ==
  \A i : i \in Instruction <=> \/ i \in OnHarness
                               \/ \E s \in Sessions : i \in OnSession(s)
                               \/ \E t \in Tasks : i \in OnTask(t)
<1> DEFINE A == UNION {OnSession(s) : s \in Sessions}
           B == UNION {OnTask(t) : t \in Tasks}
<1>1. \A i : i \in A <=> \E s \in Sessions : i \in OnSession(s)
  BY Zenon
<1>2. \A i : i \in B <=> \E t \in Tasks : i \in OnTask(t)
  BY Zenon
<1>3. Instruction = OnHarness \cup A \cup B
  BY Zenon DEF Instruction
<1> HIDE DEF A, B
<1> QED BY <1>1, <1>2, <1>3

LEMMA Vocabulary ==
  /\ {Closes, Holds, LetsGo, UntilClosed, UntilIdle} \subseteq Instruction
  /\ \A s \in Sessions : /\ Creates(s) \in Instruction /\ Releases(s) \in Instruction
                         /\ UntilReleased(s) \in Instruction
                         /\ Refused(s, "overlap") \in Instruction
                         /\ Refused(s, "blocked") \in Instruction
                         /\ CancelsCaller(s) \in Instruction
                         /\ \A t \in Tasks : Starts(s, t) \in Instruction
  /\ \A t \in Tasks : /\ Cancels(t) \in Instruction /\ UntilCalled(t) \in Instruction
                      /\ UntilAnswered(t) \in Instruction /\ Unchanged(t) \in Instruction
                      /\ StillRunning(t) \in Instruction /\ CancelsWaiter(t) \in Instruction
                      /\ \A kinds \in SUBSET TerminalStates : Awaits(t, kinds) \in Instruction
                      /\ \A known \in SUBSET Tasks : Recalls(t, known) \in Instruction
<1>1. /\ OnHarness \subseteq Instruction
      /\ \A s \in Sessions : OnSession(s) \subseteq Instruction
      /\ \A t \in Tasks : OnTask(t) \subseteq Instruction
  BY InstructionParts
<1>2. OnHarness = {Closes, Holds, LetsGo, UntilClosed, UntilIdle}
  BY DEF OnHarness
<1>3. ASSUME NEW s \in Sessions
      PROVE  /\ {Creates(s), Releases(s), UntilReleased(s), Refused(s, "overlap"),
                 Refused(s, "blocked"), CancelsCaller(s)} \subseteq OnSession(s)
             /\ \A t \in Tasks : Starts(s, t) \in OnSession(s)
  BY DEF OnSession
<1>4. ASSUME NEW t \in Tasks
      PROVE  /\ {Cancels(t), UntilCalled(t), UntilAnswered(t), Unchanged(t), StillRunning(t),
                 CancelsWaiter(t)} \subseteq OnTask(t)
             /\ \A kinds \in SUBSET TerminalStates : Awaits(t, kinds) \in OnTask(t)
             /\ \A known \in SUBSET Tasks : Recalls(t, known) \in OnTask(t)
  BY DEF OnTask
<1> QED BY <1>1, <1>2, <1>3, <1>4

\* A call is made on a session and a task there are.
LEMMA Addressed ==
  ASSUME NEW i \in Instruction
  PROVE  /\ i.do \in {"create_session", "release"} => i.s \in Sessions
         /\ i.do = "start_task" => i.s \in Sessions /\ i.t \in Tasks
         /\ i.do = "request_cancellation" => i.t \in Tasks
         /\ i.do = "until_idle" => i = UntilIdle
         /\ i.do = "until_closed" => i = UntilClosed
<1>1. CASE i \in OnHarness
  BY <1>1 DEF OnHarness, Closes, Holds, LetsGo, UntilClosed, UntilIdle
<1>2. ASSUME NEW s \in Sessions, i \in OnSession(s)
      PROVE  /\ i.s = s
             /\ i.do = "start_task" => i.t \in Tasks
             /\ i.do \in {"create_session", "release", "until_released", "start_refused",
                          "start_task", "cancel_release"}
  <2>1. CASE \E t \in Tasks : i = Starts(s, t)
    BY <2>1 DEF Starts
  <2>2. CASE ~\E t \in Tasks : i = Starts(s, t)
    BY <1>2, <2>2 DEF OnSession, Creates, Releases, UntilReleased, Refused, CancelsCaller
  <2> QED BY <2>1, <2>2
<1>3. ASSUME NEW t \in Tasks, i \in OnTask(t)
      PROVE  /\ i.t = t
             /\ i.do \in {"request_cancellation", "until_called", "until_answered",
                          "same_outcome", "not_terminal", "outcome", "context",
                          "cancel_waiter"}
  <2>1. CASE \E kinds \in SUBSET TerminalStates : i = Awaits(t, kinds)
    BY <2>1 DEF Awaits
  <2>2. CASE \E known \in SUBSET Tasks : i = Recalls(t, known)
    BY <2>2 DEF Recalls
  <2>3. CASE i \in {Cancels(t), UntilCalled(t), UntilAnswered(t), Unchanged(t),
                    StillRunning(t), CancelsWaiter(t)}
    BY <2>3 DEF Cancels, UntilCalled, UntilAnswered, Unchanged, StillRunning, CancelsWaiter
  <2> QED BY <1>3, <2>1, <2>2, <2>3 DEF OnTask
<1> QED BY <1>1, <1>2, <1>3, InstructionParts

\* A scenario closes the harness, waits for that, and is over when nothing runs any more.
Teardown(sc) == /\ sc \in Seq(Instruction) /\ sc # <<>>
                /\ sc[Len(sc)] = UntilIdle
                /\ \E k \in 1 .. Len(sc) : sc[k] = UntilClosed

LEMMA Exits == Teardown(RuntimeExit) /\ Teardown(CleanupExit)
<1>1. RuntimeExit \in Seq(Instruction) /\ CleanupExit \in Seq(Instruction)
  BY Vocabulary DEF RuntimeExit, CleanupExit
<1>2. /\ Len(RuntimeExit) = 4 /\ RuntimeExit[4] = UntilIdle /\ RuntimeExit[2] = UntilClosed
      /\ Len(CleanupExit) = 4 /\ CleanupExit[4] = UntilIdle /\ CleanupExit[3] = UntilClosed
  BY DEF RuntimeExit, CleanupExit
<1>3. RuntimeExit # <<>> /\ CleanupExit # <<>>
  BY <1>1, <1>2, EmptySeq
<1> QED BY <1>1, <1>2, <1>3 DEF Teardown

LEMMA ThenExits ==
  ASSUME NEW a \in Seq(Instruction), NEW b, Teardown(b)
  PROVE  Teardown(a \o b)
<1>1. b \in Seq(Instruction) /\ b # <<>> /\ Len(b) \in Nat \ {0} /\ Len(a) \in Nat
  BY EmptySeq, LenProperties DEF Teardown
<1>2. /\ a \o b \in Seq(Instruction) /\ Len(a \o b) = Len(a) + Len(b)
      /\ \A i \in 1 .. Len(b) : (a \o b)[Len(a) + i] = b[i]
  <2>1. \A i \in 1 .. Len(b) : /\ Len(a) + i \in 1 .. Len(a) + Len(b)
                               /\ ~(Len(a) + i <= Len(a)) /\ (Len(a) + i) - Len(a) = i
    BY <1>1
  <2> QED BY <1>1, <2>1, ConcatProperties
<1>3. a \o b # <<>>
  BY <1>1, <1>2, EmptySeq
<1>4. (a \o b)[Len(a \o b)] = UntilIdle
  BY <1>1, <1>2 DEF Teardown
<1>5. \E k \in 1 .. Len(a \o b) : (a \o b)[k] = UntilClosed
  <2>1. PICK k \in 1 .. Len(b) : b[k] = UntilClosed
    BY DEF Teardown
  <2>2. Len(a) + k \in 1 .. Len(a \o b) /\ (a \o b)[Len(a) + k] = UntilClosed
    BY <1>1, <1>2, <2>1
  <2> QED BY <2>2
<1> QED BY <1>2, <1>3, <1>4, <1>5 DEF Teardown

LEMMA ScriptsTearDown == \A sc \in RuntimeSuite \cup CleanupSuite : Teardown(sc)
<1> USE ParticipantsAssumption
<1>0. {s1, s2} \subseteq Sessions /\ {t1, t2, t3} \subseteq Tasks
      /\ {"completed"} \subseteq TerminalStates /\ {"cancelled"} \subseteq TerminalStates
      /\ Stopped \subseteq TerminalStates
  BY DEF TerminalStates, Stopped
<1>1. Teardown(CompletesWithoutObserver)
  <2>1. <<Creates(s1), Starts(s1, t1), Awaits(t1, {"completed"})>> \in Seq(Instruction)
    BY <1>0, Vocabulary
  <2> QED BY <2>1, Exits, ThenExits DEF CompletesWithoutObserver
<1>2. Teardown(CarriesContext)
  <2>1. <<Creates(s1), Starts(s1, t1), Awaits(t1, {"completed"}),
          Starts(s1, t2), Awaits(t2, {"completed"}), Recalls(t2, {t1}),
          Creates(s2), Starts(s2, t3), Awaits(t3, {"completed"}), Recalls(t3, {})>>
          \in Seq(Instruction)
    BY <1>0, Vocabulary
  <2> QED BY <2>1, Exits, ThenExits DEF CarriesContext
<1>3. Teardown(RejectsOverlap)
  <2>1. <<Creates(s1), Holds, Starts(s1, t1), UntilCalled(t1), CancelsWaiter(t1),
          StillRunning(t1), Refused(s1, "overlap"), LetsGo, Awaits(t1, {"completed"}), Unchanged(t1)>>
          \in Seq(Instruction)
    BY <1>0, Vocabulary
  <2> QED BY <2>1, Exits, ThenExits DEF RejectsOverlap
<1>4. Teardown(BoundsClose)
  <2>1. BoundsClose \in Seq(Instruction)
    BY <1>0, Vocabulary DEF BoundsClose
  <2>2. Len(BoundsClose) = 11 /\ BoundsClose[11] = UntilIdle /\ BoundsClose[10] = UntilClosed
    BY DEF BoundsClose
  <2>3. BoundsClose # <<>>
    BY <2>2 DEF BoundsClose
  <2> QED BY <2>1, <2>2, <2>3 DEF Teardown
<1>5. Teardown(ReusableAfterCancellation)
  <2>1. <<Creates(s1), Holds, Starts(s1, t1), UntilCalled(t1), Cancels(t1), UntilAnswered(t1),
          Awaits(t1, {"cancelled"}), LetsGo, Starts(s1, t2), Awaits(t2, {"completed"})>>
          \in Seq(Instruction)
    BY <1>0, Vocabulary
  <2> QED BY <2>1, Exits, ThenExits DEF ReusableAfterCancellation
<1>6. Teardown(LateCancellation)
  <2>1. <<Holds, Creates(s1), Starts(s1, t1), LetsGo, Awaits(t1, {"completed"}), Cancels(t1),
          UntilAnswered(t1), Unchanged(t1)>> \in Seq(Instruction)
    BY <1>0, Vocabulary
  <2> QED BY <2>1, Exits, ThenExits DEF LateCancellation
<1>7. Teardown(CloseSettlesActive)
  <2>1. <<Holds, Creates(s1), Creates(s2), Starts(s1, t1), Starts(s2, t2), UntilCalled(t1),
          UntilCalled(t2), Closes, UntilClosed, Awaits(t1, Stopped), Awaits(t2, Stopped),
          Refused(s1, "blocked"), Refused(s2, "blocked"), LetsGo, Closes, UntilClosed,
          Unchanged(t1), Unchanged(t2)>> \in Seq(Instruction)
    BY <1>0, Vocabulary
  <2> QED BY <2>1, Exits, ThenExits DEF CloseSettlesActive
<1>8. Teardown(ReleaseOutlivesCaller)
  <2>1. <<Holds, Creates(s1), Starts(s1, t1), UntilCalled(t1), Releases(s1),
          CancelsCaller(s1), Awaits(t1, Stopped), Refused(s1, "blocked"), Releases(s1),
          UntilReleased(s1), Unchanged(t1)>>
          \in Seq(Instruction)
    BY <1>0, Vocabulary
  <2> QED BY <2>1, Exits, ThenExits DEF ReleaseOutlivesCaller
<1>9. Teardown(CleanupKeepsCompleted)
  <2>1. <<Creates(s1), Starts(s1, t1), Awaits(t1, {"completed"}), Holds, Creates(s2),
          Starts(s2, t2), UntilCalled(t2), Closes, UntilClosed, Awaits(t2, TerminalStates),
          Unchanged(t1)>> \in Seq(Instruction)
    BY <1>0, Vocabulary
  <2> QED BY <2>1, Exits, ThenExits DEF CleanupKeepsCompleted
<1> QED BY <1>1, <1>2, <1>3, <1>4, <1>5, <1>6, <1>7, <1>8, <1>9 DEF RuntimeSuite, CleanupSuite

-----------------------------------------------------------------------------
(* The scenarios are runs of the adapter.                                  *)

LEMMA CallsAreSteps ==
  ASSUME NEW i \in Instruction, Calls(i)
  PROVE  \/ \E s \in Sessions : i.do = "create_session" /\ CreateSession(s)
         \/ \E s \in Sessions, t \in Tasks : i.do = "start_task" /\ StartTask(s, t)
         \/ \E s \in Sessions : i.do = "release" /\ Release(s)
         \/ i.do = "aclose" /\ Aclose
         \/ \E t \in Tasks : i.do = "request_cancellation" /\ RequestCancellation(t)
         \/ UNCHANGED vars
<1>1. CASE i.do = "create_session"
  BY <1>1, Addressed DEF Calls
<1>2. CASE i.do = "start_task"
  BY <1>2, Addressed DEF Calls
<1>3. CASE i.do = "release"
  BY <1>3, Addressed DEF Calls
<1>4. CASE i.do = "aclose"
  BY <1>4 DEF Calls
<1>5. CASE i.do = "request_cancellation"
  BY <1>5, Addressed DEF Calls
<1>6. CASE i.do \notin {"create_session", "start_task", "release", "aclose",
                        "request_cancellation"}
  BY <1>6 DEF Calls, WaiterCancelled, ReleaseCallerCancelled
<1> QED BY <1>1, <1>2, <1>3, <1>4, <1>5, <1>6

LEMMA GraphRunsAreSteps == ASSUME NEW t \in Tasks, GraphRuns(t) PROVE GraphStep(t)
BY DEF GraphRuns, GraphStep

LEMMA SuiteStep ==
  ASSUME script \in Seq(Instruction), [SuiteNext]_suiteVars
  PROVE  [Next]_vars
<1>1. CASE ScenarioStep
  <2>1. Head(script) \in Instruction /\ Calls(Head(script))
    BY <1>1, HeadTailProperties DEF ScenarioStep
  <2> QED BY <2>1, CallsAreSteps DEF Next
<1>2. CASE LoopStep
  BY <1>2, GraphRunsAreSteps DEF LoopStep, Next
<1>3. CASE UNCHANGED suiteVars
  BY <1>3 DEF suiteVars
<1> QED BY <1>1, <1>2, <1>3 DEF SuiteNext

\* What is left of a script ends as the script does.
LEMMA ScriptStep ==
  ASSUME script \in Seq(Instruction), [SuiteNext]_suiteVars
  PROVE  \/ script' = script
         \/ /\ script # <<>> /\ Head(script) \in Instruction /\ ScenarioStep
            /\ script' \in Seq(Instruction) /\ script' = Tail(script)
            /\ Len(script') = Len(script) - 1
            /\ \A i \in 1 .. Len(script') : script'[i] = script[i + 1]
<1>1. CASE ScenarioStep
  BY <1>1, HeadTailProperties DEF ScenarioStep
<1>2. CASE LoopStep \/ UNCHANGED suiteVars
  BY <1>2 DEF LoopStep, suiteVars
<1> QED BY <1>1, <1>2 DEF SuiteNext

LEMMA InitScript == SuiteInit => Teardown(script)
BY ScriptsTearDown DEF SuiteInit, Subscribed

\* What is proved of the adapter under any callers and any graph, model and checkpointer
\* holds in the suite: its scenarios, its model boundary and its event loop are a choice
\* among them.
THEOREM SuiteRunsTheAdapter == SuiteSpec => Spec
<1> DEFINE Scripted == script \in Seq(Instruction)
<1>1. SuiteInit => Init /\ Scripted
  BY InitScript DEF SuiteInit, Teardown
<1>2. Scripted /\ [SuiteNext]_suiteVars => Scripted'
  BY ScriptStep
<1>3. Scripted /\ [SuiteNext]_suiteVars => [Next]_vars
  BY SuiteStep
<1> HIDE DEF Scripted
<1> QED BY <1>1, <1>2, <1>3, PTL DEF SuiteSpec, Spec

-----------------------------------------------------------------------------
(* Nothing fails in the suite, and nothing is left behind.                 *)

\* No deletion fails, the close does not time out, and the harness forgets the sessions
\* whose release has ended.
Undisturbed(s) ==
  /\ s \in registry => release[s] # "done"
  /\ release[s] = "done" => released[s] = "ok" /\ ~DeleteSuspends
  /\ again[s] # "error"
  /\ thread[s] # {} => s \in opened

Orderly == /\ \A s \in Sessions : Undisturbed(s)
           /\ closer # "expired"
           /\ closer = "done" => registry = {}

LEMMA OrderlyStep ==
  ASSUME script \in Seq(Instruction), Invariants, Orderly, [SuiteNext]_suiteVars
  PROVE  Orderly'
<1> USE DEF graphVars, settleVars, taskVars, releaseVars, closeVars
<1>0. TypeOK
  BY DEF Invariants, Core
<1>1. ASSUME UNCHANGED <<release, released, again, thread, opened, registry, closer>>
      PROVE  Orderly'
  BY <1>1 DEF Orderly, Undisturbed
<1>2. ASSUME NEW t \in Tasks, GraphRuns(t) PROVE Orderly'
  <2>1. /\ GraphStep(t) /\ run[t] \in Live
        /\ UNCHANGED <<release, released, again, opened, registry, closer>>
    BY <1>2 DEF GraphRuns, GraphStep, RunBegins, RecordInput, CallModel, ModelReturns,
         RunReports, RunCancelled, RunEnds, Live
  <2>2. owner[t] \in opened
    BY <2>1 DEF Invariants, Closing, Started, Core, Linked, TaskLinks, Live
  <2>3. \A s \in Sessions \ {owner[t]} : thread'[s] = thread[s]
    BY <1>0, <1>2 DEF GraphRuns, RunBegins, RecordInput, CallModel, ModelReturns, RunReports,
         RunCancelled, RunEnds, TypeOK
  <2> QED BY <2>1, <2>2, <2>3 DEF Orderly, Undisturbed
<1>3. ASSUME NEW t \in Tasks, DoneCallbacks(t) PROVE Orderly'
  <2>1. /\ UNCHANGED <<release, released, thread, opened, registry, closer>>
        /\ \A s \in Sessions : again'[s] \in {again[s], "spawned"}
    BY <1>0, <1>3 DEF DoneCallbacks, TypeOK
  <2> QED BY <2>1 DEF Orderly, Undisturbed
<1>4. ASSUME NEW t \in Tasks,
             CancellationReturns(t) \/ RequestCancellation(t)
               \/ \E s \in Sessions : StartTask(s, t)
      PROVE  Orderly'
  BY <1>1, <1>4 DEF CancellationReturns, RequestCancellation, StartTask
<1>5. ASSUME NEW s \in Sessions, ReleaseBegins(s) \/ ReleaseStopWakes(s) \/ Release(s)
      PROVE  Orderly'
  <2>1. /\ UNCHANGED <<released, again, thread, opened, registry, closer>>
        /\ \A z \in Sessions : release'[z] = release[z] \/
                                 release'[z] \in {"scheduled", "stopping", "deleting"}
    BY <1>0, <1>5 DEF ReleaseBegins, ReleaseStopWakes, Release, BeginRelease, TypeOK
  <2> QED BY <2>1 DEF Orderly, Undisturbed
<1>6. ASSUME NEW s \in Sessions, DeleteAtOnce(s) PROVE Orderly'
  <2>1. /\ ~DeleteSuspends /\ UNCHANGED <<opened, closer>>
        /\ registry' = registry \ {s} /\ thread' = [thread EXCEPT ![s] = {}]
        /\ release' = [release EXCEPT ![s] = "done"]
        /\ released' = [released EXCEPT ![s] = "ok"]
        /\ \A z \in Sessions : again'[z] \in {again[z], "spawned"}
    BY <1>0, <1>6 DEF DeleteAtOnce, Detach, TypeOK
  <2> QED BY <1>0, <2>1 DEF Orderly, Undisturbed, TypeOK
<1>7. ASSUME NEW s \in Sessions, DeleteAgain(s) /\ again'[s] = "ok" PROVE Orderly'
  <2>1. /\ UNCHANGED <<release, released, opened, registry, closer>>
        /\ again' = [again EXCEPT ![s] = "ok"] /\ thread' = [thread EXCEPT ![s] = {}]
    BY <1>0, <1>7 DEF DeleteAgain, TypeOK
  <2> QED BY <1>0, <2>1 DEF Orderly, Undisturbed, TypeOK
<1>8. ASSUME NEW s \in Sessions, ReleaseReturns(s) PROVE Orderly'
  BY <1>1, <1>8 DEF ReleaseReturns
<1>9. ASSUME NEW s \in Sessions, CreateSession(s) PROVE Orderly'
  <2>1. /\ ~shut /\ s \notin opened
        /\ opened' = opened \cup {s} /\ registry' = registry \cup {s}
        /\ UNCHANGED <<release, released, again, thread, closer>>
    BY <1>9 DEF CreateSession
  <2>2. release[s] = "none" /\ closer = "none"
    BY <2>1 DEF Invariants, Books, Releasing, Closing
  <2> QED BY <2>1, <2>2 DEF Orderly, Undisturbed
<1>10. ASSUME Aclose PROVE Orderly'
  BY <1>10 DEF Aclose, Orderly, Undisturbed
<1>11. ASSUME CloseBegins PROVE Orderly'
  <2>1. /\ UNCHANGED <<released, again, thread, opened, registry>>
        /\ \A z \in Sessions : release'[z] \in {release[z], "scheduled"}
        /\ closer' = IF registry = {} THEN "done" ELSE "waiting"
    BY <1>11 DEF CloseBegins, BeginRelease
  <2> QED BY <2>1 DEF Orderly, Undisturbed
<1>12. ASSUME CloseReturns PROVE Orderly'
  <2>1. /\ UNCHANGED <<release, released, again, thread, opened, registry>>
        /\ closer \in {"waiting", "expired"} /\ closing \subseteq returned /\ closer' = "done"
    BY <1>12 DEF CloseReturns
  <2>2. \A s \in registry : s \in Sessions /\ release[s] = "done"
    BY <1>0, <2>1 DEF Invariants, Closing, TypeOK
  <2>3. registry = {}
    BY <2>2 DEF Orderly, Undisturbed
  <2> QED BY <2>1, <2>3 DEF Orderly, Undisturbed
<1>13. CASE LoopStep
  BY <1>2, <1>3, <1>4, <1>5, <1>6, <1>7, <1>8, <1>11, <1>12, <1>13 DEF LoopStep
<1>14. CASE ScenarioStep
  <2>1. Head(script) \in Instruction /\ Calls(Head(script))
    BY <1>14, HeadTailProperties DEF ScenarioStep
  <2> QED BY <1>1, <1>4, <1>5, <1>9, <1>10, <2>1, CallsAreSteps DEF vars
<1>15. CASE UNCHANGED suiteVars
  BY <1>1, <1>15 DEF suiteVars, vars
<1> QED BY <1>13, <1>14, <1>15 DEF SuiteNext

\* The harness is closed, or the script still waits for it; when the script is over, so
\* are the graph runs.
Unfinished ==
  /\ script \in Seq(Instruction)
  /\ script # <<>> => script[Len(script)] = UntilIdle
  /\ closer = "done" \/ \E k \in 1 .. Len(script) : script[k] = UntilClosed
  /\ script = <<>> => \A t \in Tasks : run[t] \notin Live

\* Once the harness is closed, no graph run starts.
LEMMA NoneStarts ==
  ASSUME Invariants, Orderly, closer = "done", \A t \in Tasks : run[t] \notin Live, [Next]_vars
  PROVE  UNCHANGED run
<1> USE DEF graphVars, settleVars, taskVars, releaseVars, closeVars
<1>1. \A s \in Sessions : ~Admits(s)
  BY DEF Invariants, Closing, Orderly, Admits
<1>2. \A t \in Tasks : ~GraphStep(t) /\ \A s \in Sessions : ~StartTask(s, t)
  BY <1>1 DEF GraphStep, RunBegins, RecordInput, CallModel, ModelReturns, RunReports,
       RunBreaksOff, RunReturnsNothing, RunFails, RunCancelled, Live, StartTask
<1> QED BY <1>2 DEF Next, vars, DoneCallbacks, RequestCancellation, CancellationReturns,
       CancellationAbandoned, CreateSession, Release, ReleaseBegins, ReleaseStopWakes,
       DeleteAtOnce, DeleteApplies, DeleteReturns, DeleteFails, DeleteAgain, ReleaseReturns,
       Aclose, CloseBegins, CloseExpires, CloseReturns, CloseTimesOut

LEMMA UnfinishedStep ==
  ASSUME Invariants, Orderly, Unfinished, [SuiteNext]_suiteVars
  PROVE  Unfinished'
<1>1. script \in Seq(Instruction) /\ [Next]_vars
  BY SuiteStep DEF Unfinished
<1>2. closer = "done" => closer' = "done"
  BY <1>1, BookChanges DEF Invariants, Core, Aclose, CloseBegins, CloseExpires, CloseReturns,
       CloseTimesOut
<1>3. CASE script' = script
  <2>1. CASE script # <<>>
    BY <1>2, <1>3, <2>1 DEF Unfinished
  <2>2. CASE script = <<>>
    <3>1. closer = "done"
      BY <2>2 DEF Unfinished
    <3> QED BY <1>1, <1>2, <1>3, <2>2, <3>1, NoneStarts DEF Unfinished
  <2> QED BY <2>1, <2>2
<1>4. CASE /\ script # <<>> /\ Head(script) \in Instruction /\ ScenarioStep
           /\ script' \in Seq(Instruction) /\ script' = Tail(script)
           /\ Len(script') = Len(script) - 1
           /\ \A i \in 1 .. Len(script') : script'[i] = script[i + 1]
  <2> DEFINE i == Head(script)
  <2>1. /\ i = script[1] /\ Ready(i) /\ Calls(i) /\ Len(script) \in Nat \ {0}
    BY <1>1, <1>4, EmptySeq DEF ScenarioStep
  <2>2. closer' = "done" \/ \E k \in 1 .. Len(script') : script'[k] = UntilClosed
    <3>1. CASE closer = "done"
      BY <1>2, <3>1
    <3>2. CASE i = UntilClosed
      <4>1. closer = "done"
        BY <2>1, <3>2 DEF Ready, UntilClosed
      <4> QED BY <1>2, <4>1
    <3>3. CASE closer # "done" /\ i # UntilClosed
      <4>1. PICK k \in 1 .. Len(script) : script[k] = UntilClosed
        BY <3>3 DEF Unfinished
      <4>2. k - 1 \in 1 .. Len(script') /\ script'[k - 1] = UntilClosed
        BY <1>4, <2>1, <3>3, <4>1
      <4> QED BY <4>2
    <3> QED BY <3>1, <3>2, <3>3
  <2>3. CASE script' # <<>>
    <3>1. Len(script') \in Nat \ {0}
      BY <1>4, <2>3, EmptySeq
    <3>2. script'[Len(script')] = UntilIdle
      BY <1>4, <2>1, <3>1 DEF Unfinished
    <3> QED BY <1>4, <2>2, <2>3, <3>2 DEF Unfinished
  <2>4. CASE script' = <<>>
    <3>1. Len(script') = 0
      BY <2>4
    <3>2. Len(script) = 1
      BY <1>4, <2>1, <3>1
    <3>3. i = UntilIdle
      BY <1>4, <2>1, <3>2 DEF Unfinished
    <3>4. UNCHANGED vars /\ \A t \in Tasks : run[t] \notin Live
      BY <2>1, <3>3 DEF Ready, Calls, UntilIdle, TasksDone, Live, Ended
    <3>5. \A t \in Tasks : run'[t] \notin Live
      BY <3>4 DEF vars, graphVars
    <3> QED BY <1>4, <2>2, <2>4, <3>5 DEF Unfinished
  <2> QED BY <2>3, <2>4
<1> QED BY <1>1, <1>3, <1>4, ScriptStep

\* When a scenario is over the harness knows no session, and whatever an outliving run left
\* of a thread is about to be deleted, for any sessions, tasks and replies.
THEOREM SuiteLeavesNothing == SuiteSpec => []NothingLeftBehind
<1>1. SuiteSpec => []Invariants
  BY SuiteRunsTheAdapter, CoreInvariant, ClosingInvariant, BooksInvariant,
     ReleasingInvariant, PTL DEF Invariants
<1>2. SuiteSpec => [](~DeleteSuspends => \A s \in Sessions : Swept(s))
  BY SuiteRunsTheAdapter, SweptInvariant, PTL
<1>3. SuiteInit => Orderly /\ Unfinished
  <2>1. SuiteInit => Orderly
    BY DEF SuiteInit, Init, Orderly, Undisturbed
  <2>2. SuiteInit => Unfinished
    BY InitScript DEF Teardown, Unfinished
  <2> QED BY <2>1, <2>2
<1>4. Invariants /\ Orderly /\ Unfinished /\ [SuiteNext]_suiteVars => Orderly' /\ Unfinished'
  BY OrderlyStep, UnfinishedStep DEF Unfinished
<1>5. Invariants /\ Orderly /\ Unfinished /\ (~DeleteSuspends => \A s \in Sessions : Swept(s))
        => NothingLeftBehind
  <2> SUFFICES ASSUME Invariants, Orderly, Unfinished, script = <<>>,
                      ~DeleteSuspends => \A s \in Sessions : Swept(s)
               PROVE  /\ registry = {}
                      /\ \A s \in Sessions : thread[s] # {} =>
                           \/ again[s] = "spawned"
                           \/ \E t \in Tasks : owner[t] = s /\ due[t] /\ deleteAfter[t]
    BY DEF NothingLeftBehind
  <2>1. closer = "done" /\ registry = {} /\ \A t \in Tasks : run[t] \notin Live
    BY DEF Unfinished, Orderly
  <2>2. ASSUME NEW s \in Sessions, thread[s] # {}
        PROVE  \/ again[s] = "spawned"
               \/ \E t \in Tasks : owner[t] = s /\ due[t] /\ deleteAfter[t]
    <3>1. s \in opened
      BY <2>2 DEF Orderly, Undisturbed
    <3>2. release[s] = "done"
      BY <2>1, <3>1 DEF Invariants, Closing
    <3>3. released[s] = "ok" /\ ~DeleteSuspends /\ again[s] # "error"
      BY <3>2 DEF Orderly, Undisturbed
    <3>4. SeenTo(s)
      BY <3>3 DEF Swept
    <3> QED BY <2>1, <2>2, <3>3, <3>4 DEF SeenTo
  <2> QED BY <2>1, <2>2
<1> QED BY <1>1, <1>2, <1>3, <1>4, <1>5, PTL DEF SuiteSpec

-----------------------------------------------------------------------------
(* What a scenario has done, as its first n instructions tell it.          *)

Shuts(sc, n)        == \E k \in 1 .. n : sc[k].do = "aclose"
LetsOut(sc, n, s)   == \E k \in 1 .. n : sc[k].do = "release" /\ sc[k].s = s
Begins(sc, n, s, t) == \E k \in 1 .. n : sc[k].do = "start_task" /\ sc[k].s = s /\ sc[k].t = t
Stops(sc, n, t)     == \E k \in 1 .. n : sc[k].do = "request_cancellation" /\ sc[k].t = t
Judges(sc, n, t, K) == \E k \in 1 .. n : sc[k].do = "outcome" /\ sc[k].t = t /\ sc[k].kinds \subseteq K

\* The session is still open, and nothing was done to stop the task.
Open(sc, n, s)  == ~Shuts(sc, n) /\ ~LetsOut(sc, n, s)
Alone(sc, n, t) == ~Stops(sc, n, t) /\ \E s \in Sessions : Begins(sc, n, s, t) /\ Open(sc, n, s)

\* Calls are held since instruction h, ...
Since(sc, n, h) == sc[h].do = "hold" /\ \A l \in h .. n : sc[l].do # "let_go"

\* ... and the task was begun under it.
Gated(sc, n, t) == \E h \in 1 .. n : /\ Since(sc, n, h)
                                     /\ \E k \in h .. n : sc[k].do = "start_task" /\ sc[k].t = t

\* The tasks its session had before.
Earlier(sc, n, t) ==
  {x \in Tasks : \E k \in 1 .. n : /\ sc[k].do = "start_task" /\ sc[k].t = t
                                   /\ Begins(sc, k - 1, sc[k].s, x)}

\* What it may assert there, with models that ignore cancellation or heed it.
MayStart(sc, n, s) ==
  /\ Open(sc, n, s)
  /\ \A x \in Tasks : Begins(sc, n, s, x) => Judges(sc, n, x, TerminalStates \ {"unresolved"})

MayJudge(sc, n, t, kinds, stubborn) ==
  /\ "completed" \in kinds \/ Gated(sc, n, t)
  /\ "cancelled" \in kinds \/ Alone(sc, n, t)
  /\ "unresolved" \in kinds \/ Alone(sc, n, t) \/ ~stubborn

MayRecall(sc, n, t, known) ==
  /\ Judges(sc, n, t, {"completed"}) /\ known = Earlier(sc, n, t)
  /\ \A s \in Sessions : Open(sc, n, s)
  /\ \A x \in Tasks : ~Stops(sc, n, x)

May(sc, n, i, stubborn) ==
  CASE i.do = "start_task"    -> MayStart(sc, n, i.s)
    [] i.do = "start_refused" ->
         IF i.why = "blocked" THEN ~Open(sc, n, i.s)
         ELSE \E t \in Tasks : /\ i.why = "overlap" /\ Begins(sc, n, i.s, t)
                               /\ Alone(sc, n, t) /\ Gated(sc, n, t)
    [] i.do = "outcome"       -> MayJudge(sc, n, i.t, i.kinds, stubborn)
    [] i.do = "same_outcome"  -> Judges(sc, n, i.t, TerminalStates)
    [] i.do = "not_terminal"  -> Alone(sc, n, i.t) /\ Gated(sc, n, i.t)
    [] i.do = "context"       -> MayRecall(sc, n, i.t, i.known)
    [] OTHER                  -> TRUE

Prepared(sc, stubborn) == \A j \in 1 .. Len(sc) : May(sc, j - 1, sc[j], stubborn)

-----------------------------------------------------------------------------
(* Where the adapter then is.                                              *)

\* The scenario is sc, and n of its instructions are done.
At(sc, n) == /\ sc \in Seq(Instruction) /\ n \in 0 .. Len(sc)
             /\ script \in Seq(Instruction) /\ Len(script) = Len(sc) - n
             /\ \A i \in 1 .. Len(script) : script[i] = sc[n + i]

\* Tasks are started, sessions and the harness closed, and runs asked to end, as the
\* scenario says and not otherwise.
Obeyed(sc, n) ==
  /\ shut <=> Shuts(sc, n)
  /\ closer = "none" => ~shut
  /\ \A s \in Sessions :
       /\ closed[s] <=> release[s] # "none"
       /\ LetsOut(sc, n, s) => closed[s]
       /\ closed[s] => ~Open(sc, n, s)
       /\ \A t \in Tasks : Begins(sc, n, s, t) <=> owner[t] = s
  /\ \A t \in Tasks : cancelSent[t] => Started(t) /\ ~Alone(sc, n, t)

\* The end of a cancelled run may not show that its work has stopped.
Unsure == ignoring \/ ~ConfirmsWorkStopped

\* Runs end, and are judged, as the model boundary of the suite lets them.
Fated(t) ==
  /\ run[t] \notin {"empty", "failed"}
  /\ run[t] = "cancelled" => cancelSent[t]
  /\ Settled(t) => /\ outcome[t].kind \in TerminalStates \ {"failed"}
                   /\ outcome[t].kind = state[t]
                   /\ outcome[t].kind = "completed" => run[t] = "returned"
                   /\ outcome[t].kind = "cancelled" => run[t] = "cancelled"
                   /\ outcome[t].kind = "unresolved" => Unsure /\ cancelSent[t]

\* The scenario knows the outcomes it awaited.
Known(sc, n) ==
  \A t \in Tasks : \A K \in SUBSET TerminalStates :
    Judges(sc, n, t, K) => /\ Settled(t) /\ seen[t] = outcome[t]
                           /\ outcome[t].kind \in K

\* No model replies behind the gate.
Behind(sc, n) ==
  /\ (\E h \in 1 .. n : Since(sc, n, h)) => held
  /\ \A t \in Tasks : Gated(sc, n, t) => run[t] \notin {"replied", "returned"}

\* A session has one task after the other.
Ordered(sc, n) ==
  /\ \A t \in Tasks : \A x \in Earlier(sc, n, t) : run[x] \in Ended /\ owner[x] = owner[t]
  /\ \A t, x \in Tasks :
       owner[t] = owner[x] /\ owner[t] # NoSession /\ t # x =>
         x \in Earlier(sc, n, t) \/ t \in Earlier(sc, n, x)

Input  == {"recorded", "model", "replied", "returned"}
Reply == {"replied", "returned"}

\* While nothing is closed or cancelled, a thread stores what its tasks said, and a task
\* works on what those before it said.
Calm == (\A s \in Sessions : ~closed[s]) /\ (\A t \in Tasks : ~cancelSent[t])

Stores(x) ==
  \A s \in Sessions : /\ <<x, "input">> \in thread[s] <=> owner[x] = s /\ run[x] \in Input
                      /\ <<x, "reply">> \in thread[s] <=> owner[x] = s /\ run[x] \in Reply

Hears(sc, n, t) ==
  \A x \in Tasks :
    /\ <<x, "input">> \in context[t] <=> x = t \/ x \in Earlier(sc, n, t)
    /\ <<x, "reply">> \in context[t] <=> (x = t /\ run[t] \in Reply) \/ x \in Earlier(sc, n, t)

Remembered(sc, n) ==
  Calm => \A t \in Tasks : Stores(t) /\ (run[t] \in Input => Hears(sc, n, t))

Facts(sc, n) == /\ Obeyed(sc, n) /\ Known(sc, n) /\ Behind(sc, n) /\ Ordered(sc, n)
                /\ Remembered(sc, n) /\ \A t \in Tasks : Fated(t)

-----------------------------------------------------------------------------
(* One more instruction.                                                   *)

\* Whom an instruction is about.
LEMMA Spoken ==
  ASSUME NEW i \in Instruction
  PROVE  /\ i.do \in {"create_session", "start_task", "start_refused", "release"}
              => i.s \in Sessions
         /\ i.do \in {"start_task", "request_cancellation", "outcome", "same_outcome",
                      "not_terminal", "context"} => i.t \in Tasks
         /\ i.do = "outcome" => i.kinds \in SUBSET TerminalStates
         /\ i.do = "context" => i.known \in SUBSET Tasks
<1>1. CASE i \in OnHarness
  BY <1>1 DEF OnHarness, Closes, Holds, LetsGo, UntilClosed, UntilIdle
<1>2. ASSUME NEW s \in Sessions, i \in OnSession(s)
      PROVE  /\ i.s = s
             /\ i.do = "start_task" => i.t \in Tasks
             /\ i.do \in {"create_session", "release", "until_released", "start_refused",
                          "start_task", "cancel_release"}
  <2>1. CASE \E t \in Tasks : i = Starts(s, t)
    BY <2>1 DEF Starts
  <2>2. CASE ~\E t \in Tasks : i = Starts(s, t)
    BY <1>2, <2>2 DEF OnSession, Creates, Releases, UntilReleased, Refused, CancelsCaller
  <2> QED BY <2>1, <2>2
<1>3. ASSUME NEW t \in Tasks, i \in OnTask(t)
      PROVE  /\ i.t = t
             /\ i.do = "outcome" => i.kinds \in SUBSET TerminalStates
             /\ i.do = "context" => i.known \in SUBSET Tasks
             /\ i.do \in {"request_cancellation", "until_called", "until_answered",
                          "same_outcome", "not_terminal", "outcome", "context",
                          "cancel_waiter"}
  <2>1. CASE \E kinds \in SUBSET TerminalStates : i = Awaits(t, kinds)
    BY <2>1 DEF Awaits
  <2>2. CASE \E known \in SUBSET Tasks : i = Recalls(t, known)
    BY <2>2 DEF Recalls
  <2>3. CASE i \in {Cancels(t), UntilCalled(t), UntilAnswered(t), Unchanged(t),
                    StillRunning(t), CancelsWaiter(t)}
    BY <2>3 DEF Cancels, UntilCalled, UntilAnswered, Unchanged, StillRunning, CancelsWaiter
  <2> QED BY <1>3, <2>1, <2>2, <2>3 DEF OnTask
<1> QED BY <1>1, <1>2, <1>3, InstructionParts

\* The scenario goes on with its next instruction, or the event loop runs.
LEMMA Advance ==
  ASSUME NEW sc, NEW n, At(sc, n), [SuiteNext]_suiteVars
  PROVE  \/ At(sc, n)' /\ (LoopStep \/ UNCHANGED suiteVars)
         \/ /\ At(sc, n + 1)' /\ ScenarioStep
            /\ n + 1 \in 1 .. Len(sc) /\ Head(script) = sc[n + 1] /\ sc[n + 1] \in Instruction
<1>1. CASE LoopStep \/ UNCHANGED suiteVars
  BY <1>1 DEF LoopStep, suiteVars, At
<1>2. CASE ScenarioStep
  <2>1. script # <<>> /\ script' = Tail(script) /\ script \in Seq(Instruction)
    BY <1>2 DEF ScenarioStep, At
  <2>2. /\ Len(script) \in Nat \ {0} /\ Len(script') = Len(script) - 1
        /\ script' \in Seq(Instruction) /\ Head(script) = script[1]
        /\ \A i \in 1 .. Len(script') : script'[i] = script[i + 1]
    BY <2>1, HeadTailProperties, EmptySeq
  <2>3. /\ sc \in Seq(Instruction) /\ n \in Nat /\ Len(sc) \in Nat /\ Len(script) = Len(sc) - n
        /\ \A i \in 1 .. Len(script) : script[i] = sc[n + i]
    BY DEF At
  <2>4. n + 1 \in 1 .. Len(sc) /\ Head(script) = sc[n + 1] /\ sc[n + 1] \in Instruction
    BY <2>2, <2>3
  <2>5. \A i \in 1 .. Len(script') : script'[i] = sc[(n + 1) + i]
    <3> SUFFICES ASSUME NEW i \in 1 .. Len(script') PROVE script'[i] = sc[(n + 1) + i]
      OBVIOUS
    <3>1. i + 1 \in 1 .. Len(script) /\ n + (i + 1) = (n + 1) + i
      BY <2>2, <2>3
    <3> QED BY <2>2, <2>3, <3>1
  <2> QED BY <1>2, <2>2, <2>3, <2>4, <2>5 DEF At
<1> QED BY <1>1, <1>2 DEF SuiteNext

\* What is done once the instruction after the first n is.
LEMMA Grows ==
  ASSUME NEW sc, NEW n \in Nat, NEW i, i = sc[n + 1]
  PROVE  /\ Shuts(sc, n + 1) <=> Shuts(sc, n) \/ i.do = "aclose"
         /\ \A s : LetsOut(sc, n + 1, s) <=> LetsOut(sc, n, s) \/ (i.do = "release" /\ i.s = s)
         /\ \A s, t : Begins(sc, n + 1, s, t) <=>
              Begins(sc, n, s, t) \/ (i.do = "start_task" /\ i.s = s /\ i.t = t)
         /\ \A t : Stops(sc, n + 1, t) <=>
              Stops(sc, n, t) \/ (i.do = "request_cancellation" /\ i.t = t)
<1>1. \A k : k \in 1 .. (n + 1) <=> k \in 1 .. n \/ k = n + 1
  OBVIOUS
<1> QED BY <1>1 DEF Shuts, LetsOut, Begins, Stops

\* The instruction awaits an outcome in K of t.
Asks(i, t, K) == i.do = "outcome" /\ i.t = t /\ i.kinds \subseteq K

LEMMA AwaitsGrow ==
  ASSUME NEW sc, NEW n \in Nat, NEW i, i = sc[n + 1]
  PROVE  \A t, K : Judges(sc, n + 1, t, K) <=> Judges(sc, n, t, K) \/ Asks(i, t, K)
<1>1. \A k : k \in 1 .. (n + 1) <=> k \in 1 .. n \/ k = n + 1
  OBVIOUS
<1> QED BY <1>1 DEF Judges, Asks

LEMMA GateGrows ==
  ASSUME NEW sc, NEW n \in Nat, NEW i, i = sc[n + 1]
  PROVE  /\ (\E h \in 1 .. (n + 1) : Since(sc, n + 1, h)) =>
              i.do # "let_go" /\ (i.do = "hold" \/ \E h \in 1 .. n : Since(sc, n, h))
         /\ \A t : Gated(sc, n + 1, t) =>
              i.do # "let_go" /\ (Gated(sc, n, t) \/ (i.do = "start_task" /\ i.t = t))
<1>1. ASSUME NEW h \in 1 .. (n + 1), Since(sc, n + 1, h)
      PROVE  i.do # "let_go" /\ (h = n + 1 \/ (h \in 1 .. n /\ Since(sc, n, h)))
  BY <1>1 DEF Since
<1>2. ASSUME NEW t, Gated(sc, n + 1, t)
      PROVE  i.do # "let_go" /\ (Gated(sc, n, t) \/ (i.do = "start_task" /\ i.t = t))
  <2>1. PICK h \in 1 .. (n + 1) : /\ Since(sc, n + 1, h)
                                  /\ \E k \in h .. (n + 1) : sc[k].do = "start_task" /\ sc[k].t = t
    BY <1>2 DEF Gated
  <2>2. PICK k \in h .. (n + 1) : sc[k].do = "start_task" /\ sc[k].t = t
    BY <2>1
  <2>3. i.do # "let_go" /\ (h = n + 1 \/ (h \in 1 .. n /\ Since(sc, n, h)))
    BY <1>1, <2>1
  <2>4. CASE k = n + 1
    BY <2>2, <2>3, <2>4
  <2>5. CASE k # n + 1
    <3>1. k \in h .. n /\ h \in 1 .. n /\ h # n + 1
      BY <2>5
    <3> QED BY <2>2, <2>3, <3>1 DEF Gated
  <2> QED BY <2>4, <2>5
<1>3. ASSUME \E h \in 1 .. (n + 1) : Since(sc, n + 1, h)
      PROVE  i.do # "let_go" /\ (i.do = "hold" \/ \E h \in 1 .. n : Since(sc, n, h))
  <2>1. PICK h \in 1 .. (n + 1) : Since(sc, n + 1, h)
    BY <1>3
  <2> QED BY <1>1, <2>1 DEF Since
<1> QED BY <1>2, <1>3

LEMMA OrderGrows ==
  ASSUME NEW sc, NEW n \in Nat, NEW i, i = sc[n + 1], NEW t \in Tasks
  PROVE  /\ i.do = "start_task" /\ i.t = t =>
              Earlier(sc, n + 1, t) = Earlier(sc, n, t) \cup {x \in Tasks : Begins(sc, n, i.s, x)}
         /\ ~(i.do = "start_task" /\ i.t = t) => Earlier(sc, n + 1, t) = Earlier(sc, n, t)
<1>1. \A k : k \in 1 .. (n + 1) <=> k \in 1 .. n \/ k = n + 1
  OBVIOUS
<1>2. (n + 1) - 1 = n
  OBVIOUS
<1>3. \A x \in Tasks : x \in Earlier(sc, n + 1, t) <=>
        x \in Earlier(sc, n, t) \/ (i.do = "start_task" /\ i.t = t /\ Begins(sc, n, i.s, x))
  BY <1>1, <1>2 DEF Earlier
<1>4. \A m : Earlier(sc, m, t) \subseteq Tasks
  BY DEF Earlier
<1>5. CASE i.do = "start_task" /\ i.t = t
  BY <1>3, <1>4, <1>5
<1>6. CASE ~(i.do = "start_task" /\ i.t = t)
  BY <1>3, <1>4, <1>6
<1> QED BY <1>5, <1>6

\* The calls of a scenario whose assertions hold.
LEMMA CallEffects ==
  ASSUME NEW i \in Instruction, Calls(i), Holding(i)
  PROVE  /\ i.do = "create_session" => CreateSession(i.s)
         /\ i.do = "start_task" => StartTask(i.s, i.t)
         /\ i.do = "release" => Release(i.s) \/ (release[i.s] # "none" /\ UNCHANGED vars)
         /\ i.do = "aclose" => Aclose \/ (closer # "none" /\ UNCHANGED vars)
         /\ i.do = "request_cancellation" =>
              RequestCancellation(i.t) \/ (Settled(i.t) /\ UNCHANGED vars)
         /\ i.do \notin {"create_session", "start_task", "release", "aclose",
                         "request_cancellation"} => UNCHANGED vars
<1>1. CASE i.do = "create_session"
  BY <1>1 DEF Calls
<1>2. CASE i.do = "start_task"
  BY <1>2 DEF Calls, Holding
<1>3. CASE i.do = "release"
  BY <1>3 DEF Calls
<1>4. CASE i.do = "aclose"
  BY <1>4 DEF Calls
<1>5. CASE i.do = "request_cancellation"
  BY <1>5 DEF Calls
<1>6. CASE i.do \notin {"create_session", "start_task", "release", "aclose",
                        "request_cancellation"}
  BY <1>6 DEF Calls, WaiterCancelled, ReleaseCallerCancelled
<1> QED BY <1>1, <1>2, <1>3, <1>4, <1>5, <1>6

-----------------------------------------------------------------------------
(* The adapter does as it is told.                                         *)

LEMMA ObeyedLoop ==
  ASSUME NEW sc, NEW n, Invariants, Obeyed(sc, n), LoopStep
  PROVE  Obeyed(sc, n)'
<1> USE DEF graphVars, settleVars, taskVars, releaseVars, closeVars
<1>0. TypeOK /\ Linked /\ \A s \in Sessions : Releasing(s)
  BY DEF Invariants, Core
<1>1. ASSUME UNCHANGED <<shut, closer, closed, release, owner, cancelSent>>
      PROVE  Obeyed(sc, n)'
  BY <1>1 DEF Obeyed, Started
<1>2. ASSUME NEW t \in Tasks, GraphRuns(t) \/ DoneCallbacks(t) \/ CancellationReturns(t)
      PROVE  Obeyed(sc, n)'
  BY <1>1, <1>2 DEF GraphRuns, RunBegins, RecordInput, CallModel, ModelReturns, RunReports,
       RunCancelled, RunEnds, DoneCallbacks, CancellationReturns
<1>3. ASSUME NEW s \in Sessions, \/ ReleaseStopWakes(s) \/ DeleteAtOnce(s) \/ DeleteAgain(s)
                                 \/ ReleaseReturns(s)
      PROVE  Obeyed(sc, n)'
  <2>1. /\ UNCHANGED <<shut, closer, closed, owner, cancelSent>>
        /\ \A z \in Sessions : release'[z] # "none" <=> release[z] # "none"
    BY <1>0, <1>3 DEF ReleaseStopWakes, DeleteAtOnce, Detach, DeleteAgain, ReleaseReturns, TypeOK
  <2> QED BY <2>1 DEF Obeyed, Started
<1>4. ASSUME NEW s \in Sessions, ReleaseBegins(s) PROVE Obeyed(sc, n)'
  <2>1. /\ UNCHANGED <<shut, closer, closed, owner>>
        /\ \A z \in Sessions : release'[z] # "none" <=> release[z] # "none"
        /\ \A t \in Tasks : cancelSent'[t] => cancelSent[t] \/ t = running[s]
        /\ closed[s]
    BY <1>0, <1>4 DEF ReleaseBegins, CancelGraphRuns, TypeOK, Releasing
  <2>2. ASSUME NEW t \in Tasks, t = running[s] PROVE Started(t) /\ ~Alone(sc, n, t)
    <3>1. owner[t] = s /\ ~Open(sc, n, s)
      BY <1>0, <2>1, <2>2, NoTaskAssumption DEF Linked, SessionLinks, Obeyed
    <3> QED BY <3>1, NoSessionAssumption DEF Obeyed, Alone, Started
  <2> QED BY <2>1, <2>2 DEF Obeyed, Started
<1>5. ASSUME CloseBegins PROVE Obeyed(sc, n)'
  <2>1. /\ UNCHANGED <<shut, owner, cancelSent>> /\ closer' # "none" /\ shut
        /\ \A z \in Sessions : \/ closed'[z] = closed[z] /\ release'[z] = release[z]
                               \/ closed'[z] /\ release'[z] # "none"
    BY <1>0, <1>5 DEF CloseBegins, BeginRelease, TypeOK, Invariants, Closing
  <2>2. \A z \in Sessions : ~Open(sc, n, z)
    BY <2>1 DEF Obeyed, Open
  <2> QED BY <2>1, <2>2 DEF Obeyed, Started
<1>6. ASSUME CloseReturns PROVE Obeyed(sc, n)'
  <2>1. UNCHANGED <<shut, closed, release, owner, cancelSent>> /\ closer' # "none"
    BY <1>6 DEF CloseReturns
  <2> QED BY <2>1 DEF Obeyed, Started
<1> QED BY <1>2, <1>3, <1>4, <1>5, <1>6 DEF LoopStep

LEMMA ObeyedCall ==
  ASSUME NEW sc, NEW n \in Nat, NEW i \in Instruction, i = sc[n + 1],
         Invariants, Obeyed(sc, n), Calls(i), Holding(i)
  PROVE  Obeyed(sc, n + 1)'
<1> USE DEF graphVars, settleVars, taskVars, releaseVars, closeVars
<1>0. TypeOK /\ Linked /\ \A s \in Sessions : Releasing(s)
  BY DEF Invariants, Core
<1>1. /\ Shuts(sc, n + 1) <=> Shuts(sc, n) \/ i.do = "aclose"
      /\ \A s : LetsOut(sc, n + 1, s) <=> LetsOut(sc, n, s) \/ (i.do = "release" /\ i.s = s)
      /\ \A s, t : Begins(sc, n + 1, s, t) <=>
           Begins(sc, n, s, t) \/ (i.do = "start_task" /\ i.s = s /\ i.t = t)
      /\ \A t : Stops(sc, n + 1, t) <=>
           Stops(sc, n, t) \/ (i.do = "request_cancellation" /\ i.t = t)
  BY Grows
<1>2. /\ \A s : Open(sc, n + 1, s) => Open(sc, n, s)
      /\ \A t : Alone(sc, n + 1, t) => Alone(sc, n, t) \/ (i.do = "start_task" /\ i.t = t)
  BY <1>1 DEF Open, Alone
<1>3. CASE i.do = "start_task"
  <2>1. StartTask(i.s, i.t) /\ i.s \in Sessions /\ i.t \in Tasks
    BY <1>3, CallEffects, Spoken
  <2>2. /\ UNCHANGED <<shut, closer, closed, release, cancelSent>>
        /\ owner[i.t] = NoSession /\ owner' = [owner EXCEPT ![i.t] = i.s]
    BY <2>1 DEF StartTask
  <2>3. ~cancelSent[i.t] /\ \A s \in Sessions : ~Begins(sc, n, s, i.t)
    BY <2>1, <2>2, NoSessionAssumption DEF Obeyed, Started
  <2>4. \A t \in Tasks : cancelSent'[t] => owner'[t] # NoSession /\ ~Alone(sc, n + 1, t)
    BY <1>0, <1>2, <2>1, <2>2, <2>3, NoSessionAssumption DEF Obeyed, Started, TypeOK
  <2>5. \A s \in Sessions, t \in Tasks : Begins(sc, n + 1, s, t) <=> owner'[t] = s
    BY <1>0, <1>1, <1>3, <2>1, <2>2, <2>3, NoSessionAssumption DEF Obeyed, TypeOK
  <2> QED BY <1>1, <1>2, <1>3, <2>2, <2>4, <2>5 DEF Obeyed, Started, Open
<1>4. CASE i.do = "release"
  <2>1. /\ i.s \in Sessions /\ UNCHANGED <<shut, closer, owner, cancelSent>>
        /\ \A z \in Sessions : \/ closed'[z] = closed[z] /\ release'[z] = release[z]
                               \/ closed'[z] /\ release'[z] # "none" /\ z = i.s
        /\ release'[i.s] # "none" /\ closed'[i.s]
    <3>1. i.s \in Sessions
      BY <1>4, Spoken
    <3>2. CASE Release(i.s)
      BY <1>0, <3>1, <3>2 DEF Release, BeginRelease, TypeOK
    <3>3. CASE release[i.s] # "none" /\ UNCHANGED vars
      BY <1>0, <3>1, <3>3 DEF vars, Releasing
    <3> QED BY <1>4, <3>1, <3>2, <3>3, CallEffects
  <2>2. ~Open(sc, n + 1, i.s)
    BY <1>1, <1>4 DEF Open
  <2> QED BY <1>1, <1>2, <1>4, <2>1, <2>2 DEF Obeyed, Started
<1>5. CASE i.do = "aclose"
  <2>1. /\ UNCHANGED <<closed, release, owner, cancelSent>> /\ shut' /\ closer' # "none"
    BY <1>5, CallEffects DEF Aclose, vars, Invariants, Closing
  <2> QED BY <1>1, <1>2, <1>5, <2>1 DEF Obeyed, Started
<1>6. CASE i.do = "request_cancellation"
  <2>1. /\ i.t \in Tasks /\ UNCHANGED <<shut, closer, closed, release, owner>>
        /\ \A t \in Tasks : cancelSent'[t] => cancelSent[t] \/ (t = i.t /\ owner[t] # NoSession)
    <3>1. i.t \in Tasks
      BY <1>6, Spoken
    <3>2. CASE RequestCancellation(i.t)
      BY <1>0, <3>1, <3>2 DEF RequestCancellation, CancelGraphRuns, TypeOK, Linked, TaskLinks
    <3>3. CASE UNCHANGED vars
      BY <3>1, <3>3 DEF vars
    <3> QED BY <1>6, <3>1, <3>2, <3>3, CallEffects
  <2>2. ~Alone(sc, n + 1, i.t)
    BY <1>1, <1>6 DEF Alone
  <2> QED BY <1>1, <1>2, <1>6, <2>1, <2>2 DEF Obeyed, Started, Open
<1>7. CASE i.do = "create_session"
  <2>1. UNCHANGED <<shut, closer, closed, release, owner, cancelSent>>
    BY <1>7, CallEffects DEF CreateSession
  <2> QED BY <1>1, <1>2, <1>7, <2>1 DEF Obeyed, Started, Open
<1>8. CASE i.do \notin {"create_session", "start_task", "release", "aclose",
                        "request_cancellation"}
  <2>1. UNCHANGED <<shut, closer, closed, release, owner, cancelSent>>
    BY <1>8, CallEffects DEF vars
  <2> QED BY <1>1, <1>2, <1>8, <2>1 DEF Obeyed, Started, Open
<1> QED BY <1>3, <1>4, <1>5, <1>6, <1>7, <1>8

-----------------------------------------------------------------------------
(* Runs end, and are judged, as the suite lets them.                       *)

\* A wait of stop() ends by its bound only for a run that ignores its cancellation.
LEMMA SuiteStops ==
  ASSUME Core, NEW t \in Tasks, run[t] # "none",
         NEW reason \in Reasons \ {"none"}, StopWakes(t, reason), GraphUnchanged,
         UNCHANGED cancelSent, cancelSent[t] \/ run[t] \in Ended, Expired(t)
  PROVE  /\ Kept(t) \/ JudgedByEnd(t) \/ (JudgedByForce(t) /\ ignoring /\ cancelSent[t])
         /\ \A x \in Tasks \ {t} : Kept(x)
<1>1. /\ Kept(t) \/ JudgedByEnd(t) \/ JudgedByForce(t)
      /\ \A x \in Tasks \ {t} : Kept(x)
  BY StopJudges DEF Core
<1>2. CASE run[t] \in Ended
  BY <1>2, GraphRunEndedJudges DEF StopWakes, Core
<1>3. CASE run[t] \notin Ended
  <2>1. run[t] \in Live /\ cancelSent[t] /\ ~Runnable(t)
    BY <1>3 DEF Expired, Core, TypeOK
  <2>2. ignoring
    BY <2>1 DEF Runnable, Cancellable
  <2> QED BY <1>1, <2>1, <2>2
<1> QED BY <1>2, <1>3

LEMMA SuiteJudges ==
  ASSUME Core, LoopStep, NEW t \in Tasks
  PROVE  \/ Kept(t) \/ RunBegins(t) \/ RunReports(t) \/ JudgedByEnd(t)
         \/ JudgedByForce(t) /\ ignoring /\ cancelSent[t]
<1> USE DEF graphVars, settleVars, taskVars, releaseVars, closeVars
<1> DEFINE Goal == \/ Kept(t) \/ RunBegins(t) \/ RunReports(t) \/ JudgedByEnd(t)
                   \/ JudgedByForce(t) /\ ignoring /\ cancelSent[t]
<1>1. ASSUME NEW x \in Tasks, GraphRuns(x) PROVE Goal
  <2>1. CASE RunBegins(x) \/ RunReports(x)
    <3>1. x # t => Kept(t)
      BY <2>1 DEF RunBegins, RunReports, Kept, Core, TypeOK
    <3> QED BY <2>1, <3>1
  <2>2. CASE ~(RunBegins(x) \/ RunReports(x))
    BY <1>1, <2>2 DEF GraphRuns, RecordInput, CallModel, ModelReturns, RunCancelled, RunEnds, Kept
  <2> QED BY <2>1, <2>2
<1>2. ASSUME NEW x \in Tasks, DoneCallbacks(x) PROVE Goal
  <2>1. run[x] \in Ended /\ GraphRunEnded(x) /\ GraphUnchanged
    BY <1>2 DEF DoneCallbacks, Core, Linked, TaskLinks, GraphUnchanged
  <2> QED BY <2>1, GraphRunEndedJudges DEF Core
<1>3. ASSUME NEW x \in Tasks, CancellationReturns(x), Expired(x) PROVE Goal
  <2>1. /\ run[x] # "none" /\ GraphUnchanged /\ UNCHANGED cancelSent
        /\ StopWakes(x, "cancellation_unconfirmed")
        /\ cancelSent[x] \/ run[x] \in Ended
    BY <1>3 DEF CancellationReturns, Core, Linked, TaskLinks, Requested, GraphUnchanged
  <2> QED BY <1>3, <2>1, SuiteStops DEF Reasons
<1>4. ASSUME NEW s \in Sessions, ReleaseStopWakes(s), Expired(stopping[s]) PROVE Goal
  <2> DEFINE x == stopping[s]
  <2>1. x \in Tasks /\ owner[x] = s
    BY <1>4 DEF ReleaseStopWakes, Core, Linked, SessionLinks, TypeOK
  <2>2. /\ run[x] # "none" /\ GraphUnchanged /\ UNCHANGED cancelSent
        /\ StopWakes(x, "cleanup_bound_exceeded")
        /\ cancelSent[x] \/ run[x] \in Ended
    BY <1>4, <2>1, NoSessionAssumption
    DEF ReleaseStopWakes, Core, Linked, TaskLinks, Requested, GraphUnchanged
  <2>3. Expired(x)
    BY <1>4
  <2> HIDE DEF x
  <2> QED BY <2>1, <2>2, <2>3, SuiteStops DEF Reasons
<1>5. ASSUME NEW s \in Sessions, \/ ReleaseBegins(s) \/ DeleteAtOnce(s) \/ DeleteAgain(s)
                                 \/ ReleaseReturns(s)
      PROVE  Goal
  BY <1>5 DEF ReleaseBegins, DeleteAtOnce, DeleteAgain, ReleaseReturns, Kept
<1>6. ASSUME CloseBegins \/ CloseReturns PROVE Goal
  BY <1>6 DEF CloseBegins, CloseReturns, Kept
<1> HIDE DEF Goal
<1>7. Goal
  BY <1>1, <1>2, <1>3, <1>4, <1>5, <1>6 DEF LoopStep
<1> QED BY <1>7 DEF Goal

\* The runs of the suite: none fails, and none is cancelled unasked.
LEMMA SuiteRuns ==
  ASSUME Core, LoopStep, NEW t \in Tasks, Fated(t)
  PROVE  /\ run'[t] \notin {"empty", "failed"}
         /\ run'[t] = "cancelled" => cancelSent'[t]
<1> USE DEF graphVars, settleVars, taskVars, releaseVars, closeVars
<1>1. ASSUME NEW x \in Tasks, GraphRuns(x)
      PROVE  /\ UNCHANGED cancelSent
             /\ run'[t] \in {run[t], "entered", "recorded", "model", "replied", "returned"}
                  \/ (run'[t] = "cancelled" /\ cancelSent[t])
  BY <1>1 DEF GraphRuns, RunBegins, RecordInput, CallModel, ModelReturns, RunReports,
       RunCancelled, RunEnds, Core, TypeOK
<1>2. CASE \A x \in Tasks : ~GraphRuns(x)
  <2>1. UNCHANGED run /\ (cancelSent[t] => cancelSent'[t])
    BY <1>2 DEF LoopStep, DoneCallbacks, CancellationReturns, ReleaseBegins, ReleaseStopWakes,
         DeleteAtOnce, DeleteAgain, ReleaseReturns, CloseBegins, CloseReturns, CancelGraphRuns,
         Core, TypeOK
  <2> QED BY <2>1 DEF Fated
<1> QED BY <1>1, <1>2 DEF Fated

LEMMA FatedLoop ==
  ASSUME Core, LoopStep, NEW t \in Tasks, Fated(t)
  PROVE  Fated(t)'
<1>1. [Next]_vars /\ UNCHANGED ignoring
  BY GraphRunsAreSteps DEF LoopStep, Next
<1>2. Core'
  BY <1>1, CoreStep
<1>3. run[t] \in Ended => run'[t] = run[t]
  BY <1>1, Monotone DEF Core
<1>4. cancelSent[t] => cancelSent'[t]
  BY <1>1, Monotone DEF Core
<1>5. /\ run'[t] \notin {"empty", "failed"}
      /\ run'[t] = "cancelled" => cancelSent'[t]
  BY SuiteRuns
<1>6. CASE Settled(t)
  BY <1>1, <1>3, <1>4, <1>5, <1>6, SettledStays DEF Fated, Unsure, Kept, Settled, Ended
<1>7. CASE ~Settled(t) /\ (Kept(t) \/ RunBegins(t) \/ RunReports(t))
  BY <1>5, <1>7 DEF Fated, Kept, Settled, RunBegins, RunReports
<1>8. CASE JudgedByEnd(t)
  <2>1. /\ run[t] \in Ended /\ run'[t] = run[t] /\ outcome'[t].kind = EndVerdict(t).kind
        /\ outcome'[t].kind = state'[t]
    BY <1>2, <1>8, JudgmentType DEF Core, JudgedByEnd, GraphUnchanged
  <2>2. /\ run[t] = "returned" => EndVerdict(t).kind = "completed"
        /\ run[t] = "cancelled" => \/ EndVerdict(t).kind = "cancelled"
                                   \/ EndVerdict(t).kind = "unresolved" /\ ~ConfirmsWorkStopped
    BY DEF EndVerdict, CancellationVerdict, Verdict
  <2>3. run[t] \in {"returned", "cancelled"}
    BY <2>1 DEF Fated, Ended
  <2> QED BY <1>1, <1>4, <1>5, <2>1, <2>2, <2>3 DEF Fated, Unsure, TerminalStates
<1>9. CASE JudgedByForce(t) /\ ignoring /\ cancelSent[t]
  <2>1. outcome'[t].kind = "unresolved" /\ outcome'[t].kind = state'[t]
    BY <1>2, <1>9, JudgmentType DEF Core
  <2> QED BY <1>1, <1>4, <1>5, <1>9, <2>1 DEF Fated, Unsure, TerminalStates
<1> QED BY <1>6, <1>7, <1>8, <1>9, SuiteJudges

\* A call judges nothing, and the only run it changes is one it starts.
LEMMA CallChanges ==
  ASSUME NEW i \in Instruction, TypeOK, Calls(i), Holding(i)
  PROVE  /\ UNCHANGED <<outcome, state, thread, context, modelCalled>>
         /\ i.do # "start_task" => UNCHANGED <<run, owner>>
         /\ i.do = "start_task" => /\ i.t \in Tasks /\ i.s \in Sessions /\ StartTask(i.s, i.t)
                                   /\ owner[i.t] = NoSession /\ running[i.s] = NoTask
                                   /\ run' = [run EXCEPT ![i.t] = "scheduled"]
                                   /\ owner' = [owner EXCEPT ![i.t] = i.s]
         /\ \A t \in Tasks : cancelSent[t] => cancelSent'[t]
         /\ \A s \in Sessions : closed[s] => closed'[s]
<1> USE DEF graphVars, settleVars, taskVars, releaseVars, closeVars
<1>1. CASE i.do = "start_task"
  <2>1. StartTask(i.s, i.t) /\ i.s \in Sessions /\ i.t \in Tasks
    BY <1>1, CallEffects, Spoken
  <2> QED BY <1>1, <2>1 DEF StartTask, Admits
<1>2. CASE i.do = "create_session"
  BY <1>2, CallEffects DEF CreateSession
<1>3. CASE i.do = "release"
  BY <1>3, CallEffects, Spoken DEF Release, BeginRelease, vars, TypeOK
<1>4. CASE i.do = "aclose"
  BY <1>4, CallEffects DEF Aclose, vars
<1>5. CASE i.do = "request_cancellation"
  BY <1>5, CallEffects, Spoken DEF RequestCancellation, CancelGraphRuns, vars, TypeOK
<1>6. CASE i.do \notin {"create_session", "start_task", "release", "aclose",
                        "request_cancellation"}
  BY <1>6, CallEffects DEF vars
<1> QED BY <1>1, <1>2, <1>3, <1>4, <1>5, <1>6

LEMMA FatedCall ==
  ASSUME NEW i \in Instruction, Core, Calls(i), Holding(i), UNCHANGED ignoring,
         NEW t \in Tasks, Fated(t)
  PROVE  Fated(t)'
<1>1. /\ UNCHANGED <<outcome, state>> /\ (cancelSent[t] => cancelSent'[t])
      /\ run'[t] = run[t] \/ (run[t] = "none" /\ run'[t] = "scheduled")
  <2>1. CASE i.do = "start_task"
    <3>1. /\ UNCHANGED <<outcome, state>> /\ (cancelSent[t] => cancelSent'[t])
          /\ i.t \in Tasks /\ owner[i.t] = NoSession
          /\ run' = [run EXCEPT ![i.t] = "scheduled"]
      BY <2>1, CallChanges DEF Core
    <3>2. run[i.t] = "none"
      BY <3>1 DEF Core, Linked, TaskLinks
    <3> QED BY <3>1, <3>2 DEF Core, TypeOK
  <2>2. CASE i.do # "start_task"
    BY <2>2, CallChanges DEF Core
  <2> QED BY <2>1, <2>2
<1>2. Settled(t) => run[t] # "none"
  BY DEF Core, Judged
<1> QED BY <1>1, <1>2 DEF Fated, Unsure, Settled

-----------------------------------------------------------------------------
(* What the scenario knows.                                                *)

LEMMA KnownLoop ==
  ASSUME NEW sc, NEW n, Core, Known(sc, n), LoopStep
  PROVE  Known(sc, n)'
<1>1. [Next]_vars /\ UNCHANGED seen
  BY GraphRunsAreSteps DEF LoopStep, Next
<1>2. \A t \in Tasks : Settled(t) => outcome'[t] = outcome[t]
  BY <1>1, SettledStays DEF Kept
<1> QED BY <1>1, <1>2 DEF Known, Settled

LEMMA KnownCall ==
  ASSUME NEW sc, NEW n \in Nat, NEW i \in Instruction, i = sc[n + 1],
         TypeOK, Known(sc, n), Calls(i), Ready(i), Holding(i),
         seen \in [Tasks -> Outcome \cup {NoOutcome}],
         seen' = IF i.do = "outcome" THEN [seen EXCEPT ![i.t] = outcome[i.t]] ELSE seen
  PROVE  Known(sc, n + 1)'
<1>1. UNCHANGED outcome
  BY CallChanges
<1>2. \A t, K : Judges(sc, n + 1, t, K) <=> Judges(sc, n, t, K) \/ Asks(i, t, K)
  BY AwaitsGrow
<1>3. CASE i.do = "outcome"
  <2>1. /\ i.t \in Tasks /\ Settled(i.t) /\ outcome[i.t].kind \in i.kinds
        /\ seen' = [seen EXCEPT ![i.t] = outcome[i.t]]
    BY <1>3, Spoken DEF Ready, Holding
  <2>2. \A t \in Tasks : seen'[t] = IF t = i.t THEN outcome[t] ELSE seen[t]
    BY <2>1
  <2> QED BY <1>1, <1>2, <2>1, <2>2 DEF Known, Settled, Asks
<1>4. CASE i.do # "outcome"
  BY <1>1, <1>2, <1>4 DEF Known, Settled, Asks
<1> QED BY <1>3, <1>4

-----------------------------------------------------------------------------
(* What the gate holds back, and the order of a session's tasks.           *)

LEMMA LoopRuns ==
  ASSUME Core, LoopStep
  PROVE  UNCHANGED owner /\ \A t \in Tasks : run'[t] = run[t] \/ GraphRuns(t)
<1> USE DEF graphVars, settleVars, taskVars, releaseVars, closeVars
<1>1. ASSUME NEW x \in Tasks, GraphRuns(x)
      PROVE  UNCHANGED owner /\ \A t \in Tasks \ {x} : run'[t] = run[t]
  BY <1>1 DEF GraphRuns, RunBegins, RecordInput, CallModel, ModelReturns, RunReports,
       RunCancelled, RunEnds, Core, TypeOK
<1>2. CASE \A x \in Tasks : ~GraphRuns(x)
  BY <1>2 DEF LoopStep, DoneCallbacks, CancellationReturns, ReleaseBegins, ReleaseStopWakes,
       DeleteAtOnce, DeleteAgain, ReleaseReturns, CloseBegins, CloseReturns
<1> QED BY <1>1, <1>2

LEMMA BehindLoop ==
  ASSUME NEW sc, NEW n, Core, Behind(sc, n), LoopStep
  PROVE  Behind(sc, n)'
<1>1. UNCHANGED held
  BY DEF LoopStep
<1>2. ASSUME NEW t \in Tasks, Gated(sc, n, t) PROVE run'[t] \notin {"replied", "returned"}
  <2>1. held /\ run[t] \notin {"replied", "returned"}
    BY <1>2 DEF Behind, Gated
  <2>2. CASE GraphRuns(t)
    BY <2>1, <2>2 DEF GraphRuns, RunBegins, RecordInput, CallModel, RunReports, RunCancelled,
         RunEnds, Core, TypeOK
  <2> QED BY <2>1, <2>2, LoopRuns
<1> QED BY <1>1, <1>2 DEF Behind

LEMMA BehindCall ==
  ASSUME NEW sc, NEW n \in Nat, NEW i \in Instruction, i = sc[n + 1],
         TypeOK, Behind(sc, n), Calls(i), Holding(i),
         held' = IF i.do = "hold" THEN TRUE ELSE IF i.do = "let_go" THEN FALSE ELSE held
  PROVE  Behind(sc, n + 1)'
<1>1. ASSUME \E h \in 1 .. (n + 1) : Since(sc, n + 1, h) PROVE held'
  <2>1. i.do # "let_go" /\ (i.do = "hold" \/ \E h \in 1 .. n : Since(sc, n, h))
    BY <1>1, GateGrows
  <2>2. i.do = "hold" \/ held
    BY <2>1 DEF Behind
  <2> QED BY <2>1, <2>2
<1>2. ASSUME NEW t \in Tasks, Gated(sc, n + 1, t) PROVE run'[t] \notin {"replied", "returned"}
  <2>1. Gated(sc, n, t) \/ (i.do = "start_task" /\ i.t = t)
    BY <1>2, GateGrows
  <2>2. \/ run'[t] = run[t] /\ ~(i.do = "start_task" /\ i.t = t)
        \/ run'[t] = "scheduled"
    <3>1. CASE i.do = "start_task"
      <4>1. i.t \in Tasks /\ run' = [run EXCEPT ![i.t] = "scheduled"]
        BY <3>1, CallChanges
      <4> QED BY <4>1 DEF TypeOK
    <3>2. CASE i.do # "start_task"
      BY <3>2, CallChanges
    <3> QED BY <3>1, <3>2
  <2> QED BY <2>1, <2>2 DEF Behind
<1> QED BY <1>1, <1>2 DEF Behind

LEMMA OrderedLoop ==
  ASSUME NEW sc, NEW n, Core, Ordered(sc, n), LoopStep
  PROVE  Ordered(sc, n)'
<1>1. [Next]_vars
  BY GraphRunsAreSteps DEF LoopStep, Next
<1>2. UNCHANGED owner /\ \A x \in Tasks : run[x] \in Ended => run'[x] = run[x]
  BY <1>1, LoopRuns, Monotone DEF Core
<1>3. \A t : Earlier(sc, n, t) \subseteq Tasks
  BY DEF Earlier
<1> QED BY <1>2, <1>3 DEF Ordered

LEMMA OrderedCall ==
  ASSUME NEW sc, NEW n \in Nat, NEW i \in Instruction, i = sc[n + 1],
         Core, Obeyed(sc, n), Ordered(sc, n), Calls(i), Holding(i)
  PROVE  Ordered(sc, n + 1)'
<1>0. TypeOK /\ \A t \in Tasks : TaskLinks(t)
  BY DEF Core, Linked
<1>1. CASE i.do # "start_task"
  <2>1. UNCHANGED <<run, owner>>
    BY <1>0, <1>1, CallChanges
  <2>2. \A t \in Tasks : Earlier(sc, n + 1, t) = Earlier(sc, n, t)
    BY <1>1, OrderGrows
  <2> QED BY <2>1, <2>2 DEF Ordered
<1>2. CASE i.do = "start_task"
  <2>1. /\ i.t \in Tasks /\ i.s \in Sessions /\ owner[i.t] = NoSession
        /\ running[i.s] = NoTask
        /\ run' = [run EXCEPT ![i.t] = "scheduled"] /\ owner' = [owner EXCEPT ![i.t] = i.s]
    BY <1>0, <1>2, CallChanges
  <2>2. \A x \in Tasks : Begins(sc, n, i.s, x) <=> owner[x] = i.s
    BY <2>1 DEF Obeyed
  <2>3. \A x \in Tasks : owner[x] = i.s => run[x] \in Ended /\ x # i.t
    BY <1>0, <2>1, NoTaskAssumption, NoSessionAssumption DEF TaskLinks, TypeOK
  <2>4. \A t \in Tasks : /\ Earlier(sc, n, t) \subseteq Tasks
                         /\ i.t \notin Earlier(sc, n, t)
    <3>1. \A t : Earlier(sc, n, t) \subseteq Tasks
      BY DEF Earlier
    <3> QED BY <1>0, <2>1, <3>1 DEF Ordered, TaskLinks, Ended
  <2>5. Earlier(sc, n, i.t) = {}
    BY <1>0, <2>1, <2>4 DEF Ordered, TaskLinks, Ended
  <2>6. Earlier(sc, n + 1, i.t) = {x \in Tasks : owner[x] = i.s}
    <3>1. Earlier(sc, n + 1, i.t) = Earlier(sc, n, i.t) \cup {x \in Tasks : Begins(sc, n, i.s, x)}
      <4>1. i.t \in Tasks
        BY <2>1
      <4> QED BY <1>2, <4>1, OrderGrows
    <3> QED BY <2>2, <2>5, <3>1
  <2>7. ASSUME NEW t \in Tasks, t # i.t
        PROVE  Earlier(sc, n + 1, t) = Earlier(sc, n, t)
    BY <2>7, OrderGrows
  <2>8. ASSUME NEW t \in Tasks, NEW x \in Earlier(sc, n + 1, t)
        PROVE  run'[x] \in Ended /\ owner'[x] = owner'[t]
    <3>1. CASE t = i.t
      BY <1>0, <2>1, <2>3, <2>6, <2>8, <3>1 DEF TypeOK
    <3>2. CASE t # i.t
      <4>1. x \in Tasks /\ x # i.t /\ run[x] \in Ended /\ owner[x] = owner[t]
        BY <2>4, <2>7, <2>8, <3>2 DEF Ordered
      <4> QED BY <1>0, <2>1, <3>2, <4>1 DEF TypeOK
    <3> QED BY <3>1, <3>2
  <2>9. ASSUME NEW t \in Tasks, NEW x \in Tasks, owner'[t] = owner'[x], owner'[t] # NoSession,
               t # x
        PROVE  x \in Earlier(sc, n + 1, t) \/ t \in Earlier(sc, n + 1, x)
    <3>1. CASE t = i.t
      BY <1>0, <2>1, <2>6, <2>9, <3>1 DEF TypeOK
    <3>2. CASE x = i.t
      BY <1>0, <2>1, <2>6, <2>9, <3>2 DEF TypeOK
    <3>3. CASE t # i.t /\ x # i.t
      BY <1>0, <2>1, <2>7, <2>9, <3>3 DEF TypeOK, Ordered
    <3> QED BY <3>1, <3>2, <3>3
  <2> QED BY <2>8, <2>9 DEF Ordered
<1> QED BY <1>1, <1>2

-----------------------------------------------------------------------------
(* What the tasks of an undisturbed session work on.                       *)

\* The tasks a session had before the one that begins to work have all replied.
LEMMA Predecessors ==
  ASSUME NEW sc, NEW n, Core, Ordered(sc, n), \A x \in Tasks : Fated(x), Calm,
         NEW t \in Tasks, run[t] \in Live
  PROVE  \A x \in Tasks \ {t} :
           /\ x \in Earlier(sc, n, t) <=> owner[x] = owner[t]
           /\ x \in Earlier(sc, n, t) => run[x] = "returned"
<1>1. owner[t] # NoSession /\ run[t] \notin Ended
  BY DEF Core, Linked, TaskLinks, Live, Ended
<1>2. ASSUME NEW x \in Earlier(sc, n, t) PROVE x \in Tasks /\ run[x] = "returned"
  <2>1. x \in Tasks /\ run[x] \in Ended
    BY DEF Ordered, Earlier
  <2> QED BY <2>1 DEF Fated, Calm, Ended
<1> QED BY <1>1, <1>2 DEF Ordered

LEMMA RememberedLoop ==
  ASSUME NEW sc, NEW n, Invariants, Deleting, \A t \in Tasks : Conversation(t),
         Ordered(sc, n), \A t \in Tasks : Fated(t), Remembered(sc, n), LoopStep
  PROVE  Remembered(sc, n)'
<1> USE DEF graphVars, settleVars, taskVars, releaseVars, closeVars
<1>0. TypeOK /\ Core /\ [Next]_vars /\ UNCHANGED owner
  BY GraphRunsAreSteps, LoopRuns DEF Invariants, Core, LoopStep, Next
<1>1. Calm' => Calm
  BY <1>0, ReleaseChanges, Monotone DEF Core, Calm, TypeOK
<1>2. SUFFICES ASSUME Calm, \A t \in Tasks : Stores(t) /\ (run[t] \in Input => Hears(sc, n, t))
               PROVE  \A t \in Tasks : Stores(t)' /\ (run'[t] \in Input => Hears(sc, n, t)')
  BY <1>1 DEF Remembered
<1>3. ASSUME UNCHANGED <<context, thread>>,
             \A t \in Tasks : /\ run'[t] \in Input <=> run[t] \in Input
                              /\ run'[t] \in Reply <=> run[t] \in Reply
      PROVE  \A t \in Tasks : Stores(t)' /\ (run'[t] \in Input => Hears(sc, n, t)')
  BY <1>0, <1>2, <1>3 DEF Stores, Hears
<1>4. ASSUME NEW x \in Tasks, RecordInput(x)
      PROVE  \A t \in Tasks : Stores(t)' /\ (run'[t] \in Input => Hears(sc, n, t)')
  <2>1. /\ run[x] = "entered" /\ run' = [run EXCEPT ![x] = "recorded"]
        /\ owner[x] \in Sessions
        /\ context' = [context EXCEPT ![x] = thread[owner[x]] \cup {<<x, "input">>}]
        /\ thread' = [thread EXCEPT ![owner[x]] = thread[owner[x]] \cup {<<x, "input">>}]
    BY <1>0, <1>4 DEF RecordInput, Core, Linked, TaskLinks, TypeOK
  <2>2. /\ run'[x] = "recorded" /\ \A y \in Tasks \ {x} : run'[y] = run[y]
        /\ context'[x] = thread[owner[x]] \cup {<<x, "input">>}
        /\ \A y \in Tasks \ {x} : context'[y] = context[y]
        /\ thread'[owner[x]] = thread[owner[x]] \cup {<<x, "input">>}
        /\ \A s \in Sessions \ {owner[x]} : thread'[s] = thread[s]
    BY <1>0, <2>1 DEF TypeOK
  <2>3. ASSUME NEW t \in Tasks PROVE Stores(t)'
    <3>1. CASE t = x
      BY <1>0, <1>2, <2>1, <2>2, <3>1 DEF Stores, Input, Reply
    <3>2. CASE t # x
      <4>1. \A s \in Sessions : /\ <<t, "input">> \in thread'[s] <=> <<t, "input">> \in thread[s]
                               /\ <<t, "reply">> \in thread'[s] <=> <<t, "reply">> \in thread[s]
        BY <2>2, <3>2
      <4> QED BY <1>0, <1>2, <2>2, <3>2, <4>1 DEF Stores
    <3> QED BY <3>1, <3>2
  <2>4. \A t \in Tasks \ {x} : run'[t] \in Input => Hears(sc, n, t)'
    BY <1>2, <2>2 DEF Hears
  <2>5. Hears(sc, n, x)'
    <3>1. /\ run[x] \in Live /\ run[x] \notin Input /\ x \notin Earlier(sc, n, x)
      BY <2>1 DEF Live, Input, Ordered, Ended
    <3>2. \A y \in Tasks \ {x} : /\ y \in Earlier(sc, n, x) <=> owner[y] = owner[x]
                                 /\ y \in Earlier(sc, n, x) => run[y] = "returned"
      BY <1>0, <1>2, <3>1, Predecessors
    <3>3. \A y \in Tasks \ {x} :
            /\ <<y, "input">> \in thread[owner[x]] <=> y \in Earlier(sc, n, x)
            /\ <<y, "reply">> \in thread[owner[x]] <=> y \in Earlier(sc, n, x)
      BY <1>2, <2>1, <3>2 DEF Stores, Input, Reply
    <3>4. <<x, "reply">> \notin thread[owner[x]]
      BY <1>2, <2>1 DEF Stores, Reply
    <3> QED BY <2>2, <3>1, <3>3, <3>4 DEF Hears, Reply
  <2> QED BY <2>3, <2>4, <2>5
<1>5. ASSUME NEW x \in Tasks, ModelReturns(x), <<x, "reply">> \in context'[x]
      PROVE  \A t \in Tasks : Stores(t)' /\ (run'[t] \in Input => Hears(sc, n, t)')
  <2>1. /\ run[x] = "model" /\ run' = [run EXCEPT ![x] = "replied"]
        /\ owner[x] \in Sessions /\ owner[x] # NoSession
    BY <1>0, <1>5, NoSessionAssumption DEF ModelReturns, Core, Linked, TaskLinks, TypeOK
  <2>2. context[x] = thread[owner[x]]
    BY <1>2, <2>1 DEF Conversation, Calm, Started, During
  <2>3. <<x, "reply">> \notin context[x]
    BY <1>2, <2>1, <2>2 DEF Stores, Reply
  <2>4. PICK reply \in {{}, {<<x, "reply">>}} :
          /\ context' = [context EXCEPT ![x] = @ \cup reply]
          /\ thread' = [thread EXCEPT ![owner[x]] = context[x] \cup reply]
    BY <1>5 DEF ModelReturns
  <2>5. context'[x] = context[x] \cup reply
    BY <1>0, <2>4 DEF TypeOK
  <2>6. reply = {<<x, "reply">>}
    BY <1>5, <2>3, <2>4, <2>5
  <2>7. /\ run'[x] = "replied" /\ \A y \in Tasks \ {x} : run'[y] = run[y]
        /\ context'[x] = context[x] \cup {<<x, "reply">>}
        /\ \A y \in Tasks \ {x} : context'[y] = context[y]
        /\ thread'[owner[x]] = thread[owner[x]] \cup {<<x, "reply">>}
        /\ \A s \in Sessions \ {owner[x]} : thread'[s] = thread[s]
    BY <1>0, <2>1, <2>2, <2>4, <2>5, <2>6 DEF TypeOK
  <2>8. ASSUME NEW t \in Tasks PROVE Stores(t)'
    <3>1. CASE t = x
      BY <1>0, <1>2, <2>1, <2>7, <3>1 DEF Stores, Input, Reply
    <3>2. CASE t # x
      <4>1. \A s \in Sessions : /\ <<t, "input">> \in thread'[s] <=> <<t, "input">> \in thread[s]
                               /\ <<t, "reply">> \in thread'[s] <=> <<t, "reply">> \in thread[s]
        BY <2>7, <3>2
      <4> QED BY <1>0, <1>2, <2>7, <3>2, <4>1 DEF Stores
    <3> QED BY <3>1, <3>2
  <2>9. \A t \in Tasks \ {x} : run'[t] \in Input => Hears(sc, n, t)'
    BY <1>2, <2>7 DEF Hears
  <2>10. Hears(sc, n, x)'
    BY <1>2, <2>1, <2>7 DEF Hears, Input, Reply
  <2> QED BY <2>8, <2>9, <2>10
<1>6. ASSUME NEW x \in Tasks,
             \/ RunBegins(x) \/ CallModel(x)
             \/ RunReports(x) /\ run'[x] = "returned"
             \/ cancelSent[x] /\ RunCancelled(x)
      PROVE  \A t \in Tasks : Stores(t)' /\ (run'[t] \in Input => Hears(sc, n, t)')
  <2>1. /\ UNCHANGED <<context, thread>>
        /\ \/ run[x] = "scheduled" /\ run' = [run EXCEPT ![x] = "entered"]
           \/ run[x] = "recorded" /\ run' = [run EXCEPT ![x] = "model"]
           \/ run[x] = "replied" /\ run' = [run EXCEPT ![x] = "returned"]
    BY <1>0, <1>2, <1>6 DEF RunBegins, CallModel, RunReports, RunCancelled, Calm, TypeOK
  <2>2. \A t \in Tasks : /\ run'[t] \in Input <=> run[t] \in Input
                         /\ run'[t] \in Reply <=> run[t] \in Reply
    BY <1>0, <2>1 DEF TypeOK, Input, Reply
  <2> QED BY <1>3, <2>1, <2>2
<1>7. CASE \A x \in Tasks : ~GraphRuns(x)
  <2>1. \A x \in Tasks : ~RecordInput(x) /\ run'[x] = run[x]
    BY <1>0, <1>7, LoopRuns DEF GraphRuns
  <2>2. \A x \in Tasks : ~ModelReturns(x)
    BY <2>1 DEF ModelReturns, TypeOK, Invariants, Core
  <2>3. UNCHANGED <<context, thread>>
    BY <1>0, <1>2, <2>1, <2>2, ThreadChanges DEF Invariants, Calm
  <2> QED BY <1>3, <2>1, <2>3
<1> QED BY <1>4, <1>5, <1>6, <1>7 DEF GraphRuns

LEMMA RememberedCall ==
  ASSUME NEW sc, NEW n \in Nat, NEW i \in Instruction, i = sc[n + 1],
         Core, Remembered(sc, n), Calls(i), Holding(i)
  PROVE  Remembered(sc, n + 1)'
<1>0. TypeOK /\ \A t \in Tasks : TaskLinks(t)
  BY DEF Core, Linked
<1>1. UNCHANGED <<context, thread>> /\ (Calm' => Calm)
  BY <1>0, CallChanges DEF Calm, TypeOK
<1>2. SUFFICES ASSUME \A t \in Tasks : Stores(t) /\ (run[t] \in Input => Hears(sc, n, t))
               PROVE  \A t \in Tasks : Stores(t)' /\ (run'[t] \in Input => Hears(sc, n + 1, t)')
  BY <1>1 DEF Remembered
<1>3. CASE i.do = "start_task"
  <2>1. /\ i.t \in Tasks /\ i.s \in Sessions /\ owner[i.t] = NoSession
        /\ run' = [run EXCEPT ![i.t] = "scheduled"] /\ owner' = [owner EXCEPT ![i.t] = i.s]
    BY <1>0, <1>3, CallChanges
  <2>2. /\ run[i.t] = "none" /\ run'[i.t] = "scheduled"
        /\ \A t \in Tasks \ {i.t} : run'[t] = run[t] /\ owner'[t] = owner[t]
    BY <1>0, <2>1 DEF TaskLinks, TypeOK
  <2>3. ASSUME NEW t \in Tasks PROVE Stores(t)'
    <3>1. CASE t = i.t
      BY <1>1, <1>2, <2>2, <3>1 DEF Stores, Input, Reply
    <3>2. CASE t # i.t
      BY <1>1, <1>2, <2>2, <3>2 DEF Stores
    <3> QED BY <3>1, <3>2
  <2>4. ASSUME NEW t \in Tasks, run'[t] \in Input PROVE Hears(sc, n + 1, t)'
    <3>0. t # i.t
      BY <2>2, <2>4 DEF Input
    <3>1. Hears(sc, n, t) /\ run'[t] = run[t]
      BY <1>2, <2>2, <2>4, <3>0
    <3>2. Earlier(sc, n + 1, t) = Earlier(sc, n, t)
      BY <3>0, OrderGrows
    <3>3. context'[t] = context[t]
      BY <1>1
    <3> QED BY <3>1, <3>2, <3>3 DEF Hears
  <2> QED BY <2>3, <2>4
<1>4. CASE i.do # "start_task"
  <2>1. UNCHANGED <<run, owner>>
    BY <1>0, <1>4, CallChanges
  <2>2. \A t \in Tasks : Earlier(sc, n + 1, t) = Earlier(sc, n, t)
    BY <1>4, OrderGrows
  <2> QED BY <1>1, <1>2, <2>1, <2>2 DEF Stores, Hears
<1> QED BY <1>3, <1>4

-----------------------------------------------------------------------------
(* What a prepared scenario asserts is so.                                 *)

\* A task nobody stops, whose model call is held, is still running.
LEMMA HeldTaskRuns ==
  ASSUME NEW sc, NEW n, NEW t \in Tasks, Core, Facts(sc, n), Alone(sc, n, t), Gated(sc, n, t)
  PROVE  /\ ~Settled(t) /\ running[owner[t]] = t
         /\ owner[t] \in Sessions /\ Open(sc, n, owner[t])
<1>1. owner[t] \in Sessions /\ Open(sc, n, owner[t]) /\ ~cancelSent[t]
  BY DEF Alone, Facts, Obeyed
<1>2. run[t] \notin Ended /\ run[t] # "none"
  BY <1>1, NoSessionAssumption DEF Facts, Fated, Behind, Ended, Core, Linked, TaskLinks
<1> QED BY <1>1, <1>2 DEF Core, Judged, Linked, TaskLinks, TypeOK

LEMMA OpenIsOpen ==
  ASSUME NEW sc, NEW n, NEW s \in Sessions, Facts(sc, n)
  PROVE  /\ Open(sc, n, s) => ~closed[s] /\ ~shut
         /\ ~Open(sc, n, s) => closed[s] \/ shut
BY DEF Facts, Obeyed, Open

LEMMA StartHolds ==
  ASSUME NEW sc, NEW n, NEW s \in Sessions, Core, ConfirmedOutcomeFreesSession, Facts(sc, n),
         MayStart(sc, n, s)
  PROVE  Answer(s) = "admitted"
<1>1. ~closed[s] /\ ~shut
  BY OpenIsOpen DEF MayStart
<1>2. ASSUME running[s] # NoTask PROVE FALSE
  <2> DEFINE x == running[s]
  <2>1. x \in Tasks /\ owner[x] = s
    BY <1>2 DEF Core, TypeOK, Linked, SessionLinks
  <2>2. Judges(sc, n, x, TerminalStates \ {"unresolved"})
    BY <2>1 DEF MayStart, Facts, Obeyed
  <2>3. TerminalStates \ {"unresolved"} \in SUBSET TerminalStates
    OBVIOUS
  <2>4. Settled(x) /\ outcome[x].kind \in TerminalStates \ {"unresolved"}
    BY <2>1, <2>2, <2>3 DEF Facts, Known
  <2> QED BY <1>2, <2>4 DEF ConfirmedOutcomeFreesSession
<1> QED BY <1>1, <1>2 DEF Answer

LEMMA RefusalHolds ==
  ASSUME NEW sc, NEW n, NEW i \in Instruction, i.do = "start_refused", Core, Facts(sc, n),
         May(sc, n, i, Unsure)
  PROVE  Answer(i.s) = i.why
<1>1. i.s \in Sessions
  BY Spoken
<1>2. CASE i.why = "blocked"
  <2>1. ~Open(sc, n, i.s)
    BY <1>2 DEF May
  <2> QED BY <1>1, <1>2, <2>1, OpenIsOpen DEF Answer
<1>3. CASE i.why # "blocked"
  <2>1. PICK t \in Tasks : /\ i.why = "overlap" /\ Begins(sc, n, i.s, t)
                           /\ Alone(sc, n, t) /\ Gated(sc, n, t)
    BY <1>3 DEF May
  <2>2. ~Settled(t) /\ running[i.s] = t /\ Open(sc, n, i.s)
    <3>1. owner[t] = i.s
      BY <1>1, <2>1 DEF Facts, Obeyed
    <3> QED BY <2>1, <3>1, HeldTaskRuns
  <2> QED BY <1>1, <2>1, <2>2, OpenIsOpen, NoTaskAssumption DEF Answer
<1> QED BY <1>2, <1>3

LEMMA JudgmentHolds ==
  ASSUME NEW sc, NEW n, NEW t \in Tasks, NEW kinds, Settled(t), Facts(sc, n),
         MayJudge(sc, n, t, kinds, Unsure)
  PROVE  outcome[t].kind \in kinds /\ state[t] = outcome[t].kind
<1>1. /\ outcome[t].kind \in {"completed", "cancelled", "unresolved"}
      /\ outcome[t].kind = state[t]
      /\ outcome[t].kind = "completed" => run[t] = "returned"
      /\ outcome[t].kind = "cancelled" => cancelSent[t]
      /\ outcome[t].kind = "unresolved" => Unsure /\ cancelSent[t]
  BY DEF Facts, Fated, TerminalStates
<1>2. Gated(sc, n, t) => run[t] # "returned"
  BY DEF Facts, Behind
<1>3. Alone(sc, n, t) => ~cancelSent[t]
  BY DEF Facts, Obeyed
<1> QED BY <1>1, <1>2, <1>3 DEF MayJudge

LEMMA RecallHolds ==
  ASSUME NEW sc, NEW n, NEW t \in Tasks, NEW known, Core, Facts(sc, n),
         MayRecall(sc, n, t, known)
  PROVE  context[t] = {<<t, "input">>, <<t, "reply">>} \cup (known \X {"input", "reply"})
<1>1. run[t] = "returned"
  <2>1. Settled(t) /\ outcome[t].kind \in {"completed"}
    BY DEF MayRecall, Facts, Known, TerminalStates
  <2> QED BY <2>1 DEF Facts, Fated
<1>2. Calm
  <2>1. \A s \in Sessions : ~closed[s]
    BY DEF MayRecall, Facts, Obeyed
  <2>2. ASSUME NEW x \in Tasks, cancelSent[x] PROVE FALSE
    <3>1. owner[x] \in Sessions /\ ~Alone(sc, n, x)
      BY <2>2 DEF Facts, Obeyed, Started, Core, TypeOK
    <3>2. Begins(sc, n, owner[x], x)
      BY <3>1 DEF Facts, Obeyed
    <3> QED BY <3>1, <3>2 DEF MayRecall, Alone
  <2> QED BY <2>1, <2>2 DEF Calm
<1>3. Hears(sc, n, t)
  BY <1>1, <1>2 DEF Facts, Remembered, Input
<1>4. known = Earlier(sc, n, t) /\ known \subseteq Tasks /\ context[t] \subseteq Message
  BY DEF MayRecall, Earlier, Core, TypeOK
<1> DEFINE R == {<<t, "input">>, <<t, "reply">>} \cup (known \X {"input", "reply"})
<1>5. ASSUME NEW x \in Tasks, NEW k \in {"input", "reply"}
      PROVE  <<x, k>> \in context[t] <=> <<x, k>> \in R
  BY <1>1, <1>3, <1>4 DEF Hears, Reply
<1>6. /\ \A m \in Message : \E x \in Tasks, k \in {"input", "reply"} : m = <<x, k>>
      /\ R \subseteq Message
  BY <1>4 DEF Message
<1> HIDE DEF R
<1>7. context[t] = R
  <2>1. ASSUME NEW m \in Message PROVE m \in context[t] <=> m \in R
    <3>1. PICK x \in Tasks, k \in {"input", "reply"} : m = <<x, k>>
      BY <1>6
    <3> QED BY <1>5, <3>1
  <2> QED BY <1>4, <1>6, <2>1
<1> QED BY <1>7 DEF R

LEMMA PreparedHolds ==
  ASSUME NEW sc, NEW n, NEW i \in Instruction, Core, ConfirmedOutcomeFreesSession,
         Facts(sc, n), May(sc, n, i, Unsure), Ready(i)
  PROVE  Holding(i)
<1>1. CASE i.do = "start_task"
  BY <1>1, Spoken, StartHolds DEF May, Holding
<1>2. CASE i.do = "start_refused"
  BY <1>2, RefusalHolds DEF Holding
<1>3. CASE i.do = "outcome"
  BY <1>3, Spoken, JudgmentHolds DEF May, Ready, Holding
<1>4. CASE i.do = "same_outcome"
  <2>1. i.t \in Tasks /\ Judges(sc, n, i.t, TerminalStates)
    BY <1>4, Spoken DEF May
  <2> QED BY <1>4, <2>1 DEF Facts, Known, Holding
<1>5. CASE i.do = "not_terminal"
  BY <1>5, Spoken, HeldTaskRuns DEF May, Holding
<1>6. CASE i.do = "context"
  BY <1>6, Spoken, RecallHolds DEF May, Holding
<1>7. CASE i.do \notin {"start_task", "start_refused", "outcome", "same_outcome",
                        "not_terminal", "context"}
  BY <1>7 DEF Holding
<1> QED BY <1>1, <1>2, <1>3, <1>4, <1>5, <1>6, <1>7

-----------------------------------------------------------------------------
(* The scenarios are prepared.                                             *)

\* What may be asserted depends on what was done before.
LEMMA SamePast ==
  ASSUME NEW a, NEW b, NEW n \in Nat, \A k \in 1 .. n : a[k] = b[k], NEW i, NEW stubborn,
         May(a, n, i, stubborn)
  PROVE  May(b, n, i, stubborn)
<1>1. /\ Shuts(a, n) <=> Shuts(b, n)
      /\ \A s : LetsOut(a, n, s) <=> LetsOut(b, n, s)
      /\ \A t : Stops(a, n, t) <=> Stops(b, n, t)
      /\ \A t, K : Judges(a, n, t, K) <=> Judges(b, n, t, K)
  BY DEF Shuts, LetsOut, Stops, Judges
<1>2. ASSUME NEW m \in Nat, m <= n, NEW s, NEW t
      PROVE  Begins(a, m, s, t) <=> Begins(b, m, s, t)
  <2>1. \A k \in 1 .. m : a[k] = b[k]
    BY <1>2
  <2> QED BY <2>1 DEF Begins
<1>3. /\ \A s : Open(a, n, s) <=> Open(b, n, s)
      /\ \A s, t : Begins(a, n, s, t) <=> Begins(b, n, s, t)
  BY <1>1, <1>2 DEF Open
<1>4. \A t : Alone(a, n, t) <=> Alone(b, n, t)
  BY <1>1, <1>3 DEF Alone
<1>5. ASSUME NEW t PROVE Gated(a, n, t) <=> Gated(b, n, t)
  <2>1. \A h \in 1 .. n : \A k \in h .. n : k \in 1 .. n
    OBVIOUS
  <2>2. \A h \in 1 .. n : Since(a, n, h) <=> Since(b, n, h)
    BY <2>1 DEF Since
  <2> QED BY <2>1, <2>2 DEF Gated
<1>6. ASSUME NEW t PROVE Earlier(a, n, t) = Earlier(b, n, t)
  <2>1. \A k \in 1 .. n : k - 1 \in Nat /\ k - 1 <= n
    OBVIOUS
  <2>2. \A k \in 1 .. n : \A s, x : Begins(a, k - 1, s, x) <=> Begins(b, k - 1, s, x)
    BY <1>2, <2>1
  <2> QED BY <2>2 DEF Earlier
<1> QED BY <1>1, <1>3, <1>4, <1>5, <1>6 DEF May, MayStart, MayJudge, MayRecall

Exit == {Closes, UntilClosed, LetsGo, UntilIdle}

LEMMA ExitsOnly ==
  /\ RuntimeExit \in Seq(Exit) /\ CleanupExit \in Seq(Exit)
  /\ \A i \in Exit : \A sc, n, stubborn : May(sc, n, i, stubborn)
<1>1. RuntimeExit \in Seq(Exit) /\ CleanupExit \in Seq(Exit)
  BY DEF RuntimeExit, CleanupExit, Exit
<1>2. \A i \in Exit : i.do \in {"aclose", "until_closed", "let_go", "until_idle"}
  BY DEF Exit, Closes, UntilClosed, LetsGo, UntilIdle
<1> QED BY <1>1, <1>2 DEF May

LEMMA ThenLeaves ==
  ASSUME NEW a \in Seq(Instruction), NEW b \in Seq(Exit), NEW stubborn, Prepared(a, stubborn)
  PROVE  Prepared(a \o b, stubborn)
<1> DEFINE sc == a \o b
<1>1. /\ Len(a) \in Nat /\ Len(b) \in Nat /\ Len(sc) = Len(a) + Len(b)
      /\ \A k \in 1 .. Len(a) : sc[k] = a[k]
      /\ \A k \in 1 .. Len(sc) : k \notin 1 .. Len(a) => sc[k] \in Exit
  <2>1. Len(a) \in Nat /\ Len(b) \in Nat
    BY LenProperties
  <2>2. a \in Seq(Instruction \cup Exit) /\ b \in Seq(Instruction \cup Exit)
    OBVIOUS
  <2>3. Len(sc) = Len(a) + Len(b)
    BY <2>2, ConcatProperties
  <2>4. \A k \in 1 .. Len(a) : sc[k] = a[k]
    BY <2>1, <2>2, ConcatProperties
  <2>5. ASSUME NEW k \in 1 .. Len(sc), k \notin 1 .. Len(a) PROVE sc[k] \in Exit
    <3>1. k - Len(a) \in 1 .. Len(b)
      BY <2>1, <2>3, <2>5
    <3>2. sc[k] = b[k - Len(a)]
      BY <2>1, <2>2, <2>3, <2>5, ConcatProperties
    <3> QED BY <3>1, <3>2, ElementOfSeq
  <2> QED BY <2>1, <2>3, <2>4, <2>5
<1> HIDE DEF sc
<1>2. ASSUME NEW j \in 1 .. Len(sc) PROVE May(sc, j - 1, sc[j], stubborn)
  <2>1. CASE j \in 1 .. Len(a)
    <3>1. j - 1 \in Nat /\ \A k \in 1 .. (j - 1) : k \in 1 .. Len(a)
      BY <1>1, <2>1
    <3>2. \A k \in 1 .. (j - 1) : a[k] = sc[k]
      BY <1>1, <3>1
    <3>3. May(a, j - 1, a[j], stubborn) /\ a[j] = sc[j]
      BY <1>1, <2>1 DEF Prepared
    <3> QED BY <3>1, <3>2, <3>3, SamePast
  <2>2. CASE j \notin 1 .. Len(a)
    BY <1>1, <2>2, ExitsOnly
  <2> QED BY <2>1, <2>2
<1> QED BY <1>2 DEF Prepared, sc

\* What shows that an instruction may follow.
Plain == {"create_session", "request_cancellation", "release", "aclose", "hold", "let_go",
          "until_called", "until_answered", "until_released", "until_closed", "until_idle",
          "cancel_waiter", "cancel_release"}

LEMMA PlainMay ==
  ASSUME NEW sc, NEW n, NEW i, NEW stubborn, i.do \in Plain
  PROVE  May(sc, n, i, stubborn)
BY DEF Plain, May

LEMMA OpenWhile ==
  ASSUME NEW sc, NEW n \in Nat, \A k \in 1 .. n : sc[k].do \notin {"aclose", "release"}
  PROVE  \A s : Open(sc, n, s)
BY DEF Open, Shuts, LetsOut

LEMMA AloneWhile ==
  ASSUME NEW sc, NEW n \in Nat, NEW s \in Sessions, NEW t, NEW k \in 1 .. n,
         sc[k] = Starts(s, t), Open(sc, n, s),
         \A l \in 1 .. n : sc[l].do = "request_cancellation" => sc[l].t # t
  PROVE  Alone(sc, n, t) /\ Begins(sc, n, s, t)
BY DEF Alone, Stops, Begins, Starts

LEMMA JudgedAt ==
  ASSUME NEW sc, NEW n \in Nat, NEW k \in 1 .. n, NEW t, NEW kinds, sc[k] = Awaits(t, kinds),
         NEW K, kinds \subseteq K
  PROVE  Judges(sc, n, t, K)
BY DEF Judges, Awaits

LEMMA Completes ==
  ASSUME NEW stubborn
  PROVE  Prepared(<<Creates(s1), Starts(s1, t1), Awaits(t1, {"completed"})>>, stubborn)
<1> DEFINE b == <<Creates(s1), Starts(s1, t1), Awaits(t1, {"completed"})>>
<1>1. /\ Len(b) = 3 /\ b[1] = Creates(s1) /\ b[2] = Starts(s1, t1)
      /\ b[3] = Awaits(t1, {"completed"})
  OBVIOUS
<1> HIDE DEF b
<1>2. /\ b[1].do = "create_session"
      /\ b[2].do = "start_task" /\ b[2].s = s1 /\ b[2].t = t1
      /\ b[3].do = "outcome" /\ b[3].t = t1 /\ b[3].kinds = {"completed"}
  BY <1>1 DEF Creates, Starts, Awaits
<1>3. \A k \in 1 .. 1 : k = 1
  OBVIOUS
<1>4. \A k \in 1 .. 2 : k = 1 \/ k = 2
  OBVIOUS
<1>5. \A k \in 1 .. 3 : k = 1 \/ k = 2 \/ k = 3
  OBVIOUS
<1>6. May(b, 0, b[1], stubborn)
  BY <1>2, PlainMay DEF Plain
<1>7. May(b, 1, b[2], stubborn)
  <2>1. \A k \in 1 .. 1 : b[k].do = "create_session"
    BY <1>2, <1>3
  <2>2. Open(b, 1, s1) /\ \A s, t : ~Begins(b, 1, s, t)
    BY <2>1, OpenWhile DEF Begins
  <2> QED BY <1>2, <2>2 DEF May, MayStart
<1>8. May(b, 2, b[3], stubborn)
  <2>1. \A k \in 1 .. 2 : b[k].do \in {"create_session", "start_task"}
    BY <1>2, <1>4
  <2>2. Open(b, 2, s1)
    BY <2>1, OpenWhile
  <2>3. Alone(b, 2, t1)
    BY <1>1, <2>1, <2>2, AloneWhile, ParticipantsAssumption
  <2> QED BY <1>2, <2>3 DEF May, MayJudge
<1> QED BY <1>1, <1>5, <1>6, <1>7, <1>8 DEF Prepared, b

LEMMA Carries ==
  ASSUME NEW stubborn
  PROVE  Prepared(<<Creates(s1), Starts(s1, t1), Awaits(t1, {"completed"}),
                    Starts(s1, t2), Awaits(t2, {"completed"}), Recalls(t2, {t1}),
                    Creates(s2), Starts(s2, t3), Awaits(t3, {"completed"}), Recalls(t3, {})>>,
                  stubborn)
<1> DEFINE b == <<Creates(s1), Starts(s1, t1), Awaits(t1, {"completed"}),
                  Starts(s1, t2), Awaits(t2, {"completed"}), Recalls(t2, {t1}),
                  Creates(s2), Starts(s2, t3), Awaits(t3, {"completed"}), Recalls(t3, {})>>
<1>1. /\ Len(b) = 10 /\ b[1] = Creates(s1) /\ b[2] = Starts(s1, t1)
      /\ b[3] = Awaits(t1, {"completed"}) /\ b[4] = Starts(s1, t2)
      /\ b[5] = Awaits(t2, {"completed"}) /\ b[6] = Recalls(t2, {t1})
      /\ b[7] = Creates(s2) /\ b[8] = Starts(s2, t3) /\ b[9] = Awaits(t3, {"completed"})
      /\ b[10] = Recalls(t3, {})
  OBVIOUS
<1> HIDE DEF b
<1>2. /\ b[1].do = "create_session" /\ b[7].do = "create_session"
      /\ b[2].do = "start_task" /\ b[2].s = s1 /\ b[2].t = t1
      /\ b[4].do = "start_task" /\ b[4].s = s1 /\ b[4].t = t2
      /\ b[8].do = "start_task" /\ b[8].s = s2 /\ b[8].t = t3
      /\ b[3].do = "outcome" /\ b[3].t = t1 /\ b[3].kinds = {"completed"}
      /\ b[5].do = "outcome" /\ b[5].t = t2 /\ b[5].kinds = {"completed"}
      /\ b[9].do = "outcome" /\ b[9].t = t3 /\ b[9].kinds = {"completed"}
      /\ b[6].do = "context" /\ b[6].t = t2 /\ b[6].known = {t1}
      /\ b[10].do = "context" /\ b[10].t = t3 /\ b[10].known = {}
  BY <1>1 DEF Creates, Starts, Awaits, Recalls
<1>3. \A k \in 1 .. 10 : \/ k = 1 \/ k = 2 \/ k = 3 \/ k = 4 \/ k = 5 \/ k = 6 \/ k = 7
                         \/ k = 8 \/ k = 9 \/ k = 10
  OBVIOUS
<1>4. \A k \in 1 .. 10 : /\ b[k].do \notin {"aclose", "release", "request_cancellation"}
                         /\ b[k].do = "start_task" => k = 2 \/ k = 4 \/ k = 8
  BY <1>2, <1>3
<1>5. \A n \in 0 .. 10 : \A k \in 1 .. n : k \in 1 .. 10
  OBVIOUS
<1>6. \A n \in 0 .. 10 : /\ \A s : Open(b, n, s)
                         /\ \A t : ~Stops(b, n, t)
  BY <1>4, <1>5 DEF Open, Shuts, LetsOut, Stops
<1>7. \A n \in 0 .. 10 : \A s, x : Begins(b, n, s, x) <=> \/ n >= 2 /\ s = s1 /\ x = t1
                                                          \/ n >= 4 /\ s = s1 /\ x = t2
                                                          \/ n >= 8 /\ s = s2 /\ x = t3
  BY <1>2, <1>4, <1>5 DEF Begins
<1>8. \A n \in 0 .. 10 : /\ n >= 2 => Alone(b, n, t1)
                         /\ n >= 4 => Alone(b, n, t2)
                         /\ n >= 8 => Alone(b, n, t3)
  BY <1>6, <1>7, ParticipantsAssumption DEF Alone
<1>9. /\ Judges(b, 3, t1, TerminalStates \ {"unresolved"})
      /\ Judges(b, 5, t2, {"completed"}) /\ Judges(b, 9, t3, {"completed"})
  BY <1>1, JudgedAt DEF TerminalStates
<1>10. Earlier(b, 5, t2) = {t1} /\ Earlier(b, 9, t3) = {}
  <2>1. \A x : Begins(b, 3, s1, x) <=> x = t1
    BY <1>7, ParticipantsAssumption
  <2>2. \A x : ~Begins(b, 7, s2, x)
    BY <1>7, ParticipantsAssumption
  <2>3. \A k \in 1 .. 5 : b[k].do = "start_task" /\ b[k].t = t2 <=> k = 4
    BY <1>2, <1>4, <1>5, ParticipantsAssumption
  <2>4. \A k \in 1 .. 9 : b[k].do = "start_task" /\ b[k].t = t3 <=> k = 8
    BY <1>2, <1>4, <1>5, ParticipantsAssumption
  <2>5. \A x \in Tasks : x \in Earlier(b, 5, t2) <=> x = t1
    BY <1>2, <2>1, <2>3 DEF Earlier
  <2>6. \A x \in Tasks : x \notin Earlier(b, 9, t3)
    BY <1>2, <2>2, <2>4 DEF Earlier
  <2>7. Earlier(b, 5, t2) \subseteq Tasks /\ Earlier(b, 9, t3) \subseteq Tasks
    BY DEF Earlier
  <2> QED BY <2>5, <2>6, <2>7, ParticipantsAssumption
<1>11. May(b, 0, b[1], stubborn) /\ May(b, 6, b[7], stubborn)
  BY <1>2, PlainMay DEF Plain
<1>12. MayStart(b, 1, s1) /\ MayStart(b, 3, s1) /\ MayStart(b, 7, s2)
  BY <1>6, <1>7, <1>9, ParticipantsAssumption DEF MayStart
<1>13. May(b, 1, b[2], stubborn) /\ May(b, 3, b[4], stubborn) /\ May(b, 7, b[8], stubborn)
  BY <1>2, <1>12 DEF May
<1>14. May(b, 2, b[3], stubborn) /\ May(b, 4, b[5], stubborn) /\ May(b, 8, b[9], stubborn)
  BY <1>2, <1>8 DEF May, MayJudge
<1>15. May(b, 5, b[6], stubborn) /\ May(b, 9, b[10], stubborn)
  BY <1>2, <1>6, <1>9, <1>10 DEF May, MayRecall
<1> QED BY <1>1, <1>3, <1>11, <1>13, <1>14, <1>15 DEF Prepared, b

LEMMA Rejects ==
  ASSUME NEW stubborn
  PROVE  Prepared(<<Creates(s1), Holds, Starts(s1, t1), UntilCalled(t1), CancelsWaiter(t1),
                    StillRunning(t1), Refused(s1, "overlap"), LetsGo,
                    Awaits(t1, {"completed"}), Unchanged(t1)>>, stubborn)
<1> DEFINE b == <<Creates(s1), Holds, Starts(s1, t1), UntilCalled(t1), CancelsWaiter(t1),
                  StillRunning(t1), Refused(s1, "overlap"), LetsGo,
                  Awaits(t1, {"completed"}), Unchanged(t1)>>
<1>1. /\ Len(b) = 10 /\ b[1] = Creates(s1) /\ b[2] = Holds /\ b[3] = Starts(s1, t1)
      /\ b[4] = UntilCalled(t1) /\ b[5] = CancelsWaiter(t1) /\ b[6] = StillRunning(t1)
      /\ b[7] = Refused(s1, "overlap") /\ b[8] = LetsGo
      /\ b[9] = Awaits(t1, {"completed"}) /\ b[10] = Unchanged(t1)
  OBVIOUS
<1> HIDE DEF b
<1>2. /\ b[1].do = "create_session" /\ b[2].do = "hold" /\ b[4].do = "until_called"
      /\ b[3].do = "start_task" /\ b[3].s = s1 /\ b[3].t = t1
      /\ b[5].do = "cancel_waiter" /\ b[6].do = "not_terminal" /\ b[6].t = t1
      /\ b[7].do = "start_refused" /\ b[7].s = s1 /\ b[7].why = "overlap"
      /\ b[8].do = "let_go"
      /\ b[9].do = "outcome" /\ b[9].t = t1 /\ b[9].kinds = {"completed"}
      /\ b[10].do = "same_outcome" /\ b[10].t = t1
  BY <1>1 DEF Creates, Holds, Starts, UntilCalled, CancelsWaiter, StillRunning, Refused,
              LetsGo, Awaits, Unchanged
<1>3. \A k \in 1 .. 10 : \/ k = 1 \/ k = 2 \/ k = 3 \/ k = 4 \/ k = 5 \/ k = 6 \/ k = 7
                         \/ k = 8 \/ k = 9 \/ k = 10
  OBVIOUS
<1>4. \A k \in 1 .. 10 : /\ b[k].do \notin {"aclose", "release", "request_cancellation"}
                         /\ b[k].do = "start_task" => k = 3
                         /\ b[k].do = "let_go" => k = 8
  BY <1>2, <1>3
<1>5. \A n \in 0 .. 10 : \A k \in 1 .. n : k \in 1 .. 10
  OBVIOUS
<1>6. \A n \in 0 .. 10 : /\ \A s : Open(b, n, s)
                         /\ \A t : ~Stops(b, n, t)
  BY <1>4, <1>5 DEF Open, Shuts, LetsOut, Stops
<1>7. \A n \in 0 .. 10 : \A s, x : Begins(b, n, s, x) <=> n >= 3 /\ s = s1 /\ x = t1
  BY <1>2, <1>4, <1>5 DEF Begins
<1>8. \A n \in 3 .. 10 : Alone(b, n, t1)
  BY <1>6, <1>7, ParticipantsAssumption DEF Alone
<1>9. Gated(b, 5, t1) /\ Gated(b, 6, t1)
  <2>1. \A l \in 2 .. 6 : b[l].do # "let_go"
    BY <1>4
  <2>2. \A l \in 2 .. 5 : b[l].do # "let_go"
    BY <1>4
  <2>3. Since(b, 6, 2) /\ Since(b, 5, 2)
    BY <1>2, <2>1, <2>2 DEF Since
  <2>4. 2 \in 1 .. 6 /\ 3 \in 2 .. 6 /\ 2 \in 1 .. 5 /\ 3 \in 2 .. 5
    OBVIOUS
  <2> QED BY <1>2, <2>3, <2>4 DEF Gated
<1>10. Judges(b, 9, t1, TerminalStates)
  BY <1>1, JudgedAt DEF TerminalStates
<1>11. /\ May(b, 0, b[1], stubborn) /\ May(b, 1, b[2], stubborn) /\ May(b, 3, b[4], stubborn)
       /\ May(b, 4, b[5], stubborn) /\ May(b, 7, b[8], stubborn)
  BY <1>2, PlainMay DEF Plain
<1>12. May(b, 2, b[3], stubborn)
  BY <1>2, <1>6, <1>7 DEF May, MayStart
<1>13. May(b, 5, b[6], stubborn)
  BY <1>2, <1>8, <1>9 DEF May
<1>14. May(b, 6, b[7], stubborn)
  BY <1>2, <1>7, <1>8, <1>9, ParticipantsAssumption DEF May
<1>15. May(b, 8, b[9], stubborn)
  BY <1>2, <1>8 DEF May, MayJudge
<1>16. May(b, 9, b[10], stubborn)
  BY <1>2, <1>10 DEF May
<1> QED BY <1>1, <1>3, <1>11, <1>12, <1>13, <1>14, <1>15, <1>16 DEF Prepared, b

LEMMA Bounds ==
  ASSUME NEW stubborn
  PROVE  Prepared(BoundsClose, stubborn)
<1> DEFINE b == BoundsClose
<1>1. /\ Len(b) = 11 /\ b[1] = Creates(s1) /\ b[2] = Holds /\ b[3] = Starts(s1, t1)
      /\ b[4] = UntilCalled(t1) /\ b[5] = Closes /\ b[6] = UntilClosed
      /\ b[7] = Awaits(t1, Stopped) /\ b[8] = LetsGo /\ b[9] = Closes
      /\ b[10] = UntilClosed /\ b[11] = UntilIdle
  BY DEF BoundsClose
<1> HIDE DEF b
<1>2. /\ b[1].do = "create_session" /\ b[2].do = "hold" /\ b[4].do = "until_called"
      /\ b[3].do = "start_task" /\ b[3].s = s1 /\ b[3].t = t1
      /\ b[5].do = "aclose" /\ b[6].do = "until_closed"
      /\ b[7].do = "outcome" /\ b[7].t = t1 /\ b[7].kinds = {"cancelled", "unresolved"}
      /\ b[8].do = "let_go" /\ b[9].do = "aclose" /\ b[10].do = "until_closed"
      /\ b[11].do = "until_idle"
  BY <1>1 DEF Creates, Holds, Starts, UntilCalled, Closes, UntilClosed, Awaits, Stopped,
              LetsGo, UntilIdle
<1>3. \A k \in 1 .. 11 : \/ k = 1 \/ k = 2 \/ k = 3 \/ k = 4 \/ k = 5 \/ k = 6 \/ k = 7
                         \/ k = 8 \/ k = 9 \/ k = 10 \/ k = 11
  OBVIOUS
<1>4. /\ \A k \in 1 .. 2 : k = 1 \/ k = 2
      /\ \A k \in 2 .. 6 : k = 2 \/ k = 3 \/ k = 4 \/ k = 5 \/ k = 6
  OBVIOUS
<1>5. MayStart(b, 2, s1)
  <2>1. \A k \in 1 .. 2 : b[k].do \in {"create_session", "hold"}
    BY <1>2, <1>4
  <2> QED BY <2>1, OpenWhile DEF MayStart, Begins
<1>6. Gated(b, 6, t1)
  <2>1. \A l \in 2 .. 6 : b[l].do # "let_go"
    BY <1>2, <1>4
  <2>2. Since(b, 6, 2)
    BY <1>2, <2>1 DEF Since
  <2>3. 2 \in 1 .. 6 /\ 3 \in 2 .. 6
    OBVIOUS
  <2> QED BY <1>2, <2>2, <2>3 DEF Gated
<1>7. /\ May(b, 0, b[1], stubborn) /\ May(b, 1, b[2], stubborn) /\ May(b, 3, b[4], stubborn)
      /\ May(b, 4, b[5], stubborn) /\ May(b, 5, b[6], stubborn) /\ May(b, 7, b[8], stubborn)
      /\ May(b, 8, b[9], stubborn) /\ May(b, 9, b[10], stubborn)
      /\ May(b, 10, b[11], stubborn)
  BY <1>2, PlainMay DEF Plain
<1>8. May(b, 2, b[3], stubborn) /\ May(b, 6, b[7], stubborn)
  BY <1>2, <1>5, <1>6 DEF May, MayJudge
<1> QED BY <1>1, <1>3, <1>7, <1>8 DEF Prepared, b

LEMMA Reuses ==
  ASSUME NEW stubborn, stubborn = FALSE
  PROVE  Prepared(<<Creates(s1), Holds, Starts(s1, t1), UntilCalled(t1), Cancels(t1),
                    UntilAnswered(t1), Awaits(t1, {"cancelled"}), LetsGo, Starts(s1, t2),
                    Awaits(t2, {"completed"})>>, stubborn)
<1> DEFINE b == <<Creates(s1), Holds, Starts(s1, t1), UntilCalled(t1), Cancels(t1),
                  UntilAnswered(t1), Awaits(t1, {"cancelled"}), LetsGo, Starts(s1, t2),
                  Awaits(t2, {"completed"})>>
<1>1. /\ Len(b) = 10 /\ b[1] = Creates(s1) /\ b[2] = Holds /\ b[3] = Starts(s1, t1)
      /\ b[4] = UntilCalled(t1) /\ b[5] = Cancels(t1) /\ b[6] = UntilAnswered(t1)
      /\ b[7] = Awaits(t1, {"cancelled"}) /\ b[8] = LetsGo /\ b[9] = Starts(s1, t2)
      /\ b[10] = Awaits(t2, {"completed"})
  OBVIOUS
<1> HIDE DEF b
<1>2. /\ b[1].do = "create_session" /\ b[2].do = "hold" /\ b[4].do = "until_called"
      /\ b[3].do = "start_task" /\ b[3].s = s1 /\ b[3].t = t1
      /\ b[5].do = "request_cancellation" /\ b[5].t = t1 /\ b[6].do = "until_answered"
      /\ b[7].do = "outcome" /\ b[7].t = t1 /\ b[7].kinds = {"cancelled"}
      /\ b[8].do = "let_go"
      /\ b[9].do = "start_task" /\ b[9].s = s1 /\ b[9].t = t2
      /\ b[10].do = "outcome" /\ b[10].t = t2 /\ b[10].kinds = {"completed"}
  BY <1>1 DEF Creates, Holds, Starts, UntilCalled, Cancels, UntilAnswered, Awaits, LetsGo
<1>3. \A k \in 1 .. 10 : \/ k = 1 \/ k = 2 \/ k = 3 \/ k = 4 \/ k = 5 \/ k = 6 \/ k = 7
                         \/ k = 8 \/ k = 9 \/ k = 10
  OBVIOUS
<1>4. \A k \in 1 .. 10 : /\ b[k].do \notin {"aclose", "release"}
                         /\ b[k].do = "request_cancellation" => k = 5
                         /\ b[k].do = "start_task" => k = 3 \/ k = 9
                         /\ b[k].do = "let_go" => k = 8
  BY <1>2, <1>3
<1>5. \A n \in 0 .. 10 : \A k \in 1 .. n : k \in 1 .. 10
  OBVIOUS
<1>6. \A n \in 0 .. 10 : /\ \A s : Open(b, n, s)
                         /\ ~Stops(b, n, t2)
  BY <1>2, <1>4, <1>5, ParticipantsAssumption DEF Open, Shuts, LetsOut, Stops
<1>7. \A n \in 0 .. 10 : \A s, x : Begins(b, n, s, x) <=> \/ n >= 3 /\ s = s1 /\ x = t1
                                                          \/ n >= 9 /\ s = s1 /\ x = t2
  BY <1>2, <1>4, <1>5 DEF Begins
<1>8. Alone(b, 9, t2)
  BY <1>6, <1>7, ParticipantsAssumption DEF Alone
<1>9. Gated(b, 6, t1)
  <2>1. \A l \in 2 .. 6 : b[l].do # "let_go"
    BY <1>4
  <2>2. Since(b, 6, 2)
    BY <1>2, <2>1 DEF Since
  <2>3. 2 \in 1 .. 6 /\ 3 \in 2 .. 6
    OBVIOUS
  <2> QED BY <1>2, <2>2, <2>3 DEF Gated
<1>10. Judges(b, 8, t1, TerminalStates \ {"unresolved"})
  BY <1>1, JudgedAt DEF TerminalStates
<1>11. /\ May(b, 0, b[1], stubborn) /\ May(b, 1, b[2], stubborn)
       /\ May(b, 3, b[4], stubborn) /\ May(b, 4, b[5], stubborn)
       /\ May(b, 5, b[6], stubborn) /\ May(b, 7, b[8], stubborn)
  BY <1>2, PlainMay DEF Plain
<1>12. May(b, 2, b[3], stubborn)
  BY <1>2, <1>6, <1>7 DEF May, MayStart
<1>13. May(b, 6, b[7], stubborn)
  BY <1>2, <1>9 DEF May, MayJudge
<1>14. May(b, 8, b[9], stubborn)
  BY <1>2, <1>6, <1>7, <1>10 DEF May, MayStart
<1>15. May(b, 9, b[10], stubborn)
  BY <1>2, <1>8 DEF May, MayJudge
<1> QED BY <1>1, <1>3, <1>11, <1>12, <1>13, <1>14, <1>15 DEF Prepared, b

LEMMA CancelsLate ==
  ASSUME NEW stubborn
  PROVE  Prepared(<<Holds, Creates(s1), Starts(s1, t1), LetsGo, Awaits(t1, {"completed"}),
                    Cancels(t1), UntilAnswered(t1), Unchanged(t1)>>, stubborn)
<1> DEFINE b == <<Holds, Creates(s1), Starts(s1, t1), LetsGo, Awaits(t1, {"completed"}),
                  Cancels(t1), UntilAnswered(t1), Unchanged(t1)>>
<1>1. /\ Len(b) = 8 /\ b[1] = Holds /\ b[2] = Creates(s1) /\ b[3] = Starts(s1, t1)
      /\ b[4] = LetsGo /\ b[5] = Awaits(t1, {"completed"}) /\ b[6] = Cancels(t1)
      /\ b[7] = UntilAnswered(t1) /\ b[8] = Unchanged(t1)
  OBVIOUS
<1> HIDE DEF b
<1>2. /\ b[1].do = "hold" /\ b[2].do = "create_session" /\ b[4].do = "let_go"
      /\ b[3].do = "start_task" /\ b[3].s = s1 /\ b[3].t = t1
      /\ b[5].do = "outcome" /\ b[5].t = t1 /\ b[5].kinds = {"completed"}
      /\ b[6].do = "request_cancellation" /\ b[7].do = "until_answered"
      /\ b[8].do = "same_outcome" /\ b[8].t = t1
  BY <1>1 DEF Holds, Creates, Starts, LetsGo, Awaits, Cancels, UntilAnswered, Unchanged
<1>3. \A k \in 1 .. 8 : \/ k = 1 \/ k = 2 \/ k = 3 \/ k = 4 \/ k = 5 \/ k = 6 \/ k = 7
                        \/ k = 8
  OBVIOUS
<1>4. /\ \A k \in 1 .. 2 : k = 1 \/ k = 2
      /\ \A k \in 1 .. 4 : k = 1 \/ k = 2 \/ k = 3 \/ k = 4
  OBVIOUS
<1>5. MayStart(b, 2, s1)
  <2>1. \A k \in 1 .. 2 : b[k].do \in {"create_session", "hold"}
    BY <1>2, <1>4
  <2> QED BY <2>1, OpenWhile DEF MayStart, Begins
<1>6. Alone(b, 4, t1)
  <2>1. \A k \in 1 .. 4 : b[k].do \notin {"aclose", "release", "request_cancellation"}
    BY <1>2, <1>4
  <2>2. Open(b, 4, s1)
    BY <2>1, OpenWhile
  <2> QED BY <1>1, <2>1, <2>2, AloneWhile, ParticipantsAssumption
<1>7. Judges(b, 7, t1, TerminalStates)
  BY <1>1, JudgedAt DEF TerminalStates
<1>8. /\ May(b, 0, b[1], stubborn) /\ May(b, 1, b[2], stubborn) /\ May(b, 3, b[4], stubborn)
      /\ May(b, 5, b[6], stubborn) /\ May(b, 6, b[7], stubborn)
  BY <1>2, PlainMay DEF Plain
<1>9. /\ May(b, 2, b[3], stubborn) /\ May(b, 4, b[5], stubborn)
      /\ May(b, 7, b[8], stubborn)
  BY <1>2, <1>5, <1>6, <1>7 DEF May, MayJudge
<1> QED BY <1>1, <1>3, <1>8, <1>9 DEF Prepared, b

LEMMA SettlesActive ==
  ASSUME NEW stubborn
  PROVE  Prepared(<<Holds, Creates(s1), Creates(s2), Starts(s1, t1), Starts(s2, t2),
                    UntilCalled(t1), UntilCalled(t2), Closes, UntilClosed, Awaits(t1, Stopped),
                    Awaits(t2, Stopped), Refused(s1, "blocked"), Refused(s2, "blocked"), LetsGo,
                    Closes, UntilClosed, Unchanged(t1), Unchanged(t2)>>, stubborn)
<1> DEFINE b == <<Holds, Creates(s1), Creates(s2), Starts(s1, t1), Starts(s2, t2),
                  UntilCalled(t1), UntilCalled(t2), Closes, UntilClosed, Awaits(t1, Stopped),
                  Awaits(t2, Stopped), Refused(s1, "blocked"), Refused(s2, "blocked"), LetsGo,
                  Closes, UntilClosed, Unchanged(t1), Unchanged(t2)>>
<1>1. /\ Len(b) = 18 /\ b[1] = Holds /\ b[2] = Creates(s1) /\ b[3] = Creates(s2)
      /\ b[4] = Starts(s1, t1) /\ b[5] = Starts(s2, t2) /\ b[6] = UntilCalled(t1)
      /\ b[7] = UntilCalled(t2) /\ b[8] = Closes /\ b[9] = UntilClosed
      /\ b[10] = Awaits(t1, Stopped) /\ b[11] = Awaits(t2, Stopped)
      /\ b[12] = Refused(s1, "blocked") /\ b[13] = Refused(s2, "blocked") /\ b[14] = LetsGo
      /\ b[15] = Closes /\ b[16] = UntilClosed /\ b[17] = Unchanged(t1)
      /\ b[18] = Unchanged(t2)
  OBVIOUS
<1> HIDE DEF b
<1>2. /\ b[1].do = "hold" /\ b[2].do = "create_session" /\ b[3].do = "create_session"
      /\ b[4].do = "start_task" /\ b[4].s = s1 /\ b[4].t = t1
      /\ b[5].do = "start_task" /\ b[5].s = s2 /\ b[5].t = t2
      /\ b[6].do = "until_called" /\ b[7].do = "until_called"
      /\ b[8].do = "aclose" /\ b[9].do = "until_closed"
      /\ b[10].do = "outcome" /\ b[10].t = t1 /\ b[10].kinds = {"cancelled", "unresolved"}
      /\ b[11].do = "outcome" /\ b[11].t = t2 /\ b[11].kinds = {"cancelled", "unresolved"}
      /\ b[12].do = "start_refused" /\ b[12].s = s1 /\ b[12].why = "blocked"
      /\ b[13].do = "start_refused" /\ b[13].s = s2 /\ b[13].why = "blocked"
      /\ b[14].do = "let_go" /\ b[15].do = "aclose" /\ b[16].do = "until_closed"
      /\ b[17].do = "same_outcome" /\ b[17].t = t1 /\ b[18].do = "same_outcome" /\ b[18].t = t2
  BY <1>1 DEF Holds, Creates, Starts, UntilCalled, Closes, UntilClosed, Awaits, Stopped,
              Refused, LetsGo, Unchanged
<1>3. \A k \in 1 .. 18 : \/ k = 1 \/ k = 2 \/ k = 3 \/ k = 4 \/ k = 5 \/ k = 6 \/ k = 7
                         \/ k = 8 \/ k = 9 \/ k = 10 \/ k = 11 \/ k = 12 \/ k = 13 \/ k = 14
                         \/ k = 15 \/ k = 16 \/ k = 17 \/ k = 18
  OBVIOUS
<1>4. /\ \A k \in 1 .. 3 : k = 1 \/ k = 2 \/ k = 3
      /\ \A k \in 1 .. 4 : k = 1 \/ k = 2 \/ k = 3 \/ k = 4
      /\ \A k \in 1 .. 10 : \/ k = 1 \/ k = 2 \/ k = 3 \/ k = 4 \/ k = 5 \/ k = 6 \/ k = 7
                            \/ k = 8 \/ k = 9 \/ k = 10
  OBVIOUS
<1>5. MayStart(b, 3, s1) /\ MayStart(b, 4, s2)
  <2>1. \A k \in 1 .. 3 : b[k].do \in {"create_session", "hold"}
    BY <1>2, <1>4
  <2>2. \A k \in 1 .. 4 : /\ b[k].do \in {"create_session", "hold", "start_task"}
                          /\ b[k].do = "start_task" => b[k].s = s1
    BY <1>2, <1>4
  <2>3. Open(b, 3, s1) /\ Open(b, 4, s2)
    BY <2>1, <2>2, OpenWhile
  <2> QED BY <2>1, <2>2, <2>3, ParticipantsAssumption DEF MayStart, Begins
<1>6. Gated(b, 9, t1) /\ Gated(b, 10, t2)
  <2>1. /\ \A l \in 1 .. 10 : b[l].do # "let_go"
        /\ \A l \in 1 .. 9 : l \in 1 .. 10
    BY <1>2, <1>4
  <2>2. Since(b, 9, 1) /\ Since(b, 10, 1)
    BY <1>2, <2>1 DEF Since
  <2>3. 1 \in 1 .. 9 /\ 4 \in 1 .. 9 /\ 1 \in 1 .. 10 /\ 5 \in 1 .. 10
    OBVIOUS
  <2> QED BY <1>2, <2>2, <2>3 DEF Gated
<1>7. ~Open(b, 11, s1) /\ ~Open(b, 12, s2)
  <2>1. 8 \in 1 .. 11 /\ 8 \in 1 .. 12
    OBVIOUS
  <2> QED BY <1>2, <2>1 DEF Open, Shuts
<1>8. Judges(b, 16, t1, TerminalStates) /\ Judges(b, 17, t2, TerminalStates)
  BY <1>1, JudgedAt DEF Stopped, TerminalStates
<1>9. /\ May(b, 0, b[1], stubborn) /\ May(b, 1, b[2], stubborn) /\ May(b, 2, b[3], stubborn)
      /\ May(b, 5, b[6], stubborn) /\ May(b, 6, b[7], stubborn) /\ May(b, 7, b[8], stubborn)
      /\ May(b, 8, b[9], stubborn) /\ May(b, 13, b[14], stubborn)
      /\ May(b, 14, b[15], stubborn) /\ May(b, 15, b[16], stubborn)
  BY <1>2, PlainMay DEF Plain
<1>10. May(b, 3, b[4], stubborn) /\ May(b, 4, b[5], stubborn)
  BY <1>2, <1>5 DEF May
<1>11. May(b, 9, b[10], stubborn) /\ May(b, 10, b[11], stubborn)
  BY <1>2, <1>6 DEF May, MayJudge
<1>12. May(b, 11, b[12], stubborn) /\ May(b, 12, b[13], stubborn)
  BY <1>2, <1>7 DEF May
<1>13. May(b, 16, b[17], stubborn) /\ May(b, 17, b[18], stubborn)
  BY <1>2, <1>8 DEF May
<1> QED BY <1>1, <1>3, <1>9, <1>10, <1>11, <1>12, <1>13 DEF Prepared, b

LEMMA Outlives ==
  ASSUME NEW stubborn
  PROVE  Prepared(<<Holds, Creates(s1), Starts(s1, t1), UntilCalled(t1), Releases(s1),
                    CancelsCaller(s1), Awaits(t1, Stopped), Refused(s1, "blocked"),
                    Releases(s1), UntilReleased(s1), Unchanged(t1)>>, stubborn)
<1> DEFINE b == <<Holds, Creates(s1), Starts(s1, t1), UntilCalled(t1), Releases(s1),
                  CancelsCaller(s1), Awaits(t1, Stopped), Refused(s1, "blocked"),
                  Releases(s1), UntilReleased(s1), Unchanged(t1)>>
<1>1. /\ Len(b) = 11 /\ b[1] = Holds /\ b[2] = Creates(s1) /\ b[3] = Starts(s1, t1)
      /\ b[4] = UntilCalled(t1) /\ b[5] = Releases(s1) /\ b[6] = CancelsCaller(s1)
      /\ b[7] = Awaits(t1, Stopped) /\ b[8] = Refused(s1, "blocked") /\ b[9] = Releases(s1)
      /\ b[10] = UntilReleased(s1) /\ b[11] = Unchanged(t1)
  OBVIOUS
<1> HIDE DEF b
<1>2. /\ b[1].do = "hold" /\ b[2].do = "create_session"
      /\ b[3].do = "start_task" /\ b[3].s = s1 /\ b[3].t = t1
      /\ b[4].do = "until_called" /\ b[5].do = "release" /\ b[5].s = s1
      /\ b[6].do = "cancel_release"
      /\ b[7].do = "outcome" /\ b[7].t = t1 /\ b[7].kinds = {"cancelled", "unresolved"}
      /\ b[8].do = "start_refused" /\ b[8].s = s1 /\ b[8].why = "blocked"
      /\ b[9].do = "release" /\ b[10].do = "until_released"
      /\ b[11].do = "same_outcome" /\ b[11].t = t1
  BY <1>1 DEF Holds, Creates, Starts, UntilCalled, Releases, CancelsCaller, Awaits, Stopped,
              Refused, UntilReleased, Unchanged
<1>3. \A k \in 1 .. 11 : \/ k = 1 \/ k = 2 \/ k = 3 \/ k = 4 \/ k = 5 \/ k = 6 \/ k = 7
                         \/ k = 8 \/ k = 9 \/ k = 10 \/ k = 11
  OBVIOUS
<1>4. /\ \A k \in 1 .. 2 : k = 1 \/ k = 2
      /\ \A k \in 1 .. 6 : k = 1 \/ k = 2 \/ k = 3 \/ k = 4 \/ k = 5 \/ k = 6
  OBVIOUS
<1>5. MayStart(b, 2, s1)
  <2>1. \A k \in 1 .. 2 : b[k].do \in {"create_session", "hold"}
    BY <1>2, <1>4
  <2> QED BY <2>1, OpenWhile DEF MayStart, Begins
<1>6. Gated(b, 6, t1)
  <2>1. \A l \in 1 .. 6 : b[l].do # "let_go"
    BY <1>2, <1>4
  <2>2. Since(b, 6, 1)
    BY <1>2, <2>1 DEF Since
  <2>3. 1 \in 1 .. 6 /\ 3 \in 1 .. 6
    OBVIOUS
  <2> QED BY <1>2, <2>2, <2>3 DEF Gated
<1>7. ~Open(b, 7, s1)
  <2>1. 5 \in 1 .. 7
    OBVIOUS
  <2> QED BY <1>2, <2>1 DEF Open, LetsOut
<1>8. Judges(b, 10, t1, TerminalStates)
  BY <1>1, JudgedAt DEF Stopped, TerminalStates
<1>9. /\ May(b, 0, b[1], stubborn) /\ May(b, 1, b[2], stubborn) /\ May(b, 3, b[4], stubborn)
      /\ May(b, 4, b[5], stubborn) /\ May(b, 5, b[6], stubborn) /\ May(b, 8, b[9], stubborn)
      /\ May(b, 9, b[10], stubborn)
  BY <1>2, PlainMay DEF Plain
<1>10. May(b, 2, b[3], stubborn)
  BY <1>2, <1>5 DEF May
<1>11. May(b, 6, b[7], stubborn)
  BY <1>2, <1>6 DEF May, MayJudge
<1>12. May(b, 7, b[8], stubborn)
  BY <1>2, <1>7 DEF May
<1>13. May(b, 10, b[11], stubborn)
  BY <1>2, <1>8 DEF May
<1> QED BY <1>1, <1>3, <1>9, <1>10, <1>11, <1>12, <1>13 DEF Prepared, b

LEMMA KeepsCompleted ==
  ASSUME NEW stubborn
  PROVE  Prepared(<<Creates(s1), Starts(s1, t1), Awaits(t1, {"completed"}), Holds, Creates(s2),
                    Starts(s2, t2), UntilCalled(t2), Closes, UntilClosed,
                    Awaits(t2, TerminalStates), Unchanged(t1)>>, stubborn)
<1> DEFINE b == <<Creates(s1), Starts(s1, t1), Awaits(t1, {"completed"}), Holds, Creates(s2),
                  Starts(s2, t2), UntilCalled(t2), Closes, UntilClosed,
                  Awaits(t2, TerminalStates), Unchanged(t1)>>
<1>1. /\ Len(b) = 11 /\ b[1] = Creates(s1) /\ b[2] = Starts(s1, t1)
      /\ b[3] = Awaits(t1, {"completed"}) /\ b[4] = Holds /\ b[5] = Creates(s2)
      /\ b[6] = Starts(s2, t2) /\ b[7] = UntilCalled(t2) /\ b[8] = Closes
      /\ b[9] = UntilClosed /\ b[10] = Awaits(t2, TerminalStates) /\ b[11] = Unchanged(t1)
  OBVIOUS
<1> HIDE DEF b
<1>2. /\ b[1].do = "create_session" /\ b[2].do = "start_task" /\ b[2].s = s1 /\ b[2].t = t1
      /\ b[3].do = "outcome" /\ b[3].t = t1 /\ b[3].kinds = {"completed"}
      /\ b[4].do = "hold" /\ b[5].do = "create_session"
      /\ b[6].do = "start_task" /\ b[6].s = s2 /\ b[6].t = t2
      /\ b[7].do = "until_called" /\ b[8].do = "aclose" /\ b[9].do = "until_closed"
      /\ b[10].do = "outcome" /\ b[10].t = t2 /\ b[10].kinds = TerminalStates
      /\ b[11].do = "same_outcome" /\ b[11].t = t1
  BY <1>1 DEF Creates, Starts, Awaits, Holds, UntilCalled, Closes, UntilClosed, Unchanged
<1>3. \A k \in 1 .. 11 : \/ k = 1 \/ k = 2 \/ k = 3 \/ k = 4 \/ k = 5 \/ k = 6 \/ k = 7
                         \/ k = 8 \/ k = 9 \/ k = 10 \/ k = 11
  OBVIOUS
<1>4. /\ \A k \in 1 .. 1 : k = 1
      /\ \A k \in 1 .. 2 : k = 1 \/ k = 2
      /\ \A k \in 1 .. 5 : k = 1 \/ k = 2 \/ k = 3 \/ k = 4 \/ k = 5
  OBVIOUS
<1>5. MayStart(b, 1, s1) /\ MayStart(b, 5, s2)
  <2>1. \A k \in 1 .. 1 : b[k].do = "create_session"
    BY <1>2, <1>4
  <2>2. \A k \in 1 .. 5 : /\ b[k].do \in {"create_session", "start_task", "outcome", "hold"}
                          /\ b[k].do = "start_task" => b[k].s = s1
    BY <1>2, <1>4
  <2>3. Open(b, 1, s1) /\ Open(b, 5, s2)
    BY <2>1, <2>2, OpenWhile
  <2> QED BY <2>1, <2>2, <2>3, ParticipantsAssumption DEF MayStart, Begins
<1>6. Alone(b, 2, t1)
  <2>1. \A k \in 1 .. 2 : b[k].do \in {"create_session", "start_task"}
    BY <1>2, <1>4
  <2>2. Open(b, 2, s1)
    BY <2>1, OpenWhile
  <2> QED BY <1>1, <2>1, <2>2, AloneWhile, ParticipantsAssumption
<1>7. Judges(b, 10, t1, TerminalStates)
  BY <1>1, JudgedAt DEF TerminalStates
<1>8. /\ May(b, 0, b[1], stubborn) /\ May(b, 3, b[4], stubborn) /\ May(b, 4, b[5], stubborn)
      /\ May(b, 6, b[7], stubborn) /\ May(b, 7, b[8], stubborn) /\ May(b, 8, b[9], stubborn)
  BY <1>2, PlainMay DEF Plain
<1>9. May(b, 1, b[2], stubborn) /\ May(b, 5, b[6], stubborn)
  BY <1>2, <1>5 DEF May
<1>10. May(b, 2, b[3], stubborn)
  BY <1>2, <1>6 DEF May, MayJudge
<1>11. May(b, 9, b[10], stubborn)
  BY <1>2 DEF May, MayJudge, TerminalStates
<1>12. May(b, 10, b[11], stubborn)
  BY <1>2, <1>7 DEF May
<1> QED BY <1>1, <1>3, <1>8, <1>9, <1>10, <1>11, <1>12 DEF Prepared, b

LEMMA ScenariosArePrepared ==
  \A test \in Subscribed : Prepared(test[1], test[2] \/ ~ConfirmsWorkStopped)
<1> USE ParticipantsAssumption
<1>0. {s1, s2} \subseteq Sessions /\ {t1, t2, t3} \subseteq Tasks
      /\ {"completed"} \subseteq TerminalStates /\ {"cancelled"} \subseteq TerminalStates
      /\ Stopped \subseteq TerminalStates
  BY DEF TerminalStates, Stopped
<1>1. ASSUME NEW stubborn PROVE Prepared(CompletesWithoutObserver, stubborn)
  <2>1. <<Creates(s1), Starts(s1, t1), Awaits(t1, {"completed"})>> \in Seq(Instruction)
    BY <1>0, Vocabulary
  <2> QED BY <2>1, Completes, ExitsOnly, ThenLeaves DEF CompletesWithoutObserver
<1>2. ASSUME NEW stubborn PROVE Prepared(CarriesContext, stubborn)
  <2>1. <<Creates(s1), Starts(s1, t1), Awaits(t1, {"completed"}),
          Starts(s1, t2), Awaits(t2, {"completed"}), Recalls(t2, {t1}),
          Creates(s2), Starts(s2, t3), Awaits(t3, {"completed"}), Recalls(t3, {})>>
          \in Seq(Instruction)
    BY <1>0, Vocabulary
  <2> QED BY <2>1, Carries, ExitsOnly, ThenLeaves DEF CarriesContext
<1>3. ASSUME NEW stubborn PROVE Prepared(RejectsOverlap, stubborn)
  <2>1. <<Creates(s1), Holds, Starts(s1, t1), UntilCalled(t1), CancelsWaiter(t1),
          StillRunning(t1), Refused(s1, "overlap"), LetsGo, Awaits(t1, {"completed"}), Unchanged(t1)>>
          \in Seq(Instruction)
    BY <1>0, Vocabulary
  <2> QED BY <2>1, Rejects, ExitsOnly, ThenLeaves DEF RejectsOverlap
<1>4. ASSUME NEW stubborn, stubborn = FALSE PROVE Prepared(ReusableAfterCancellation, stubborn)
  <2>1. <<Creates(s1), Holds, Starts(s1, t1), UntilCalled(t1), Cancels(t1), UntilAnswered(t1),
          Awaits(t1, {"cancelled"}), LetsGo, Starts(s1, t2), Awaits(t2, {"completed"})>>
          \in Seq(Instruction)
    BY <1>0, Vocabulary
  <2> QED BY <1>4, <2>1, Reuses, ExitsOnly, ThenLeaves DEF ReusableAfterCancellation
<1>5. ASSUME NEW stubborn PROVE Prepared(LateCancellation, stubborn)
  <2>1. <<Holds, Creates(s1), Starts(s1, t1), LetsGo, Awaits(t1, {"completed"}), Cancels(t1),
          UntilAnswered(t1), Unchanged(t1)>> \in Seq(Instruction)
    BY <1>0, Vocabulary
  <2> QED BY <2>1, CancelsLate, ExitsOnly, ThenLeaves DEF LateCancellation
<1>6. ASSUME NEW stubborn PROVE Prepared(CloseSettlesActive, stubborn)
  <2>1. <<Holds, Creates(s1), Creates(s2), Starts(s1, t1), Starts(s2, t2), UntilCalled(t1),
          UntilCalled(t2), Closes, UntilClosed, Awaits(t1, Stopped), Awaits(t2, Stopped),
          Refused(s1, "blocked"), Refused(s2, "blocked"), LetsGo, Closes, UntilClosed,
          Unchanged(t1), Unchanged(t2)>> \in Seq(Instruction)
    BY <1>0, Vocabulary
  <2> QED BY <2>1, SettlesActive, ExitsOnly, ThenLeaves DEF CloseSettlesActive
<1>7. ASSUME NEW stubborn PROVE Prepared(ReleaseOutlivesCaller, stubborn)
  <2>1. <<Holds, Creates(s1), Starts(s1, t1), UntilCalled(t1), Releases(s1),
          CancelsCaller(s1), Awaits(t1, Stopped), Refused(s1, "blocked"), Releases(s1),
          UntilReleased(s1), Unchanged(t1)>>
          \in Seq(Instruction)
    BY <1>0, Vocabulary
  <2> QED BY <2>1, Outlives, ExitsOnly, ThenLeaves DEF ReleaseOutlivesCaller
<1>8. ASSUME NEW stubborn PROVE Prepared(CleanupKeepsCompleted, stubborn)
  <2>1. <<Creates(s1), Starts(s1, t1), Awaits(t1, {"completed"}), Holds, Creates(s2),
          Starts(s2, t2), UntilCalled(t2), Closes, UntilClosed, Awaits(t2, TerminalStates),
          Unchanged(t1)>> \in Seq(Instruction)
    BY <1>0, Vocabulary
  <2> QED BY <2>1, KeepsCompleted, ExitsOnly, ThenLeaves DEF CleanupKeepsCompleted
<1>9. ASSUME NEW sc \in RuntimeSuite, NEW stubborn, stubborn = FALSE
      PROVE  Prepared(sc, stubborn)
  BY <1>1, <1>2, <1>3, <1>4, <1>5, <1>9, Bounds DEF RuntimeSuite
<1>10. ASSUME NEW sc \in CleanupSuite, NEW stubborn PROVE Prepared(sc, stubborn)
  BY <1>6, <1>7, <1>8 DEF CleanupSuite
<1>11. CASE ConfirmsWorkStopped
  BY <1>9, <1>10, <1>11 DEF Subscribed
<1>12. CASE ~ConfirmsWorkStopped
  BY <1>10, <1>12 DEF Subscribed
<1> QED BY <1>11, <1>12

-----------------------------------------------------------------------------
(* Every assertion of every scenario holds.                                *)

OnTrack ==
  /\ verdict = "passing"
  /\ seen \in [Tasks -> Outcome \cup {NoOutcome}]
  /\ \E sc \in Seq(Instruction), n \in Nat :
       Prepared(sc, Unsure) /\ At(sc, n) /\ Facts(sc, n)

LEMMA OnTrackInit == SuiteInit => OnTrack
<1> SUFFICES ASSUME SuiteInit PROVE OnTrack
  OBVIOUS
<1>1. script \in Seq(Instruction) /\ Prepared(script, Unsure)
  <2>1. PICK test \in Subscribed : script = test[1] /\ ignoring = test[2]
    BY DEF SuiteInit
  <2>2. Prepared(script, Unsure)
    BY <2>1, ScenariosArePrepared DEF Unsure
  <2> QED BY <2>2, InitScript DEF Teardown
<1>2. At(script, 0)
  BY <1>1, LenProperties DEF At
<1>3. \A k : k \notin 1 .. 0
  OBVIOUS
<1>4. /\ ~Shuts(script, 0) /\ \A s : ~LetsOut(script, 0, s)
      /\ \A s, t : ~Begins(script, 0, s, t)
      /\ \A t, K : ~Judges(script, 0, t, K)
      /\ \A t : ~Gated(script, 0, t) /\ ~Alone(script, 0, t)
  BY <1>3 DEF Shuts, LetsOut, Begins, Judges, Gated, Alone
<1>5. Init /\ seen \in [Tasks -> Outcome \cup {NoOutcome}] /\ verdict = "passing"
  BY DEF SuiteInit
<1>6. Obeyed(script, 0)
  BY <1>4, <1>5, NoSessionAssumption DEF Obeyed, Init
<1>7. Known(script, 0)
  BY <1>4 DEF Known
<1>8. Behind(script, 0)
  BY <1>3, <1>4 DEF Behind
<1>9. Ordered(script, 0)
  BY <1>3, <1>5 DEF Ordered, Earlier, Init
<1>10. Remembered(script, 0)
  <2>1. \A t \in Tasks : Stores(t) /\ run[t] \notin Input
    BY <1>5, NoSessionAssumption DEF Stores, Input, Init
  <2> QED BY <2>1 DEF Remembered
<1>11. \A t \in Tasks : Fated(t)
  BY <1>5 DEF Fated, Settled, Init, TerminalStates
<1>12. Facts(script, 0)
  BY <1>6, <1>7, <1>8, <1>9, <1>10, <1>11 DEF Facts
<1> QED BY <1>1, <1>2, <1>5, <1>12 DEF OnTrack

LEMMA SeenIsAnOutcome ==
  ASSUME Core, NEW i \in Instruction, Ready(i), seen \in [Tasks -> Outcome \cup {NoOutcome}],
         seen' = IF i.do = "outcome" THEN [seen EXCEPT ![i.t] = outcome[i.t]] ELSE seen
  PROVE  seen' \in [Tasks -> Outcome \cup {NoOutcome}]
<1>1. CASE i.do = "outcome"
  <2>1. i.t \in Tasks /\ outcome[i.t] \in Outcome \cup {NoOutcome}
    BY <1>1, Spoken DEF Core, TypeOK
  <2> QED BY <1>1, <2>1
<1>2. CASE i.do # "outcome"
  BY <1>2
<1> QED BY <1>1, <1>2

LEMMA OnTrackStep ==
  ASSUME Invariants, Deleting, \A t \in Tasks : Conversation(t),
         ConfirmedOutcomeFreesSession, OnTrack, [SuiteNext]_suiteVars
  PROVE  OnTrack'
<1>1. PICK sc \in Seq(Instruction), n \in Nat :
        Prepared(sc, Unsure) /\ At(sc, n) /\ Facts(sc, n)
  BY DEF OnTrack
<1>2. /\ Obeyed(sc, n) /\ Known(sc, n) /\ Behind(sc, n) /\ Ordered(sc, n)
      /\ Remembered(sc, n) /\ \A t \in Tasks : Fated(t)
      /\ Core /\ TypeOK
  BY <1>1 DEF Facts, Invariants, Core
<1>3. verdict = "passing" /\ seen \in [Tasks -> Outcome \cup {NoOutcome}]
  BY DEF OnTrack
<1>4. CASE At(sc, n)' /\ LoopStep
  <2>1. UNCHANGED <<ignoring, seen, verdict>>
    BY <1>4 DEF LoopStep
  <2>2. Facts(sc, n)'
    <3>1. Obeyed(sc, n)'
      BY <1>2, <1>4, ObeyedLoop
    <3>2. Known(sc, n)'
      BY <1>2, <1>4, KnownLoop
    <3>3. Behind(sc, n)'
      BY <1>2, <1>4, BehindLoop
    <3>4. Ordered(sc, n)'
      BY <1>2, <1>4, OrderedLoop
    <3>5. Remembered(sc, n)'
      BY <1>2, <1>4, RememberedLoop
    <3>6. \A t \in Tasks : Fated(t)'
      BY <1>2, <1>4, FatedLoop
    <3> QED BY <3>1, <3>2, <3>3, <3>4, <3>5, <3>6 DEF Facts
  <2>3. Prepared(sc, Unsure)'
    BY <1>1, <2>1 DEF Unsure
  <2> QED BY <1>3, <1>4, <2>1, <2>2, <2>3 DEF OnTrack
<1>5. CASE At(sc, n)' /\ UNCHANGED suiteVars
  <2> USE DEF suiteVars, vars, graphVars, settleVars, taskVars, releaseVars, closeVars
  <2>1. UNCHANGED <<ignoring, seen, verdict>>
    BY <1>5
  <2>2. Facts(sc, n)'
    <3>1. Obeyed(sc, n)'
      BY <1>2, <1>5 DEF Obeyed, Started
    <3>2. Known(sc, n)'
      BY <1>2, <1>5 DEF Known, Settled
    <3>3. Behind(sc, n)' /\ Ordered(sc, n)'
      BY <1>2, <1>5 DEF Behind, Ordered
    <3>4. Remembered(sc, n)'
      BY <1>2, <1>5 DEF Remembered, Calm, Stores, Hears
    <3>5. \A t \in Tasks : Fated(t)'
      BY <1>2, <1>5 DEF Fated, Unsure, Settled
    <3> QED BY <3>1, <3>2, <3>3, <3>4, <3>5 DEF Facts
  <2>3. Prepared(sc, Unsure)'
    BY <1>1, <2>1 DEF Unsure
  <2> QED BY <1>3, <1>5, <2>1, <2>2, <2>3 DEF OnTrack
<1>6. CASE /\ At(sc, n + 1)' /\ ScenarioStep
           /\ n + 1 \in 1 .. Len(sc) /\ Head(script) = sc[n + 1] /\ sc[n + 1] \in Instruction
  <2> DEFINE i == sc[n + 1]
  <2>0. n + 1 \in Nat /\ (n + 1) - 1 = n
    OBVIOUS
  <2>1. /\ i \in Instruction /\ Ready(i) /\ Calls(i) /\ UNCHANGED ignoring
        /\ verdict' = IF Holding(i) THEN verdict ELSE "failed"
        /\ held' = IF i.do = "hold" THEN TRUE ELSE IF i.do = "let_go" THEN FALSE ELSE held
        /\ seen' = IF i.do = "outcome" THEN [seen EXCEPT ![i.t] = outcome[i.t]] ELSE seen
    BY <1>6 DEF ScenarioStep
  <2>2. Holding(i)
    <3>1. May(sc, n, i, Unsure)
      BY <1>1, <1>6, <2>0 DEF Prepared
    <3> QED BY <1>1, <1>2, <2>1, <3>1, PreparedHolds
  <2>3. i = sc[n + 1]
    OBVIOUS
  <2> HIDE DEF i
  <2>4. Facts(sc, n + 1)'
    <3>1. Obeyed(sc, n + 1)'
      BY <1>2, <2>1, <2>2, <2>3, ObeyedCall
    <3>2. Known(sc, n + 1)'
      BY <1>2, <1>3, <2>1, <2>2, <2>3, KnownCall
    <3>3. Behind(sc, n + 1)'
      BY <1>2, <2>1, <2>2, <2>3, BehindCall
    <3>4. Ordered(sc, n + 1)'
      BY <1>2, <2>1, <2>2, <2>3, OrderedCall
    <3>5. Remembered(sc, n + 1)'
      BY <1>2, <2>1, <2>2, <2>3, RememberedCall
    <3>6. \A t \in Tasks : Fated(t)'
      BY <1>2, <2>1, <2>2, FatedCall
    <3> QED BY <3>1, <3>2, <3>3, <3>4, <3>5, <3>6 DEF Facts
  <2>5. verdict' = "passing"
    BY <1>3, <2>1, <2>2
  <2>6. seen' \in [Tasks -> Outcome \cup {NoOutcome}]
    BY <1>2, <1>3, <2>1, SeenIsAnOutcome
  <2>7. Prepared(sc, Unsure)'
    BY <1>1, <2>1 DEF Unsure
  <2> QED BY <1>6, <2>0, <2>4, <2>5, <2>6, <2>7 DEF OnTrack
<1> QED BY <1>1, <1>4, <1>5, <1>6, Advance

\* Every assertion of every scenario the adapter subscribes to holds, for any sessions, tasks
\* and replies, in every order of the event loop: with confirmed cancellation, with the default
\* unconfirmed one, and with models that ignore it (tests/test_conformance.py:95-153).
THEOREM SuiteAssertionsHold == SuiteSpec => []SuitePasses
<1> DEFINE Talking == \A t \in Tasks : Conversation(t)
<1>1. SuiteSpec => []Invariants
  BY SuiteRunsTheAdapter, CoreInvariant, ClosingInvariant, BooksInvariant,
     ReleasingInvariant, PTL DEF Invariants
<1>2. SuiteSpec => []Deleting /\ []Talking /\ []ConfirmedOutcomeFreesSession
  BY SuiteRunsTheAdapter, DeletingInvariant, ConversationInvariant, ConfirmedFrees, PTL
<1>3. SuiteInit => OnTrack
  BY OnTrackInit
<1>4. Invariants /\ Deleting /\ Talking /\ ConfirmedOutcomeFreesSession /\ OnTrack
        /\ [SuiteNext]_suiteVars => OnTrack'
  BY OnTrackStep
<1>5. OnTrack => SuitePasses
  BY DEF OnTrack, SuitePasses
<1> HIDE DEF Talking
<1> QED BY <1>1, <1>2, <1>3, <1>4, <1>5, PTL DEF SuiteSpec
=============================================================================
