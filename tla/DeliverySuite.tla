--------------------------- MODULE DeliverySuite ---------------------------
(***************************************************************************)
(* The scenarios of the conformance suites Delivery answers to.            *)
(* A scenario makes calls, sets the controls of its fixture, waits for     *)
(* facts and asserts facts; adapter and runtime work on in any order its   *)
(* fixture allows.                                                         *)
(***************************************************************************)
EXTENDS Delivery

CONSTANTS h1, h2, h3, c1, c2, t1, t2, t3

ASSUME ScenarioAssumption == /\ {h1, h2, h3} \subseteq Handles /\ {c1, c2} \subseteq Contexts
                             /\ {t1, t2, t3} \subseteq Tasks

\* Whatever a scenario names twice, it names differently.
ASSUME NamesAssumption == /\ h1 # h2 /\ h2 # h3 /\ h1 # h3 /\ c1 # c2
                          /\ t1 # t2 /\ t2 # t3 /\ t1 # t3

VARIABLES script,  \* what the scenario has left to do
          fixture, \* its controls
          verdict  \* of the scenario: an assertion failed, or none has

suiteVars == <<vars, script, fixture, verdict>>

-----------------------------------------------------------------------------
(* Instructions.                                                           *)

Sets(control, value)     == <<[do |-> "set", control |-> control, is |-> value]>>
Asserts(what, of, is)    == <<[do |-> "assert", what |-> what, of |-> of, is |-> is]>>
Until(what, of, is)      == <<[do |-> "until", what |-> what, of |-> of, is |-> is]>>
Call(do, of)             == <<[do |-> do, of |-> of]>>

Holds == Sets("hold", TRUE)
LetsGo == Sets("hold", FALSE)

Creates(h, c) == Call("create", <<h, c>>)
Reopens(h, c, instructions) ==
  Asserts("reopening", <<c, instructions>>, {"reopened"}) \o Call("reopen", <<h, c, instructions>>)

StartsInto(h, t, how) ==
  Asserts("start", h, {"submit"}) \o Call("start", <<h, t>>) \o
  Until("admission", t, {"accepted", "refused", "unconfirmed"}) \o Asserts("admission", t, {how})
Starts(h, t) == StartsInto(h, t, "accepted")

Responds(t, d) == Asserts("response", <<t, d>>, {"submit"}) \o Call("respond", <<t, d>>)
Answered(t, how) == Until("reply", t, {"ok", "transport", "unconfirmed"}) \o
                    Asserts("reply", t, {how})
RespondsInto(t, d, how) == Responds(t, d) \o Answered(t, how)

AnyOutcome == {"completed", "failed", "cancelled", "unresolved"}
Awaits(t, kind) == Until("outcome", t, AnyOutcome) \o Asserts("outcome", t, {kind})
Reports(t, kind) == Call("report", <<t, kind>>)

Runs(h, t) == Starts(h, t) \o Awaits(t, "completed")

-----------------------------------------------------------------------------
(* acceptance.py                                                           *)

HeldStart ==
  Holds \o Creates(h1, c1) \o Starts(h1, t1) \o Until("seen", t1, {TRUE}) \o
  Asserts("outcome", t1, {"none"}) \o LetsGo \o Awaits(t1, "completed")

NondeliveredStart ==
  Creates(h1, c1) \o Sets("start", "reject") \o StartsInto(h1, t1, "refused") \o
  Asserts("submitted starts", h1, {1}) \o Asserts("accepted starts", h1, {0}) \o
  Sets("start", "accept") \o Runs(h1, t2) \o
  Asserts("submitted starts", h1, {2}) \o Asserts("accepted starts", h1, {1})

LostStart(fate, accepted) ==
  Holds \o Creates(h1, c1) \o Sets("start", fate) \o StartsInto(h1, t1, "unconfirmed") \o
  Asserts("submitted starts", h1, {1}) \o Asserts("accepted starts", h1, {accepted}) \o
  Asserts("start", h1, {"blocked"}) \o Asserts("seen", t1, {accepted = 1}) \o LetsGo \o
  Sets("start", "accept") \o Creates(h2, c2) \o Runs(h2, t2) \o
  Asserts("start", h1, {"blocked"}) \o Asserts("submitted starts", h1, {2})

\* A guarded task whose request is shown.
Opening == Creates(h1, c1) \o Starts(h1, t1) \o Until("pending", t1, {TRUE})
Approves(t) == RespondsInto(t, "approve_once", "ok")
Blocks(t, d, why) == Asserts("response", <<t, d>>, {why})

NondeliveredResponse ==
  Opening \o Asserts("effects", t1, {0}) \o Sets("response", "reject") \o
  RespondsInto(t1, "approve_once", "transport") \o Asserts("pending", t1, {TRUE}) \o
  Asserts("taken", t1, {0}) \o Asserts("effects", t1, {0}) \o Sets("response", "accept") \o
  Approves(t1) \o LetsGo \o Awaits(t1, "completed") \o Asserts("effects", t1, {1}) \o
  Asserts("taken", t1, {1}) \o Asserts("submissions", t1, {2})

LostResponse(fate, taken) ==
  Opening \o Sets("response", fate) \o RespondsInto(t1, "approve_once", "unconfirmed") \o
  Asserts("pending", t1, {FALSE}) \o Blocks(t1, "approve_once", "late") \o
  Asserts("submissions", t1, {1}) \o Asserts("taken", t1, {taken}) \o
  (IF taken = 1
     THEN LetsGo \o Awaits(t1, "completed") \o Asserts("effects", t1, {1})
     ELSE Asserts("effects", t1, {0}) \o Asserts("outcome", t1, {"none"}) \o
          Call("cancel", t1) \o Until("outcome", t1, AnyOutcome)) \o
  Asserts("resolutions", t1, {<<"response_unconfirmed">>})

-----------------------------------------------------------------------------
(* interaction.py                                                          *)

InvalidResponse ==
  Opening \o Blocks(t1, "answer", "invalid") \o Blocks(t1, "approve_for_session", "invalid") \o
  Asserts("submissions", t1, {0}) \o Asserts("effects", t1, {0}) \o Approves(t1) \o LetsGo \o
  Awaits(t1, "completed") \o Asserts("effects", t1, {1})

CancelledResponder ==
  Opening \o Sets("holdResponse", TRUE) \o Responds(t1, "approve_once") \o Call("abandon", t1) \o
  Blocks(t1, "approve_once", "late") \o Asserts("submissions", t1, {1}) \o
  Sets("holdResponse", FALSE) \o LetsGo \o Awaits(t1, "completed") \o Asserts("effects", t1, {1})

CancellationClears ==
  Opening \o Call("cancel", t1) \o Asserts("pending", t1, {FALSE}) \o
  Blocks(t1, "approve_once", "late") \o Awaits(t1, "cancelled") \o LetsGo \o
  Asserts("effects", t1, {0}) \o Asserts("submissions", t1, {0}) \o
  Asserts("resolutions", t1, {<<"cancellation_requested">>})

LateDelivery ==
  Opening \o Sets("holdResponse", TRUE) \o Responds(t1, "approve_once") \o Call("cancel", t1) \o
  Awaits(t1, "cancelled") \o Sets("holdResponse", FALSE) \o Answered(t1, "unconfirmed") \o
  LetsGo \o Awaits(t1, "cancelled") \o Asserts("pending", t1, {FALSE}) \o
  Asserts("effects", t1, {0}) \o Asserts("resolutions", t1, {<<"cancellation_requested">>})

LateDuplicate ==
  Opening \o Approves(t1) \o LetsGo \o Awaits(t1, "completed") \o
  Blocks(t1, "approve_once", "late") \o Call("cancel", t1) \o Awaits(t1, "completed") \o
  Asserts("submissions", t1, {1}) \o Asserts("effects", t1, {1})

-----------------------------------------------------------------------------
(* approval.py                                                             *)

UnboundedGrant ==
  Opening \o Blocks(t1, "approve_for_session", "invalid") \o Asserts("submissions", t1, {0}) \o
  Asserts("effects", t1, {0}) \o RespondsInto(t1, "decline", "ok") \o LetsGo \o
  Awaits(t1, "completed") \o Asserts("effects", t1, {0})

RepeatedEffect(newSession) ==
  LET h == IF newSession THEN h2 ELSE h1
  IN Opening \o Approves(t1) \o LetsGo \o Awaits(t1, "completed") \o Asserts("effects", t1, {1}) \o
     (IF newSession THEN Creates(h2, c2) ELSE <<>>) \o Starts(h, t2) \o
     Until("pending", t2, {TRUE}) \o Asserts("effects", t2, {0}) \o
     RespondsInto(t2, "decline", "ok") \o LetsGo \o Awaits(t2, "completed") \o
     Asserts("effects", t2, {0})

-----------------------------------------------------------------------------
(* context.py                                                              *)

SharedExclusion ==
  Creates(h1, c1) \o Runs(h1, t1) \o Reopens(h2, c1, "original") \o Holds \o Starts(h2, t2) \o
  Asserts("start", h1, {"overlap", "blocked"}) \o
  Asserts("reopening", <<c1, "original">>, {"overlap", "blocked"}) \o
  Asserts("submitted starts", h1, {2}) \o LetsGo \o Awaits(t2, "completed") \o
  Call("release", h1) \o Asserts("start", h1, {"blocked"}) \o Runs(h2, t3) \o
  Asserts("context", t3, {{t1, t2, t3}})

BlockedAliases ==
  Creates(h1, c1) \o Runs(h1, t1) \o Reopens(h2, c1, "original") \o Sets("start", "lose") \o
  StartsInto(h2, t2, "unconfirmed") \o Asserts("start", h1, {"blocked"}) \o
  Asserts("reopening", <<c1, "original">>, {"blocked"}) \o Call("release", h1) \o
  Call("release", h2) \o Asserts("submitted starts", h1, {2}) \o Call("aclose", h1) \o
  Call("recreate", h1) \o Asserts("reopening", <<c1, "original">>, {"blocked"}) \o
  Sets("start", "accept") \o Creates(h3, c2) \o Runs(h3, t3) \o Asserts("context", t3, {{t3}})

IndependentRelease ==
  Creates(h1, c1) \o Creates(h2, c2) \o Holds \o Starts(h1, t1) \o Starts(h2, t2) \o
  Until("seen", t2, {TRUE}) \o Call("release", h1) \o Awaits(t1, "cancelled") \o
  Asserts("outcome", t2, {"none"}) \o LetsGo \o Awaits(t2, "completed") \o
  Asserts("context", t2, {{t2}})

-----------------------------------------------------------------------------
(* persistence.py                                                          *)

ChangedConfiguration(supported) ==
  Creates(h1, c1) \o Runs(h1, t1) \o Asserts("reopening", <<c1, "changed">>, {"incompatible"}) \o
  Runs(h1, t2) \o Asserts("instructions", t2, {"original"}) \o Call("release", h1) \o
  (IF supported
     THEN Reopens(h2, c1, "changed") \o Runs(h2, t3) \o Asserts("instructions", t3, {"changed"})
     ELSE Asserts("reopening", <<c1, "changed">>, {"incompatible"}))

UnknownReference ==
  Creates(h1, c1) \o Runs(h1, t1) \o
  Asserts("reopening", <<c2, "original">>, {"transport", "incompatible"}) \o Runs(h1, t2)

UnavailableHistory ==
  Creates(h1, c1) \o Runs(h1, t1) \o Call("release", h1) \o Call("aclose", h1) \o
  Call("hide", TRUE) \o Call("recreate", h1) \o
  Asserts("reopening", <<c1, "original">>, {"transport"}) \o Call("aclose", h1) \o
  Call("hide", FALSE) \o Call("recreate", h1) \o Reopens(h2, c1, "original") \o Runs(h2, t2) \o
  Asserts("context", t2, {{t1, t2}})

-----------------------------------------------------------------------------
(* lifecycle.py, where the scenario is the runtime                          *)

Failure == Creates(h1, c1) \o Starts(h1, t1) \o Reports(t1, "failed") \o Awaits(t1, "failed")

CompletionWins ==
  Creates(h1, c1) \o Starts(h1, t1) \o Call("cancel", t1) \o Reports(t1, "completed") \o
  Awaits(t1, "completed")

LateFailure ==
  Creates(h1, c1) \o Starts(h1, t1) \o Reports(t1, "completed") \o Reports(t1, "failed") \o
  Awaits(t1, "completed")

Concurrent ==
  Creates(h1, c1) \o Creates(h2, c2) \o Starts(h1, t1) \o Starts(h2, t2) \o
  Reports(t1, "completed") \o Reports(t2, "completed") \o Awaits(t1, "completed") \o
  Awaits(t2, "completed")

CloseWithoutEvidence ==
  Creates(h1, c1) \o Starts(h1, t1) \o Call("aclose", h1) \o Awaits(t1, "unresolved")

-----------------------------------------------------------------------------

PlainTests ==
  {HeldStart, NondeliveredStart, LostStart("lose_accepted", 1), LostStart("lose", 0),
   SharedExclusion, BlockedAliases, IndependentRelease, UnknownReference, UnavailableHistory}

GuardedTests ==
  {NondeliveredResponse, LostResponse("lose_accepted", 1), LostResponse("lose", 0),
   InvalidResponse, CancelledResponder, CancellationClears, LateDelivery, LateDuplicate,
   UnboundedGrant, RepeatedEffect(FALSE), RepeatedEffect(TRUE)}

LifecycleTests == {Failure, CompletionWins, LateFailure, Concurrent, CloseWithoutEvidence}

\* A test, the tasks that ask in it, and whether reopening may change instructions.
Tests == (PlainTests \X {{}} \X {TRUE}) \cup (GuardedTests \X {Tasks} \X {TRUE})
           \cup (LifecycleTests \X {{}} \X {TRUE})
           \cup {<<ChangedConfiguration(b), {}, b>> : b \in BOOLEAN}

\* The controls, before a scenario sets them; the runtime of a manual fixture does only
\* what it is told.
Controls(manual) == [start |-> "accept", response |-> "accept", hold |-> FALSE,
                     holdResponse |-> FALSE, manual |-> manual]

SuiteInit == /\ Init
             /\ \E test \in Tests :
                  /\ script = test[1] /\ guarded = test[2] /\ adaptable = test[3]
                  /\ fixture = Controls(test[1] \in LifecycleTests)
             /\ verdict = "passing"

\* What a scenario can see, at the port and at the boundary of its fixture.
Fact(what, of) ==
  CASE what = "start"            -> StartAnswer(of)
    [] what = "reopening"        -> ReopenAnswer(of[1], of[2])
    [] what = "response"         -> RespondAnswer(of[1], of[2])
    [] what = "admission"        -> admission[of]
    [] what = "reply"            -> reply[of]
    [] what = "outcome"          -> outcome[of]
    [] what = "pending"          -> of \in pending
    [] what = "resolutions"      -> resolutions[of]
    [] what = "instructions"     -> config[via[of]]
    [] what = "seen"             -> saw[of] # {}
    [] what = "context"          -> saw[of]
    [] what = "effects"          -> effects[of]
    [] what = "submitted starts" -> Cardinality({t \in Tasks : admission[t] # "none"})
    [] what = "accepted starts"  -> Cardinality({t \in Tasks : work[t] # "none"})
    [] what = "submissions"      -> Len(sent[of]) + (IF reply[of] \in InFlight THEN 1 ELSE 0)
    [] what = "taken"            -> Cardinality({k \in 1..Len(sent[of]) : sent[of][k] = "taken"})

\* The runtime of a manual fixture reports the end of its work, or reports once more.
IsTold(t, kind) == \/ kind = "completed" /\ Completes(t)
                   \/ kind = "failed" /\ Fails(t)
                   \/ EndsAgain(t, kind)

Calls(i) ==
  CASE i.do = "create"   -> CreateSession(i.of[1], i.of[2])
    [] i.do = "reopen"   -> Reopen(i.of[1], i.of[2], i.of[3])
    [] i.do = "start"    -> StartTask(i.of[1], i.of[2])
    [] i.do = "respond"  -> Respond(i.of[1], i.of[2])
    [] i.do = "abandon"  -> AbandonResponse(i.of)
    [] i.do = "cancel"   -> RequestCancellation(i.of)
    [] i.do = "release"  -> Release(i.of)
    [] i.do = "aclose"   -> Aclose
    [] i.do = "recreate" -> Recreate
    [] i.do = "hide"     -> Hide(i.of)
    [] i.do = "report"   -> IsTold(i.of[1], i.of[2])
    [] OTHER             -> UNCHANGED vars

ScenarioStep ==
  LET i == Head(script)
      holds == Fact(i.what, i.of) \in i.is
  IN /\ script # <<>>
     /\ i.do = "until" => holds
     /\ script' = Tail(script)
     /\ verdict' = IF i.do = "assert" /\ ~holds THEN "failed" ELSE verdict
     /\ fixture' = IF i.do = "set" THEN [fixture EXCEPT ![i.control] = i.is] ELSE fixture
     /\ Calls(i)

\* A scenario never waits for a bound, but for that of aclose when its runtime is silent.
FixtureStep ==
  /\ \E t \in Tasks :
       \/ StartArrives(t, fixture.start)
       \/ ~fixture.holdResponse /\ ResponseArrives(t, fixture.response)
       \/ /\ ~fixture.manual
          /\ Asks(t) \/ Effect(t) \/ Stops(t) \/ (~fixture.hold /\ Completes(t))
       \/ fixture.manual /\ shut /\ GivesUp(t)
  /\ UNCHANGED <<script, fixture, verdict>>

Over == script = <<>> /\ UNCHANGED suiteVars

SuiteNext == ScenarioStep \/ FixtureStep \/ Over

SuiteSpec == SuiteInit /\ [][SuiteNext]_suiteVars

\* Every assertion of every scenario holds, in every order of the adapter and the runtime;
\* that no scenario waits in vain is that none but a finished one deadlocks.
DeliverySuitePasses == verdict # "failed"
=============================================================================
