------------------------------ MODULE Delivery ------------------------------
(***************************************************************************)
(* The harness the conformance suites describe beyond the one adapter of   *)
(* this repository (conformance/acceptance.py, interaction.py,             *)
(* approval.py, context.py, persistence.py, lifecycle.py): an adapter and  *)
(* a runtime behind a boundary that may lose what is submitted, or its     *)
(* acknowledgement, tasks that ask for approvals, and contexts that        *)
(* outlive their handles.                                                  *)
(*                                                                         *)
(* A submission, of a start or of a response, is one step and what becomes *)
(* of it another one; everything else may happen in between.               *)
(***************************************************************************)
EXTENDS Naturals, Sequences, FiniteSets

CONSTANTS Handles, Contexts, Tasks,
          NoHandle,      \* of a task not started yet
          NoContext,     \* of a handle not created yet
          MaxSubmissions \* responses submitted to one request, in a bounded model

ASSUME NoHandleAssumption == NoHandle \notin Handles
ASSUME NoContextAssumption == NoContext \notin Contexts
ASSUME MaxSubmissionsAssumption == MaxSubmissions \in Nat

VARIABLES
  guarded,     \* the tasks whose effect needs an approval
  adaptable,   \* reopening may change the instructions
  \* the runtime
  work,        \* what it does for a task
  saw,         \* the inputs the model was shown
  effects,     \* how often the guarded effect was made
  hidden,      \* the stored contexts cannot be read
  \* the adapter: handles
  on,          \* the context of a handle
  config,      \* the instructions it was opened with
  usable,      \* the handles that were not released
  shut,        \* aclose was called
  \* the adapter: tasks
  via,         \* the handle a task was started with
  admission,   \* what is known of its start
  outcome,     \* "none" until it is settled
  cancelling,  \* the tasks the runtime was asked to stop
  \* the adapter: the approval a task asks for
  pending,     \* the tasks whose request can be answered
  reply,       \* how the call of respond() stands
  decision,    \* what it submitted
  sent,        \* what became of each submission
  resolutions  \* the InteractionResolved events

setupVars   == <<guarded, adaptable>>
runtimeVars == <<saw, effects, hidden>>
handleVars  == <<on, config, usable, shut>>
startVars   == <<via, admission>>
taskVars    == <<outcome, cancelling>>
replyVars   == <<reply, decision, sent>>
requestVars == <<pending, resolutions>>

vars == <<setupVars, work, runtimeVars, handleVars, startVars, taskVars, replyVars, requestVars>>

-----------------------------------------------------------------------------

Live == {"working", "asking", "allowed", "ready"}
InFlight == {"waiting", "abandoned"}

\* Session-wide approval needs a grant, and these requests carry none.
Offered == {"approve_once", "decline", "cancel"}

\* What the boundary makes of a submission, ...
Fates == {"accept", "reject", "lose_accepted", "lose"}

\* ... whether it reaches the runtime, and what the adapter then knows.
Reaches(fate) == fate \in {"accept", "lose_accepted"}
Known(fate, confirmed, refused) ==
  IF fate = "accept" THEN confirmed ELSE IF fate = "reject" THEN refused ELSE "unconfirmed"

Settled(t) == outcome[t] # "none"
On(c) == {t \in Tasks : via[t] # NoHandle /\ on[via[t]] = c}

\* Wrong Blocked: the uncertainty is the handle's.
BlockedWhileOpen(c) ==
  \E t \in On(c) : admission[t] = "unconfirmed" /\ via[t] \in usable

\* A start that may have been accepted blocks its context for good.
Blocked(c) == \E t \in On(c) : admission[t] = "unconfirmed"

Busy(c) == \E t \in On(c) : \/ admission[t] = "submitted"
                            \/ admission[t] = "accepted" /\ (~Settled(t) \/ work[t] \in Live)

Init ==
  /\ guarded \in SUBSET Tasks /\ adaptable \in BOOLEAN
  /\ work = [t \in Tasks |-> "none"]
  /\ saw = [t \in Tasks |-> {}]
  /\ effects = [t \in Tasks |-> 0]
  /\ hidden = FALSE
  /\ on = [h \in Handles |-> NoContext]
  /\ config = [h \in Handles |-> "original"]
  /\ usable = {} /\ shut = FALSE
  /\ via = [t \in Tasks |-> NoHandle]
  /\ admission = [t \in Tasks |-> "none"]
  /\ outcome = [t \in Tasks |-> "none"]
  /\ cancelling = {} /\ pending = {}
  /\ reply = [t \in Tasks |-> "none"]
  /\ decision = [t \in Tasks |-> "none"]
  /\ sent = [t \in Tasks |-> <<>>]
  /\ resolutions = [t \in Tasks |-> <<>>]

-----------------------------------------------------------------------------
(* Handles and contexts.                                                   *)

Opens(h, c, instructions) ==
  /\ on[h] = NoContext
  /\ on' = [on EXCEPT ![h] = c]
  /\ config' = [config EXCEPT ![h] = instructions]
  /\ usable' = usable \cup {h}
  /\ UNCHANGED <<setupVars, work, runtimeVars, shut, startVars, taskVars, replyVars,
                 requestVars>>

CreateSession(h, c) == /\ ~shut /\ \A x \in Handles : on[x] # c
                       /\ Opens(h, c, "original")

\* What reopen_session answers.
ReopenAnswer(c, instructions) ==
  LET handles == {h \in Handles : on[h] = c}
  IN IF shut \/ hidden \/ handles = {} THEN "transport"
     ELSE IF Blocked(c) THEN "blocked"
     ELSE IF Busy(c) THEN "overlap"
     ELSE IF /\ \E h \in handles : config[h] # instructions
             /\ ~adaptable \/ \E h \in handles \cap usable : config[h] # instructions
       THEN "incompatible" ELSE "reopened"

Reopen(h, c, instructions) == /\ ReopenAnswer(c, instructions) = "reopened"
                              /\ Opens(h, c, instructions)

\* The stored contexts become unreadable, or readable again.
Hide(b) ==
  /\ hidden' = b
  /\ UNCHANGED <<setupVars, work, saw, effects, handleVars, startVars, taskVars, replyVars,
                 requestVars>>

-----------------------------------------------------------------------------
(* Fragments.                                                              *)

\* Wrong Clear: an answered request is cleared once more.
ClearAgain(T, why) ==
  /\ pending' = pending \ T
  /\ resolutions' = [t \in Tasks |-> IF t \in T /\ (t \in pending \/ resolutions[t] # <<>>)
                                       THEN Append(resolutions[t], why) ELSE resolutions[t]]

\* The requests of T that are still open are withdrawn.
Clear(T, why) ==
  /\ pending' = pending \ T
  /\ resolutions' = [t \in Tasks |-> IF t \in T \cap pending
                                       THEN Append(resolutions[t], why) ELSE resolutions[t]]

\* Pending requests are withdrawn first, then the runtime is asked to stop.
StopTasks(T) == /\ cancelling' = cancelling \cup T
                /\ Clear(T, "cancellation_requested")

\* The first judgment stands.
Judge(t, kind) ==
  /\ outcome' = [outcome EXCEPT ![t] = IF Settled(t) THEN @ ELSE kind]
  /\ Clear({t}, "task_ended")

\* Nobody holds a task whose start was not confirmed.
Report(t, kind) ==
  IF admission[t] = "accepted" THEN Judge(t, kind) ELSE UNCHANGED <<outcome, requestVars>>

-----------------------------------------------------------------------------
(* Starting, cancelling and letting go.                                    *)

StartAnswer(h) == IF h \notin usable \/ Blocked(on[h]) THEN "blocked"
                  ELSE IF Busy(on[h]) THEN "overlap" ELSE "submit"

StartTask(h, t) ==
  /\ StartAnswer(h) = "submit" /\ admission[t] = "none"
  /\ via' = [via EXCEPT ![t] = h]
  /\ admission' = [admission EXCEPT ![t] = "submitted"]
  /\ UNCHANGED <<setupVars, work, runtimeVars, handleVars, taskVars, replyVars, requestVars>>

\* The runtime begins with what the context holds and the new input, or nothing.
StartArrives(t, fate) ==
  /\ admission[t] = "submitted"
  /\ admission' = [admission EXCEPT ![t] = Known(fate, "accepted", "refused")]
  /\ IF Reaches(fate)
       THEN /\ work' = [work EXCEPT ![t] = "working"]
            /\ saw' = [saw EXCEPT ![t] = {t} \cup UNION {saw[x] : x \in On(on[via[t]])}]
       ELSE UNCHANGED <<work, saw>>
  /\ UNCHANGED <<setupVars, effects, hidden, handleVars, via, taskVars, replyVars, requestVars>>

RequestCancellation(t) ==
  /\ admission[t] = "accepted"
  /\ IF Settled(t) THEN UNCHANGED <<cancelling, requestVars>> ELSE StopTasks({t})
  /\ UNCHANGED <<setupVars, work, runtimeVars, handleVars, startVars, outcome, replyVars>>

\* The suites leave open what becomes of a start that is under way meanwhile.
Quits(H) ==
  /\ \A t \in Tasks : via[t] \in H => admission[t] # "submitted"
  /\ usable' = usable \ H
  /\ StopTasks({t \in Tasks : via[t] \in H /\ admission[t] = "accepted" /\ ~Settled(t)})
  /\ UNCHANGED <<setupVars, work, runtimeVars, on, config, startVars, outcome, replyVars>>

Release(h) == h \in usable /\ Quits({h}) /\ UNCHANGED shut

Aclose == ~shut /\ Quits(Handles) /\ shut' = TRUE

\* Another harness takes over the stored contexts, and what is uncertain about them.
Recreate ==
  /\ shut /\ \A t \in Tasks : admission[t] = "accepted" => Settled(t)
  /\ shut' = FALSE
  /\ UNCHANGED <<setupVars, work, runtimeVars, on, config, usable, startVars, taskVars,
                 replyVars, requestVars>>

\* The end of the work is not observed in time.
GivesUp(t) ==
  /\ t \in cancelling /\ ~Settled(t)
  /\ Judge(t, "unresolved")
  /\ UNCHANGED <<setupVars, work, runtimeVars, handleVars, startVars, cancelling, replyVars>>

-----------------------------------------------------------------------------
(* The response to an approval request.                                    *)

RespondAnswer(t, d) == IF t \notin pending \/ reply[t] \in InFlight THEN "late"
                       ELSE IF d \notin Offered THEN "invalid" ELSE "submit"

Respond(t, d) ==
  /\ RespondAnswer(t, d) = "submit" /\ Len(sent[t]) < MaxSubmissions
  /\ reply' = [reply EXCEPT ![t] = "waiting"]
  /\ decision' = [decision EXCEPT ![t] = d]
  /\ UNCHANGED <<setupVars, work, runtimeVars, handleVars, startVars, taskVars, sent,
                 requestVars>>

\* Wrong AbandonResponse: the gate opens again.
AbandonAndReopen(t) ==
  /\ reply[t] = "waiting"
  /\ reply' = [reply EXCEPT ![t] = "none"]
  /\ UNCHANGED <<setupVars, work, runtimeVars, handleVars, startVars, taskVars, decision, sent,
                 requestVars>>

\* The caller of respond() is cancelled: what it submitted is under way all the same.
AbandonResponse(t) ==
  /\ reply[t] = "waiting"
  /\ reply' = [reply EXCEPT ![t] = "abandoned"]
  /\ UNCHANGED <<setupVars, work, runtimeVars, handleVars, startVars, taskVars, decision, sent,
                 requestVars>>

\* Wrong ResponseAnswer: a lost acknowledgement counts as nondelivery.
LossIsRefusal(t, fate) == IF fate = "accept" /\ t \in pending THEN "ok" ELSE "transport"

\* A request that was withdrawn meanwhile is not confirmed as answered.
ResponseAnswer(t, fate) ==
  IF t \in pending THEN Known(fate, "ok", "transport")
  ELSE Known(fate, "unconfirmed", "transport")

ResponseArrives(t, fate) ==
  LET taken  == Reaches(fate) /\ work[t] = "asking"
      answer == ResponseAnswer(t, fate)
  IN /\ reply[t] \in InFlight
     /\ reply' = [reply EXCEPT ![t] = answer]
     /\ sent' = [sent EXCEPT ![t] = Append(@, IF fate = "reject" THEN "undelivered"
                                              ELSE IF taken THEN "taken" ELSE "lost")]
     /\ work' = IF taken
                  THEN [work EXCEPT ![t] = IF decision[t] = "approve_once" THEN "allowed"
                                                                           ELSE "ready"]
                  ELSE work
     /\ IF answer = "transport" THEN UNCHANGED requestVars
        ELSE Clear({t}, IF answer = "ok" THEN "responded" ELSE "response_unconfirmed")
     /\ UNCHANGED <<setupVars, runtimeVars, handleVars, startVars, taskVars, decision>>

-----------------------------------------------------------------------------
(* The runtime.                                                            *)

\* A guarded task asks; the request is shown to the caller unless the task was cancelled.
Asks(t) ==
  /\ work[t] = "working" /\ t \in guarded
  /\ work' = [work EXCEPT ![t] = "asking"]
  /\ pending' = pending \cup {x \in {t} \ cancelling : admission[x] = "accepted"}
  /\ UNCHANGED <<setupVars, runtimeVars, handleVars, startVars, taskVars, replyVars,
                 resolutions>>

Effect(t) ==
  /\ work[t] = "allowed"
  /\ work' = [work EXCEPT ![t] = "ready"]
  /\ effects' = [effects EXCEPT ![t] = @ + 1]
  /\ UNCHANGED <<setupVars, saw, hidden, handleVars, startVars, taskVars, replyVars,
                 requestVars>>

Ends(t, kind) ==
  /\ work' = [work EXCEPT ![t] = "ended"]
  /\ Report(t, kind)
  /\ UNCHANGED <<setupVars, runtimeVars, handleVars, startVars, cancelling, replyVars>>

Completes(t) == /\ work[t] = "ready" \/ (work[t] = "working" /\ t \notin guarded)
                /\ Ends(t, "completed")

Fails(t) == work[t] \in Live /\ Ends(t, "failed")

Stops(t) == work[t] \in Live /\ t \in cancelling /\ Ends(t, "cancelled")

\* A report that comes twice, or late.
EndsAgain(t, kind) == work[t] = "ended" /\ Ends(t, kind)

-----------------------------------------------------------------------------

Next ==
  \/ \E h \in Handles, c \in Contexts :
       CreateSession(h, c) \/ \E k \in {"original", "changed"} : Reopen(h, c, k)
  \/ \E h \in Handles : Release(h) \/ \E t \in Tasks : StartTask(h, t)
  \/ Aclose \/ Recreate \/ Hide(~hidden)
  \/ \E t \in Tasks : \/ \E fate \in Fates : StartArrives(t, fate) \/ ResponseArrives(t, fate)
                      \/ \E d \in Offered : Respond(t, d)
                      \/ AbandonResponse(t) \/ RequestCancellation(t) \/ GivesUp(t)
                      \/ Asks(t) \/ Effect(t) \/ Completes(t) \/ Fails(t) \/ Stops(t)
                      \/ \E kind \in {"completed", "failed", "cancelled"} : EndsAgain(t, kind)

Spec == Init /\ [][Next]_vars

-----------------------------------------------------------------------------
(* Properties.                                                             *)

\* Every variable keeps its type.
TypeOK ==
  /\ guarded \subseteq Tasks /\ adaptable \in BOOLEAN
  /\ work \in [Tasks -> {"none", "ended"} \cup Live]
  /\ saw \in [Tasks -> SUBSET Tasks] /\ effects \in [Tasks -> Nat] /\ hidden \in BOOLEAN
  /\ on \in [Handles -> Contexts \cup {NoContext}]
  /\ config \in [Handles -> {"original", "changed"}]
  /\ usable \subseteq Handles /\ shut \in BOOLEAN
  /\ via \in [Tasks -> Handles \cup {NoHandle}]
  /\ admission \in [Tasks -> {"none", "submitted", "accepted", "refused", "unconfirmed"}]
  /\ outcome \in [Tasks -> {"none", "completed", "failed", "cancelled", "unresolved"}]
  /\ cancelling \subseteq Tasks /\ pending \subseteq Tasks
  /\ reply \in [Tasks -> {"none", "ok", "transport", "unconfirmed"} \cup InFlight]
  /\ decision \in [Tasks -> {"none"} \cup Offered]
  /\ sent \in [Tasks -> Seq({"undelivered", "taken", "lost"})]
  /\ resolutions \in [Tasks -> Seq({"responded", "response_unconfirmed",
                                    "cancellation_requested", "task_ended"})]

\* A guarded effect is made at most once, and only after the caller approved this very
\* task: never after a decline, and never when respond() reported nondelivery
\* (acceptance.py:148-213, approval.py:49-79).
EffectsAreAuthorised ==
  \A t \in Tasks : effects[t] > 0 =>
    effects[t] = 1 /\ decision[t] = "approve_once" /\ reply[t] \in {"ok", "unconfirmed"}

\* Whatever its caller does, a response is submitted again only after confirmed
\* nondelivery (acceptance.py:148-193, interaction.py:61-78).
NothingIsResubmitted ==
  \A t \in Tasks : \A i \in 1..Len(sent[t]) :
    sent[t][i] # "undelivered" => i = Len(sent[t]) /\ reply[t] \notin InFlight

\* The runtime never works twice on one context, the work of starts nobody heard of and
\* of unresolved tasks included, whatever handles stand for it and whichever harness
\* (acceptance.py:96-139, context.py:27-82).
OneWorkPerContext ==
  \A c \in Contexts : \A t, x \in On(c) : work[t] \in Live /\ work[x] \in Live => t = x

\* A request is shown as long as it can be answered, and its end is told once: to the
\* event stream, to the snapshot and to the responder alike (interaction.py:80-130).
ResolvedOnce ==
  \A t \in Tasks :
    /\ Len(resolutions[t]) <= 1
    /\ t \in pending => work[t] = "asking" /\ ~Settled(t) /\ resolutions[t] = <<>>
    /\ reply[t] = "ok" <=> resolutions[t] = <<"responded">>
=============================================================================
