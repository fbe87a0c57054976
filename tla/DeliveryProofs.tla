--------------------------- MODULE DeliveryProofs ---------------------------
(***************************************************************************)
(* Proofs about Delivery, for any number of handles, contexts and tasks:   *)
(* what the contract promises, that the scenarios of DeliverySuite are     *)
(* runs of it, and that every assertion of every scenario holds.           *)
(***************************************************************************)
EXTENDS DeliverySuite, SequenceTheorems, FiniteSetTheorems, TLAPS

-----------------------------------------------------------------------------
(* What is known of an approval request at every moment.                   *)

Unanswered == {"none", "transport"} \cup InFlight
Confirmed == {"ok", "unconfirmed"}

\* A request is shown to who can answer it.
Shown(t) ==
  t \in pending => /\ work[t] = "asking" /\ admission[t] = "accepted" /\ ~Settled(t)
                   /\ t \notin cancelling /\ resolutions[t] = <<>> /\ reply[t] \in Unanswered

\* Before it asks nothing was said about it.
Unasked(t) == work[t] \in {"none", "working"} => resolutions[t] = <<>> /\ reply[t] = "none"

Resolved(t) == /\ Len(resolutions[t]) <= 1
               /\ reply[t] = "ok" <=> resolutions[t] = <<"responded">>

\* An approval is on its way to the effect.
Authorised(t) ==
  /\ work[t] \in {"none", "working", "asking", "allowed"} => effects[t] = 0
  /\ work[t] = "allowed" \/ effects[t] > 0 => decision[t] = "approve_once" /\ reply[t] \in Confirmed
  /\ effects[t] <= 1

Submitted(t) ==
  \A i \in 1..Len(sent[t]) :
    sent[t][i] # "undelivered" => i = Len(sent[t]) /\ reply[t] \in Confirmed

Judged(t) == Settled(t) => work[t] = "ended" \/ t \in cancelling

Request(t) == Shown(t) /\ Unasked(t) /\ Resolved(t) /\ Authorised(t) /\ Submitted(t) /\ Judged(t)

-----------------------------------------------------------------------------
(* What is known of a context.                                             *)

Occupies(t) == admission[t] = "submitted" \/ work[t] \in Live

Placed(t) == /\ work[t] \in Live => admission[t] \in {"accepted", "unconfirmed"}
             /\ admission[t] \in {"none", "submitted"} => work[t] = "none"
             /\ admission[t] # "none" <=> via[t] # NoHandle
             /\ via[t] # NoHandle => on[via[t]] # NoContext

Exclusive == \A t, x \in Tasks :
  (/\ Occupies(t) /\ Occupies(x) /\ via[t] # NoHandle /\ via[x] # NoHandle
   /\ on[via[t]] = on[via[x]]) => t = x

ContextInv == /\ \A t \in Tasks : Placed(t)
              /\ \A h \in usable : on[h] # NoContext
              /\ Exclusive

-----------------------------------------------------------------------------
(* Types.                                                                  *)

Reasons == {"responded", "response_unconfirmed", "cancellation_requested", "task_ended"}

LEMMA ClearType ==
  ASSUME TypeOK, NEW T, NEW why \in Reasons, Clear(T, why)
  PROVE  pending' \subseteq Tasks /\ resolutions' \in [Tasks -> Seq(Reasons)]
<1>1. resolutions \in [Tasks -> Seq(Reasons)] BY DEF TypeOK, Reasons
<1>2. \A t \in Tasks : Append(resolutions[t], why) \in Seq(Reasons) BY <1>1
<1> QED BY <1>1, <1>2 DEF TypeOK, Clear

LEMMA InitType == Init => TypeOK
<1> SUFFICES ASSUME Init PROVE TypeOK OBVIOUS
<1>1. \A S : <<>> \in Seq(S) OBVIOUS
<1>2. /\ sent \in [Tasks -> Seq({"undelivered", "taken", "lost"})]
      /\ resolutions \in [Tasks -> Seq(Reasons)]
  BY <1>1 DEF Init
<1> QED BY <1>2 DEF Init, TypeOK, Reasons

LEMMA TypeStep == TypeOK /\ [Next]_vars => TypeOK'
<1> SUFFICES ASSUME TypeOK, [Next]_vars PROVE TypeOK' OBVIOUS
<1> USE DEF setupVars, runtimeVars, handleVars, startVars, taskVars, replyVars, requestVars
<1>1. ASSUME NEW h \in Handles, NEW c \in Contexts, NEW k \in {"original", "changed"},
             Opens(h, c, k)
      PROVE  TypeOK'
  BY <1>1 DEF TypeOK, Opens
<1>2. ASSUME NEW h \in Handles, NEW t \in Tasks, StartTask(h, t) PROVE TypeOK'
  BY <1>2 DEF TypeOK, StartTask
<1>3. ASSUME NEW H, Quits(H), shut' \in BOOLEAN PROVE TypeOK'
  <2>1. pending' \subseteq Tasks /\ resolutions' \in [Tasks -> Seq(Reasons)]
    BY <1>3, ClearType DEF Quits, StopTasks, Reasons
  <2>2. cancelling' \subseteq Tasks /\ usable' \subseteq Handles
    BY <1>3 DEF TypeOK, Quits, StopTasks
  <2> QED BY <1>3, <2>1, <2>2 DEF TypeOK, Quits, Reasons
<1>4. CASE Recreate BY <1>4 DEF TypeOK, Recreate
<1>5. CASE Hide(~hidden) BY <1>5 DEF TypeOK, Hide
<1>6. ASSUME NEW t \in Tasks, NEW fate \in Fates, StartArrives(t, fate) PROVE TypeOK'
  <2>1. Known(fate, "accepted", "refused") \in {"accepted", "refused", "unconfirmed"} BY DEF Known
  <2>2. work' \in [Tasks -> {"none", "ended"} \cup Live]
    BY <1>6 DEF TypeOK, StartArrives, Live
  <2>3. ASSUME NEW X \in SUBSET Tasks PROVE {t} \cup UNION {saw[x] : x \in X} \subseteq Tasks
    <3>1. \A x \in X : saw[x] \subseteq Tasks BY DEF TypeOK
    <3>2. ASSUME NEW y \in UNION {saw[x] : x \in X} PROVE y \in Tasks
      <4>1. PICK S \in {saw[x] : x \in X} : y \in S OBVIOUS
      <4>2. PICK x \in X : S = saw[x] BY <4>1
      <4> QED BY <4>1, <4>2, <3>1
    <3> QED BY <3>2
  <2>4. On(on[via[t]]) \subseteq Tasks BY DEF On
  <2>5. saw' \in [Tasks -> SUBSET Tasks]
    <3> DEFINE shown == {t} \cup UNION {saw[x] : x \in On(on[via[t]])}
    <3>1. shown \in SUBSET Tasks BY <2>3, <2>4
    <3>2. saw' = saw \/ saw' = [saw EXCEPT ![t] = shown] BY <1>6 DEF StartArrives
    <3> HIDE DEF shown
    <3> QED BY <3>1, <3>2 DEF TypeOK
  <2> QED BY <1>6, <2>1, <2>2, <2>5 DEF TypeOK, StartArrives
<1>7. ASSUME NEW t \in Tasks, NEW fate \in Fates, ResponseArrives(t, fate) PROVE TypeOK'
  <2>1. ResponseAnswer(t, fate) \in {"ok", "transport", "unconfirmed"}
    BY DEF ResponseAnswer, Known
  <2>2. pending' \subseteq Tasks /\ resolutions' \in [Tasks -> Seq(Reasons)]
    BY <1>7, <2>1, ClearType DEF ResponseArrives, Reasons, TypeOK
  <2>3. work' \in [Tasks -> {"none", "ended"} \cup Live]
    BY <1>7 DEF TypeOK, ResponseArrives, Live
  <2>4. sent' \in [Tasks -> Seq({"undelivered", "taken", "lost"})]
    BY <1>7 DEF TypeOK, ResponseArrives
  <2> QED BY <1>7, <2>1, <2>2, <2>3, <2>4 DEF TypeOK, ResponseArrives, Reasons
<1>8. ASSUME NEW t \in Tasks, NEW d \in Offered, Respond(t, d) PROVE TypeOK'
  BY <1>8 DEF TypeOK, Respond, InFlight
<1>9. ASSUME NEW t \in Tasks, AbandonResponse(t) PROVE TypeOK'
  BY <1>9 DEF TypeOK, AbandonResponse, InFlight
<1>10. ASSUME NEW t \in Tasks, RequestCancellation(t) PROVE TypeOK'
  <2>1. pending' \subseteq Tasks /\ resolutions' \in [Tasks -> Seq(Reasons)]
    BY <1>10, ClearType DEF RequestCancellation, StopTasks, Reasons, TypeOK
  <2> QED BY <1>10, <2>1 DEF TypeOK, RequestCancellation, StopTasks, Reasons
<1>11. ASSUME NEW t \in Tasks, GivesUp(t) PROVE TypeOK'
  <2>1. pending' \subseteq Tasks /\ resolutions' \in [Tasks -> Seq(Reasons)]
    BY <1>11, ClearType DEF GivesUp, Judge, Reasons
  <2> QED BY <1>11, <2>1 DEF TypeOK, GivesUp, Judge, Reasons
<1>12. ASSUME NEW t \in Tasks, Asks(t) PROVE TypeOK'
  BY <1>12 DEF TypeOK, Asks, Live
<1>13. ASSUME NEW t \in Tasks, Effect(t) PROVE TypeOK'
  BY <1>13 DEF TypeOK, Effect, Live
<1>14. ASSUME NEW t \in Tasks, NEW kind \in {"completed", "failed", "cancelled"}, Ends(t, kind)
       PROVE  TypeOK'
  <2>1. pending' \subseteq Tasks /\ resolutions' \in [Tasks -> Seq(Reasons)]
    BY <1>14, ClearType DEF Ends, Report, Judge, Reasons, TypeOK
  <2>2. outcome' \in [Tasks -> {"none", "completed", "failed", "cancelled", "unresolved"}]
    BY <1>14 DEF TypeOK, Ends, Report, Judge
  <2> QED BY <1>14, <2>1, <2>2 DEF TypeOK, Ends, Reasons
<1>15. CASE UNCHANGED vars BY <1>15 DEF TypeOK, vars
<1> QED
  BY <1>1, <1>2, <1>3, <1>4, <1>5, <1>6, <1>7, <1>8, <1>9, <1>10, <1>11, <1>12, <1>13, <1>14,
     <1>15
  DEF Next, CreateSession, Reopen, Release, Aclose, Completes, Fails, Stops, EndsAgain, TypeOK

\* Every variable of a Delivery run keeps its type.
THEOREM DeliveryTypeCorrect == Spec => []TypeOK
<1>1. Init => TypeOK BY InitType
<1>2. TypeOK /\ [Next]_vars => TypeOK' BY TypeStep
<1> QED BY <1>1, <1>2, PTL DEF Spec

-----------------------------------------------------------------------------
(* The request of one task, whichever task a step is about.                *)

\* What withdrawing requests does to each of them.
LEMMA ClearAt ==
  ASSUME TypeOK, NEW T, NEW why, Clear(T, why), NEW x \in Tasks
  PROVE  /\ x \in pending' <=> x \in pending /\ x \notin T
         /\ x \in pending /\ x \in T => resolutions'[x] = Append(resolutions[x], why)
         /\ x \notin pending \/ x \notin T => resolutions'[x] = resolutions[x]
BY DEF TypeOK, Clear

LEMMA FirstReason == \A why : Append(<<>>, why) = <<why>> /\ Len(<<why>>) = 1
OBVIOUS

\* A request is left alone, or withdrawn.
Withdrawn(x) ==
  /\ x \in pending' => x \in pending /\ resolutions'[x] = resolutions[x]
  /\ \/ resolutions'[x] = resolutions[x]
     \/ /\ x \in pending
        /\ \E why \in Reasons \ {"responded"} : resolutions'[x] = Append(resolutions[x], why)

LEMMA ClearWithdraws ==
  ASSUME TypeOK, NEW T, NEW why \in Reasons \ {"responded"}, Clear(T, why), NEW x \in Tasks
  PROVE  Withdrawn(x)
<1>1. /\ x \in pending' <=> x \in pending /\ x \notin T
      /\ x \in pending /\ x \in T => resolutions'[x] = Append(resolutions[x], why)
      /\ x \notin pending \/ x \notin T => resolutions'[x] = resolutions[x]
  BY ClearAt
<1> QED BY <1>1 DEF Withdrawn

\* Withdrawing a request keeps all that is known of it, whatever else befalls its task.
LEMMA WithdrawnRequest ==
  ASSUME TypeOK, NEW x \in Tasks, Request(x), Withdrawn(x), TypeOK',
         UNCHANGED <<reply[x], decision[x], sent[x], effects[x]>>,
         work'[x] = work[x] \/ work'[x] = "ended",
         cancelling \subseteq cancelling',
         outcome'[x] = outcome[x] \/ work'[x] = "ended" \/ x \in cancelling',
         x \in pending' => /\ work'[x] = work[x] /\ outcome'[x] = outcome[x]
                           /\ admission'[x] = admission[x]
                           /\ x \in cancelling' => x \in cancelling
  PROVE  Request(x)'
<1> USE DEF Request
<1>1. Shown(x)' BY DEF Shown, Withdrawn, Settled
<1>2. Unasked(x)'
  BY DEF Unasked, Shown, Withdrawn
<1>3. Resolved(x)'
  <2>1. CASE resolutions'[x] = resolutions[x] BY <2>1 DEF Resolved
  <2>2. CASE resolutions'[x] # resolutions[x]
    <3>1. PICK why \in Reasons \ {"responded"} : resolutions'[x] = Append(resolutions[x], why)
      BY <2>2 DEF Withdrawn
    <3>2. resolutions[x] = <<>> /\ reply[x] \in Unanswered BY <2>2 DEF Withdrawn, Shown
    <3>3. resolutions'[x] = <<why>> /\ Len(resolutions'[x]) = 1 BY <3>1, <3>2, FirstReason
    <3>4. resolutions'[x] # <<"responded">> BY <3>3
    <3> QED BY <3>2, <3>3, <3>4 DEF Resolved, Unanswered, InFlight
  <2> QED BY <2>1, <2>2
<1>4. Authorised(x)' BY DEF Authorised
<1>5. Submitted(x)' BY DEF Submitted
<1>6. Judged(x)' BY DEF Judged, Settled
<1> QED BY <1>1, <1>2, <1>3, <1>4, <1>5, <1>6

LEMMA RequestStep ==
  ASSUME TypeOK, TypeOK', [Next]_vars, NEW x \in Tasks, Request(x), Placed(x)
  PROVE  Request(x)'
<1> USE DEF setupVars, runtimeVars, handleVars, startVars, taskVars, replyVars, requestVars
<1>1. ASSUME UNCHANGED <<work, effects, taskVars, replyVars, requestVars>>,
             x \in pending => UNCHANGED (admission[x])
      PROVE  Request(x)'
  <2>1. Withdrawn(x) BY <1>1 DEF Withdrawn
  <2> QED BY <1>1, <2>1, WithdrawnRequest
<1>2. ASSUME NEW t \in Tasks, NEW fate \in Fates, StartArrives(t, fate) PROVE Request(x)'
  <2>1. Withdrawn(x) BY <1>2 DEF StartArrives, Withdrawn
  <2>2. CASE work'[x] = work[x]
    <3>1. x \in pending => admission'[x] = admission[x]
      BY <1>2 DEF StartArrives, Request, Shown, TypeOK
    <3> QED BY <1>2, <2>1, <2>2, <3>1, WithdrawnRequest DEF StartArrives
  <2>3. CASE work'[x] # work[x]
    <3>1. work[x] = "none" /\ work'[x] = "working"
      BY <1>2, <2>3 DEF StartArrives, Placed, TypeOK
    <3> QED
      BY <1>2, <3>1
      DEF StartArrives, Request, Shown, Unasked, Resolved, Authorised, Submitted, Judged, Settled
  <2> QED BY <2>2, <2>3
<1>3. ASSUME NEW H, Quits(H) PROVE Request(x)'
  <2> DEFINE T == {t \in Tasks : via[t] \in H /\ admission[t] = "accepted" /\ ~Settled(t)}
  <2>1. Clear(T, "cancellation_requested") /\ cancelling' = cancelling \cup T
    BY <1>3 DEF Quits, StopTasks
  <2> HIDE DEF T
  <2>2. Withdrawn(x) BY <2>1, ClearWithdraws DEF Reasons
  <2>3. x \in pending' => x \notin T BY <2>1, ClearAt
  <2> QED BY <1>3, <2>1, <2>2, <2>3, WithdrawnRequest DEF Quits
<1>4. ASSUME NEW t \in Tasks, RequestCancellation(t) PROVE Request(x)'
  <2>1. CASE Settled(t)
    <3>1. Withdrawn(x) BY <1>4, <2>1 DEF RequestCancellation, Withdrawn
    <3> QED BY <1>4, <2>1, <3>1, WithdrawnRequest DEF RequestCancellation
  <2>2. CASE ~Settled(t)
    <3>1. Clear({t}, "cancellation_requested") /\ cancelling' = cancelling \cup {t}
      BY <1>4, <2>2 DEF RequestCancellation, StopTasks
    <3>2. Withdrawn(x) BY <3>1, ClearWithdraws DEF Reasons
    <3>3. x \in pending' => x # t BY <3>1, ClearAt
    <3> QED BY <1>4, <3>1, <3>2, <3>3, WithdrawnRequest DEF RequestCancellation
  <2> QED BY <2>1, <2>2
<1>5. ASSUME NEW t \in Tasks, NEW kind, Judge(t, kind), work'[x] = work[x] \/ work'[x] = "ended",
             t = x => work'[x] = "ended" \/ x \in cancelling, t # x => work'[x] = work[x],
             UNCHANGED <<effects, startVars, cancelling, replyVars>>
      PROVE  Request(x)'
  <2>1. Clear({t}, "task_ended") BY <1>5 DEF Judge
  <2>2. Withdrawn(x) BY <2>1, ClearWithdraws DEF Reasons
  <2>3. x \in pending' => x # t BY <2>1, ClearAt
  <2>4. x # t => outcome'[x] = outcome[x] BY <1>5 DEF Judge, TypeOK
  <2> QED BY <1>5, <2>2, <2>3, <2>4, WithdrawnRequest
<1>6. ASSUME NEW t \in Tasks, GivesUp(t) PROVE Request(x)'
  BY <1>5, <1>6 DEF GivesUp
<1>7. ASSUME NEW t \in Tasks, NEW kind, Ends(t, kind), work[t] \in Live \cup {"ended"}
      PROVE  Request(x)'
  <2>1. x = t => work'[x] = "ended" BY <1>7 DEF Ends, TypeOK
  <2>2. x # t => work'[x] = work[x] BY <1>7 DEF Ends, TypeOK
  <2>3. CASE admission[t] = "accepted" BY <1>5, <1>7, <2>1, <2>2, <2>3 DEF Ends, Report
  <2>4. CASE admission[t] # "accepted"
    <3>1. Withdrawn(x) BY <1>7, <2>4 DEF Ends, Report, Withdrawn
    <3>2. x \in pending => x # t BY <2>4 DEF Request, Shown
    <3> QED BY <1>7, <2>1, <2>2, <2>4, <3>1, <3>2, WithdrawnRequest DEF Ends, Report
  <2> QED BY <2>3, <2>4
<1>8. ASSUME NEW t \in Tasks, t # x,
             \/ \E d \in Offered : Respond(t, d)
             \/ AbandonResponse(t) \/ Asks(t) \/ Effect(t)
             \/ \E fate \in Fates : ResponseArrives(t, fate)
      PROVE  Request(x)'
  <2>1. /\ UNCHANGED <<reply[x], decision[x], sent[x], effects[x], work[x], admission[x]>>
        /\ UNCHANGED taskVars
    BY <1>8 DEF Respond, AbandonResponse, Asks, Effect, ResponseArrives, TypeOK
  <2>2. Withdrawn(x)
    <3>1. CASE \E fate \in Fates : ResponseArrives(t, fate)
      <4>1. UNCHANGED requestVars \/ \E why : Clear({t}, why) BY <3>1 DEF ResponseArrives
      <4>2. (x \in pending' => x \in pending) /\ resolutions'[x] = resolutions[x]
        <5>1. CASE UNCHANGED requestVars BY <5>1
        <5>2. ASSUME NEW why, Clear({t}, why)
              PROVE  (x \in pending' => x \in pending) /\ resolutions'[x] = resolutions[x]
          BY <5>2, <1>8, ClearAt
        <5> QED BY <4>1, <5>1, <5>2
      <4> QED BY <4>2 DEF Withdrawn
    <3>2. CASE ~\E fate \in Fates : ResponseArrives(t, fate)
      BY <1>8, <3>2 DEF Respond, AbandonResponse, Asks, Effect, Withdrawn
    <3> QED BY <3>1, <3>2
  <2> QED BY <2>1, <2>2, WithdrawnRequest
<1>9. ASSUME NEW d \in Offered, Respond(x, d) PROVE Request(x)'
  <2>1. work[x] = "asking" /\ effects[x] = 0 /\ reply[x] \in Unanswered /\ resolutions[x] = <<>>
    BY <1>9 DEF Respond, RespondAnswer, Request, Shown, Authorised
  <2>2. reply'[x] = "waiting" BY <1>9 DEF Respond, TypeOK
  <2>3. UNCHANGED <<work, effects, taskVars, admission, requestVars, sent>> BY <1>9 DEF Respond
  <2>4. Submitted(x)' BY <2>1, <2>2, <2>3 DEF Request, Submitted, Unanswered, Confirmed, InFlight
  <2>5. Resolved(x)' BY <2>1, <2>2, <2>3 DEF Request, Resolved, Unanswered, InFlight
  <2> QED
    BY <2>1, <2>2, <2>3, <2>4, <2>5
    DEF Request, Shown, Unasked, Authorised, Judged, Settled, Unanswered, InFlight
<1>10. ASSUME AbandonResponse(x) PROVE Request(x)'
  <2>1. reply[x] = "waiting" /\ reply'[x] = "abandoned" BY <1>10 DEF AbandonResponse, TypeOK
  <2>2. UNCHANGED <<work, effects, taskVars, admission, requestVars, sent, decision>>
    BY <1>10 DEF AbandonResponse
  <2>3. Submitted(x)' BY <2>1, <2>2 DEF Request, Submitted, Confirmed
  <2>4. Resolved(x)' BY <2>1, <2>2 DEF Request, Resolved
  <2> QED
    BY <2>1, <2>2, <2>3, <2>4
    DEF Request, Shown, Unasked, Authorised, Judged, Settled, Unanswered, Confirmed, InFlight
<1>11. ASSUME NEW fate \in Fates, ResponseArrives(x, fate) PROVE Request(x)'
  <2> DEFINE answer == ResponseAnswer(x, fate)
             word == IF fate = "reject" THEN "undelivered"
                     ELSE IF Reaches(fate) /\ work[x] = "asking" THEN "taken" ELSE "lost"
  <2>1. /\ answer \in {"ok", "transport", "unconfirmed"}
        /\ fate # "reject" => answer \in Confirmed
        /\ answer = "ok" => x \in pending
    BY DEF ResponseAnswer, Known, Confirmed
  <2>2. /\ reply[x] \in InFlight /\ reply'[x] = answer
        /\ sent'[x] = Append(sent[x], word)
        /\ UNCHANGED <<effects, taskVars, admission, decision>>
    BY <1>11 DEF ResponseArrives, TypeOK
  <2>3. /\ reply[x] \notin Confirmed
        /\ work[x] # "allowed" /\ effects[x] = 0 /\ resolutions[x] # <<"responded">>
        /\ \A i \in 1..Len(sent[x]) : sent[x][i] = "undelivered"
    <3>1. reply[x] \notin Confirmed /\ reply[x] # "ok" BY <2>2 DEF InFlight, Confirmed
    <3>2. effects[x] \in Nat BY DEF TypeOK
    <3> QED BY <3>1, <3>2 DEF Request, Authorised, Resolved, Submitted
  <2>4. \/ work'[x] = work[x]
        \/ /\ fate # "reject" /\ work[x] = "asking" /\ work'[x] \in {"allowed", "ready"}
           /\ work'[x] = "allowed" => decision[x] = "approve_once"
    BY <1>11 DEF ResponseArrives, Reaches, TypeOK
  <2>5. Submitted(x)'
    <3>1. sent[x] \in Seq({"undelivered", "taken", "lost"}) BY DEF TypeOK
    <3>2. /\ Len(sent'[x]) = Len(sent[x]) + 1
          /\ sent'[x][Len(sent[x]) + 1] = word
          /\ \A i \in 1..Len(sent[x]) : sent'[x][i] = sent[x][i]
      BY <2>2, <3>1
    <3>3. word # "undelivered" => answer \in Confirmed BY <2>1
    <3> HIDE DEF word, answer
    <3> QED BY <2>2, <2>3, <3>1, <3>2, <3>3 DEF Submitted
  <2>6. /\ x \in pending' => x \in pending /\ answer = "transport"
        /\ x \notin pending \/ answer = "transport" => resolutions'[x] = resolutions[x]
        /\ x \in pending /\ answer = "ok" => resolutions'[x] = <<"responded">>
        /\ x \in pending /\ answer = "unconfirmed" => resolutions'[x] = <<"response_unconfirmed">>
    <3>1. CASE answer = "transport" BY <1>11, <3>1 DEF ResponseArrives
    <3>2. CASE answer # "transport"
      <4> DEFINE why == IF answer = "ok" THEN "responded" ELSE "response_unconfirmed"
      <4>1. Clear({x}, why) BY <1>11, <3>2 DEF ResponseArrives
      <4>2. /\ x \notin pending'
            /\ x \in pending => resolutions'[x] = Append(resolutions[x], why)
            /\ x \notin pending => resolutions'[x] = resolutions[x]
        BY <4>1, ClearAt
      <4>3. x \in pending => resolutions'[x] = <<why>>
        BY <4>2, FirstReason DEF Request, Shown
      <4> HIDE DEF answer
      <4> QED BY <3>2, <4>2, <4>3
    <3> QED BY <3>1, <3>2
  <2> HIDE DEF answer, word
  <2>7. Resolved(x)'
    <3>1. CASE resolutions'[x] = resolutions[x]
      BY <2>1, <2>2, <2>3, <2>6, <3>1 DEF Request, Resolved, Shown
    <3>2. CASE resolutions'[x] # resolutions[x]
      <4>1. x \in pending /\ answer # "transport" BY <2>6, <3>2
      <4>2. CASE answer = "ok"
        <5>1. resolutions'[x] = <<"responded">> BY <2>6, <4>1, <4>2
        <5> QED BY <2>2, <4>2, <5>1, FirstReason DEF Resolved
      <4>3. CASE answer = "unconfirmed"
        <5>1. resolutions'[x] = <<"response_unconfirmed">> BY <2>6, <4>1, <4>3
        <5>2. resolutions'[x] # <<"responded">> BY <5>1
        <5> QED BY <2>2, <4>3, <5>1, <5>2, FirstReason DEF Resolved
      <4> QED BY <2>1, <4>1, <4>2, <4>3
    <3> QED BY <3>1, <3>2
  <2>8. Shown(x)'
    <3> SUFFICES ASSUME x \in pending' PROVE Shown(x)' BY DEF Shown
    <3>1. x \in pending /\ answer = "transport" /\ fate = "reject"
            /\ resolutions'[x] = resolutions[x]
      BY <2>1, <2>6 DEF Confirmed
    <3> QED BY <2>2, <2>4, <3>1 DEF Request, Shown, Settled, Unanswered
  <2>9. Unasked(x)'
    BY <2>2, <2>4 DEF Request, Unasked, InFlight
  <2>10. Authorised(x)' BY <2>1, <2>2, <2>3, <2>4 DEF Request, Authorised
  <2>11. Judged(x)' BY <2>2, <2>4 DEF Request, Judged, Settled
  <2> QED BY <2>5, <2>7, <2>8, <2>9, <2>10, <2>11 DEF Request
<1>12. ASSUME Asks(x) PROVE Request(x)'
  <2>1. /\ work[x] = "working" /\ work'[x] = "asking"
        /\ UNCHANGED <<effects, taskVars, admission, resolutions, replyVars>>
        /\ x \in pending' => x \in pending \/ (admission[x] = "accepted" /\ x \notin cancelling)
    BY <1>12 DEF Asks, TypeOK
  <2>2. resolutions[x] = <<>> /\ reply[x] = "none" BY <2>1 DEF Request, Unasked
  <2>3. Resolved(x)' /\ Submitted(x)' BY <2>1 DEF Request, Resolved, Submitted
  <2> QED
    BY <2>1, <2>2, <2>3 DEF Request, Shown, Unasked, Authorised, Judged, Settled, Unanswered
<1>13. ASSUME Effect(x) PROVE Request(x)'
  <2>1. /\ work[x] = "allowed" /\ work'[x] = "ready" /\ effects'[x] = effects[x] + 1
        /\ UNCHANGED <<taskVars, admission, requestVars, replyVars>>
    BY <1>13 DEF Effect, TypeOK
  <2>2. effects[x] = 0 /\ effects'[x] = 1 BY <2>1 DEF Request, Authorised
  <2>3. Resolved(x)' /\ Submitted(x)' BY <2>1 DEF Request, Resolved, Submitted
  <2> QED BY <2>1, <2>2, <2>3 DEF Request, Shown, Unasked, Authorised, Judged, Settled
<1>14. ASSUME NEW h \in Handles, NEW t \in Tasks, StartTask(h, t) PROVE Request(x)'
  <2>1. x \in pending => admission'[x] = admission[x]
    BY <1>14 DEF StartTask, Request, Shown, TypeOK
  <2> QED BY <1>1, <1>14, <2>1 DEF StartTask
<1>15. ASSUME NEW t \in Tasks,
              \/ \E fate \in Fates : StartArrives(t, fate) \/ ResponseArrives(t, fate)
              \/ \E d \in Offered : Respond(t, d)
              \/ AbandonResponse(t) \/ RequestCancellation(t) \/ GivesUp(t)
              \/ Asks(t) \/ Effect(t) \/ Completes(t) \/ Fails(t) \/ Stops(t)
              \/ \E kind \in {"completed", "failed", "cancelled"} : EndsAgain(t, kind)
       PROVE  Request(x)'
  <2>1. CASE Completes(t) \/ Fails(t) \/ Stops(t)
             \/ \E kind \in {"completed", "failed", "cancelled"} : EndsAgain(t, kind)
    BY <1>7, <2>1 DEF Completes, Fails, Stops, EndsAgain, Live
  <2> QED BY <1>2, <1>4, <1>6, <1>8, <1>9, <1>10, <1>11, <1>12, <1>13, <1>15, <2>1
<1>16. CASE \/ \E h \in Handles, c \in Contexts :
                 CreateSession(h, c) \/ \E k \in {"original", "changed"} : Reopen(h, c, k)
            \/ Recreate \/ Hide(~hidden) \/ UNCHANGED vars
  BY <1>1, <1>16 DEF CreateSession, Reopen, Opens, Recreate, Hide, vars
<1>17. CASE Aclose \/ \E h \in Handles : Release(h)
  BY <1>3, <1>17 DEF Aclose, Release
<1> QED BY <1>14, <1>15, <1>16, <1>17 DEF Next

-----------------------------------------------------------------------------
(* The tasks of one context.                                               *)

\* A step that starts nothing and moves nothing keeps the contexts apart.
LEMMA ContextKept ==
  ASSUME ContextInv, TypeOK, UNCHANGED <<on, startVars>>, usable' \subseteq usable,
         \A t \in Tasks : (work'[t] \in Live => work[t] \in Live)
                         /\ (work[t] = "none" => work'[t] = "none")
  PROVE  ContextInv'
<1> USE DEF startVars
<1>1. \A t \in Tasks : Placed(t)'
  <2> SUFFICES ASSUME NEW t \in Tasks PROVE Placed(t)' OBVIOUS
  <2>1. Placed(t) BY DEF ContextInv
  <2> QED BY <2>1 DEF Placed
<1>2. \A t \in Tasks : Occupies(t)' => Occupies(t) BY DEF Occupies
<1>3. Exclusive' BY <1>2 DEF ContextInv, Exclusive
<1>4. \A h \in usable' : on'[h] # NoContext BY DEF ContextInv
<1> QED BY <1>1, <1>3, <1>4 DEF ContextInv

LEMMA ContextStep == ASSUME ContextInv, TypeOK, [Next]_vars PROVE ContextInv'
<1> USE DEF setupVars, runtimeVars, handleVars, startVars, taskVars, replyVars, requestVars
<1>1. ASSUME NEW h \in Handles, NEW c \in Contexts, NEW k, Opens(h, c, k) PROVE ContextInv'
  <2>1. \A t \in Tasks : via[t] # NoHandle => via[t] \in Handles /\ via[t] # h
    BY <1>1 DEF Opens, ContextInv, Placed, TypeOK
  <2>2. /\ on'[h] = c /\ c # NoContext
        /\ \A g \in Handles : g # h => on'[g] = on[g]
    BY <1>1, NoContextAssumption DEF Opens, TypeOK
  <2>3. UNCHANGED <<work, startVars>> /\ usable' = usable \cup {h} BY <1>1 DEF Opens
  <2>4. \A t \in Tasks : via[t] # NoHandle => on'[via'[t]] = on[via[t]] BY <2>1, <2>2, <2>3
  <2>5. \A g \in usable' : on'[g] # NoContext BY <2>2, <2>3 DEF ContextInv, TypeOK
  <2> QED BY <2>3, <2>4, <2>5 DEF ContextInv, Placed, Exclusive, Occupies
<1>2. ASSUME NEW h \in Handles, NEW t \in Tasks, StartTask(h, t) PROVE ContextInv'
  <2>1. h \in usable /\ ~Blocked(on[h]) /\ ~Busy(on[h]) /\ admission[t] = "none"
    BY <1>2 DEF StartTask, StartAnswer
  <2>2. \A x \in Tasks : via[x] # NoHandle /\ on[via[x]] = on[h] => ~Occupies(x)
    BY <2>1 DEF Blocked, Busy, On, Occupies, ContextInv, Placed
  <2>3. /\ via'[t] = h /\ admission'[t] = "submitted" /\ work[t] = "none"
        /\ \A x \in Tasks : x # t => via'[x] = via[x] /\ admission'[x] = admission[x]
        /\ UNCHANGED <<work, on, usable>>
    BY <1>2, <2>1 DEF StartTask, TypeOK, ContextInv, Placed
  <2>4. \A x \in Tasks : Placed(x)'
    BY <2>1, <2>3, NoHandleAssumption DEF ContextInv, Placed, Live
  <2>5. Exclusive' BY <2>2, <2>3 DEF ContextInv, Exclusive, Occupies
  <2> QED BY <2>3, <2>4, <2>5 DEF ContextInv
<1>3. ASSUME NEW t \in Tasks, NEW fate \in Fates, StartArrives(t, fate) PROVE ContextInv'
  <2>1. /\ admission[t] = "submitted" /\ admission'[t] \in {"accepted", "refused", "unconfirmed"}
        /\ Reaches(fate) => admission'[t] # "refused"
        /\ \A x \in Tasks : x # t => work'[x] = work[x] /\ admission'[x] = admission[x]
        /\ work'[t] # work[t] => Reaches(fate)
        /\ UNCHANGED <<via, on, usable>>
    BY <1>3 DEF StartArrives, Known, Reaches, TypeOK
  <2>2. work[t] = "none" BY <2>1 DEF ContextInv, Placed
  <2>3. \A x \in Tasks : Placed(x)' BY <2>1, <2>2 DEF ContextInv, Placed, Live
  <2>4. \A x \in Tasks : Occupies(x)' => Occupies(x) BY <2>1 DEF Occupies
  <2>5. Exclusive' BY <2>1, <2>4 DEF ContextInv, Exclusive
  <2> QED BY <2>1, <2>3, <2>5 DEF ContextInv
<1>4. ASSUME NEW t \in Tasks, NEW fate \in Fates, ResponseArrives(t, fate) PROVE ContextInv'
  <2>1. UNCHANGED <<on, startVars, usable>> BY <1>4 DEF ResponseArrives
  <2>2. work' = work \/ /\ work[t] = "asking" /\ work'[t] \in {"allowed", "ready"}
                        /\ \A x \in Tasks : x # t => work'[x] = work[x]
    BY <1>4 DEF ResponseArrives, TypeOK
  <2> QED BY <2>1, <2>2, ContextKept DEF Live
<1>5. ASSUME NEW t \in Tasks, Asks(t) \/ Effect(t) PROVE ContextInv'
  BY <1>5, ContextKept DEF Asks, Effect, Live, TypeOK
<1>6. ASSUME NEW t \in Tasks, NEW kind, Ends(t, kind), work[t] \in Live \cup {"ended"}
      PROVE  ContextInv'
  <2>1. UNCHANGED <<on, startVars, usable>> BY <1>6 DEF Ends
  <2>2. /\ work[t] # "none" /\ work'[t] = "ended"
        /\ \A x \in Tasks : x # t => work'[x] = work[x]
    BY <1>6 DEF Ends, TypeOK, Live
  <2> QED BY <2>1, <2>2, ContextKept DEF Live
<1>7. ASSUME UNCHANGED <<work, on, startVars>>, usable' \subseteq usable PROVE ContextInv'
  BY <1>7, ContextKept
<1>8. ASSUME NEW H, Quits(H) PROVE ContextInv'
  BY <1>7, <1>8 DEF Quits
<1>9. ASSUME NEW t \in Tasks,
             \/ \E d \in Offered : Respond(t, d)
             \/ AbandonResponse(t) \/ RequestCancellation(t) \/ GivesUp(t)
      PROVE  ContextInv'
  BY <1>7, <1>9 DEF Respond, AbandonResponse, RequestCancellation, GivesUp
<1>10. CASE Recreate \/ Hide(~hidden) \/ UNCHANGED vars
  BY <1>7, <1>10 DEF Recreate, Hide, vars
<1>11. ASSUME NEW t \in Tasks,
              \/ Completes(t) \/ Fails(t) \/ Stops(t)
              \/ \E kind \in {"completed", "failed", "cancelled"} : EndsAgain(t, kind)
       PROVE  ContextInv'
  BY <1>6, <1>11 DEF Completes, Fails, Stops, EndsAgain, Live
<1> QED
  BY <1>1, <1>2, <1>3, <1>4, <1>5, <1>8, <1>9, <1>10, <1>11
  DEF Next, CreateSession, Reopen, Release, Aclose

-----------------------------------------------------------------------------
(* What the contract promises.                                             *)

DeliveryInv == TypeOK /\ ContextInv /\ \A x \in Tasks : Request(x)

LEMMA DeliveryInit == Init => DeliveryInv
<1> SUFFICES ASSUME Init PROVE DeliveryInv OBVIOUS
<1>1. TypeOK BY InitType
<1>2. ContextInv BY DEF Init, ContextInv, Placed, Exclusive, Occupies, Live
<1>3. ASSUME NEW x \in Tasks PROVE Request(x)
  <2>1. resolutions[x] = <<>> /\ sent[x] = <<>> /\ reply[x] = "none" BY DEF Init
  <2>2. Len(<<>>) = 0 /\ <<>> # <<"responded">> OBVIOUS
  <2>3. Resolved(x) /\ Submitted(x) BY <2>1, <2>2 DEF Resolved, Submitted
  <2> QED BY <2>1, <2>3 DEF Init, Request, Shown, Unasked, Authorised, Judged, Settled
<1> QED BY <1>1, <1>2, <1>3 DEF DeliveryInv

LEMMA DeliveryInvStep == DeliveryInv /\ [Next]_vars => DeliveryInv'
BY TypeStep, ContextStep, RequestStep DEF DeliveryInv, ContextInv

LEMMA DeliveryInvariant == Spec => []DeliveryInv
BY DeliveryInit, DeliveryInvStep, PTL DEF Spec

\* No guarded effect without the caller's own approval of this task, and never a second
\* one (acceptance.py:148-213, approval.py:49-79).
THEOREM EffectsNeedApproval == Spec => []EffectsAreAuthorised
<1>1. ASSUME DeliveryInv PROVE EffectsAreAuthorised
  <2> SUFFICES ASSUME NEW t \in Tasks, effects[t] > 0
               PROVE  effects[t] = 1 /\ decision[t] = "approve_once"
                      /\ reply[t] \in {"ok", "unconfirmed"}
    BY DEF EffectsAreAuthorised
  <2> QED BY <1>1 DEF DeliveryInv, TypeOK, Request, Authorised, Confirmed
<1> QED BY <1>1, DeliveryInvariant, PTL

\* Nothing that may have reached the runtime is submitted again (acceptance.py:148-193,
\* interaction.py:61-78).
THEOREM NothingResubmitted == Spec => []NothingIsResubmitted
<1>1. ASSUME DeliveryInv PROVE NothingIsResubmitted
  <2>1. Confirmed \cap InFlight = {} BY DEF Confirmed, InFlight
  <2> QED BY <1>1, <2>1 DEF DeliveryInv, Request, Submitted, NothingIsResubmitted
<1> QED BY <1>1, DeliveryInvariant, PTL

\* One work on a context, however starts are lost and handles come and go
\* (acceptance.py:96-139, context.py:27-82).
THEOREM OneWork == Spec => []OneWorkPerContext
<1>1. ASSUME DeliveryInv PROVE OneWorkPerContext
  BY <1>1 DEF DeliveryInv, ContextInv, Exclusive, Occupies, OneWorkPerContext, On
<1> QED BY <1>1, DeliveryInvariant, PTL

\* A request ends once, and the responder hears the same as the stream
\* (interaction.py:80-130).
THEOREM OneResolution == Spec => []ResolvedOnce
<1>1. ASSUME DeliveryInv PROVE ResolvedOnce
  BY <1>1 DEF DeliveryInv, Request, Shown, Resolved, ResolvedOnce
<1> QED BY <1>1, DeliveryInvariant, PTL

-----------------------------------------------------------------------------
(* The scenarios are runs of the contract.                                 *)

\* What an instruction may say: controls have values the boundary knows, and calls are about
\* the handles, contexts and tasks there are.
Meant(i) ==
  CASE i.do = "set"      -> i.control \in {"start", "response"} => i.is \in Fates
    [] i.do = "create"   -> i.of[1] \in Handles /\ i.of[2] \in Contexts
    [] i.do = "reopen"   -> /\ i.of[1] \in Handles /\ i.of[2] \in Contexts
                            /\ i.of[3] \in {"original", "changed"}
    [] i.do = "start"    -> i.of[1] \in Handles /\ i.of[2] \in Tasks
    [] i.do = "respond"  -> i.of[1] \in Tasks
    [] i.do \in {"abandon", "cancel"} -> i.of \in Tasks
    [] i.do = "release"  -> i.of \in Handles
    [] i.do = "hide"     -> i.of \in BOOLEAN
    [] i.do = "report"   -> i.of[1] \in Tasks /\ i.of[2] \in {"completed", "failed"}
    [] OTHER             -> TRUE

Meaningful(sc) == \E S : sc \in Seq(S) /\ \A i \in S : Meant(i)

LEMMA Words ==
  ASSUME NEW S, NEW sc \in Seq(S), \A i \in S : Meant(i)
  PROVE  Meaningful(sc)
BY DEF Meaningful

LEMMA Nothing == Meaningful(<<>>)
<1> DEFINE S == {}
<1>1. <<>> \in Seq(S) /\ \A i \in S : Meant(i)
  OBVIOUS
<1> HIDE DEF S
<1> QED BY <1>1, Words

LEMMA One == ASSUME NEW i, Meant(i) PROVE Meaningful(<<i>>)
<1> DEFINE S == {i}
<1>1. <<i>> \in Seq(S) /\ \A x \in S : Meant(x)
  OBVIOUS
<1> HIDE DEF S
<1> QED BY <1>1, Words

LEMMA Then ==
  ASSUME NEW a, NEW b, Meaningful(a), Meaningful(b)
  PROVE  Meaningful(a \o b)
<1>1. PICK S : a \in Seq(S) /\ \A i \in S : Meant(i)
  BY DEF Meaningful
<1>2. PICK T : b \in Seq(T) /\ \A i \in T : Meant(i)
  BY DEF Meaningful
<1>3. a \in Seq(S \cup T) /\ b \in Seq(S \cup T) /\ \A i \in S \cup T : Meant(i)
  BY <1>1, <1>2
<1>4. a \o b \in Seq(S \cup T)
  BY <1>3
<1> QED BY <1>3, <1>4 DEF Meaningful

LEMMA Proceed ==
  ASSUME NEW sc, Meaningful(sc), sc # <<>>
  PROVE  Meant(Head(sc)) /\ Meaningful(Tail(sc))
<1>1. PICK S : sc \in Seq(S) /\ \A i \in S : Meant(i)
  BY DEF Meaningful
<1>2. Head(sc) \in S /\ Tail(sc) \in Seq(S)
  BY <1>1, HeadTailProperties
<1> QED BY <1>1, <1>2 DEF Meaningful

\* Each phrase of a scenario says what it may.
LEMMA Plain ==
  /\ \A what, of, is : Meaningful(Asserts(what, of, is)) /\ Meaningful(Until(what, of, is))
  /\ \A b : Meaningful(Sets("hold", b)) /\ Meaningful(Sets("holdResponse", b))
  /\ \A f \in Fates : Meaningful(Sets("start", f)) /\ Meaningful(Sets("response", f))
<1>1. ASSUME NEW what, NEW of, NEW is
      PROVE  Meaningful(Asserts(what, of, is)) /\ Meaningful(Until(what, of, is))
  BY One DEF Asserts, Until, Meant
<1>2. ASSUME NEW b PROVE Meaningful(Sets("hold", b)) /\ Meaningful(Sets("holdResponse", b))
  BY One DEF Sets, Meant
<1>3. ASSUME NEW f \in Fates
      PROVE  Meaningful(Sets("start", f)) /\ Meaningful(Sets("response", f))
  BY One DEF Sets, Meant
<1> QED BY <1>1, <1>2, <1>3

LEMMA Calling ==
  /\ \A h \in Handles, c \in Contexts : Meaningful(Creates(h, c))
  /\ \A h \in Handles, t \in Tasks : Meaningful(Call("start", <<h, t>>))
  /\ \A t \in Tasks : \A d : Meaningful(Call("respond", <<t, d>>))
  /\ \A t \in Tasks : Meaningful(Call("abandon", t)) /\ Meaningful(Call("cancel", t))
  /\ \A h \in Handles : Meaningful(Call("release", h))
  /\ \A h : Meaningful(Call("aclose", h)) /\ Meaningful(Call("recreate", h))
  /\ \A b \in BOOLEAN : Meaningful(Call("hide", b))
  /\ \A t \in Tasks, kind \in {"completed", "failed"} : Meaningful(Reports(t, kind))
<1>1. ASSUME NEW h \in Handles, NEW c \in Contexts PROVE Meaningful(Creates(h, c))
  BY One DEF Creates, Call, Meant
<1>2. ASSUME NEW h \in Handles, NEW t \in Tasks PROVE Meaningful(Call("start", <<h, t>>))
  BY One DEF Call, Meant
<1>3. ASSUME NEW t \in Tasks, NEW d PROVE Meaningful(Call("respond", <<t, d>>))
  BY One DEF Call, Meant
<1>4. ASSUME NEW t \in Tasks PROVE Meaningful(Call("abandon", t)) /\ Meaningful(Call("cancel", t))
  BY One DEF Call, Meant
<1>5. ASSUME NEW h \in Handles PROVE Meaningful(Call("release", h))
  BY One DEF Call, Meant
<1>6. ASSUME NEW h PROVE Meaningful(Call("aclose", h)) /\ Meaningful(Call("recreate", h))
  BY One DEF Call, Meant
<1>7. ASSUME NEW b \in BOOLEAN PROVE Meaningful(Call("hide", b))
  BY One DEF Call, Meant
<1>8. ASSUME NEW t \in Tasks, NEW kind \in {"completed", "failed"}
      PROVE  Meaningful(Reports(t, kind))
  BY One DEF Reports, Call, Meant
<1> QED BY <1>1, <1>2, <1>3, <1>4, <1>5, <1>6, <1>7, <1>8

LEMMA Phrases ==
  /\ Meaningful(Holds) /\ Meaningful(LetsGo)
  /\ \A h \in Handles, c \in Contexts : Meaningful(Reopens(h, c, "original"))
  /\ \A h \in Handles, c \in Contexts : Meaningful(Reopens(h, c, "changed"))
  /\ \A h \in Handles, t \in Tasks : \A how : Meaningful(StartsInto(h, t, how))
  /\ \A h \in Handles, t \in Tasks : Meaningful(Starts(h, t)) /\ Meaningful(Runs(h, t))
  /\ \A t \in Tasks : \A d : Meaningful(Responds(t, d))
  /\ \A t, how : Meaningful(Answered(t, how)) /\ Meaningful(Awaits(t, how))
  /\ \A t \in Tasks : \A d, how : Meaningful(RespondsInto(t, d, how))
  /\ \A t \in Tasks : Meaningful(Approves(t))
  /\ \A t, d, why : Meaningful(Blocks(t, d, why))
<1>1. Meaningful(Holds) /\ Meaningful(LetsGo)
  BY Plain DEF Holds, LetsGo
<1>2. ASSUME NEW h \in Handles, NEW c \in Contexts, NEW k \in {"original", "changed"}
      PROVE  Meaningful(Reopens(h, c, k))
  <2>1. Meaningful(Call("reopen", <<h, c, k>>))
    BY One DEF Call, Meant
  <2>2. Meaningful(Asserts("reopening", <<c, k>>, {"reopened"}))
    BY Plain
  <2> QED BY <2>1, <2>2, Then DEF Reopens
<1>3. ASSUME NEW h \in Handles, NEW t \in Tasks, NEW how PROVE Meaningful(StartsInto(h, t, how))
  BY Plain, Calling, Then DEF StartsInto
<1>4. ASSUME NEW t, NEW how PROVE Meaningful(Answered(t, how)) /\ Meaningful(Awaits(t, how))
  BY Plain, Then DEF Answered, Awaits
<1>5. ASSUME NEW h \in Handles, NEW t \in Tasks
      PROVE  Meaningful(Starts(h, t)) /\ Meaningful(Runs(h, t))
  BY <1>3, <1>4, Then DEF Starts, Runs
<1>6. ASSUME NEW t \in Tasks, NEW d PROVE Meaningful(Responds(t, d))
  BY Plain, Calling, Then DEF Responds
<1>7. ASSUME NEW t \in Tasks, NEW d, NEW how PROVE Meaningful(RespondsInto(t, d, how))
  BY <1>6, <1>4, Then DEF RespondsInto
<1>8. ASSUME NEW t \in Tasks PROVE Meaningful(Approves(t))
  BY <1>7 DEF Approves
<1>9. ASSUME NEW t, NEW d, NEW why PROVE Meaningful(Blocks(t, d, why))
  BY Plain DEF Blocks
<1> QED BY <1>1, <1>2, <1>3, <1>4, <1>5, <1>6, <1>7, <1>8, <1>9

LEMMA BoundaryKnows ==
  /\ "accept" \in Fates /\ "reject" \in Fates /\ "lose_accepted" \in Fates /\ "lose" \in Fates
BY DEF Fates

LEMMA Opened == Meaningful(Opening)
BY ScenarioAssumption, Plain, Calling, Phrases, Then DEF Opening

\* So does every scenario.
LEMMA ScenariosAreMeant == \A test \in Tests : Meaningful(test[1])
<1> USE ScenarioAssumption, BoundaryKnows, Plain, Calling, Phrases, Opened, Nothing, Then
<1>1. Meaningful(HeldStart)
  BY DEF HeldStart
<1>2. Meaningful(NondeliveredStart)
  BY DEF NondeliveredStart
<1>3. Meaningful(SharedExclusion)
  BY DEF SharedExclusion
<1>4. Meaningful(BlockedAliases)
  BY DEF BlockedAliases
<1>5. Meaningful(IndependentRelease)
  BY DEF IndependentRelease
<1>6. Meaningful(UnknownReference)
  BY DEF UnknownReference
<1>7. Meaningful(UnavailableHistory)
  BY DEF UnavailableHistory
<1>8. Meaningful(NondeliveredResponse)
  BY DEF NondeliveredResponse
<1>9. Meaningful(InvalidResponse)
  BY DEF InvalidResponse
<1>10. Meaningful(CancelledResponder)
  BY DEF CancelledResponder
<1>11. Meaningful(CancellationClears)
  BY DEF CancellationClears
<1>12. Meaningful(LateDelivery)
  BY DEF LateDelivery
<1>13. Meaningful(LateDuplicate)
  BY DEF LateDuplicate
<1>14. Meaningful(UnboundedGrant)
  BY DEF UnboundedGrant
<1>15. Meaningful(Failure)
  BY DEF Failure
<1>16. Meaningful(CompletionWins)
  BY DEF CompletionWins
<1>17. Meaningful(LateFailure)
  BY DEF LateFailure
<1>18. Meaningful(Concurrent)
  BY DEF Concurrent
<1>19. Meaningful(CloseWithoutEvidence)
  BY DEF CloseWithoutEvidence
<1>20. \A fate \in Fates : \A n : Meaningful(LostStart(fate, n))
  BY DEF LostStart
<1>21. \A fate \in Fates : \A n : Meaningful(LostResponse(fate, n))
  <2> SUFFICES ASSUME NEW fate \in Fates, NEW n PROVE Meaningful(LostResponse(fate, n))
    OBVIOUS
  <2>1. CASE n = 1
    BY <2>1 DEF LostResponse
  <2>2. CASE n # 1
    BY <2>2 DEF LostResponse
  <2> QED BY <2>1, <2>2
<1>22. Meaningful(RepeatedEffect(FALSE)) /\ Meaningful(RepeatedEffect(TRUE))
  BY DEF RepeatedEffect
<1>23. Meaningful(ChangedConfiguration(FALSE)) /\ Meaningful(ChangedConfiguration(TRUE))
  BY DEF ChangedConfiguration
<1> HIDE ScenarioAssumption, BoundaryKnows, Plain, Calling, Phrases, Opened, Nothing, Then
<1>24. \A sc \in PlainTests : Meaningful(sc)
  BY <1>1, <1>2, <1>3, <1>4, <1>5, <1>6, <1>7, <1>20, BoundaryKnows DEF PlainTests
<1>25. \A sc \in GuardedTests : Meaningful(sc)
  BY <1>8, <1>9, <1>10, <1>11, <1>12, <1>13, <1>14, <1>21, <1>22, BoundaryKnows DEF GuardedTests
<1>26. \A sc \in LifecycleTests : Meaningful(sc)
  BY <1>15, <1>16, <1>17, <1>18, <1>19 DEF LifecycleTests
<1> SUFFICES ASSUME NEW test \in Tests PROVE Meaningful(test[1])
  OBVIOUS
<1>27. CASE test \in PlainTests \X {{}} \X {TRUE}
  BY <1>24, <1>27
<1>28. CASE test \in GuardedTests \X {Tasks} \X {TRUE}
  BY <1>25, <1>28
<1>29. CASE test \in LifecycleTests \X {{}} \X {TRUE}
  BY <1>26, <1>29
<1>30. CASE test \in {<<ChangedConfiguration(b), {}, b>> : b \in BOOLEAN}
  <2>1. PICK b \in BOOLEAN : test = <<ChangedConfiguration(b), {}, b>>
    BY <1>30
  <2>2. \A x \in BOOLEAN : Meaningful(ChangedConfiguration(x))
    BY <1>23
  <2>3. test[1] = ChangedConfiguration(b)
    BY <2>1
  <2> QED BY <2>2, <2>3
<1> QED BY <1>27, <1>28, <1>29, <1>30 DEF Tests

\* A scenario goes on within what it means, and its controls are those the boundary knows.
OnScript == /\ Meaningful(script)
            /\ DOMAIN fixture = {"start", "response", "hold", "holdResponse", "manual"}
            /\ fixture.start \in Fates /\ fixture.response \in Fates

LEMMA OnScriptInit == SuiteInit => OnScript
BY ScenariosAreMeant DEF SuiteInit, OnScript, Controls, Fates

LEMMA OnScriptStep == OnScript /\ [SuiteNext]_suiteVars => OnScript'
<1> SUFFICES ASSUME OnScript, [SuiteNext]_suiteVars PROVE OnScript'
  OBVIOUS
<1>1. CASE ScenarioStep
  <2>1. script # <<>> /\ script' = Tail(script)
    BY <1>1 DEF ScenarioStep
  <2>2. Meant(Head(script)) /\ Meaningful(script')
    BY <2>1, Proceed DEF OnScript
  <2>3. CASE Head(script).do = "set"
    <3>1. fixture' = [fixture EXCEPT ![Head(script).control] = Head(script).is]
      BY <1>1, <2>3 DEF ScenarioStep
    <3>2. Head(script).control \in {"start", "response"} => Head(script).is \in Fates
      BY <2>2, <2>3 DEF Meant
    <3> QED BY <2>2, <3>1, <3>2 DEF OnScript
  <2>4. CASE Head(script).do # "set"
    BY <1>1, <2>2, <2>4 DEF ScenarioStep, OnScript
  <2> QED BY <2>3, <2>4
<1>2. CASE FixtureStep
  BY <1>2 DEF FixtureStep, OnScript
<1>3. CASE Over \/ UNCHANGED suiteVars
  BY <1>3 DEF Over, suiteVars, OnScript
<1> QED BY <1>1, <1>2, <1>3 DEF SuiteNext

\* What a scenario asks for, and what its fixture does, the contract allows.
LEMMA ScenarioIsAllowed == OnScript /\ TypeOK /\ ScenarioStep => [Next]_vars
<1> SUFFICES ASSUME OnScript, TypeOK, ScenarioStep PROVE [Next]_vars
  OBVIOUS
<1> DEFINE i == Head(script)
<1>1. Meant(i) /\ Calls(i)
  BY Proceed DEF OnScript, ScenarioStep
<1> HIDE DEF i
<1>2. CASE i.do = "create"
  BY <1>1, <1>2 DEF Meant, Calls, Next
<1>3. CASE i.do = "reopen"
  BY <1>1, <1>3 DEF Meant, Calls, Next
<1>4. CASE i.do = "start"
  BY <1>1, <1>4 DEF Meant, Calls, Next
<1>5. CASE i.do = "respond"
  <2>1. i.of[1] \in Tasks /\ Respond(i.of[1], i.of[2])
    BY <1>1, <1>5 DEF Meant, Calls
  <2>2. i.of[2] \in Offered
    BY <2>1 DEF Respond, RespondAnswer
  <2> QED BY <2>1, <2>2 DEF Next
<1>6. CASE i.do = "abandon"
  BY <1>1, <1>6 DEF Meant, Calls, Next
<1>7. CASE i.do = "cancel"
  BY <1>1, <1>7 DEF Meant, Calls, Next
<1>8. CASE i.do = "release"
  BY <1>1, <1>8 DEF Meant, Calls, Next
<1>9. CASE i.do = "aclose"
  BY <1>1, <1>9 DEF Calls, Next
<1>10. CASE i.do = "recreate"
  BY <1>1, <1>10 DEF Calls, Next
<1>11. CASE i.do = "report"
  BY <1>1, <1>11 DEF Meant, Calls, IsTold, Next
<1>12. CASE i.do \notin {"create", "reopen", "start", "respond", "abandon", "cancel", "release",
                         "aclose", "recreate", "report", "hide"}
  BY <1>1, <1>12 DEF Calls
<1>13. CASE i.do = "hide"
  <2>1. i.of \in BOOLEAN /\ Hide(i.of)
    BY <1>1, <1>13 DEF Meant, Calls
  <2>2. CASE i.of = hidden
    <3>1. UNCHANGED vars
      BY <2>1, <2>2 DEF Hide, vars, runtimeVars
    <3> QED BY <3>1
  <2>3. CASE i.of = ~hidden
    BY <2>1, <2>3 DEF Next
  <2> QED BY <2>1, <2>2, <2>3 DEF TypeOK
<1> QED BY <1>2, <1>3, <1>4, <1>5, <1>6, <1>7, <1>8, <1>9, <1>10, <1>11, <1>12, <1>13

LEMMA FixtureIsAllowed == OnScript /\ FixtureStep => [Next]_vars
<1> SUFFICES ASSUME OnScript, FixtureStep PROVE [Next]_vars
  OBVIOUS
<1>1. fixture.start \in Fates /\ fixture.response \in Fates
  BY DEF OnScript
<1>2. PICK t \in Tasks : \/ StartArrives(t, fixture.start) \/ ResponseArrives(t, fixture.response)
                         \/ Asks(t) \/ Effect(t) \/ Stops(t) \/ Completes(t) \/ GivesUp(t)
  BY DEF FixtureStep
<1> QED BY <1>1, <1>2 DEF Next

LEMMA SuiteStep == OnScript /\ TypeOK /\ [SuiteNext]_suiteVars => [Next]_vars
<1>1. Over \/ UNCHANGED suiteVars => UNCHANGED vars
  BY DEF Over, suiteVars
<1> QED BY <1>1, ScenarioIsAllowed, FixtureIsAllowed DEF SuiteNext

\* Every run of a scenario, however its adapter and its runtime take their turns, is a run
\* of the delivery contract: what the contract promises holds in the suites of acceptance.py,
\* interaction.py, approval.py, context.py, persistence.py and lifecycle.py too.
THEOREM SuiteRunsTheContract == SuiteSpec => Spec
<1>1. SuiteInit => Init /\ OnScript /\ TypeOK
  BY OnScriptInit, InitType DEF SuiteInit
<1>2. OnScript /\ TypeOK /\ [SuiteNext]_suiteVars => (OnScript /\ TypeOK)'
  BY OnScriptStep, SuiteStep, TypeStep
<1>3. OnScript /\ TypeOK /\ [SuiteNext]_suiteVars => [Next]_vars
  BY SuiteStep
<1> QED BY <1>1, <1>2, <1>3, PTL DEF SuiteSpec, Spec

-----------------------------------------------------------------------------
(* What a scenario knows: where each task can stand, and the rest exactly. *)

\* Where a task stands.  Of a start under way, what the model will be shown.
Standing(a, w, m, e, o, k, p, r, d, s, z) ==
  [admission |-> a, work |-> w, saw |-> m, effects |-> e, outcome |-> o, cancelling |-> k,
   pending |-> p, reply |-> r, decision |-> d, sent |-> s, resolutions |-> z]

Sight(t) == {t} \cup UNION {saw[x] : x \in On(on[via[t]])}

StandingOf(t) ==
  Standing(admission[t], work[t], IF admission[t] = "submitted" THEN Sight(t) ELSE saw[t],
           effects[t], outcome[t], IF t \in cancelling THEN "yes" ELSE "no",
           IF t \in pending THEN "yes" ELSE "no", reply[t], decision[t], sent[t], resolutions[t])

Withdrawing(x, why) == IF x.pending = "yes" THEN Append(x.resolutions, why) ELSE x.resolutions

Arrived(x, fate) ==
  Standing(Known(fate, "accepted", "refused"), IF Reaches(fate) THEN "working" ELSE x.work,
           IF Reaches(fate) THEN x.saw ELSE {}, x.effects, x.outcome, x.cancelling, x.pending,
           x.reply, x.decision, x.sent, x.resolutions)

Answer(x, fate) ==
  LET taken  == Reaches(fate) /\ x.work = "asking"
      answer == IF x.pending = "yes" THEN Known(fate, "ok", "transport")
                                     ELSE Known(fate, "unconfirmed", "transport")
  IN Standing(x.admission,
              IF taken THEN (IF x.decision = "approve_once" THEN "allowed" ELSE "ready")
                       ELSE x.work,
              x.saw, x.effects, x.outcome, x.cancelling,
              IF answer = "transport" THEN x.pending ELSE "no", answer, x.decision,
              Append(x.sent, IF fate = "reject" THEN "undelivered"
                             ELSE IF taken THEN "taken" ELSE "lost"),
              IF answer = "transport" THEN x.resolutions
              ELSE Withdrawing(x, IF answer = "ok" THEN "responded" ELSE "response_unconfirmed"))

Asked(x) == Standing(x.admission, "asking", x.saw, x.effects, x.outcome, x.cancelling,
                     IF x.admission = "accepted" /\ x.cancelling = "no" THEN "yes" ELSE x.pending,
                     x.reply, x.decision, x.sent, x.resolutions)

Effected(x) == Standing(x.admission, "ready", x.saw, x.effects + 1, x.outcome, x.cancelling,
                        x.pending, x.reply, x.decision, x.sent, x.resolutions)

\* The task stands judged, its work in state w.
JudgedAs(x, w, kind) ==
  IF x.admission = "accepted"
    THEN Standing(x.admission, w, x.saw, x.effects, IF x.outcome = "none" THEN kind ELSE x.outcome,
                  x.cancelling, "no", x.reply, x.decision, x.sent, Withdrawing(x, "task_ended"))
    ELSE Standing(x.admission, w, x.saw, x.effects, x.outcome, x.cancelling, x.pending, x.reply,
                  x.decision, x.sent, x.resolutions)

Moves(x, y, f, asks, closed) ==
  \/ x.admission = "submitted" /\ y = Arrived(x, f.start)
  \/ x.reply \in InFlight /\ ~f.holdResponse /\ y = Answer(x, f.response)
  \/ /\ ~f.manual
     /\ \/ x.work = "working" /\ asks /\ y = Asked(x)
        \/ x.work = "allowed" /\ y = Effected(x)
        \/ x.work \in Live /\ x.cancelling = "yes" /\ y = JudgedAs(x, "ended", "cancelled")
        \/ /\ ~f.hold /\ (x.work = "ready" \/ (x.work = "working" /\ ~asks))
           /\ y = JudgedAs(x, "ended", "completed")
  \/ /\ f.manual /\ closed /\ x.cancelling = "yes" /\ x.outcome = "none"
     /\ y = JudgedAs(x, x.work, "unresolved")

\* The model is shown something, and its own input with it, if and only if the start arrived.
Seen == \A t \in Tasks : IF work[t] = "none" THEN saw[t] = {} ELSE t \in saw[t]

\* Only a task whose start was confirmed is asked to stop.
Marked == \A t \in cancelling : admission[t] = "accepted"

SuiteInv == DeliveryInv /\ Seen /\ Marked

LEMMA SeenStep == DeliveryInv /\ Seen /\ [Next]_vars => Seen'
<1> SUFFICES ASSUME DeliveryInv, Seen, [Next]_vars PROVE Seen'
  OBVIOUS
<1> USE DEF setupVars, runtimeVars, handleVars, startVars, taskVars, replyVars, requestVars
<1>1. ASSUME NEW t \in Tasks, NEW fate \in Fates, StartArrives(t, fate) PROVE Seen'
  <2>1. CASE Reaches(fate)
    <3>1. \A x \in Tasks : x # t => work'[x] = work[x] /\ saw'[x] = saw[x]
      BY <1>1, <2>1 DEF StartArrives, DeliveryInv, TypeOK
    <3>2. work'[t] = "working" /\ t \in saw'[t]
      BY <1>1, <2>1 DEF StartArrives, DeliveryInv, TypeOK
    <3> QED BY <3>1, <3>2 DEF Seen
  <2>2. CASE ~Reaches(fate)
    BY <1>1, <2>2 DEF StartArrives, Seen
  <2> QED BY <2>1, <2>2
<1>2. ASSUME NEW t \in Tasks, NEW fate \in Fates, ResponseArrives(t, fate) PROVE Seen'
  BY <1>2 DEF ResponseArrives, Seen, DeliveryInv, TypeOK
<1>3. ASSUME NEW t \in Tasks,
             \/ Asks(t) \/ Effect(t) \/ Completes(t) \/ Fails(t) \/ Stops(t)
             \/ \E kind \in {"completed", "failed", "cancelled"} : EndsAgain(t, kind)
      PROVE  Seen'
  BY <1>3 DEF Asks, Effect, Completes, Fails, Stops, EndsAgain, Ends, Seen, DeliveryInv, TypeOK,
     Live
<1>4. CASE UNCHANGED <<work, saw>>
  BY <1>4 DEF Seen
<1>5. ASSUME NEW t \in Tasks,
             \/ \E d \in Offered : Respond(t, d)
             \/ AbandonResponse(t) \/ RequestCancellation(t) \/ GivesUp(t)
      PROVE  UNCHANGED <<work, saw>>
  BY <1>5 DEF Respond, AbandonResponse, RequestCancellation, GivesUp
<1>6. ASSUME \/ \E h \in Handles, c \in Contexts :
                  CreateSession(h, c) \/ \E k \in {"original", "changed"} : Reopen(h, c, k)
             \/ \E h \in Handles : Release(h) \/ \E t \in Tasks : StartTask(h, t)
             \/ Aclose \/ Recreate \/ Hide(~hidden) \/ UNCHANGED vars
      PROVE  UNCHANGED <<work, saw>>
  BY <1>6 DEF CreateSession, Reopen, Opens, Release, StartTask, Aclose, Quits, Recreate, Hide, vars
<1> QED BY <1>1, <1>2, <1>3, <1>4, <1>5, <1>6 DEF Next

LEMMA MarkedStep == TypeOK /\ Marked /\ [Next]_vars => Marked'
<1> SUFFICES ASSUME TypeOK, Marked, [Next]_vars PROVE Marked'
  OBVIOUS
<1> USE DEF setupVars, runtimeVars, handleVars, startVars, taskVars, replyVars, requestVars
<1>1. \A t \in Tasks : admission[t] = "accepted" => admission'[t] = "accepted"
  <2>1. ASSUME NEW t \in Tasks, NEW fate \in Fates, StartArrives(t, fate)
        PROVE  \A x \in Tasks : admission[x] = "accepted" => admission'[x] = "accepted"
    BY <2>1 DEF StartArrives, TypeOK
  <2>2. ASSUME NEW h \in Handles, NEW t \in Tasks, StartTask(h, t)
        PROVE  \A x \in Tasks : admission[x] = "accepted" => admission'[x] = "accepted"
    BY <2>2 DEF StartTask, TypeOK
  <2>3. ASSUME NEW t \in Tasks,
               \/ \E fate \in Fates : ResponseArrives(t, fate)
               \/ \E d \in Offered : Respond(t, d)
               \/ AbandonResponse(t) \/ RequestCancellation(t) \/ GivesUp(t)
        PROVE  UNCHANGED admission
    BY <2>3 DEF ResponseArrives, Respond, AbandonResponse, RequestCancellation, GivesUp
  <2>4. ASSUME NEW t \in Tasks,
               \/ Asks(t) \/ Effect(t) \/ Completes(t) \/ Fails(t) \/ Stops(t)
               \/ \E kind \in {"completed", "failed", "cancelled"} : EndsAgain(t, kind)
        PROVE  UNCHANGED admission
    BY <2>4 DEF Asks, Effect, Completes, Fails, Stops, EndsAgain, Ends
  <2>5. ASSUME \/ \E h \in Handles, c \in Contexts :
                    CreateSession(h, c) \/ \E k \in {"original", "changed"} : Reopen(h, c, k)
               \/ \E h \in Handles : Release(h)
               \/ Aclose \/ Recreate \/ Hide(~hidden) \/ UNCHANGED vars
        PROVE  UNCHANGED admission
    BY <2>5 DEF CreateSession, Reopen, Opens, Release, Aclose, Quits, Recreate, Hide, vars
  <2> QED BY <2>1, <2>2, <2>3, <2>4, <2>5 DEF Next
<1>2. \A t \in cancelling' : t \in cancelling \/ (t \in Tasks /\ admission[t] = "accepted")
  <2>1. ASSUME NEW t \in Tasks,
               \/ \E fate \in Fates : StartArrives(t, fate) \/ ResponseArrives(t, fate)
               \/ \E d \in Offered : Respond(t, d)
               \/ AbandonResponse(t) \/ GivesUp(t)
        PROVE  UNCHANGED cancelling
    BY <2>1 DEF StartArrives, ResponseArrives, Respond, AbandonResponse, GivesUp
  <2>2. ASSUME NEW t \in Tasks,
               \/ Asks(t) \/ Effect(t) \/ Completes(t) \/ Fails(t) \/ Stops(t)
               \/ \E kind \in {"completed", "failed", "cancelled"} : EndsAgain(t, kind)
        PROVE  UNCHANGED cancelling
    BY <2>2 DEF Asks, Effect, Completes, Fails, Stops, EndsAgain, Ends
  <2>3. ASSUME \/ \E h \in Handles, c \in Contexts :
                    CreateSession(h, c) \/ \E k \in {"original", "changed"} : Reopen(h, c, k)
               \/ \E h \in Handles, t \in Tasks : StartTask(h, t)
               \/ Recreate \/ Hide(~hidden) \/ UNCHANGED vars
        PROVE  UNCHANGED cancelling
    BY <2>3 DEF CreateSession, Reopen, Opens, StartTask, Recreate, Hide, vars
  <2>4. ASSUME NEW t \in Tasks, RequestCancellation(t)
        PROVE  \A x \in cancelling' : x \in cancelling \/ (x \in Tasks /\ admission[x] = "accepted")
    BY <2>4 DEF RequestCancellation, StopTasks
  <2>5. ASSUME Aclose \/ \E h \in Handles : Release(h)
        PROVE  \A x \in cancelling' : x \in cancelling \/ (x \in Tasks /\ admission[x] = "accepted")
    BY <2>5 DEF Aclose, Release, Quits, StopTasks
  <2> QED BY <2>1, <2>2, <2>3, <2>4, <2>5 DEF Next
<1> QED BY <1>1, <1>2 DEF Marked, TypeOK

\* A step of the fixture is about one task, and leaves alone where the others stand.
Leaves(t) == /\ \A x \in Tasks : x # t => StandingOf(x)' = StandingOf(x)
             /\ UNCHANGED <<setupVars, hidden, handleVars, via>>

LEMMA SightStays ==
  ASSUME UNCHANGED <<on, via, saw>> PROVE \A x \in Tasks : Sight(x)' = Sight(x)
BY DEF Sight, On

LEMMA OthersStay ==
  ASSUME TypeOK, NEW t \in Tasks, UNCHANGED <<setupVars, hidden, handleVars, via>>,
         UNCHANGED saw,
         \A x \in Tasks : x # t =>
           /\ UNCHANGED <<admission[x], work[x], effects[x], outcome[x], reply[x], decision[x],
                          sent[x], resolutions[x]>>
           /\ (x \in cancelling' <=> x \in cancelling) /\ (x \in pending' <=> x \in pending)
  PROVE  Leaves(t)
<1>1. \A x \in Tasks : Sight(x)' = Sight(x)
  BY SightStays DEF handleVars
<1> QED BY <1>1 DEF Leaves, StandingOf

LEMMA ArrivalMoves ==
  ASSUME DeliveryInv, Seen, NEW t \in Tasks, NEW fate \in Fates, StartArrives(t, fate)
  PROVE  /\ StandingOf(t).admission = "submitted"
         /\ StandingOf(t)' = Arrived(StandingOf(t), fate) /\ Leaves(t)
<1> USE DEF setupVars, runtimeVars, handleVars, startVars, taskVars, replyVars, requestVars
<1>1. /\ admission[t] = "submitted" /\ work[t] = "none" /\ saw[t] = {}
      /\ TypeOK /\ ContextInv
  BY DEF StartArrives, DeliveryInv, ContextInv, Placed, Seen
<1>2. /\ admission'[t] = Known(fate, "accepted", "refused") /\ admission'[t] # "submitted"
      /\ \A x \in Tasks : x # t => UNCHANGED <<admission[x], work[x], saw[x]>>
      /\ work'[t] = IF Reaches(fate) THEN "working" ELSE work[t]
      /\ saw'[t] = IF Reaches(fate) THEN Sight(t) ELSE {}
  BY <1>1 DEF StartArrives, TypeOK, Known, Sight
<1>3. UNCHANGED <<effects, outcome, cancelling, pending, reply, decision, sent, resolutions>>
  BY DEF StartArrives
<1>4. ASSUME NEW x \in Tasks, x # t PROVE StandingOf(x)' = StandingOf(x)
  <2>1. CASE admission[x] # "submitted"
    BY <1>2, <1>3, <1>4, <2>1 DEF StandingOf
  <2>2. CASE admission[x] = "submitted"
    <3>1. t \notin On(on[via[x]])
      <4>1. Occupies(t) /\ Occupies(x) /\ via[t] # NoHandle /\ via[x] # NoHandle
        BY <1>1, <2>2 DEF Occupies, ContextInv, Placed
      <4> QED BY <1>1, <1>4, <4>1 DEF ContextInv, Exclusive, On
    <3>2. On(on[via[x]])' = On(on[via[x]])
      BY DEF StartArrives, On
    <3>3. \A y \in On(on[via[x]]) : saw'[y] = saw[y]
      BY <1>2, <3>1 DEF On
    <3>4. Sight(x)' = Sight(x)
      BY <3>2, <3>3 DEF Sight
    <3> QED BY <1>2, <1>3, <1>4, <3>4 DEF StandingOf
  <2> QED BY <2>1, <2>2
<1>5. StandingOf(t).admission = "submitted" /\ StandingOf(t).saw = Sight(t)
  BY <1>1 DEF StandingOf, Standing
<1>6. StandingOf(t)' = Arrived(StandingOf(t), fate)
  BY <1>1, <1>2, <1>3 DEF StandingOf, Standing, Arrived
<1>7. UNCHANGED <<setupVars, hidden, handleVars, via>>
  BY DEF StartArrives
<1> QED BY <1>4, <1>5, <1>6, <1>7 DEF Leaves

LEMMA AnswerMoves ==
  ASSUME DeliveryInv, NEW t \in Tasks, NEW fate \in Fates, ResponseArrives(t, fate)
  PROVE  /\ StandingOf(t).reply \in InFlight
         /\ StandingOf(t)' = Answer(StandingOf(t), fate) /\ Leaves(t)
<1> USE DEF setupVars, runtimeVars, handleVars, startVars, taskVars, replyVars, requestVars
<1> DEFINE taken  == Reaches(fate) /\ work[t] = "asking"
           answer == ResponseAnswer(t, fate)
<1>0. TypeOK
  BY DEF DeliveryInv
<1>1. /\ reply[t] \in InFlight /\ reply' = [reply EXCEPT ![t] = answer]
      /\ sent' = [sent EXCEPT ![t] = Append(@, IF fate = "reject" THEN "undelivered"
                                              ELSE IF taken THEN "taken" ELSE "lost")]
      /\ work' = IF taken
                   THEN [work EXCEPT ![t] = IF decision[t] = "approve_once" THEN "allowed"
                                                                            ELSE "ready"]
                   ELSE work
      /\ IF answer = "transport" THEN UNCHANGED requestVars
         ELSE Clear({t}, IF answer = "ok" THEN "responded" ELSE "response_unconfirmed")
      /\ UNCHANGED <<setupVars, runtimeVars, handleVars, startVars, taskVars, decision>>
  BY DEF ResponseArrives
<1>2. answer = IF t \in pending THEN Known(fate, "ok", "transport")
                                ELSE Known(fate, "unconfirmed", "transport")
  BY DEF ResponseAnswer
<1> HIDE DEF taken, answer
<1> DEFINE why == IF answer = "ok" THEN "responded" ELSE "response_unconfirmed"
<1>3. /\ \A x \in Tasks : x # t => (x \in pending' <=> x \in pending)
           /\ resolutions'[x] = resolutions[x]
      /\ t \in pending' <=> answer = "transport" /\ t \in pending
      /\ resolutions'[t] = IF answer # "transport" /\ t \in pending THEN Append(resolutions[t], why)
                                                                     ELSE resolutions[t]
  <2>1. CASE answer = "transport"
    BY <1>1, <2>1
  <2>2. CASE answer # "transport"
    <3> HIDE DEF why
    <3>1. Clear({t}, why)
      BY <1>1, <2>2 DEF why
    <3>2. \A x \in Tasks : /\ x \in pending' <=> x \in pending /\ x # t
                           /\ x \in pending /\ x = t
                                => resolutions'[x] = Append(resolutions[x], why)
                           /\ x \notin pending \/ x # t => resolutions'[x] = resolutions[x]
      BY <1>0, <3>1, ClearAt
    <3> QED BY <2>2, <3>2
  <2> QED BY <2>1, <2>2
<1>4. Leaves(t)
  BY <1>0, <1>1, <1>3, OthersStay DEF TypeOK
<1>5. StandingOf(t)' = Answer(StandingOf(t), fate)
  <2>1. UNCHANGED <<admission, effects, outcome, cancelling, decision>>
        /\ (IF admission[t] = "submitted" THEN Sight(t) ELSE saw[t])'
             = (IF admission[t] = "submitted" THEN Sight(t) ELSE saw[t])
    BY <1>1, SightStays
  <2>2. /\ reply'[t] = answer
        /\ sent'[t] = Append(sent[t], IF fate = "reject" THEN "undelivered"
                                      ELSE IF taken THEN "taken" ELSE "lost")
        /\ work'[t] = IF taken THEN (IF decision[t] = "approve_once" THEN "allowed" ELSE "ready")
             ELSE work[t]
    BY <1>0, <1>1 DEF TypeOK
  <2>3. /\ (IF t \in pending' THEN "yes" ELSE "no") =
              IF answer = "transport" THEN (IF t \in pending THEN "yes" ELSE "no") ELSE "no"
        /\ resolutions'[t] = IF answer = "transport" THEN resolutions[t]
                              ELSE IF t \in pending THEN Append(resolutions[t], why)
                                                    ELSE resolutions[t]
    BY <1>3
  <2> DEFINE x == StandingOf(t)
  <2>4. /\ x.admission = admission[t] /\ x.work = work[t] /\ x.effects = effects[t]
        /\ x.saw = IF admission[t] = "submitted" THEN Sight(t) ELSE saw[t]
        /\ x.outcome = outcome[t] /\ x.cancelling = IF t \in cancelling THEN "yes" ELSE "no"
        /\ x.pending = IF t \in pending THEN "yes" ELSE "no"
        /\ x.reply = reply[t] /\ x.decision = decision[t] /\ x.sent = sent[t]
        /\ x.resolutions = resolutions[t]
    BY DEF StandingOf, Standing
  <2>5. x.pending = "yes" <=> t \in pending
    BY <2>4
  <2>6. StandingOf(t)' =
          Standing(x.admission,
                   IF taken THEN (IF x.decision = "approve_once" THEN "allowed" ELSE "ready")
                   ELSE x.work,
                   x.saw, x.effects, x.outcome, x.cancelling,
                   IF answer = "transport" THEN x.pending ELSE "no", answer, x.decision,
                   Append(x.sent, IF fate = "reject" THEN "undelivered"
                                  ELSE IF taken THEN "taken" ELSE "lost"),
                   IF answer = "transport" THEN x.resolutions ELSE Withdrawing(x, why))
    <3> HIDE DEF x, why
    <3> QED BY <2>1, <2>2, <2>3, <2>4, <2>5 DEF StandingOf, Withdrawing
  <2>7. /\ taken <=> Reaches(fate) /\ x.work = "asking"
        /\ answer = IF x.pending = "yes" THEN Known(fate, "ok", "transport")
                                         ELSE Known(fate, "unconfirmed", "transport")
    BY <1>2, <2>4, <2>5 DEF taken
  <2>8. x = StandingOf(t)
    OBVIOUS
  <2> HIDE DEF x
  <2>9. StandingOf(t)' = Answer(x, fate)
    BY <2>6, <2>7 DEF Answer
  <2> QED BY <2>8, <2>9
<1> QED BY <1>1, <1>4, <1>5 DEF StandingOf, Standing

\* What a judgment does to where a task stands.
LEMMA JudgmentMoves ==
  ASSUME TypeOK, NEW t \in Tasks, NEW w, NEW kind, Report(t, kind), work' = [work EXCEPT ![t] = w],
         UNCHANGED <<setupVars, runtimeVars, handleVars, startVars, cancelling, replyVars>>
  PROVE  StandingOf(t)' = JudgedAs(StandingOf(t), w, kind) /\ Leaves(t)
<1> USE DEF setupVars, runtimeVars, handleVars, startVars, taskVars, replyVars, requestVars
<1> DEFINE x == StandingOf(t)
<1>1. /\ x.admission = admission[t] /\ x.effects = effects[t]
      /\ x.saw = IF admission[t] = "submitted" THEN Sight(t) ELSE saw[t]
      /\ x.outcome = outcome[t] /\ x.cancelling = IF t \in cancelling THEN "yes" ELSE "no"
      /\ x.pending = IF t \in pending THEN "yes" ELSE "no"
      /\ x.reply = reply[t] /\ x.decision = decision[t] /\ x.sent = sent[t]
      /\ x.resolutions = resolutions[t]
  BY DEF StandingOf, Standing
<1>2. /\ UNCHANGED <<admission, effects, cancelling, reply, decision, sent>> /\ work'[t] = w
      /\ (IF admission[t] = "submitted" THEN Sight(t) ELSE saw[t])'
           = (IF admission[t] = "submitted" THEN Sight(t) ELSE saw[t])
  BY SightStays DEF TypeOK
<1>3. x = StandingOf(t)
  OBVIOUS
<1> HIDE DEF x
<1>4. CASE admission[t] = "accepted"
  <2>1. /\ Clear({t}, "task_ended")
        /\ outcome' = [outcome EXCEPT ![t] = IF Settled(t) THEN @ ELSE kind]
    BY <1>4 DEF Report, Judge
  <2>2. \A y \in Tasks : /\ y \in pending' <=> y \in pending /\ y # t
                         /\ y \in pending /\ y = t
                              => resolutions'[y] = Append(resolutions[y], "task_ended")
                         /\ y \notin pending \/ y # t => resolutions'[y] = resolutions[y]
    BY <2>1, ClearAt
  <2>3. Leaves(t)
    BY <2>1, <2>2, OthersStay DEF TypeOK
  <2>4. StandingOf(t)' = JudgedAs(x, w, kind)
    <3>1. outcome'[t] = IF x.outcome = "none" THEN kind ELSE x.outcome
      BY <1>1, <2>1 DEF TypeOK, Settled
    <3>2. resolutions'[t] = Withdrawing(x, "task_ended")
      BY <1>1, <2>2 DEF Withdrawing
    <3> QED BY <1>1, <1>2, <1>4, <2>2, <3>1, <3>2 DEF StandingOf, JudgedAs
  <2> QED BY <1>3, <2>3, <2>4
<1>5. CASE admission[t] # "accepted"
  <2>1. UNCHANGED <<outcome, pending, resolutions>>
    BY <1>5 DEF Report
  <2>2. Leaves(t)
    BY <2>1, OthersStay DEF TypeOK
  <2>3. StandingOf(t)' = JudgedAs(x, w, kind)
    BY <1>1, <1>2, <1>5, <2>1 DEF StandingOf, JudgedAs
  <2> QED BY <1>3, <2>2, <2>3
<1> QED BY <1>4, <1>5

LEMMA EndMoves ==
  ASSUME TypeOK, NEW t \in Tasks, NEW kind, Ends(t, kind)
  PROVE  StandingOf(t)' = JudgedAs(StandingOf(t), "ended", kind) /\ Leaves(t)
BY JudgmentMoves DEF Ends

LEMMA RequestMoves ==
  ASSUME TypeOK, NEW t \in Tasks, Asks(t)
  PROVE  StandingOf(t)' = Asked(StandingOf(t)) /\ Leaves(t)
<1> USE DEF setupVars, runtimeVars, handleVars, startVars, taskVars, replyVars, requestVars
<1>1. \A y \in Tasks : /\ y # t => (y \in pending' <=> y \in pending) /\ work'[y] = work[y]
                       /\ y = t => (y \in pending' <=>
                                      \/ y \in pending
                                      \/ admission[y] = "accepted" /\ y \notin cancelling)
  BY DEF Asks, TypeOK
<1>2. Leaves(t)
  BY <1>1, OthersStay DEF Asks
<1>3. UNCHANGED <<admission, effects, outcome, cancelling, reply, decision, sent, resolutions>>
        /\ work'[t] = "asking"
      /\ (IF admission[t] = "submitted" THEN Sight(t) ELSE saw[t])'
           = (IF admission[t] = "submitted" THEN Sight(t) ELSE saw[t])
  BY SightStays DEF Asks, TypeOK
<1> QED BY <1>1, <1>2, <1>3 DEF StandingOf, Standing, Asked

LEMMA EffectMoves ==
  ASSUME TypeOK, NEW t \in Tasks, Effect(t)
  PROVE  StandingOf(t)' = Effected(StandingOf(t)) /\ Leaves(t)
<1> USE DEF setupVars, runtimeVars, handleVars, startVars, taskVars, replyVars, requestVars
<1>1. /\ work'[t] = "ready" /\ effects'[t] = effects[t] + 1
      /\ \A y \in Tasks : y # t => work'[y] = work[y] /\ effects'[y] = effects[y]
  BY DEF Effect, TypeOK
<1>2. Leaves(t)
  BY <1>1, OthersStay DEF Effect
<1>3. UNCHANGED <<admission, outcome, cancelling, pending, reply, decision, sent, resolutions>>
      /\ (IF admission[t] = "submitted" THEN Sight(t) ELSE saw[t])'
           = (IF admission[t] = "submitted" THEN Sight(t) ELSE saw[t])
  BY SightStays DEF Effect
<1> QED BY <1>1, <1>2, <1>3 DEF StandingOf, Standing, Effected

LEMMA FixtureMoves ==
  ASSUME SuiteInv, FixtureStep, fixture.start \in Fates, fixture.response \in Fates
  PROVE  \E t \in Tasks :
           /\ Moves(StandingOf(t), StandingOf(t)', fixture, t \in guarded, shut) /\ Leaves(t)
<1>0. TypeOK /\ DeliveryInv /\ Seen
  BY DEF SuiteInv, DeliveryInv
<1>1. PICK t \in Tasks :
        \/ StartArrives(t, fixture.start)
        \/ ~fixture.holdResponse /\ ResponseArrives(t, fixture.response)
        \/ /\ ~fixture.manual
           /\ Asks(t) \/ Effect(t) \/ Stops(t) \/ (~fixture.hold /\ Completes(t))
        \/ fixture.manual /\ shut /\ GivesUp(t)
  BY DEF FixtureStep
<1> DEFINE x == StandingOf(t)
<1>2. /\ x.work = work[t] /\ x.outcome = outcome[t]
      /\ x.cancelling = "yes" <=> t \in cancelling
  BY DEF StandingOf, Standing
<1>3. x = StandingOf(t)
  OBVIOUS
<1> HIDE DEF x
<1>4. CASE StartArrives(t, fixture.start)
  BY <1>0, <1>4, ArrivalMoves DEF Moves
<1>5. CASE ~fixture.holdResponse /\ ResponseArrives(t, fixture.response)
  BY <1>0, <1>5, AnswerMoves DEF Moves
<1>6. CASE ~fixture.manual /\ Asks(t)
  <2>1. x.work = "working" /\ t \in guarded
    BY <1>2, <1>6 DEF Asks
  <2> QED BY <1>0, <1>3, <1>6, <2>1, RequestMoves DEF Moves
<1>7. CASE ~fixture.manual /\ Effect(t)
  <2>1. x.work = "allowed"
    BY <1>2, <1>7 DEF Effect
  <2> QED BY <1>0, <1>3, <1>7, <2>1, EffectMoves DEF Moves
<1>8. CASE ~fixture.manual /\ Stops(t)
  <2>1. x.work \in Live /\ x.cancelling = "yes" /\ Ends(t, "cancelled")
    BY <1>2, <1>8 DEF Stops
  <2> QED BY <1>0, <1>3, <1>8, <2>1, EndMoves DEF Moves
<1>9. CASE ~fixture.manual /\ ~fixture.hold /\ Completes(t)
  <2>1. /\ x.work = "ready" \/ (x.work = "working" /\ ~(t \in guarded))
        /\ Ends(t, "completed")
    BY <1>2, <1>9 DEF Completes
  <2> QED BY <1>0, <1>3, <1>9, <2>1, EndMoves DEF Moves
<1>10. CASE fixture.manual /\ shut /\ GivesUp(t)
  <2>1. x.cancelling = "yes" /\ x.outcome = "none" /\ Judge(t, "unresolved")
    BY <1>2, <1>10 DEF GivesUp, Settled
  <2>2. Report(t, "unresolved") /\ work' = [work EXCEPT ![t] = work[t]]
    BY <1>0, <1>10, <2>1 DEF SuiteInv, Marked, GivesUp, Report, TypeOK
  <2>3. UNCHANGED <<setupVars, runtimeVars, handleVars, startVars, cancelling, replyVars>>
    BY <1>10 DEF GivesUp
  <2>4. StandingOf(t)' = JudgedAs(x, work[t], "unresolved") /\ Leaves(t)
    BY <1>0, <1>3, <2>2, <2>3, JudgmentMoves
  <2> QED BY <1>2, <1>3, <1>10, <2>1, <2>4 DEF Moves
<1> QED BY <1>1, <1>4, <1>5, <1>6, <1>7, <1>8, <1>9, <1>10

\* What a scenario knows: the controls and the handles exactly, and of each task the
\* standings it may be in.
World(g, a, o, k, u, s, d, v) ==
  [guarded |-> g, adaptable |-> a, on |-> o, config |-> k, usable |-> u, shut |-> s,
   hidden |-> d, via |-> v]

Scene(f, w, T) == [fixture |-> f, world |-> w, tasks |-> T]

ControlNames == {"start", "response", "hold", "holdResponse", "manual"}

FitsWorld(w) == /\ guarded = w.guarded /\ adaptable = w.adaptable
                /\ \A h \in Handles : on[h] = w.on[h] /\ config[h] = w.config[h]
                /\ usable = w.usable /\ shut = w.shut /\ hidden = w.hidden
                /\ \A t \in Tasks : via[t] = w.via[t]

Fits(b) == /\ \A c \in ControlNames : fixture[c] = b.fixture[c]
           /\ FitsWorld(b.world)
           /\ \A t \in Tasks : StandingOf(t) \in b.tasks[t]

\* The fixture leads out of none of these standings.
Still(S, f, asks, closed) == \A x \in S : \A y : Moves(x, y, f, asks, closed) => y \in S

Steady(S, f, w, t) == Still(S, f, t \in w.guarded, w.shut)

Closed(b) == \A t \in Tasks : Steady(b.tasks[t], b.fixture, b.world, t)

\* What can be seen of a task.
Told(x, what) ==
  CASE what = "admission"   -> x.admission
    [] what = "reply"       -> x.reply
    [] what = "outcome"     -> x.outcome
    [] what = "pending"     -> x.pending = "yes"
    [] what = "resolutions" -> x.resolutions
    [] what = "seen"        -> x.work # "none"
    [] what = "effects"     -> x.effects
    [] what = "submissions" -> Len(x.sent) + (IF x.reply \in InFlight THEN 1 ELSE 0)
    [] what = "taken"       -> Cardinality({k \in 1..Len(x.sent) : x.sent[k] = "taken"})

OfTask == {"admission", "reply", "outcome", "pending", "resolutions", "seen", "effects",
           "submissions", "taken"}

\* A task may block its context, or be in the way of another one.
Uncertain(x) == x.admission = "unconfirmed"
InTheWay(x) == \/ x.admission = "submitted"
               \/ x.admission = "accepted" /\ (x.outcome = "none" \/ x.work \in Live)

At(w, c) == {t \in Tasks : w.via[t] # NoHandle /\ w.on[w.via[t]] = c}

Free(b, c) == \A t \in At(b.world, c) : \A x \in b.tasks[t] : ~Uncertain(x) /\ ~InTheWay(x)
Barred(b, c) == \E t \in At(b.world, c) : \A x \in b.tasks[t] : Uncertain(x)
Taken(b, c) == \E t \in At(b.world, c) : \A x \in b.tasks[t] : InTheWay(x)

StartShows(b, h, is) ==
  \/ h \in b.world.usable /\ Free(b, b.world.on[h]) /\ "submit" \in is
  \/ (h \notin b.world.usable \/ Barred(b, b.world.on[h])) /\ "blocked" \in is
  \/ Taken(b, b.world.on[h]) /\ {"blocked", "overlap"} \subseteq is

ReopenShows(b, c, k, is) ==
  LET w == b.world
      handles == {h \in Handles : w.on[h] = c}
  IN \/ (w.shut \/ w.hidden \/ handles = {}) /\ "transport" \in is
     \/ /\ ~w.shut /\ ~w.hidden /\ handles # {}
        /\ \/ Barred(b, c) /\ "blocked" \in is
           \/ Taken(b, c) /\ {"blocked", "overlap"} \subseteq is
           \/ /\ Free(b, c)
              /\ (IF /\ \E h \in handles : w.config[h] # k
                     /\ ~w.adaptable \/ \E h \in handles \cap w.usable : w.config[h] # k
                    THEN "incompatible" ELSE "reopened") \in is

Answerable(x, d) == IF x.pending = "no" \/ x.reply \in InFlight THEN "late"
                    ELSE IF d \notin Offered THEN "invalid" ELSE "submit"

RespondShows(b, t, d, is) == \A x \in b.tasks[t] : Answerable(x, d) \in is

\* The tasks of which a number of starts is known: all of T, and no other one.
Counts(b, T, what) ==
  /\ T \subseteq Tasks
  /\ \A t \in Tasks : \A x \in b.tasks[t] :
       t \in T <=> (IF what = "submitted starts" THEN x.admission ELSE x.work) # "none"

Shows(b, what, of, is) ==
  \/ what = "start" /\ of \in Handles /\ StartShows(b, of, is)
  \/ what = "reopening" /\ ReopenShows(b, of[1], of[2], is)
  \/ what = "response" /\ of[1] \in Tasks /\ RespondShows(b, of[1], of[2], is)
  \/ /\ what = "instructions" /\ of \in Tasks /\ b.world.via[of] \in Handles
     /\ b.world.config[b.world.via[of]] \in is
  \/ /\ what = "context" /\ of \in Tasks
     /\ \A x \in b.tasks[of] : x.admission # "submitted" /\ x.saw \in is
  \/ /\ what \in {"submitted starts", "accepted starts"}
     /\ \E T : Counts(b, T, what) /\ Cardinality(T) \in is
  \/ what \in OfTask /\ of \in Tasks /\ \A x \in b.tasks[of] : Told(x, what) \in is

-----------------------------------------------------------------------------
(* What an instruction makes of what a scenario knows.                     *)

Openings == {"create", "reopen"}

TurnsWorld(w, i, v) ==
  /\ v.guarded = w.guarded /\ v.adaptable = w.adaptable
  /\ \A h \in Handles :
       /\ v.on[h] = IF i.do \in Openings /\ h = i.of[1] THEN i.of[2] ELSE w.on[h]
       /\ v.config[h] = IF i.do = "create" /\ h = i.of[1] THEN "original"
                        ELSE IF i.do = "reopen" /\ h = i.of[1] THEN i.of[3] ELSE w.config[h]
  /\ v.usable = CASE i.do \in Openings -> w.usable \cup {i.of[1]}
                  [] i.do = "release"  -> w.usable \ {i.of}
                  [] i.do = "aclose"   -> {}
                  [] OTHER             -> w.usable
  /\ v.shut = CASE i.do = "aclose" -> TRUE [] i.do = "recreate" -> FALSE [] OTHER -> w.shut
  /\ v.hidden = IF i.do = "hide" THEN i.of ELSE w.hidden
  /\ \A t \in Tasks : v.via[t] = IF i.do = "start" /\ t = i.of[2] THEN i.of[1] ELSE w.via[t]

TurnsFixture(f, i, g) ==
  \A c \in ControlNames : g[c] = IF i.do = "set" /\ c = i.control THEN i.is ELSE f[c]

\* What a task that is started on context c can be shown.
Input(b, c, t, m) ==
  /\ t \in m
  /\ \A s \in At(b.world, c) : \E z \in b.tasks[s] : z.saw \subseteq m
  /\ \A r \in m : r = t \/ \E s \in At(b.world, c) : \E z \in b.tasks[s] : r \in z.saw

Started(x, m) == Standing("submitted", x.work, m, x.effects, x.outcome, x.cancelling, x.pending,
                          x.reply, x.decision, x.sent, x.resolutions)

Submitting(x, r, d) == Standing(x.admission, x.work, x.saw, x.effects, x.outcome, x.cancelling,
                                x.pending, r, d, x.sent, x.resolutions)

\* A task that is not settled is asked to stop.
Stopped(x) ==
  IF x.admission = "accepted" /\ x.outcome = "none"
    THEN Standing(x.admission, x.work, x.saw, x.effects, x.outcome, "yes", "no", x.reply,
                  x.decision, x.sent, Withdrawing(x, "cancellation_requested"))
    ELSE x

\* Where instruction i may take task t from standing x.
Takes(b, i, t, x, y) ==
  CASE i.do = "start" /\ i.of[2] = t   -> /\ x.admission = "none"
                                          /\ \E m : Input(b, b.world.on[i.of[1]], t, m)
                                               /\ y = Started(x, m)
    [] i.do = "respond" /\ i.of[1] = t -> x.pending = "yes" /\ y = Submitting(x, "waiting", i.of[2])
    [] i.do = "abandon" /\ i.of = t    -> x.reply = "waiting"
          /\ y = Submitting(x, "abandoned", x.decision)
    [] i.do = "cancel" /\ i.of = t     -> y = Stopped(x)
    [] i.do = "release" /\ b.world.via[t] = i.of -> y = Stopped(x)
    [] i.do = "aclose"                 -> y = Stopped(x)
    [] i.do = "report" /\ i.of[1] = t  -> y = JudgedAs(x, "ended", i.of[2])
    [] i.do = "until" /\ i.of = t /\ i.what \in OfTask -> Told(x, i.what) \in i.is /\ y = x
    [] OTHER                           -> y = x

Turns(b, i, q) ==
  /\ TurnsFixture(b.fixture, i, q.fixture) /\ TurnsWorld(b.world, i, q.world)
  /\ \A t \in Tasks : \A x \in b.tasks[t] : \A y : Takes(b, i, t, x, y) => y \in q.tasks[t]
  /\ i.do = "assert" => Shows(b, i.what, i.of, i.is)

\* A script leads from one scene to another: R relates what is known to what is left to do.
Follows(R, q) ==
  \A p, s : <<p, s>> \in R =>
    /\ Closed(p)
    /\ s = <<>> => p = q
    /\ s # <<>> => \E r : Turns(p, Head(s), r) /\ <<r, Tail(s)>> \in R

Leads(b, sc, q) ==
  /\ Closed(q)
  /\ \E P, S : \E R \in SUBSET (P \X Seq(S)) : <<b, sc>> \in R /\ Follows(R, q)

LEMMA Led ==
  ASSUME NEW P, NEW S, NEW R \in SUBSET (P \X Seq(S)), NEW b, NEW sc, NEW q,
         <<b, sc>> \in R, Follows(R, q), Closed(q)
  PROVE  Leads(b, sc, q)
BY DEF Leads

LEMMA LeadsNowhere == ASSUME NEW b, Closed(b) PROVE Leads(b, <<>>, b)
<1> DEFINE R == {<<b, <<>>>>}
<1>1. R \in SUBSET ({b} \X Seq({b})) /\ <<b, <<>>>> \in R
  <2>1. <<>> \in Seq({b})
    OBVIOUS
  <2> DEFINE e == <<>>
  <2>2. e \in Seq({b})
    BY <2>1
  <2> HIDE DEF e
  <2>3. <<b, e>> \in {b} \X Seq({b})
    BY <2>2
  <2> QED BY <2>3 DEF e
<1>2. Follows(R, b)
  BY DEF Follows
<1> HIDE DEF R
<1> QED BY <1>1, <1>2, Led

LEMMA LeadsTo ==
  ASSUME NEW b, NEW i, NEW q, Closed(b), Closed(q), Turns(b, i, q)
  PROVE  Leads(b, <<i>>, q)
<1> DEFINE R == {<<b, <<i>>>>, <<q, <<>>>>}
<1>1. <<i>> \in Seq({i}) /\ <<>> \in Seq({i}) /\ Head(<<i>>) = i /\ Tail(<<i>>) = <<>>
      /\ <<i>> # <<>>
  OBVIOUS
<1>2. R \in SUBSET ({b, q} \X Seq({i})) /\ <<b, <<i>>>> \in R
  <2>1. <<b, <<i>>>> \in {b, q} \X Seq({i}) /\ <<q, <<>>>> \in {b, q} \X Seq({i})
    BY <1>1
  <2> QED BY <2>1
<1>3. Follows(R, q)
  BY <1>1 DEF Follows
<1> HIDE DEF R
<1> QED BY <1>2, <1>3, Led

LEMMA LeadsOn ==
  ASSUME NEW b, NEW a, NEW q, NEW e, NEW r, Leads(b, a, q), Leads(q, e, r)
  PROVE  Leads(b, a \o e, r)
<1>1. PICK P1, S1 : \E R \in SUBSET (P1 \X Seq(S1)) : <<b, a>> \in R /\ Follows(R, q)
  BY DEF Leads
<1>2. PICK R1 \in SUBSET (P1 \X Seq(S1)) : <<b, a>> \in R1 /\ Follows(R1, q)
  BY <1>1
<1>3. PICK P2, S2 : \E R \in SUBSET (P2 \X Seq(S2)) : <<q, e>> \in R /\ Follows(R, r)
  BY DEF Leads
<1>4. PICK R2 \in SUBSET (P2 \X Seq(S2)) : <<q, e>> \in R2 /\ Follows(R2, r)
  BY <1>3
<1> DEFINE P == P1 \cup P2
           S == S1 \cup S2
           R == {<<z[1], z[2] \o e>> : z \in R1} \cup R2
<1>5. e \in Seq(S2) /\ e \in Seq(S)
  BY <1>4
<1>6. R \in SUBSET (P \X Seq(S))
  <2>1. \A z \in R1 : z[1] \in P1 /\ z[2] \in Seq(S1)
    BY <1>2
  <2>2. \A z \in R1 : z[2] \o e \in Seq(S)
    <3> TAKE z \in R1
    <3>1. z[2] \in Seq(S)
      BY <2>1
    <3> QED BY <1>5, <3>1, ConcatProperties
  <2>3. \A z \in R2 : z \in P \X Seq(S)
    <3> TAKE z \in R2
    <3>1. z[1] \in P2 /\ z[2] \in Seq(S2) /\ z = <<z[1], z[2]>>
      BY <1>4
    <3>2. z[1] \in P /\ z[2] \in Seq(S)
      BY <3>1
    <3> HIDE DEF P, S
    <3>3. <<z[1], z[2]>> \in P \X Seq(S)
      BY <3>2
    <3> QED BY <3>1, <3>3
  <2>4. \A z \in R1 : <<z[1], z[2] \o e>> \in P \X Seq(S)
    <3> TAKE z \in R1
    <3>1. z[1] \in P /\ z[2] \o e \in Seq(S)
      BY <2>1, <2>2
    <3> HIDE DEF P, S
    <3> QED BY <3>1
  <2> HIDE DEF P, S
  <2> QED BY <2>3, <2>4
<1>7. <<b, a \o e>> \in R
  <2>1. <<b, a>>[1] = b /\ <<b, a>>[2] = a
    OBVIOUS
  <2> QED BY <1>2, <2>1
<1>8. Follows(R, r)
  <2> SUFFICES ASSUME NEW p, NEW s, <<p, s>> \in R
               PROVE  /\ Closed(p)
                      /\ s = <<>> => p = r
                      /\ s # <<>> => \E x : Turns(p, Head(s), x) /\ <<x, Tail(s)>> \in R
    BY DEF Follows
  <2>1. CASE <<p, s>> \in R2
    BY <1>4, <2>1 DEF Follows
  <2>2. CASE \E z \in R1 : <<p, s>> = <<z[1], z[2] \o e>>
    <3>1. PICK z \in R1 : p = z[1] /\ s = z[2] \o e
      BY <2>2
    <3>2. z = <<z[1], z[2]>> /\ z[2] \in Seq(S1)
      BY <1>2
    <3>3. CASE z[2] = <<>>
      <4>1. p = q
        BY <1>2, <3>1, <3>2, <3>3 DEF Follows
      <4>2. s = e
        BY <1>5, <3>1, <3>3
      <4> QED BY <1>4, <2>1, <4>1, <4>2
    <3>4. CASE z[2] # <<>>
      <4>1. Closed(p) /\ \E x : Turns(p, Head(z[2]), x) /\ <<x, Tail(z[2])>> \in R1
        BY <1>2, <3>1, <3>2, <3>4 DEF Follows
      <4>2. PICK x : Turns(p, Head(z[2]), x) /\ <<x, Tail(z[2])>> \in R1
        BY <4>1
      <4>3. s # <<>> /\ Head(s) = Head(z[2]) /\ Tail(s) = Tail(z[2]) \o e
        BY <1>5, <3>1, <3>2, <3>4
      <4>4. <<x, Tail(s)>> \in R
        <5>1. <<x, Tail(z[2])>>[1] = x /\ <<x, Tail(z[2])>>[2] = Tail(z[2])
          OBVIOUS
        <5> QED BY <4>2, <4>3, <5>1
      <4> QED BY <4>1, <4>2, <4>3, <4>4
    <3> QED BY <3>3, <3>4
  <2> QED BY <2>1, <2>2
<1> HIDE DEF R, P, S
<1>9. Closed(r)
  BY DEF Leads
<1> QED BY <1>6, <1>7, <1>8, <1>9, Led

LEMMA LeadsAway ==
  ASSUME NEW b, NEW sc, NEW q, Leads(b, sc, q)
  PROVE  /\ Closed(b) /\ Closed(q)
         /\ sc # <<>> => \E r : Turns(b, Head(sc), r) /\ Leads(r, Tail(sc), q)
<1>1. PICK P, S : \E R \in SUBSET (P \X Seq(S)) : <<b, sc>> \in R /\ Follows(R, q)
  BY DEF Leads
<1>2. PICK R \in SUBSET (P \X Seq(S)) : <<b, sc>> \in R /\ Follows(R, q)
  BY <1>1
<1>3. Closed(b) /\ (sc # <<>> => \E r : Turns(b, Head(sc), r) /\ <<r, Tail(sc)>> \in R)
  BY <1>2 DEF Follows
<1>4. Closed(q)
  BY DEF Leads
<1> QED BY <1>2, <1>3, <1>4, Led

\* What the fixture does keeps to what is known.
LEMMA FixtureFits ==
  ASSUME SuiteInv, OnScript, FixtureStep, NEW b, Closed(b), Fits(b)
  PROVE  Fits(b)'
<1>1. PICK t \in Tasks :
        Moves(StandingOf(t), StandingOf(t)', fixture, t \in guarded, shut) /\ Leaves(t)
  BY FixtureMoves DEF OnScript
<1>2. \A c \in ControlNames : fixture[c] = b.fixture[c]
  BY DEF Fits
<1>3. Moves(StandingOf(t), StandingOf(t)', b.fixture, t \in b.world.guarded, b.world.shut)
  <2>1. /\ fixture.start = b.fixture.start /\ fixture.response = b.fixture.response
        /\ fixture.hold = b.fixture.hold /\ fixture.holdResponse = b.fixture.holdResponse
        /\ fixture.manual = b.fixture.manual /\ guarded = b.world.guarded /\ shut = b.world.shut
    BY <1>2 DEF ControlNames, Fits, FitsWorld
  <2> QED BY <1>1, <2>1 DEF Moves
<1>4. StandingOf(t)' \in b.tasks[t]
  BY <1>3 DEF Fits, Closed, Steady, Still
<1>5. \A x \in Tasks : StandingOf(x)' \in b.tasks[x]
  BY <1>1, <1>4 DEF Leaves, Fits
<1>6. FitsWorld(b.world)'
  BY <1>1 DEF Leaves, Fits, FitsWorld, setupVars, handleVars
<1>7. fixture' = fixture
  BY DEF FixtureStep
<1> QED BY <1>2, <1>5, <1>6, <1>7 DEF Fits

-----------------------------------------------------------------------------
(* What is known is so.                                                    *)

Reads(t, x) == /\ x.admission = admission[t] /\ x.work = work[t] /\ x.effects = effects[t]
               /\ x.outcome = outcome[t] /\ x.reply = reply[t] /\ x.decision = decision[t]
               /\ x.sent = sent[t] /\ x.resolutions = resolutions[t]
               /\ x.cancelling = IF t \in cancelling THEN "yes" ELSE "no"
               /\ x.pending = IF t \in pending THEN "yes" ELSE "no"
               /\ x.saw = IF admission[t] = "submitted" THEN Sight(t) ELSE saw[t]

LEMMA Reading == ASSUME NEW t \in Tasks PROVE Reads(t, StandingOf(t))
BY DEF Reads, StandingOf, Standing

LEMMA Contained ==
  ASSUME TypeOK, NEW b, Fits(b), NEW c
  PROVE  /\ At(b.world, c) = On(c)
         /\ Free(b, c) => ~Blocked(c) /\ ~Busy(c)
         /\ Barred(b, c) => Blocked(c)
         /\ Taken(b, c) => Blocked(c) \/ Busy(c)
<1>1. At(b.world, c) = On(c)
  <2>1. ASSUME NEW t \in Tasks
        PROVE  (b.world.via[t] # NoHandle /\ b.world.on[b.world.via[t]] = c)
                 <=> (via[t] # NoHandle /\ on[via[t]] = c)
    <3>1. via[t] = b.world.via[t]
      BY DEF Fits, FitsWorld
    <3> QED BY <3>1 DEF Fits, FitsWorld, TypeOK
  <2> QED BY <2>1 DEF At, On
<1>2. \A t \in On(c) : t \in Tasks /\ StandingOf(t) \in b.tasks[t] /\ Reads(t, StandingOf(t))
  BY Reading DEF On, Fits
<1>3. \A t \in On(c) : /\ Uncertain(StandingOf(t)) <=> admission[t] = "unconfirmed"
                       /\ InTheWay(StandingOf(t)) <=>
                            \/ admission[t] = "submitted"
                            \/ admission[t] = "accepted" /\ (~Settled(t) \/ work[t] \in Live)
  BY <1>2 DEF Reads, Uncertain, InTheWay, Settled
<1>4. Free(b, c) => ~Blocked(c) /\ ~Busy(c)
  BY <1>1, <1>2, <1>3 DEF Free, Blocked, Busy
<1>5. Barred(b, c) => Blocked(c)
  BY <1>1, <1>2, <1>3 DEF Barred, Blocked
<1>6. Taken(b, c) => Blocked(c) \/ Busy(c)
  BY <1>1, <1>2, <1>3 DEF Taken, Busy
<1> QED BY <1>1, <1>4, <1>5, <1>6

LEMMA Telling ==
  ASSUME Seen, NEW t \in Tasks, NEW what \in OfTask, NEW is
  PROVE  Told(StandingOf(t), what) \in is <=> Fact(what, t) \in is
<1> DEFINE x == StandingOf(t)
<1>1. Reads(t, x)
  BY Reading
<1> HIDE DEF x
<1>2. CASE what = "pending"
  <2>1. (x.pending = "yes") <=> t \in pending
    BY <1>1 DEF Reads
  <2> QED BY <1>2, <2>1 DEF Told, Fact, x
<1>3. CASE what = "seen"
  <2>1. (x.work # "none") <=> saw[t] # {}
    BY <1>1 DEF Reads, Seen
  <2> QED BY <1>3, <2>1 DEF Told, Fact, x
<1>4. CASE what \in {"admission", "reply", "outcome", "resolutions", "effects"}
  BY <1>1, <1>4 DEF Told, Fact, Reads, x
<1>5. CASE what \in {"submissions", "taken"}
  BY <1>1, <1>5 DEF Told, Fact, Reads, x
<1> QED BY <1>2, <1>3, <1>4, <1>5 DEF OfTask

\* What an assertion is shown.
LEMMA Showing ==
  ASSUME TypeOK, Seen, ContextInv, NEW b, Fits(b), NEW what, NEW of, NEW is, Shows(b, what, of, is)
  PROVE  Fact(what, of) \in is
<1> DEFINE w == b.world
<1>0. FitsWorld(w)
  BY DEF Fits
<1>1. CASE what = "start"
  <2>1. of \in Handles /\ StartShows(b, of, is)
    BY <1>1 DEF Shows, OfTask
  <2>2. w.on[of] = on[of] /\ w.usable = usable
    BY <1>0, <2>1 DEF FitsWorld
  <2> DEFINE c == on[of]
  <2>3. /\ Free(b, c) => ~Blocked(c) /\ ~Busy(c)
        /\ Barred(b, c) => Blocked(c)
        /\ Taken(b, c) => Blocked(c) \/ Busy(c)
    BY Contained
  <2>4. StartAnswer(of) \in is
    BY <2>1, <2>2, <2>3 DEF StartShows, StartAnswer
  <2> QED BY <1>1, <2>4 DEF Fact
<1>2. CASE what = "reopening"
  <2> DEFINE c == of[1]
             k == of[2]
             handles == {h \in Handles : w.on[h] = c}
  <2>1. ReopenShows(b, c, k, is)
    BY <1>2 DEF Shows, OfTask
  <2>2. handles = {h \in Handles : on[h] = c}
    BY <1>0 DEF FitsWorld
  <2>3. /\ (\E h \in handles : w.config[h] # k) <=> \E h \in handles : config[h] # k
        /\ (\E h \in handles \cap w.usable : w.config[h] # k)
             <=> \E h \in handles \cap usable : config[h] # k
        /\ w.shut = shut /\ w.hidden = hidden /\ w.adaptable = adaptable
    BY <1>0 DEF FitsWorld
  <2>4. /\ Free(b, c) => ~Blocked(c) /\ ~Busy(c)
        /\ Barred(b, c) => Blocked(c)
        /\ Taken(b, c) => Blocked(c) \/ Busy(c)
    BY Contained
  <2>5. /\ \/ (w.shut \/ w.hidden \/ handles = {}) /\ "transport" \in is
           \/ /\ ~w.shut /\ ~w.hidden /\ handles # {}
              /\ \/ Barred(b, c) /\ "blocked" \in is
                 \/ Taken(b, c) /\ {"blocked", "overlap"} \subseteq is
                 \/ /\ Free(b, c)
                    /\ (IF /\ \E h \in handles : w.config[h] # k
                           /\ ~w.adaptable \/ \E h \in handles \cap w.usable : w.config[h] # k
                          THEN "incompatible" ELSE "reopened") \in is
        /\ ReopenAnswer(c, k) =
             IF shut \/ hidden \/ handles = {} THEN "transport"
             ELSE IF Blocked(c) THEN "blocked"
             ELSE IF Busy(c) THEN "overlap"
             ELSE IF /\ \E h \in handles : config[h] # k
                     /\ ~adaptable \/ \E h \in handles \cap usable : config[h] # k
               THEN "incompatible" ELSE "reopened"
    BY <2>1, <2>2 DEF ReopenShows, ReopenAnswer
  <2> HIDE DEF handles, c, k, w
  <2>6. ReopenAnswer(c, k) \in is
    BY <2>3, <2>4, <2>5
  <2> QED BY <1>2, <2>6 DEF Fact, c, k
<1>3. CASE what = "response"
  <2> DEFINE t == of[1]
             x == StandingOf(t)
  <2>1. t \in Tasks /\ RespondShows(b, t, of[2], is)
    BY <1>3 DEF Shows, OfTask
  <2>2. x \in b.tasks[t] /\ Reads(t, x)
    BY <2>1, Reading DEF Fits
  <2> HIDE DEF x
  <2>3. RespondAnswer(t, of[2]) \in is
    BY <2>1, <2>2 DEF RespondShows, Answerable, RespondAnswer, Reads
  <2> QED BY <1>3, <2>3 DEF Fact
<1>4. CASE what = "instructions"
  BY <1>0, <1>4 DEF Shows, OfTask, Fact, FitsWorld
<1>5. CASE what = "context"
  <2>1. of \in Tasks /\ StandingOf(of) \in b.tasks[of] /\ Reads(of, StandingOf(of))
    BY <1>5, Reading DEF Shows, OfTask, Fits
  <2> QED BY <1>5, <2>1 DEF Shows, OfTask, Fact, Reads
<1>6. CASE what \in {"submitted starts", "accepted starts"}
  <2>1. PICK T : Counts(b, T, what) /\ Cardinality(T) \in is
    BY <1>6 DEF Shows, OfTask
  <2>2. \A t \in Tasks : StandingOf(t) \in b.tasks[t] /\ Reads(t, StandingOf(t))
    BY Reading DEF Fits
  <2>3. CASE what = "submitted starts"
    <3>1. \A t \in Tasks : t \in T <=> admission[t] # "none"
      BY <2>1, <2>2, <2>3 DEF Counts, Reads
    <3>2. T = {t \in Tasks : admission[t] # "none"}
      BY <2>1, <3>1 DEF Counts
    <3> QED BY <2>1, <2>3, <3>2 DEF Fact
  <2>4. CASE what = "accepted starts"
    <3>1. \A t \in Tasks : t \in T <=> work[t] # "none"
      BY <2>1, <2>2, <2>4 DEF Counts, Reads
    <3>2. T = {t \in Tasks : work[t] # "none"}
      BY <2>1, <3>1 DEF Counts
    <3> QED BY <2>1, <2>4, <3>2 DEF Fact
  <2> QED BY <1>6, <2>3, <2>4
<1>7. CASE what \in OfTask
  <2>1. of \in Tasks /\ Told(StandingOf(of), what) \in is
    BY <1>7 DEF Shows, OfTask, Fits
  <2> QED BY <1>7, <2>1, Telling
<1> QED BY <1>1, <1>2, <1>3, <1>4, <1>5, <1>6, <1>7 DEF Shows, OfTask

-----------------------------------------------------------------------------
(* What an instruction makes of it is so too.                              *)

LEMMA StandingStays ==
  ASSUME UNCHANGED <<on, via, saw, admission, work, effects, outcome, cancelling, pending, reply,
                     decision, sent, resolutions>>
  PROVE  \A t \in Tasks : StandingOf(t)' = StandingOf(t)
<1>1. \A t \in Tasks : Sight(t)' = Sight(t)
  BY SightStays
<1> QED BY <1>1 DEF StandingOf

LEMMA OpeningStays ==
  ASSUME TypeOK, ContextInv, NEW h \in Handles, NEW c \in Contexts, NEW k, Opens(h, c, k)
  PROVE  \A t \in Tasks : StandingOf(t)' = StandingOf(t)
<1> USE DEF setupVars, runtimeVars, handleVars, startVars, taskVars, replyVars, requestVars
<1>1. /\ \A x \in Tasks : via[x] # NoHandle => via[x] \in Handles /\ on'[via[x]] = on[via[x]]
      /\ UNCHANGED <<via, saw, admission, work, effects, outcome, cancelling, pending, reply,
                     decision, sent, resolutions>>
  BY DEF Opens, TypeOK, ContextInv, Placed
<1>2. ASSUME NEW t \in Tasks, admission[t] = "submitted" PROVE Sight(t)' = Sight(t)
  <2>1. on'[via[t]] = on[via[t]]
    BY <1>1, <1>2 DEF ContextInv, Placed
  <2>2. On(on[via[t]])' = On(on[via[t]])
    BY <1>1, <2>1 DEF On
  <2> QED BY <1>1, <2>2 DEF Sight
<1> QED BY <1>1, <1>2 DEF StandingOf

LEMMA StartMoves ==
  ASSUME SuiteInv, NEW h \in Handles, NEW t \in Tasks, StartTask(h, t), NEW b, Fits(b)
  PROVE  /\ \A x \in Tasks : x # t => StandingOf(x)' = StandingOf(x)
         /\ StandingOf(t).admission = "none"
         /\ \E m : Input(b, b.world.on[h], t, m) /\ StandingOf(t)' = Started(StandingOf(t), m)
<1> USE DEF setupVars, runtimeVars, handleVars, startVars, taskVars, replyVars, requestVars
<1> DEFINE c == on[h]
<1>0. TypeOK /\ ContextInv /\ Seen /\ NoHandle \notin Handles
  BY NoHandleAssumption DEF SuiteInv, DeliveryInv
<1>1. /\ h \in usable /\ ~Blocked(c) /\ ~Busy(c) /\ admission[t] = "none"
      /\ via[t] = NoHandle /\ work[t] = "none" /\ saw[t] = {}
  BY <1>0 DEF StartTask, StartAnswer, ContextInv, Placed, Seen
<1>2. /\ via'[t] = h /\ admission'[t] = "submitted"
      /\ \A x \in Tasks : x # t => via'[x] = via[x] /\ admission'[x] = admission[x]
      /\ UNCHANGED <<on, saw, work, effects, outcome, cancelling, pending, reply, decision, sent,
                     resolutions>>
  BY <1>0 DEF StartTask, TypeOK
<1>3. On(c)' = On(c) \cup {t} /\ t \notin On(c)
  BY <1>0, <1>1, <1>2 DEF On
<1>4. ASSUME NEW x \in Tasks, x # t PROVE StandingOf(x)' = StandingOf(x)
  <2>1. CASE admission[x] # "submitted"
    BY <1>2, <1>4, <2>1 DEF StandingOf
  <2>2. CASE admission[x] = "submitted"
    <3>1. via[x] # NoHandle /\ on[via[x]] # c
      BY <1>0, <1>1, <2>2 DEF Busy, On, ContextInv, Placed
    <3>2. On(on[via[x]])' = On(on[via[x]])
      <4>1. via'[x] = via[x] /\ on' = on
        BY <1>2, <1>4
      <4>2. \A y \in Tasks : (via'[y] # NoHandle /\ on[via'[y]] = on[via[x]])
                              <=> (via[y] # NoHandle /\ on[via[y]] = on[via[x]])
        BY <1>1, <1>2, <3>1
      <4> QED BY <4>1, <4>2 DEF On
    <3>3. Sight(x)' = Sight(x)
      BY <1>2, <3>2 DEF Sight
    <3> QED BY <1>2, <1>4, <3>3 DEF StandingOf
  <2> QED BY <2>1, <2>2
<1> DEFINE m == {t} \cup UNION {saw[x] : x \in On(c)}
           x == StandingOf(t)
<1>5. Sight(t)' = m
  <2>1. Sight(t)' = {t} \cup UNION {saw[s] : s \in On(c) \cup {t}}
    BY <1>2, <1>3 DEF Sight
  <2> QED BY <1>1, <2>1
<1>6. x.admission = "none" /\ Reads(t, x)
  BY <1>1, Reading DEF Reads
<1>7. StandingOf(t)' = Started(x, m)
  <2> HIDE DEF x, m
  <2> QED BY <1>2, <1>5, <1>6 DEF StandingOf, Started, Reads
<1>8. Input(b, c, t, m)
  <2>1. At(b.world, c) = On(c)
    BY <1>0, Contained
  <2>2. \A s \in On(c) : /\ s \in Tasks /\ StandingOf(s) \in b.tasks[s]
                         /\ StandingOf(s).saw = saw[s]
    <3> TAKE s \in On(c)
    <3>1. s \in Tasks /\ admission[s] # "submitted"
      BY <1>1 DEF Busy, On
    <3> QED BY <3>1, Reading DEF Fits, Reads
  <2>3. \A s \in On(c) : \E z \in b.tasks[s] : z.saw \subseteq m
    BY <2>2
  <2>4. \A r \in m : r = t \/ \E s \in On(c) : \E z \in b.tasks[s] : r \in z.saw
    BY <2>2
  <2> QED BY <2>1, <2>3, <2>4 DEF Input
<1>9. b.world.on[h] = c
  BY DEF Fits, FitsWorld
<1> HIDE DEF x, m, c
<1> QED BY <1>4, <1>6, <1>7, <1>8, <1>9 DEF x

LEMMA ResponseMoves ==
  ASSUME TypeOK, NEW t \in Tasks, NEW d,
         \/ Respond(t, d) /\ t \in pending
         \/ AbandonResponse(t) /\ d = decision[t]
  PROVE  /\ \A x \in Tasks : x # t => StandingOf(x)' = StandingOf(x)
         /\ StandingOf(t)' = Submitting(StandingOf(t), reply'[t], d)
<1> USE DEF setupVars, runtimeVars, handleVars, startVars, taskVars, replyVars, requestVars
<1>1. /\ UNCHANGED <<setupVars, hidden, handleVars, via, saw, admission, work, effects, outcome,
                     cancelling, pending, sent, resolutions>>
      /\ decision'[t] = d
      /\ \A x \in Tasks : x # t => reply'[x] = reply[x] /\ decision'[x] = decision[x]
  BY DEF Respond, AbandonResponse, TypeOK
<1>2. Leaves(t)
  BY <1>1, OthersStay
<1>3. Sight(t)' = Sight(t)
  BY <1>1, SightStays
<1>4. StandingOf(t)' = Submitting(StandingOf(t), reply'[t], d)
  BY <1>1, <1>3 DEF StandingOf, Standing, Submitting
<1> QED BY <1>2, <1>4 DEF Leaves

\* Some tasks are asked to stop.
LEMMA StopMoves ==
  ASSUME TypeOK, NEW T \in SUBSET Tasks, StopTasks(T),
         \A t \in T : admission[t] = "accepted" /\ ~Settled(t),
         UNCHANGED <<on, via, saw, admission, work, effects, outcome, reply, decision, sent>>
  PROVE  \A t \in Tasks : StandingOf(t)' = IF t \in T THEN Stopped(StandingOf(t)) ELSE StandingOf(t)
<1> SUFFICES ASSUME NEW t \in Tasks
             PROVE  StandingOf(t)' = IF t \in T THEN Stopped(StandingOf(t)) ELSE StandingOf(t)
  OBVIOUS
<1>1. Sight(t)' = Sight(t)
  BY SightStays
<1>2. /\ t \in pending' <=> t \in pending /\ t \notin T
      /\ resolutions'[t] = IF t \in T /\ t \in pending
                             THEN Append(resolutions[t], "cancellation_requested")
                                   ELSE resolutions[t]
      /\ t \in cancelling' <=> t \in cancelling \/ t \in T
  BY DEF StopTasks, Clear
<1> DEFINE x == StandingOf(t)
<1>3. x = StandingOf(t) /\ Reads(t, x)
  BY Reading
<1> HIDE DEF x
<1>4. CASE t \in T
  <2>1. x.admission = "accepted" /\ x.outcome = "none"
    BY <1>3, <1>4 DEF Reads, Settled
  <2>2. resolutions'[t] = Withdrawing(x, "cancellation_requested")
    BY <1>2, <1>3, <1>4 DEF Reads, Withdrawing
  <2>3. StandingOf(t)' =
          Standing(x.admission, x.work, x.saw, x.effects, x.outcome, "yes", "no", x.reply,
                   x.decision, x.sent, Withdrawing(x, "cancellation_requested"))
    BY <1>1, <1>2, <1>3, <1>4, <2>2 DEF Reads, StandingOf
  <2> QED BY <1>3, <1>4, <2>1, <2>3 DEF Stopped
<1>5. CASE t \notin T
  BY <1>1, <1>2, <1>5 DEF StandingOf
<1> QED BY <1>4, <1>5

LEMMA QuitMoves ==
  ASSUME TypeOK, NEW H, Quits(H)
  PROVE  \A t \in Tasks : StandingOf(t)' = IF via[t] \in H THEN Stopped(StandingOf(t))
         ELSE StandingOf(t)
<1> USE DEF setupVars, runtimeVars, handleVars, startVars, taskVars, replyVars, requestVars
<1> DEFINE T == {t \in Tasks : via[t] \in H /\ admission[t] = "accepted" /\ ~Settled(t)}
<1>1. \A t \in Tasks : StandingOf(t)' = IF t \in T THEN Stopped(StandingOf(t)) ELSE StandingOf(t)
  <2>1. T \in SUBSET Tasks /\ \A t \in T : admission[t] = "accepted" /\ ~Settled(t)
    OBVIOUS
  <2>2. /\ StopTasks(T)
        /\ UNCHANGED <<on, via, saw, admission, work, effects, outcome, reply, decision, sent>>
    BY DEF Quits
  <2> HIDE DEF T
  <2> QED BY <2>1, <2>2, StopMoves
<1>2. \A t \in Tasks : t \notin T /\ via[t] \in H => Stopped(StandingOf(t)) = StandingOf(t)
  BY Reading DEF Stopped, Reads, Settled
<1> QED BY <1>1, <1>2

LEMMA CallTurnsWorld ==
  ASSUME TypeOK, NEW i, Meant(i), Calls(i), NEW w, FitsWorld(w), NEW v, TurnsWorld(w, i, v)
  PROVE  FitsWorld(v)'
<1> USE DEF setupVars, runtimeVars, handleVars, startVars, taskVars, replyVars, requestVars
<1>1. ASSUME NEW h \in Handles, NEW c, NEW k, Opens(h, c, k), i.do \in Openings,
             i.of[1] = h /\ i.of[2] = c,
             k = IF i.do = "create" THEN "original" ELSE i.of[3]
      PROVE  FitsWorld(v)'
  <2>1. /\ UNCHANGED <<guarded, adaptable, shut, hidden, via>> /\ usable' = usable \cup {h}
        /\ \A x \in Handles : on'[x] = IF x = h THEN c ELSE on[x]
        /\ \A x \in Handles : config'[x] = IF x = h THEN k ELSE config[x]
    BY <1>1 DEF Opens, TypeOK
  <2>2. /\ v.guarded = w.guarded /\ v.adaptable = w.adaptable /\ v.usable = w.usable \cup {h}
        /\ v.shut = w.shut /\ v.hidden = w.hidden /\ \A t \in Tasks : v.via[t] = w.via[t]
        /\ \A x \in Handles : v.on[x] = IF x = h THEN c ELSE w.on[x]
        /\ \A x \in Handles : v.config[x] = IF x = h THEN k ELSE w.config[x]
    BY <1>1 DEF TurnsWorld, Openings
  <2> QED BY <2>1, <2>2 DEF FitsWorld
<1>2. CASE i.do = "create"
  BY <1>1, <1>2 DEF Calls, CreateSession, Meant, Openings
<1>3. CASE i.do = "reopen"
  BY <1>1, <1>3 DEF Calls, Reopen, Meant, Openings
<1>4. CASE i.do = "start"
  <2>1. i.of[2] \in Tasks /\ StartTask(i.of[1], i.of[2])
    BY <1>4 DEF Calls, Meant
  <2>2. /\ UNCHANGED <<guarded, adaptable, on, config, usable, shut, hidden>>
        /\ \A t \in Tasks : via'[t] = IF t = i.of[2] THEN i.of[1] ELSE via[t]
    BY <2>1 DEF StartTask, TypeOK
  <2> QED BY <1>4, <2>2 DEF TurnsWorld, FitsWorld, Openings
<1>5. CASE i.do \in {"release", "aclose"}
  <2>1. /\ UNCHANGED <<guarded, adaptable, on, config, hidden, via>>
        /\ usable' = IF i.do = "release" THEN usable \ {i.of} ELSE {}
        /\ shut' = IF i.do = "release" THEN shut ELSE TRUE
    BY <1>5 DEF Calls, Release, Aclose, Quits, TypeOK
  <2> QED BY <1>5, <2>1 DEF TurnsWorld, FitsWorld, Openings
<1>6. CASE i.do \in {"recreate", "hide"}
  BY <1>6 DEF Calls, Recreate, Hide, TurnsWorld, FitsWorld, Openings
<1>7. CASE i.do = "report"
  <2>1. \E kind : Ends(i.of[1], kind)
    BY <1>7 DEF Calls, IsTold, Completes, Fails, EndsAgain
  <2>2. UNCHANGED <<guarded, adaptable, on, config, usable, shut, hidden, via>>
    BY <2>1 DEF Ends
  <2> QED BY <1>7, <2>2 DEF TurnsWorld, FitsWorld, Openings
<1>8. CASE i.do \in {"respond", "abandon", "cancel"}
  <2>1. UNCHANGED <<guarded, adaptable, on, config, usable, shut, hidden, via>>
    BY <1>8 DEF Calls, Respond, AbandonResponse, RequestCancellation
  <2> QED BY <1>8, <2>1 DEF TurnsWorld, FitsWorld, Openings
<1>9. CASE i.do \notin {"create", "reopen", "start", "respond", "abandon", "cancel", "release",
                        "aclose", "recreate", "hide", "report"}
  <2>1. UNCHANGED <<guarded, adaptable, on, config, usable, shut, hidden, via>>
    BY <1>9 DEF Calls, vars
  <2> QED BY <1>9, <2>1 DEF TurnsWorld, FitsWorld, Openings
<1> QED BY <1>2, <1>3, <1>4, <1>5, <1>6, <1>7, <1>8, <1>9

LEMMA CallTakes ==
  ASSUME SuiteInv, NEW i, Meant(i), Calls(i), NEW b, Fits(b),
         i.do = "until" => Fact(i.what, i.of) \in i.is
  PROVE  \A t \in Tasks : Takes(b, i, t, StandingOf(t), StandingOf(t)')
<1> USE DEF setupVars, runtimeVars, handleVars, startVars, taskVars, replyVars, requestVars
<1>0. TypeOK /\ ContextInv /\ Seen
  BY DEF SuiteInv, DeliveryInv
<1> SUFFICES ASSUME NEW t \in Tasks PROVE Takes(b, i, t, StandingOf(t), StandingOf(t)')
  OBVIOUS
<1> DEFINE x == StandingOf(t)
           y == StandingOf(t)'
<1>r. Reads(t, x) /\ b.world.via[t] = via[t]
  BY Reading DEF Fits, FitsWorld
<1> HIDE DEF x, y
<1>1. CASE i.do \in {"create", "reopen"}
  <2>1. y = x
    BY <1>0, <1>1, OpeningStays DEF Calls, CreateSession, Reopen, Meant, x, y
  <2> QED BY <1>1, <2>1 DEF Takes, x, y
<1>2. CASE i.do = "start"
  <2> DEFINE h == i.of[1]
             s == i.of[2]
  <2>1. /\ \A z \in Tasks : z # s => StandingOf(z)' = StandingOf(z)
        /\ StandingOf(s).admission = "none"
        /\ \E m : Input(b, b.world.on[h], s, m) /\ StandingOf(s)' = Started(StandingOf(s), m)
    BY <1>2, StartMoves DEF Calls, Meant
  <2> QED BY <1>2, <2>1 DEF Takes
<1>3. CASE i.do = "respond"
  <2> DEFINE s == i.of[1]
             d == i.of[2]
  <2>1. s \in Tasks /\ Respond(s, d) /\ s \in pending /\ reply'[s] = "waiting"
    BY <1>0, <1>3 DEF Calls, Meant, Respond, RespondAnswer, TypeOK
  <2>2. /\ \A z \in Tasks : z # s => StandingOf(z)' = StandingOf(z)
        /\ StandingOf(s)' = Submitting(StandingOf(s), "waiting", d)
    BY <1>0, <2>1, ResponseMoves
  <2>3. s = t => x.pending = "yes"
    BY <1>r, <2>1 DEF Reads
  <2> QED BY <1>3, <2>2, <2>3 DEF Takes, x
<1>4. CASE i.do = "abandon"
  <2> DEFINE s == i.of
  <2>1. s \in Tasks /\ AbandonResponse(s) /\ reply[s] = "waiting" /\ reply'[s] = "abandoned"
    BY <1>0, <1>4 DEF Calls, Meant, AbandonResponse, TypeOK
  <2>2. /\ \A z \in Tasks : z # s => StandingOf(z)' = StandingOf(z)
        /\ StandingOf(s)' = Submitting(StandingOf(s), "abandoned", decision[s])
    BY <1>0, <2>1, ResponseMoves
  <2>3. s = t => x.reply = "waiting" /\ x.decision = decision[s]
    BY <1>r, <2>1 DEF Reads
  <2> QED BY <1>4, <2>2, <2>3 DEF Takes, x
<1>5. CASE i.do = "cancel"
  <2>1. i.of \in Tasks /\ RequestCancellation(i.of)
    BY <1>5 DEF Calls, Meant
  <2>2. y = IF i.of = t THEN Stopped(x) ELSE x
    <3>1. CASE Settled(i.of)
      <4>1. y = x
        BY <2>1, <3>1, StandingStays DEF RequestCancellation, x, y
      <4>2. i.of = t => Stopped(x) = x
        BY <1>r, <3>1 DEF Stopped, Reads, Settled
      <4> QED BY <4>1, <4>2
    <3>2. CASE ~Settled(i.of)
      <4> DEFINE T == {i.of}
      <4>1. /\ StopTasks(T) /\ T \in SUBSET Tasks
            /\ \A z \in T : admission[z] = "accepted" /\ ~Settled(z)
            /\ UNCHANGED <<on, via, saw, admission, work, effects, outcome, reply, decision, sent>>
        BY <2>1, <3>2 DEF RequestCancellation
      <4>2. t \in T <=> i.of = t
        OBVIOUS
      <4> HIDE DEF T
      <4> QED BY <1>0, <4>1, <4>2, StopMoves DEF x, y
    <3> QED BY <3>1, <3>2
  <2> QED BY <1>5, <2>2 DEF Takes, x, y
<1>6. CASE i.do = "release"
  <2>1. Quits({i.of})
    BY <1>6 DEF Calls, Release
  <2>2. y = IF via[t] = i.of THEN Stopped(x) ELSE x
    BY <1>0, <2>1, QuitMoves DEF x, y
  <2> QED BY <1>6, <1>r, <2>2 DEF Takes, x, y
<1>7. CASE i.do = "aclose"
  <2>1. Quits(Handles)
    BY <1>7 DEF Calls, Aclose
  <2>2. y = IF via[t] \in Handles THEN Stopped(x) ELSE x
    BY <1>0, <2>1, QuitMoves DEF x, y
  <2>3. via[t] \notin Handles => Stopped(x) = x
    BY <1>0, <1>r DEF Stopped, Reads, ContextInv, Placed, TypeOK
  <2> QED BY <1>7, <2>2, <2>3 DEF Takes, x, y
<1>8. CASE i.do \in {"recreate", "hide"}
  <2>1. y = x
    BY <1>8, StandingStays DEF Calls, Recreate, Hide, x, y
  <2> QED BY <1>8, <2>1 DEF Takes, x, y
<1>9. CASE i.do = "report"
  <2> DEFINE s == i.of[1]
  <2>1. s \in Tasks /\ Ends(s, i.of[2])
    BY <1>9 DEF Calls, Meant, IsTold, Completes, Fails, EndsAgain
  <2>2. StandingOf(s)' = JudgedAs(StandingOf(s), "ended", i.of[2]) /\ Leaves(s)
    BY <1>0, <2>1, EndMoves
  <2> QED BY <1>9, <2>2 DEF Takes, Leaves
<1>10. CASE i.do = "until"
  <2>1. y = x
    BY <1>10, StandingStays DEF Calls, vars, x, y
  <2>2. CASE i.of = t /\ i.what \in OfTask
    <3>1. Told(x, i.what) \in i.is
      BY <1>0, <1>10, <2>2, Telling DEF x
    <3> QED BY <1>10, <2>1, <2>2, <3>1 DEF Takes, x, y
  <2>3. CASE ~(i.of = t /\ i.what \in OfTask)
    BY <1>10, <2>1, <2>3 DEF Takes, x, y
  <2> QED BY <2>2, <2>3
<1>11. CASE i.do \notin {"create", "reopen", "start", "respond", "abandon", "cancel", "release",
                        "aclose", "recreate", "hide", "report", "until"}
  <2>1. y = x
    BY <1>11, StandingStays DEF Calls, vars, x, y
  <2> QED BY <1>11, <2>1 DEF Takes, x, y
<1> QED BY <1>1, <1>2, <1>3, <1>4, <1>5, <1>6, <1>7, <1>8, <1>9, <1>10, <1>11

\* What a scenario does keeps to what is known, and what it asserts holds.
LEMMA InstructionFits ==
  ASSUME SuiteInv, OnScript, ScenarioStep, NEW b, NEW q, Fits(b), Turns(b, Head(script), q)
  PROVE  Fits(q)' /\ verdict' = verdict
<1> DEFINE i == Head(script)
<1>1. /\ Meant(i) /\ Calls(i) /\ (i.do = "until" => Fact(i.what, i.of) \in i.is)
      /\ fixture' = IF i.do = "set" THEN [fixture EXCEPT ![i.control] = i.is] ELSE fixture
      /\ verdict' = IF i.do = "assert" /\ ~(Fact(i.what, i.of) \in i.is) THEN "failed" ELSE verdict
      /\ Turns(b, i, q)
  BY Proceed DEF OnScript, ScenarioStep
<1>2. TypeOK /\ Seen /\ ContextInv
  BY DEF SuiteInv, DeliveryInv
<1> HIDE DEF i
<1>3. \A c \in ControlNames : fixture'[c] = q.fixture[c]
  <2> TAKE c \in ControlNames
  <2>1. q.fixture[c] = IF i.do = "set" /\ c = i.control THEN i.is ELSE b.fixture[c]
    BY <1>1 DEF Turns, TurnsFixture
  <2>2. c \in DOMAIN fixture /\ fixture[c] = b.fixture[c]
    BY DEF OnScript, ControlNames, Fits
  <2> QED BY <1>1, <2>1, <2>2
<1>4. FitsWorld(q.world)'
  BY <1>1, <1>2, CallTurnsWorld DEF Fits, Turns
<1>5. \A t \in Tasks : StandingOf(t)' \in q.tasks[t]
  <2> TAKE t \in Tasks
  <2>1. Takes(b, i, t, StandingOf(t), StandingOf(t)')
    BY <1>1, CallTakes
  <2> QED BY <1>1, <2>1 DEF Turns, Fits
<1>6. i.do = "assert" => Fact(i.what, i.of) \in i.is
  BY <1>1, <1>2, Showing DEF Turns
<1> QED BY <1>1, <1>3, <1>4, <1>5, <1>6 DEF Fits

\* As long as the scenario does what it leads to, no assertion fails.
Planned == /\ SuiteInv /\ OnScript /\ verdict = "passing"
           /\ \E b, q : Leads(b, script, q) /\ Fits(b)

LEMMA PlannedStep == Planned /\ [SuiteNext]_suiteVars => Planned'
<1> SUFFICES ASSUME Planned, [SuiteNext]_suiteVars PROVE Planned'
  OBVIOUS
<1>1. SuiteInv' /\ OnScript'
  <2>1. [Next]_vars /\ OnScript'
    BY SuiteStep, OnScriptStep DEF Planned, SuiteInv, DeliveryInv
  <2>2. DeliveryInv' /\ Seen' /\ Marked'
    BY <2>1, DeliveryInvStep, SeenStep, MarkedStep DEF Planned, SuiteInv, DeliveryInv
  <2> QED BY <2>1, <2>2 DEF SuiteInv
<1>2. PICK b, q : Leads(b, script, q) /\ Fits(b)
  BY DEF Planned
<1>3. CASE ScenarioStep
  <2>1. script # <<>> /\ script' = Tail(script)
    BY <1>3 DEF ScenarioStep
  <2>2. PICK r : Turns(b, Head(script), r) /\ Leads(r, Tail(script), q)
    BY <1>2, <2>1, LeadsAway
  <2>3. Fits(r)' /\ verdict' = verdict
    BY <1>2, <1>3, <2>2, InstructionFits DEF Planned
  <2>4. Leads(r, script', q)
    BY <2>1, <2>2
  <2> QED BY <1>1, <2>3, <2>4 DEF Planned
<1>4. CASE FixtureStep
  <2>1. Fits(b)'
    BY <1>2, <1>4, LeadsAway, FixtureFits DEF Planned
  <2>2. script' = script /\ verdict' = verdict
    BY <1>4 DEF FixtureStep
  <2>3. Leads(b, script', q)
    BY <1>2, <2>2
  <2> QED BY <1>1, <2>1, <2>2, <2>3 DEF Planned
<1>5. CASE Over \/ UNCHANGED suiteVars
  <2>1. UNCHANGED suiteVars
    BY <1>5 DEF Over
  <2>2. Fits(b)'
    <3>1. UNCHANGED <<on, via, saw, admission, work, effects, outcome, cancelling, pending, reply,
                     decision, sent, resolutions, fixture, guarded, adaptable, config, usable, shut,
                     hidden>>
      BY <2>1 DEF suiteVars, vars, setupVars, runtimeVars, handleVars, startVars, taskVars,
                  replyVars, requestVars
    <3> QED BY <1>2, <3>1, StandingStays DEF Fits, FitsWorld
  <2>3. script' = script /\ verdict' = verdict
    BY <2>1 DEF suiteVars
  <2>4. Leads(b, script', q)
    BY <1>2, <2>3
  <2> QED BY <1>1, <2>2, <2>3, <2>4 DEF Planned
<1> QED BY <1>3, <1>4, <1>5 DEF SuiteNext

-----------------------------------------------------------------------------
(* One task at a time: what each phrase makes of where task t can stand.   *)

Put(T, t, S) == [x \in Tasks |-> IF x = t THEN S ELSE T[x]]

Stage(f, w, T, t, S) == Scene(f, w, Put(T, t, S))

\* The fixture leaves all the other tasks where they are known to be.
Rests(f, w, T, t) == \A x \in Tasks : x # t => Steady(T[x], f, w, x)

LEMMA SteadyAlike ==
  ASSUME NEW f, NEW w, NEW v, v.guarded = w.guarded, v.shut = w.shut \/ ~f.manual
  PROVE  \A R, u : Steady(R, f, w, u) <=> Steady(R, f, v, u)
BY DEF Steady, Still, Moves

LEMMA OnStage ==
  ASSUME NEW f, NEW w, NEW T, NEW t \in Tasks, NEW S, NEW b, b = Stage(f, w, T, t, S)
  PROVE  /\ b.fixture = f /\ b.world = w /\ b.tasks[t] = S
         /\ \A x \in Tasks : x # t => b.tasks[x] = T[x]
         /\ Closed(b) <=> Rests(f, w, T, t) /\ Steady(S, f, w, t)
<1>1. /\ b.fixture = f /\ b.world = w /\ b.tasks[t] = S
      /\ \A x \in Tasks : x # t => b.tasks[x] = T[x]
  BY DEF Stage, Scene, Put
<1>2. Closed(b) <=> Rests(f, w, T, t) /\ Steady(S, f, w, t)
  BY <1>1 DEF Closed, Rests
<1> QED BY <1>1, <1>2

LEMMA ClosedStage ==
  ASSUME NEW f, NEW w, NEW T, NEW t \in Tasks, NEW S,
         Rests(f, w, T, t), Steady(S, f, w, t)
  PROVE  Closed(Stage(f, w, T, t, S))
BY OnStage

LEMMA Idle ==
  ASSUME NEW i, i.do \in {"assert", "until", "set", "respond", "abandon", "cancel", "report"}
  PROVE  /\ \A w : TurnsWorld(w, i, w)
         /\ i.do # "set" => \A f : TurnsFixture(f, i, f)
BY DEF TurnsWorld, TurnsFixture, Openings

LEMMA Onward ==
  ASSUME NEW a, NEW p, NEW b, NEW i, NEW q, Leads(a, p, b), Turns(b, i, q), Closed(q)
  PROVE  Leads(a, p \o <<i>>, q)
<1>1. Leads(b, <<i>>, q)
  BY LeadsAway, LeadsTo
<1> QED BY <1>1, LeadsOn

LEMMA ThenAsserts ==
  ASSUME NEW a, NEW p, NEW b, NEW what, NEW of, NEW is, Leads(a, p, b), Shows(b, what, of, is)
  PROVE  Leads(a, p \o Asserts(what, of, is), b)
<1> DEFINE i == [do |-> "assert", what |-> what, of |-> of, is |-> is]
<1>1. i.do = "assert" /\ i.what = what /\ i.of = of /\ i.is = is
  OBVIOUS
<1>2. Asserts(what, of, is) = <<i>>
  BY DEF Asserts
<1> HIDE DEF i
<1>3. \A t, x, y : Takes(b, i, t, x, y) => y = x
  BY <1>1 DEF Takes
<1>4. Turns(b, i, b)
  BY <1>1, <1>3, Idle DEF Turns
<1> QED BY <1>2, <1>4, LeadsAway, Onward

LEMMA ThenTells ==
  ASSUME NEW a, NEW p, NEW f, NEW w, NEW T, NEW t \in Tasks, NEW S, NEW what \in OfTask, NEW is,
         Leads(a, p, Stage(f, w, T, t, S)), \A x \in S : Told(x, what) \in is
  PROVE  Leads(a, p \o Asserts(what, t, is), Stage(f, w, T, t, S))
<1> DEFINE b == Stage(f, w, T, t, S)
<1>1. b = Stage(f, w, T, t, S) /\ Leads(a, p, b)
  OBVIOUS
<1> HIDE DEF b
<1>2. b.tasks[t] = S
  BY <1>1 DEF Stage, Scene, Put
<1>3. Shows(b, what, t, is)
  BY <1>2 DEF Shows
<1>4. Leads(a, p \o Asserts(what, t, is), b)
  BY <1>1, <1>3, ThenAsserts
<1> QED BY <1>1, <1>4

\* An instruction about task t alone.
LEMMA ThenDoes ==
  ASSUME NEW a, NEW p, NEW f, NEW w, NEW T, NEW t \in Tasks, NEW R, NEW S, NEW i,
         Leads(a, p, Stage(f, w, T, t, R)), Steady(S, f, w, t),
         i.do \in {"until", "respond", "abandon", "cancel", "report"},
         \A b, x, y : Takes(b, i, t, x, y) /\ x \in R => y \in S,
         \A b, u, x, y : u # t /\ Takes(b, i, u, x, y) => y = x
  PROVE  Leads(a, p \o <<i>>, Stage(f, w, T, t, S))
<1> DEFINE b == Stage(f, w, T, t, R)
           q == Stage(f, w, T, t, S)
<1>0. b = Stage(f, w, T, t, R) /\ q = Stage(f, w, T, t, S) /\ Leads(a, p, b)
  OBVIOUS
<1> HIDE DEF b, q
<1>1. /\ b.fixture = f /\ b.world = w /\ b.tasks[t] = R /\ Closed(b)
      /\ \A x \in Tasks : x # t => b.tasks[x] = T[x]
      /\ Rests(f, w, T, t)
  BY <1>0, OnStage, LeadsAway
<1>2. /\ q.fixture = f /\ q.world = w /\ q.tasks[t] = S /\ Closed(q)
      /\ \A x \in Tasks : x # t => q.tasks[x] = T[x]
  BY <1>0, <1>1, OnStage
<1>4. TurnsFixture(b.fixture, i, q.fixture) /\ TurnsWorld(b.world, i, q.world)
  BY <1>1, <1>2, Idle
<1>5. \A u \in Tasks : \A x \in b.tasks[u] : \A y : Takes(b, i, u, x, y) => y \in q.tasks[u]
  BY <1>1, <1>2
<1>6. Turns(b, i, q)
  BY <1>4, <1>5 DEF Turns
<1>7. Leads(a, p \o <<i>>, q)
  BY <1>0, <1>2, <1>6, Onward
<1> QED BY <1>0, <1>7

LEMMA ThenWaits ==
  ASSUME NEW a, NEW p, NEW f, NEW w, NEW T, NEW t \in Tasks, NEW R, NEW S, NEW what \in OfTask,
         NEW is, Leads(a, p, Stage(f, w, T, t, R)), Steady(S, f, w, t),
         \A x \in R : Told(x, what) \in is => x \in S
  PROVE  Leads(a, p \o Until(what, t, is), Stage(f, w, T, t, S))
<1> DEFINE i == [do |-> "until", what |-> what, of |-> t, is |-> is]
<1>1. i.do = "until" /\ i.what = what /\ i.of = t /\ i.is = is
  OBVIOUS
<1>2. Until(what, t, is) = <<i>>
  BY DEF Until
<1> HIDE DEF i
<1>3. \A b, x, y : Takes(b, i, t, x, y) /\ x \in R => y \in S
  BY <1>1 DEF Takes
<1>4. \A b, u, x, y : u # t /\ Takes(b, i, u, x, y) => y = x
  BY <1>1 DEF Takes
<1> QED BY <1>1, <1>2, <1>3, <1>4, ThenDoes

LEMMA ThenAwaits ==
  ASSUME NEW a, NEW p, NEW f, NEW w, NEW T, NEW t \in Tasks, NEW R, NEW S, NEW kind,
         Leads(a, p, Stage(f, w, T, t, R)), Steady(S, f, w, t),
         \A x \in R : x.outcome = "none" \/ x \in S, \A x \in S : x.outcome = kind
  PROVE  Leads(a, p \o Awaits(t, kind), Stage(f, w, T, t, S))
<1> DEFINE q == Stage(f, w, T, t, S)
           e == Until("outcome", t, AnyOutcome)
           k == Asserts("outcome", t, {kind})
<1>1. Leads(Stage(f, w, T, t, R), <<>>, Stage(f, w, T, t, R))
  BY LeadsAway, LeadsNowhere
<1>o. /\ "outcome" \in OfTask /\ \A x \in R : Told(x, "outcome") \in AnyOutcome => x \in S
      /\ \A x \in S : Told(x, "outcome") \in {kind}
  BY DEF Told, OfTask, AnyOutcome
<1>2. Leads(Stage(f, w, T, t, R), <<>> \o e, q)
  BY <1>1, <1>o, ThenWaits
<1>3. Leads(Stage(f, w, T, t, R), (<<>> \o e) \o k, q)
  BY <1>2, <1>o, ThenTells
<1>4. (<<>> \o e) \o k = Awaits(t, kind)
  BY DEF Awaits, Until, Asserts
<1> QED BY <1>3, <1>4, LeadsOn

LEMMA ThenCalls ==
  ASSUME NEW a, NEW p, NEW f, NEW w, NEW T, NEW t \in Tasks, NEW R, NEW S,
         Leads(a, p, Stage(f, w, T, t, R)), Steady(S, f, w, t)
  PROVE  /\ (\A x \in R : Stopped(x) \in S)
              => Leads(a, p \o Call("cancel", t), Stage(f, w, T, t, S))
         /\ (\A x \in R : x.reply = "waiting" => Submitting(x, "abandoned", x.decision) \in S)
              => Leads(a, p \o Call("abandon", t), Stage(f, w, T, t, S))
         /\ \A kind : (\A x \in R : JudgedAs(x, "ended", kind) \in S)
              => Leads(a, p \o Reports(t, kind), Stage(f, w, T, t, S))
         /\ \A d : (\A x \in R : x.pending = "yes" => Submitting(x, "waiting", d) \in S)
              => Leads(a, p \o Call("respond", <<t, d>>), Stage(f, w, T, t, S))
<1>1. ASSUME \A x \in R : Stopped(x) \in S
      PROVE  Leads(a, p \o Call("cancel", t), Stage(f, w, T, t, S))
  <2> DEFINE i == [do |-> "cancel", of |-> t]
  <2>1. i.do = "cancel" /\ i.of = t /\ Call("cancel", t) = <<i>>
    BY DEF Call
  <2> HIDE DEF i
  <2>2. \A b, x, y : Takes(b, i, t, x, y) /\ x \in R => y \in S
    BY <1>1, <2>1 DEF Takes
  <2>3. \A b, u, x, y : u # t /\ Takes(b, i, u, x, y) => y = x
    BY <2>1 DEF Takes
  <2> QED BY <2>1, <2>2, <2>3, ThenDoes
<1>2. ASSUME \A x \in R : x.reply = "waiting" => Submitting(x, "abandoned", x.decision) \in S
      PROVE  Leads(a, p \o Call("abandon", t), Stage(f, w, T, t, S))
  <2> DEFINE i == [do |-> "abandon", of |-> t]
  <2>1. i.do = "abandon" /\ i.of = t /\ Call("abandon", t) = <<i>>
    BY DEF Call
  <2> HIDE DEF i
  <2>2. \A b, x, y : Takes(b, i, t, x, y) /\ x \in R => y \in S
    BY <1>2, <2>1 DEF Takes
  <2>3. \A b, u, x, y : u # t /\ Takes(b, i, u, x, y) => y = x
    BY <2>1 DEF Takes
  <2> QED BY <2>1, <2>2, <2>3, ThenDoes
<1>3. ASSUME NEW kind, \A x \in R : JudgedAs(x, "ended", kind) \in S
      PROVE  Leads(a, p \o Reports(t, kind), Stage(f, w, T, t, S))
  <2> DEFINE i == [do |-> "report", of |-> <<t, kind>>]
  <2>1. i.do = "report" /\ i.of[1] = t /\ i.of[2] = kind /\ Reports(t, kind) = <<i>>
    BY DEF Reports, Call
  <2> HIDE DEF i
  <2>2. \A b, x, y : Takes(b, i, t, x, y) /\ x \in R => y \in S
    BY <1>3, <2>1 DEF Takes
  <2>3. \A b, u, x, y : u # t /\ Takes(b, i, u, x, y) => y = x
    BY <2>1 DEF Takes
  <2> QED BY <2>1, <2>2, <2>3, ThenDoes
<1>4. ASSUME NEW d, \A x \in R : x.pending = "yes" => Submitting(x, "waiting", d) \in S
      PROVE  Leads(a, p \o Call("respond", <<t, d>>), Stage(f, w, T, t, S))
  <2> DEFINE i == [do |-> "respond", of |-> <<t, d>>]
  <2>1. i.do = "respond" /\ i.of[1] = t /\ i.of[2] = d /\ Call("respond", <<t, d>>) = <<i>>
    BY DEF Call
  <2> HIDE DEF i
  <2>2. \A b, x, y : Takes(b, i, t, x, y) /\ x \in R => y \in S
    BY <1>4, <2>1 DEF Takes
  <2>3. \A b, u, x, y : u # t /\ Takes(b, i, u, x, y) => y = x
    BY <2>1 DEF Takes
  <2> QED BY <2>1, <2>2, <2>3, ThenDoes
<1> QED BY <1>1, <1>2, <1>3, <1>4

LEMMA ThenBlocks ==
  ASSUME NEW a, NEW p, NEW f, NEW w, NEW T, NEW t \in Tasks, NEW S, NEW d, NEW why,
         Leads(a, p, Stage(f, w, T, t, S)), \A x \in S : Answerable(x, d) = why
  PROVE  Leads(a, p \o Blocks(t, d, why), Stage(f, w, T, t, S))
<1> DEFINE b == Stage(f, w, T, t, S)
<1>1. b = Stage(f, w, T, t, S) /\ Leads(a, p, b)
  OBVIOUS
<1> HIDE DEF b
<1>2. b.tasks[t] = S
  BY <1>1 DEF Stage, Scene, Put
<1>3. Shows(b, "response", <<t, d>>, {why})
  BY <1>2 DEF Shows, RespondShows
<1>4. Leads(a, p \o Blocks(t, d, why), b)
  BY <1>1, <1>3, ThenAsserts DEF Blocks
<1> QED BY <1>1, <1>4

LEMMA ThenResponds ==
  ASSUME NEW a, NEW p, NEW f, NEW w, NEW T, NEW t \in Tasks, NEW R, NEW S, NEW d,
         Leads(a, p, Stage(f, w, T, t, R)), Steady(S, f, w, t),
         \A x \in R : Answerable(x, d) = "submit" /\ Submitting(x, "waiting", d) \in S
  PROVE  Leads(a, p \o Responds(t, d), Stage(f, w, T, t, S))
<1> DEFINE b == Stage(f, w, T, t, R)
           q == Stage(f, w, T, t, S)
           e == Asserts("response", <<t, d>>, {"submit"})
           k == Call("respond", <<t, d>>)
<1>1. Leads(b, <<>>, b)
  BY LeadsAway, LeadsNowhere
<1>2. Leads(b, <<>> \o e, b)
  BY <1>1, ThenBlocks DEF Blocks
<1>3. Leads(b, (<<>> \o e) \o k, q)
  BY <1>2, ThenCalls
<1>4. (<<>> \o e) \o k = Responds(t, d)
  BY DEF Responds, Asserts, Call
<1> QED BY <1>3, <1>4, LeadsOn

LEMMA ThenAnswers ==
  ASSUME NEW a, NEW p, NEW f, NEW w, NEW T, NEW t \in Tasks, NEW R, NEW S, NEW how,
         Leads(a, p, Stage(f, w, T, t, R)), Steady(S, f, w, t),
         \A x \in R : x.reply \in {"ok", "transport", "unconfirmed"} => x \in S,
         \A x \in S : x.reply = how
  PROVE  Leads(a, p \o Answered(t, how), Stage(f, w, T, t, S))
<1> DEFINE q == Stage(f, w, T, t, S)
           is == {"ok", "transport", "unconfirmed"}
           e == Until("reply", t, is)
           k == Asserts("reply", t, {how})
<1>1. Leads(Stage(f, w, T, t, R), <<>>, Stage(f, w, T, t, R))
  BY LeadsAway, LeadsNowhere
<1>o. /\ "reply" \in OfTask /\ \A x \in R : Told(x, "reply") \in is => x \in S
      /\ \A x \in S : Told(x, "reply") \in {how}
  BY DEF Told, OfTask
<1>4. (<<>> \o e) \o k = Answered(t, how)
  BY DEF Answered, Until, Asserts
<1> HIDE DEF is
<1>2. Leads(Stage(f, w, T, t, R), <<>> \o e, q)
  BY <1>1, <1>o, ThenWaits
<1>3. Leads(Stage(f, w, T, t, R), (<<>> \o e) \o k, q)
  BY <1>2, <1>o, ThenTells
<1> QED BY <1>3, <1>4, LeadsOn

\* A response is under way in M, and answered in S.
LEMMA ThenRespondsInto ==
  ASSUME NEW a, NEW p, NEW f, NEW w, NEW T, NEW t \in Tasks, NEW R, NEW M, NEW S, NEW d, NEW how,
         Leads(a, p, Stage(f, w, T, t, R)),
         Steady(M, f, w, t), Steady(S, f, w, t),
         \A x \in R : Answerable(x, d) = "submit" /\ Submitting(x, "waiting", d) \in M,
         \A x \in M : x.reply = "waiting" \/ x \in S,
         \A x \in S : x.reply = how
  PROVE  Leads(a, p \o RespondsInto(t, d, how), Stage(f, w, T, t, S))
<1> DEFINE b == Stage(f, w, T, t, R)
           q == Stage(f, w, T, t, S)
<1>1. Leads(b, <<>>, b)
  BY LeadsAway, LeadsNowhere
<1>2. Leads(b, <<>> \o Responds(t, d), Stage(f, w, T, t, M))
  BY <1>1, ThenResponds
<1>3. Leads(b, (<<>> \o Responds(t, d)) \o Answered(t, how), q)
  BY <1>2, ThenAnswers
<1>4. (<<>> \o Responds(t, d)) \o Answered(t, how) = RespondsInto(t, d, how)
  BY DEF RespondsInto, Responds, Answered, Until, Asserts, Call
<1> QED BY <1>3, <1>4, LeadsOn

\* A control is set: controls f become g.
Tuned(f, g, control, is) ==
  control \in ControlNames /\ g[control] = is /\ \A c \in ControlNames : c # control => g[c] = f[c]

LEMMA ThenSets ==
  ASSUME NEW a, NEW p, NEW f, NEW g, NEW w, NEW T, NEW t \in Tasks, NEW R, NEW S, NEW control,
         NEW is,
         Leads(a, p, Stage(f, w, T, t, R)),
         Steady(S, g, w, t), Rests(g, w, T, t), R \subseteq S,
         Tuned(f, g, control, is)
  PROVE  Leads(a, p \o Sets(control, is), Stage(g, w, T, t, S))
<1> DEFINE b == Stage(f, w, T, t, R)
           q == Stage(g, w, T, t, S)
           i == [do |-> "set", control |-> control, is |-> is]
<1>0. b = Stage(f, w, T, t, R) /\ q = Stage(g, w, T, t, S) /\ Leads(a, p, b)
  OBVIOUS
<1>1. i.do = "set" /\ i.control = control /\ i.is = is /\ Sets(control, is) = <<i>>
  BY DEF Sets
<1> HIDE DEF b, q, i
<1>2. /\ b.fixture = f /\ b.world = w /\ b.tasks[t] = R
      /\ \A x \in Tasks : x # t => b.tasks[x] = T[x]
  BY <1>0 DEF Stage, Scene, Put
<1>3. /\ q.fixture = g /\ q.world = w /\ q.tasks[t] = S /\ Closed(q)
      /\ \A x \in Tasks : x # t => q.tasks[x] = T[x]
  BY <1>0, OnStage
<1>4. \A u, x, y : Takes(b, i, u, x, y) => y = x
  BY <1>1 DEF Takes
<1>5. TurnsFixture(f, i, g) /\ TurnsWorld(w, i, w)
  BY <1>1, Idle DEF TurnsFixture, Tuned
<1>6. Turns(b, i, q)
  BY <1>1, <1>2, <1>3, <1>4, <1>5 DEF Turns
<1>7. Leads(a, p \o <<i>>, q)
  BY <1>0, <1>3, <1>6, Onward
<1> QED BY <1>0, <1>1, <1>7

\* The handles change, and no task.
LEMMA ThenTurns ==
  ASSUME NEW a, NEW p, NEW f, NEW w, NEW v, NEW T, NEW t \in Tasks, NEW S, NEW i,
         Leads(a, p, Stage(f, w, T, t, S)), TurnsWorld(w, i, v),
         \/ i.do \in {"create", "reopen", "hide"}
         \/ i.do = "recreate" /\ ~f.manual
  PROVE  Leads(a, p \o <<i>>, Stage(f, v, T, t, S))
<1> DEFINE b == Stage(f, w, T, t, S)
           q == Stage(f, v, T, t, S)
<1>0. b = Stage(f, w, T, t, S) /\ q = Stage(f, v, T, t, S) /\ Leads(a, p, b) /\ Closed(b)
  BY LeadsAway
<1> HIDE DEF b, q
<1>1. /\ b.fixture = f /\ b.world = w /\ b.tasks[t] = S
      /\ \A x \in Tasks : x # t => b.tasks[x] = T[x]
  BY <1>0 DEF Stage, Scene, Put
<1>2. /\ q.fixture = f /\ q.world = v /\ q.tasks[t] = S
      /\ \A x \in Tasks : x # t => q.tasks[x] = T[x]
  BY <1>0 DEF Stage, Scene, Put
<1>3. v.guarded = w.guarded /\ (v.shut = w.shut \/ ~f.manual)
  BY DEF TurnsWorld
<1>4. \A R, u : Steady(R, f, w, u) <=> Steady(R, f, v, u)
  BY <1>3, SteadyAlike
<1>5. Closed(q)
  BY <1>0, <1>1, <1>2, <1>3, <1>4 DEF Closed
<1>6. \A u, x, y : Takes(b, i, u, x, y) => y = x
  BY DEF Takes
<1>7. TurnsFixture(f, i, f)
  BY DEF TurnsFixture
<1>8. Turns(b, i, q)
  BY <1>1, <1>2, <1>6, <1>7 DEF Turns
<1>9. Leads(a, p \o <<i>>, q)
  BY <1>0, <1>5, <1>8, Onward
<1> QED BY <1>0, <1>9

\* A handle is released, or the harness closed; task t is asked to stop, no other one is.
LEMMA ThenQuits ==
  ASSUME NEW a, NEW p, NEW f, NEW w, NEW v, NEW T, NEW t \in Tasks, NEW R, NEW S, NEW i,
         Leads(a, p, Stage(f, w, T, t, R)), TurnsWorld(w, i, v), i.do \in {"release", "aclose"},
         Steady(S, f, v, t), Rests(f, v, T, t), \A x \in R : Stopped(x) \in S,
         i.do = "release" => w.via[t] = i.of \/ R \subseteq S,
         \A x \in Tasks : x # t => \/ i.do = "release" /\ w.via[x] # i.of
                                   \/ \A z \in T[x] : Stopped(z) = z
  PROVE  Leads(a, p \o <<i>>, Stage(f, v, T, t, S))
<1> DEFINE b == Stage(f, w, T, t, R)
           q == Stage(f, v, T, t, S)
<1>0. b = Stage(f, w, T, t, R) /\ q = Stage(f, v, T, t, S) /\ Leads(a, p, b)
  OBVIOUS
<1> HIDE DEF b, q
<1>1. /\ b.fixture = f /\ b.world = w /\ b.tasks[t] = R
      /\ \A x \in Tasks : x # t => b.tasks[x] = T[x]
  BY <1>0 DEF Stage, Scene, Put
<1>2. v.guarded = w.guarded
  BY DEF TurnsWorld
<1>3. /\ q.fixture = f /\ q.world = v /\ q.tasks[t] = S /\ Closed(q)
      /\ \A x \in Tasks : x # t => q.tasks[x] = T[x]
  BY <1>0, <1>2, OnStage
<1>4. \A u, x, y : Takes(b, i, u, x, y) =>
        IF i.do = "release" /\ w.via[u] # i.of THEN y = x ELSE y = Stopped(x)
  BY <1>1 DEF Takes
<1>5. \A u \in Tasks : \A x \in b.tasks[u] : \A y : Takes(b, i, u, x, y) => y \in q.tasks[u]
  <2> TAKE u \in Tasks
  <2> TAKE x \in b.tasks[u]
  <2> TAKE y
  <2> HAVE Takes(b, i, u, x, y)
  <2>1. CASE u = t
    BY <1>1, <1>3, <1>4, <2>1
  <2>2. CASE u # t
    BY <1>1, <1>3, <1>4, <2>2
  <2> QED BY <2>1, <2>2
<1>6. TurnsFixture(f, i, f)
  BY DEF TurnsFixture
<1>7. Turns(b, i, q)
  BY <1>1, <1>3, <1>5, <1>6 DEF Turns
<1>8. Leads(a, p \o <<i>>, q)
  BY <1>0, <1>3, <1>7, Onward
<1> QED BY <1>0, <1>8

Fresh == Standing("none", "none", {}, 0, "none", "no", "no", "none", "none", <<>>, <<>>)

\* A start is under way in M, and is known to be what it is in S.
LEMMA ThenStarts ==
  ASSUME NEW a, NEW p, NEW f, NEW w, NEW v, NEW T, NEW t \in Tasks, NEW h \in Handles, NEW M, NEW S,
         NEW how \in {"accepted", "refused", "unconfirmed"},
         Leads(a, p, Stage(f, w, T, t, {Fresh})),
         TurnsWorld(w, [do |-> "start", of |-> <<h, t>>], v),
         h \in w.usable, t \notin At(w, w.on[h]),
         \A s \in At(w, w.on[h]) : \A z \in T[s] : ~Uncertain(z) /\ ~InTheWay(z),
         \A m : /\ t \in m
                /\ \A s \in At(w, w.on[h]) : \E z \in T[s] : z.saw \subseteq m
                /\ \A r \in m : r = t \/ \E s \in At(w, w.on[h]) : \E z \in T[s] : r \in z.saw
             => Started(Fresh, m) \in M,
         Steady(M, f, w, t), Steady(S, f, w, t),
         \A x \in M : x.admission = "submitted" \/ x \in S,
         \A x \in S : x.admission = how
  PROVE  Leads(a, p \o StartsInto(h, t, how), Stage(f, v, T, t, S))
<1> DEFINE b == Stage(f, w, T, t, {Fresh})
           q == Stage(f, v, T, t, M)
           c == w.on[h]
           i == [do |-> "start", of |-> <<h, t>>]
           is == {"accepted", "refused", "unconfirmed"}
           e == Asserts("start", h, {"submit"})
           k == Until("admission", t, is)
           l == Asserts("admission", t, {how})
<1>0. b = Stage(f, w, T, t, {Fresh}) /\ q = Stage(f, v, T, t, M) /\ Leads(b, <<>>, b) /\ Closed(b)
  BY LeadsAway, LeadsNowhere
<1>i. /\ i.do = "start" /\ i.of[1] = h /\ i.of[2] = t /\ Call("start", <<h, t>>) = <<i>>
      /\ TurnsWorld(w, i, v)
  BY DEF Call
<1>s. ((<<>> \o e) \o <<i>>) \o k \o l = StartsInto(h, t, how)
  <2>1. Call("start", <<h, t>>) = <<i>>
    BY <1>i
  <2>2. <<>> \o e = e
    BY DEF Asserts
  <2>3. StartsInto(h, t, how) = e \o Call("start", <<h, t>>) \o k \o l
    BY DEF StartsInto
  <2> HIDE DEF e, i, k, l
  <2> QED BY <2>1, <2>2, <2>3
<1>o. /\ "admission" \in OfTask /\ \A x \in M : Told(x, "admission") \in is => x \in S
      /\ \A x \in S : Told(x, "admission") \in {how}
  BY DEF Told, OfTask
<1> HIDE DEF b, q, i, c, e, k, l, is
<1>1. /\ b.fixture = f /\ b.world = w /\ b.tasks[t] = {Fresh}
      /\ \A x \in Tasks : x # t => b.tasks[x] = T[x]
      /\ Rests(f, w, T, t)
  BY <1>0, OnStage
<1>2. \A R, u : Steady(R, f, w, u) <=> Steady(R, f, v, u)
  <2>1. v.guarded = w.guarded /\ v.shut = w.shut
    BY <1>i DEF TurnsWorld
  <2> QED BY <2>1, SteadyAlike
<1>3. /\ q.fixture = f /\ q.world = v /\ q.tasks[t] = M /\ Closed(q)
      /\ \A x \in Tasks : x # t => q.tasks[x] = T[x]
  <2>1. Rests(f, v, T, t) /\ Steady(M, f, v, t)
    BY <1>1, <1>2 DEF Rests
  <2> QED BY <1>0, <2>1, OnStage
<1>4. \A s \in At(w, c) : s \in Tasks /\ b.tasks[s] = T[s]
  BY <1>1 DEF At, c
<1>5. Leads(b, <<>> \o e, b)
  <2>1. Free(b, c)
    BY <1>1, <1>4 DEF Free, c
  <2>2. Shows(b, "start", h, {"submit"})
    BY <1>1, <2>1 DEF Shows, StartShows, c
  <2> QED BY <1>0, <2>2, ThenAsserts DEF e
<1>6. Leads(b, (<<>> \o e) \o <<i>>, q)
  <2>1. \A u, x, y : u # t /\ Takes(b, i, u, x, y) => y = x
    BY <1>i DEF Takes
  <2>2. \A y : Takes(b, i, t, Fresh, y) => y \in M
    <3> TAKE y
    <3> HAVE Takes(b, i, t, Fresh, y)
    <3>1. PICK m : Input(b, c, t, m) /\ y = Started(Fresh, m)
      BY <1>i, <1>1 DEF Takes, c
    <3>2. /\ t \in m
          /\ \A s \in At(w, c) : \E z \in T[s] : z.saw \subseteq m
          /\ \A r \in m : r = t \/ \E s \in At(w, c) : \E z \in T[s] : r \in z.saw
      BY <1>1, <1>4, <3>1 DEF Input
    <3> QED BY <3>1, <3>2 DEF c
  <2>3. \A u \in Tasks : \A x \in b.tasks[u] : \A y : Takes(b, i, u, x, y) => y \in q.tasks[u]
    BY <1>1, <1>3, <2>1, <2>2
  <2>4. TurnsFixture(f, i, f)
    BY <1>i DEF TurnsFixture
  <2>5. Turns(b, i, q)
    BY <1>i, <1>1, <1>3, <2>3, <2>4 DEF Turns
  <2> QED BY <1>3, <1>5, <2>5, Onward
<1>7. Leads(b, ((<<>> \o e) \o <<i>>) \o k, Stage(f, v, T, t, S))
  BY <1>0, <1>2, <1>6, <1>o, ThenWaits DEF k
<1>8. Leads(b, ((<<>> \o e) \o <<i>>) \o k \o l, Stage(f, v, T, t, S))
  BY <1>7, <1>o, ThenTells DEF l
<1> QED BY <1>0, <1>8, <1>s, LeadsOn

-----------------------------------------------------------------------------
(* Where tasks stand while the fixture goes on.                            *)

\* A task that never asks, or has not asked yet.
Alone(a, w, m, o, k) == Standing(a, w, m, 0, o, k, "no", "none", "none", <<>>, <<>>)

\* One whose request is shown, ...
Asking(m, r, d, s) == Standing("accepted", "asking", m, 0, "none", "no", "yes", r, d, s, <<>>)

\* ... and one whose request is over.
Past(w, m, e, o, k, r, d, s, z) == Standing("accepted", w, m, e, o, k, "no", r, d, s, z)

Complete(m) == Alone("accepted", "ended", m, "completed", "no")
Working(m) == Alone("accepted", "working", m, "none", "no")
Underway(m) == Alone("submitted", "none", m, "none", "no")

\* The work of a start nobody heard of.
Unheard(w, m) == Alone("unconfirmed", w, m, "none", "no")

\* Of an approved task: the effect, and the end.
Approved(w, m, e, o, r, s, z) == Past(w, m, e, o, "no", r, "approve_once", s, z)
Effecting(m, r, s, z) == {Approved("allowed", m, 0, "none", r, s, z),
                          Approved("ready", m, 1, "none", r, s, z),
                          Approved("ended", m, 1, "completed", r, s, z)}

\* The fixture has nothing to do.
Quiet(x, f, w, t) ==
  /\ x.admission # "submitted"
  /\ x.reply \in InFlight => f.holdResponse
  /\ f.manual => x.cancelling = "no" \/ x.outcome # "none" \/ ~w.shut
  /\ ~f.manual => \/ x.work \in {"none", "ended"}
                  \/ /\ x.cancelling = "no"
                     /\ x.work = "asking" \/ (f.hold /\ x.work = "working" /\ t \notin w.guarded)

LEMMA SteadyQuiet ==
  ASSUME NEW x, NEW f, NEW w, NEW t, Quiet(x, f, w, t)
  PROVE  Steady({x}, f, w, t)
BY DEF Steady, Still, Quiet, Moves, Live

LEMMA SteadyMore ==
  ASSUME NEW x, NEW y, NEW S, NEW f, NEW w, NEW t, Steady(S, f, w, t), y \in S,
         \A z : Moves(x, z, f, t \in w.guarded, w.shut) => z = y
  PROVE  Steady({x} \cup S, f, w, t)
BY DEF Steady, Still

LEMMA SteadyFresh == \A f, w, t : Steady({Fresh}, f, w, t)
BY SteadyQuiet DEF Quiet, Fresh, Standing, InFlight

LEMMA SteadyEnded ==
  ASSUME NEW a, NEW m, NEW o, NEW k, NEW f, NEW w, NEW t, a # "submitted",
         k = "no" \/ o # "none"
  PROVE  Steady({Alone(a, "ended", m, o, k)}, f, w, t)
BY SteadyQuiet DEF Quiet, Alone, Standing, InFlight

LEMMA SteadyComplete == \A m, f, w, t : Steady({Complete(m)}, f, w, t)
BY SteadyEnded DEF Complete

LEMMA SteadyRunning ==
  ASSUME NEW m, NEW f, NEW w, NEW t, t \notin w.guarded, ~f.manual
  PROVE  Steady({Working(m), Complete(m)}, f, w, t)
<1>1. \A z : Moves(Working(m), z, f, t \in w.guarded, w.shut) => z = Complete(m)
  BY DEF Working, Complete, Alone, Standing, Moves, JudgedAs, Withdrawing, InFlight, Live
<1>2. Steady({Working(m)} \cup {Complete(m)}, f, w, t)
  BY <1>1, SteadyComplete, SteadyMore
<1>3. {Working(m)} \cup {Complete(m)} = {Working(m), Complete(m)}
  OBVIOUS
<1> QED BY <1>2, <1>3

LEMMA SteadyHeld ==
  ASSUME NEW m, NEW f, NEW w, NEW t, t \notin w.guarded, f.hold \/ f.manual
  PROVE  Steady({Working(m)}, f, w, t)
BY SteadyQuiet DEF Quiet, Working, Alone, Standing, InFlight

LEMMA SteadyManual ==
  ASSUME NEW m, NEW f, NEW w, NEW t, f.manual
  PROVE  Steady({Working(m)}, f, w, t)
BY SteadyQuiet DEF Quiet, Working, Alone, Standing, InFlight

LEMMA SteadyEffecting ==
  ASSUME NEW m, NEW s, NEW z, NEW f, NEW w, NEW t, NEW r \in {"ok", "unconfirmed"}, ~f.manual
  PROVE  /\ Steady(Effecting(m, r, s, z), f, w, t)
         /\ Steady({Approved("ended", m, 1, "completed", r, s, z)}, f, w, t)
<1> DEFINE A == Approved("allowed", m, 0, "none", r, s, z)
           B == Approved("ready", m, 1, "none", r, s, z)
           C == Approved("ended", m, 1, "completed", r, s, z)
<1>1. Steady({C}, f, w, t)
  BY SteadyQuiet DEF Quiet, Approved, Past, Standing, InFlight
<1>2. \A y : Moves(B, y, f, t \in w.guarded, w.shut) => y = C
  BY DEF Approved, Past, Standing, Moves, JudgedAs, Withdrawing, InFlight, Live
<1>3. \A y : Moves(A, y, f, t \in w.guarded, w.shut) => y = B
  BY DEF Approved, Past, Standing, Moves, Effected, InFlight, Live
<1>4. Effecting(m, r, s, z) = {A} \cup ({B} \cup {C})
  BY DEF Effecting
<1> HIDE DEF A, B, C
<1>5. Steady({B} \cup {C}, f, w, t)
  BY <1>1, <1>2, SteadyMore
<1>6. Steady({A} \cup ({B} \cup {C}), f, w, t)
  BY <1>3, <1>5, SteadyMore
<1> QED BY <1>1, <1>4, <1>6 DEF C

-----------------------------------------------------------------------------
(* The scenarios, from their first instruction to their last one.          *)

Hands(x, y, z) == [h \in Handles |-> IF h = h1 THEN x ELSE IF h = h2 THEN y ELSE IF h = h3 THEN z
                                     ELSE NoContext]
Vias(x, y, z) == [t \in Tasks |-> IF t = t1 THEN x ELSE IF t = t2 THEN y ELSE IF t = t3 THEN z
                                  ELSE NoHandle]
Cast(x, y, z) == [t \in Tasks |-> IF t = t1 THEN x ELSE IF t = t2 THEN y ELSE IF t = t3 THEN z
                                  ELSE {Fresh}]
Original == [h \in Handles |-> "original"]

\* Tasks of G ask, reopening changes instructions or not, o are the contexts of the handles, u
\* the usable ones, v the handles of the tasks.
House(G, e, o, u, v) == World(G, e, o, Original, u, FALSE, FALSE, v)

Playing(s, r, h, hr, m) ==
  [start |-> s, response |-> r, hold |-> h, holdResponse |-> hr, manual |-> m]
Usual == Playing("accept", "accept", FALSE, FALSE, FALSE)
Holding == Playing("accept", "accept", TRUE, FALSE, FALSE)
Manual == Playing("accept", "accept", FALSE, FALSE, TRUE)

Nobody == Cast({Fresh}, {Fresh}, {Fresh})
Empty(G, e) == House(G, e, Hands(NoContext, NoContext, NoContext), {},
      Vias(NoHandle, NoHandle, NoHandle))
Opened1(G, e) == House(G, e, Hands(c1, NoContext, NoContext), {h1},
      Vias(NoHandle, NoHandle, NoHandle))
Started1(G, e) == House(G, e, Hands(c1, NoContext, NoContext), {h1}, Vias(h1, NoHandle, NoHandle))

Before(G, e, f) == Stage(f, Empty(G, e), Nobody, t1, {Fresh})

Passes(G, e, f, sc) == \E q : Leads(Before(G, e, f), sc, q)

LEMMA NobodyRests == \A f, w : Rests(f, w, Nobody, t1)
BY SteadyFresh DEF Rests, Nobody, Cast

LEMMA BeforeLeads ==
  ASSUME NEW G, NEW e, NEW f
  PROVE  Leads(Before(G, e, f), <<>>, Before(G, e, f))
<1>1. Closed(Before(G, e, f))
  BY ClosedStage, NobodyRests, SteadyFresh, ScenarioAssumption DEF Before
<1> QED BY <1>1, LeadsNowhere

LEMMA ThenCreates1 ==
  ASSUME NEW G, NEW e, NEW f, NEW p, NEW a, Leads(a, p, Before(G, e, f))
  PROVE  Leads(a, p \o Creates(h1, c1), Stage(f, Opened1(G, e), Nobody, t1, {Fresh}))
<1> DEFINE i == [do |-> "create", of |-> <<h1, c1>>]
<1>1. Creates(h1, c1) = <<i>>
  BY DEF Creates, Call
<1>2. i.do = "create" /\ i.of[1] = h1 /\ i.of[2] = c1
  OBVIOUS
<1> HIDE DEF i
<1>3. TurnsWorld(Empty(G, e), i, Opened1(G, e))
  BY <1>2, NamesAssumption DEF TurnsWorld, Openings, Empty, Opened1, House, World, Hands, Original
<1> QED BY <1>1, <1>2, <1>3, ThenTurns, ScenarioAssumption DEF Before

LEMMA FirstCreates ==
  ASSUME NEW G, NEW e, NEW f
  PROVE  Leads(Before(G, e, f), Creates(h1, c1), Stage(f, Opened1(G, e), Nobody, t1, {Fresh}))
<1>1. <<>> \o Creates(h1, c1) = Creates(h1, c1)
  BY DEF Creates, Call
<1> QED BY <1>1, BeforeLeads, ThenCreates1

-----------------------------------------------------------------------------
(* Starts, and what becomes of them.                                       *)

\* Handle h admits task t, and the model will be shown m.
Admits(w, v, T, h, t, m) ==
  /\ h \in Handles /\ t \in Tasks /\ TurnsWorld(w, [do |-> "start", of |-> <<h, t>>], v)
  /\ h \in w.usable /\ t \notin At(w, w.on[h])
  /\ \A s \in At(w, w.on[h]) : \A z \in T[s] : ~Uncertain(z) /\ ~InTheWay(z)
  /\ \A n : /\ t \in n
            /\ \A s \in At(w, w.on[h]) : \E z \in T[s] : z.saw \subseteq n
            /\ \A r \in n : r = t \/ \E s \in At(w, w.on[h]) : \E z \in T[s] : r \in z.saw
         => n = m

LEMMA ThenAdmits ==
  ASSUME NEW a, NEW p, NEW f, NEW w, NEW v, NEW T, NEW t, NEW h, NEW m, NEW S,
         NEW how \in {"accepted", "refused", "unconfirmed"},
         Leads(a, p, Stage(f, w, T, t, {Fresh})), Admits(w, v, T, h, t, m),
         Arrived(Underway(m), f.start) \in S, Steady(S, f, v, t), \A x \in S : x.admission = how
  PROVE  Leads(a, p \o StartsInto(h, t, how), Stage(f, v, T, t, S))
<1> DEFINE i == [do |-> "start", of |-> <<h, t>>]
           U == Underway(m)
<1>1. Started(Fresh, m) = U
  BY DEF Started, Fresh, Standing, Underway, Alone
<1>2. \A z : Moves(U, z, f, t \in v.guarded, v.shut) => z = Arrived(U, f.start)
  BY DEF Underway, Alone, Standing, Moves, InFlight, Live
<1>3. Steady({U} \cup S, f, v, t)
  BY <1>2, SteadyMore
<1>4. U.admission = "submitted"
  BY DEF Underway, Alone, Standing
<1>5. i.do = "start" /\ TurnsWorld(w, i, v)
  BY DEF Admits
<1>6. v.guarded = w.guarded /\ v.shut = w.shut
  <2> HIDE DEF i
  <2> QED BY <1>5 DEF TurnsWorld
<1>7. Steady({U} \cup S, f, w, t) /\ Steady(S, f, w, t)
  BY <1>3, <1>6, SteadyAlike
<1> HIDE DEF U
<1>8. \A n : /\ t \in n
             /\ \A s \in At(w, w.on[h]) : \E z \in T[s] : z.saw \subseteq n
             /\ \A r \in n : r = t \/ \E s \in At(w, w.on[h]) : \E z \in T[s] : r \in z.saw
          => Started(Fresh, n) \in {U} \cup S
  BY <1>1 DEF Admits
<1>9. /\ h \in Handles /\ t \in Tasks /\ h \in w.usable /\ t \notin At(w, w.on[h])
      /\ \A s \in At(w, w.on[h]) : \A z \in T[s] : ~Uncertain(z) /\ ~InTheWay(z)
      /\ \A x \in {U} \cup S : x.admission = "submitted" \/ x \in S
  BY <1>4 DEF Admits
<1> QED BY <1>5, <1>7, <1>8, <1>9, ThenStarts

\* The first task of its context.
LEMMA AdmitsFirst ==
  ASSUME NEW w, NEW v, NEW T, NEW t \in Tasks, NEW h \in Handles, h \in w.usable,
         At(w, w.on[h]) = {}, TurnsWorld(w, [do |-> "start", of |-> <<h, t>>], v)
  PROVE  Admits(w, v, T, h, t, {t})
BY DEF Admits

\* The second one, the first being over.
LEMMA AdmitsSecond ==
  ASSUME NEW w, NEW v, NEW T, NEW t \in Tasks, NEW s \in Tasks, NEW h \in Handles, NEW z,
         h \in w.usable, s # t, At(w, w.on[h]) = {s}, T[s] = {z}, ~Uncertain(z), ~InTheWay(z),
         TurnsWorld(w, [do |-> "start", of |-> <<h, t>>], v)
  PROVE  Admits(w, v, T, h, t, {t} \cup z.saw)
BY DEF Admits

\* The third one.
LEMMA AdmitsThird ==
  ASSUME NEW w, NEW v, NEW T, NEW t \in Tasks, NEW s \in Tasks, NEW r \in Tasks, NEW h \in Handles,
         NEW y, NEW z, h \in w.usable, s # t, r # t, At(w, w.on[h]) = {s, r}, T[s] = {y},
         T[r] = {z},
         ~Uncertain(y), ~InTheWay(y), ~Uncertain(z), ~InTheWay(z),
         TurnsWorld(w, [do |-> "start", of |-> <<h, t>>], v)
  PROVE  Admits(w, v, T, h, t, {t} \cup y.saw \cup z.saw)
BY DEF Admits

\* The start is accepted, and the fixture does not go on: its work is held, or it is manual.
LEMMA ThenWorks ==
  ASSUME NEW a, NEW p, NEW f, NEW w, NEW v, NEW T, NEW t, NEW h, NEW m,
         Leads(a, p, Stage(f, w, T, t, {Fresh})), Admits(w, v, T, h, t, m),
         f.start = "accept", f.manual \/ (f.hold /\ t \notin v.guarded)
  PROVE  Leads(a, p \o Starts(h, t), Stage(f, v, T, t, {Working(m)}))
<1> DEFINE S == {Working(m)}
<1>1. Arrived(Underway(m), f.start) = Working(m)
  BY DEF Underway, Working, Alone, Standing, Arrived, Known, Reaches
<1>2. Working(m).admission = "accepted"
  BY DEF Working, Alone, Standing
<1>3. Steady(S, f, v, t)
  BY SteadyHeld, SteadyManual
<1>4. Arrived(Underway(m), f.start) \in S /\ \A x \in S : x.admission = "accepted"
  BY <1>1, <1>2
<1> HIDE DEF S
<1>5. Leads(a, p \o Starts(h, t), Stage(f, v, T, t, S))
  BY <1>3, <1>4, ThenAdmits DEF Starts
<1> QED BY <1>5 DEF S

\* A plain task runs to its end.
LEMMA ThenRuns ==
  ASSUME NEW a, NEW p, NEW f, NEW w, NEW v, NEW T, NEW t, NEW h, NEW m,
         Leads(a, p, Stage(f, w, T, t, {Fresh})), Admits(w, v, T, h, t, m),
         f.start = "accept", ~f.manual, t \notin v.guarded
  PROVE  Leads(a, p \o Runs(h, t), Stage(f, v, T, t, {Complete(m)}))
<1> DEFINE b == Stage(f, w, T, t, {Fresh})
           S == {Working(m), Complete(m)}
           C == {Complete(m)}
<1>0. Leads(b, <<>>, b) /\ t \in Tasks
  BY LeadsAway, LeadsNowhere DEF Admits
<1>1. Arrived(Underway(m), f.start) = Working(m)
  BY DEF Underway, Working, Alone, Standing, Arrived, Known, Reaches
<1>2. /\ Working(m).admission = "accepted" /\ Complete(m).admission = "accepted"
      /\ Working(m).outcome = "none" /\ Complete(m).outcome = "completed"
  BY DEF Working, Complete, Alone, Standing
<1>3. Steady(S, f, v, t) /\ Steady(C, f, v, t)
  BY SteadyRunning, SteadyComplete
<1>4. /\ Arrived(Underway(m), f.start) \in S /\ \A x \in S : x.admission = "accepted"
      /\ \A x \in S : x.outcome = "none" \/ x \in C
      /\ \A x \in C : x.outcome = "completed"
  BY <1>1, <1>2
<1>5. (<<>> \o Starts(h, t)) \o Awaits(t, "completed") = Runs(h, t)
  BY DEF Runs, Starts, StartsInto, Awaits, Asserts, Until, Call
<1> HIDE DEF S, C
<1>6. Leads(b, <<>> \o Starts(h, t), Stage(f, v, T, t, S))
  BY <1>0, <1>3, <1>4, ThenAdmits DEF Starts
<1>7. Leads(b, (<<>> \o Starts(h, t)) \o Awaits(t, "completed"), Stage(f, v, T, t, C))
  BY <1>0, <1>3, <1>4, <1>6, ThenAwaits
<1> QED BY <1>5, <1>7, LeadsOn DEF C

\* A guarded task shows its request.
LEMMA ThenOpens ==
  ASSUME NEW a, NEW p, NEW f, NEW w, NEW v, NEW T, NEW t, NEW h, NEW m,
         Leads(a, p, Stage(f, w, T, t, {Fresh})), Admits(w, v, T, h, t, m),
         f.start = "accept", ~f.manual, t \in v.guarded
  PROVE  Leads(a, (p \o Starts(h, t)) \o Until("pending", t, {TRUE}),
               Stage(f, v, T, t, {Asking(m, "none", "none", <<>>)}))
<1> DEFINE A == Asking(m, "none", "none", <<>>)
           W == Working(m)
           S == {W} \cup {A}
<1>0. t \in Tasks /\ "pending" \in OfTask
  BY DEF Admits, OfTask
<1>1. Arrived(Underway(m), f.start) = W
  BY DEF Underway, Working, Alone, Standing, Arrived, Known, Reaches
<1>2. W.admission = "accepted" /\ A.admission = "accepted" /\ W.pending = "no"
  BY DEF Working, Asking, Alone, Standing
<1>3. Steady({A}, f, v, t)
  BY SteadyQuiet DEF Quiet, Asking, Standing, InFlight
<1>4. \A z : Moves(W, z, f, t \in v.guarded, v.shut) => z = A
  BY DEF Working, Asking, Alone, Standing, Moves, Asked, InFlight, Live
<1>5. Steady(S, f, v, t)
  <2> HIDE DEF A, W
  <2> QED BY <1>3, <1>4, SteadyMore
<1>6. /\ Arrived(Underway(m), f.start) \in S /\ \A x \in S : x.admission = "accepted"
      /\ \A x \in S : Told(x, "pending") \in {TRUE} => x \in {A}
  <2>1. Told(W, "pending") = FALSE
    BY <1>2 DEF Told
  <2> HIDE DEF A, W
  <2> QED BY <1>1, <1>2, <2>1
<1> HIDE DEF S
<1>7. Leads(a, p \o Starts(h, t), Stage(f, v, T, t, S))
  BY <1>5, <1>6, ThenAdmits DEF Starts
<1> HIDE DEF A, W
<1>8. Leads(a, (p \o Starts(h, t)) \o Until("pending", t, {TRUE}), Stage(f, v, T, t, {A}))
  BY <1>0, <1>3, <1>6, <1>7, ThenWaits
<1> QED BY <1>8 DEF A

\* A shown request is answered, and the task goes on as the fixture has it.
LEMMA ThenReplies ==
  ASSUME NEW a, NEW p, NEW f, NEW w, NEW T, NEW t \in Tasks, NEW m, NEW r, NEW e, NEW s,
         NEW d \in Offered,
         NEW S, NEW how, r \notin InFlight,
         Leads(a, p, Stage(f, w, T, t, {Asking(m, r, e, s)})),
         Answer(Asking(m, "waiting", d, s), f.response) \in S, Steady(S, f, w, t),
         \A x \in S : x.reply = how
  PROVE  Leads(a, p \o RespondsInto(t, d, how), Stage(f, w, T, t, S))
<1> DEFINE A == Asking(m, r, e, s)
           W == Asking(m, "waiting", d, s)
           R == {A}
           M == {W} \cup S
<1>1. Submitting(A, "waiting", d) = W /\ Answerable(A, d) = "submit" /\ W.reply = "waiting"
  BY DEF Asking, Standing, Submitting, Answerable
<1>2. \A z : Moves(W, z, f, t \in w.guarded, w.shut) => z = Answer(W, f.response)
  BY DEF Asking, Standing, Moves, InFlight, Live
<1> HIDE DEF A, W
<1>3. Steady(M, f, w, t)
  BY <1>2, SteadyMore DEF W
<1>4. /\ \A x \in R : Answerable(x, d) = "submit" /\ Submitting(x, "waiting", d) \in M
      /\ \A x \in M : x.reply = "waiting" \/ x \in S
  BY <1>1
<1>5. Leads(a, p, Stage(f, w, T, t, R))
  BY DEF A
<1> HIDE DEF R, M
<1> QED BY <1>3, <1>4, <1>5, ThenRespondsInto

\* Approved, and heard of.
LEMMA ThenApproves ==
  ASSUME NEW a, NEW p, NEW f, NEW w, NEW T, NEW t \in Tasks, NEW m, NEW r, NEW e, NEW s,
         NEW how, NEW fate, NEW z, r \notin InFlight,
         Leads(a, p, Stage(f, w, T, t, {Asking(m, r, e, s)})), ~f.manual, f.response = fate,
         \/ fate = "accept" /\ how = "ok" /\ z = <<"responded">>
         \/ fate = "lose_accepted" /\ how = "unconfirmed" /\ z = <<"response_unconfirmed">>
  PROVE  Leads(a, p \o RespondsInto(t, "approve_once", how),
               Stage(f, w, T, t, Effecting(m, how, Append(s, "taken"), z)))
<1> DEFINE S == Effecting(m, how, Append(s, "taken"), z)
<1>1. Steady(S, f, w, t)
  BY SteadyEffecting
<1>2. Answer(Asking(m, "waiting", "approve_once", s), f.response)
        = Approved("allowed", m, 0, "none", how, Append(s, "taken"), z)
  <2>1. CASE fate = "accept"
    BY <2>1 DEF Asking, Standing, Answer, Approved, Past, Known, Reaches, Withdrawing
  <2>2. CASE fate = "lose_accepted"
    BY <2>2 DEF Asking, Standing, Answer, Approved, Past, Known, Reaches, Withdrawing
  <2> QED BY <2>1, <2>2
<1>3. \A x \in S : x.reply = how
  BY DEF Effecting, Approved, Past, Standing
<1>4. Approved("allowed", m, 0, "none", how, Append(s, "taken"), z) \in S
  BY DEF Effecting
<1>5. "approve_once" \in Offered
  BY DEF Offered
<1> HIDE DEF S
<1>6. Leads(a, p \o RespondsInto(t, "approve_once", how), Stage(f, w, T, t, S))
  BY <1>1, <1>2, <1>3, <1>4, <1>5, ThenReplies
<1> QED BY <1>6 DEF S

\* Not delivered.
LEMMA ThenReturns ==
  ASSUME NEW a, NEW p, NEW f, NEW w, NEW T, NEW t \in Tasks, NEW m, NEW r, NEW e, NEW s,
         NEW d \in Offered, r \notin InFlight,
         Leads(a, p, Stage(f, w, T, t, {Asking(m, r, e, s)})), f.response = "reject"
  PROVE  Leads(a, p \o RespondsInto(t, d, "transport"),
               Stage(f, w, T, t, {Asking(m, "transport", d, Append(s, "undelivered"))}))
<1> DEFINE A == Asking(m, "transport", d, Append(s, "undelivered"))
           S == {A}
<1>1. Steady(S, f, w, t)
  BY SteadyQuiet DEF Quiet, Asking, Standing, InFlight
<1>2. Answer(Asking(m, "waiting", d, s), f.response) = A
  BY DEF Asking, Standing, Answer, Known, Reaches
<1>3. A.reply = "transport"
  BY DEF Asking, Standing
<1>4. A \in S /\ \A x \in S : x.reply = "transport"
  BY <1>3
<1> HIDE DEF S, A
<1>5. Leads(a, p \o RespondsInto(t, d, "transport"), Stage(f, w, T, t, S))
  BY <1>1, <1>2, <1>4, ThenReplies
<1> QED BY <1>5 DEF S, A

\* Lost.
LEMMA ThenLoses ==
  ASSUME NEW a, NEW p, NEW f, NEW w, NEW T, NEW t \in Tasks, NEW m, NEW r, NEW e, NEW s,
         NEW d \in Offered, r \notin InFlight,
         Leads(a, p, Stage(f, w, T, t, {Asking(m, r, e, s)})), f.response = "lose"
  PROVE  Leads(a, p \o RespondsInto(t, d, "unconfirmed"),
               Stage(f, w, T, t, {Past("asking", m, 0, "none", "no", "unconfirmed", d,
                                       Append(s, "lost"), <<"response_unconfirmed">>)}))
<1> DEFINE A == Past("asking", m, 0, "none", "no", "unconfirmed", d, Append(s, "lost"),
                     <<"response_unconfirmed">>)
           S == {A}
<1>1. Steady(S, f, w, t)
  BY SteadyQuiet DEF Quiet, Past, Standing, InFlight
<1>2. Answer(Asking(m, "waiting", d, s), f.response) = A
  BY DEF Asking, Past, Standing, Answer, Known, Reaches, Withdrawing
<1>3. A.reply = "unconfirmed"
  BY DEF Past, Standing
<1>4. A \in S /\ \A x \in S : x.reply = "unconfirmed"
  BY <1>3
<1> HIDE DEF S, A
<1>5. Leads(a, p \o RespondsInto(t, d, "unconfirmed"), Stage(f, w, T, t, S))
  BY <1>1, <1>2, <1>4, ThenReplies
<1> QED BY <1>5 DEF S, A

\* Declined: the task ends without its effect.
Declined(w, m, o, s) == Past(w, m, 0, o, "no", "ok", "decline", s, <<"responded">>)

LEMMA ThenDeclines ==
  ASSUME NEW a, NEW p, NEW f, NEW w, NEW T, NEW t \in Tasks, NEW m, NEW r, NEW e, NEW s,
         r \notin InFlight,
         Leads(a, p, Stage(f, w, T, t, {Asking(m, r, e, s)})), ~f.manual, f.response = "accept"
  PROVE  Leads(a, p \o RespondsInto(t, "decline", "ok"),
               Stage(f, w, T, t, {Declined("ready", m, "none", Append(s, "taken"))}
                                   \cup {Declined("ended", m, "completed", Append(s, "taken"))}))
<1> DEFINE B == Declined("ready", m, "none", Append(s, "taken"))
           C == Declined("ended", m, "completed", Append(s, "taken"))
           S == {B} \cup {C}
<1>1. Steady({C}, f, w, t)
  BY SteadyQuiet DEF Quiet, Declined, Past, Standing, InFlight
<1>2. \A y : Moves(B, y, f, t \in w.guarded, w.shut) => y = C
  BY DEF Declined, Past, Standing, Moves, JudgedAs, Withdrawing, InFlight, Live
<1>3. Answer(Asking(m, "waiting", "decline", s), f.response) = B
  BY DEF Asking, Declined, Past, Standing, Answer, Known, Reaches, Withdrawing
<1>4. B.reply = "ok" /\ C.reply = "ok" /\ "decline" \in Offered
  BY DEF Declined, Past, Standing, Offered
<1> HIDE DEF B, C
<1>5. Steady(S, f, w, t) /\ \A x \in S : x.reply = "ok"
  BY <1>1, <1>2, <1>4, SteadyMore
<1>6. B \in S
  OBVIOUS
<1> HIDE DEF S
<1>7. Leads(a, p \o RespondsInto(t, "decline", "ok"), Stage(f, w, T, t, S))
  BY <1>3, <1>4, <1>5, <1>6, ThenReplies
<1> QED BY <1>7 DEF S, B, C

-----------------------------------------------------------------------------
(* The guarded scenarios.                                                  *)

LEMMA HouseStarts ==
  ASSUME NEW G, NEW e, NEW o, NEW u, NEW v, NEW y, NEW h, NEW t,
         \A x \in Tasks : y[x] = IF x = t THEN h ELSE v[x]
  PROVE  TurnsWorld(House(G, e, o, u, v), [do |-> "start", of |-> <<h, t>>], House(G, e, o, u, y))
<1> DEFINE i == [do |-> "start", of |-> <<h, t>>]
           w == House(G, e, o, u, v)
           z == House(G, e, o, u, y)
<1>1. i.do = "start" /\ i.of[1] = h /\ i.of[2] = t
  OBVIOUS
<1>2. /\ w.guarded = G /\ w.adaptable = e /\ w.on = o /\ w.config = Original /\ w.usable = u
      /\ w.shut = FALSE /\ w.hidden = FALSE /\ w.via = v
      /\ z.guarded = G /\ z.adaptable = e /\ z.on = o /\ z.config = Original /\ z.usable = u
      /\ z.shut = FALSE /\ z.hidden = FALSE /\ z.via = y
  BY DEF House, World
<1> HIDE DEF i, w, z
<1>3. TurnsWorld(w, i, z)
  BY <1>1, <1>2 DEF TurnsWorld, Openings
<1> QED BY <1>3 DEF i, w, z

LEMMA HouseOpens ==
  ASSUME NEW G, NEW e, NEW o, NEW u, NEW v, NEW y, NEW h \in Handles, NEW c, NEW i,
         i.do = "create" \/ (i.do = "reopen" /\ i.of[3] = "original"), i.of[1] = h, i.of[2] = c,
         \A x \in Handles : y[x] = IF x = h THEN c ELSE o[x]
  PROVE  TurnsWorld(House(G, e, o, u, v), i, House(G, e, y, u \cup {h}, v))
<1> DEFINE w == House(G, e, o, u, v)
           z == House(G, e, y, u \cup {h}, v)
<1>2. /\ w.guarded = G /\ w.adaptable = e /\ w.on = o /\ w.config = Original /\ w.usable = u
      /\ w.shut = FALSE /\ w.hidden = FALSE /\ w.via = v
      /\ z.guarded = G /\ z.adaptable = e /\ z.on = y /\ z.config = Original
      /\ z.usable = u \cup {h}
      /\ z.shut = FALSE /\ z.hidden = FALSE /\ z.via = v
  BY DEF House, World
<1>3. \A x \in Handles : Original[x] = "original"
  BY DEF Original
<1> HIDE DEF w, z
<1>4. TurnsWorld(w, i, z)
  BY <1>2, <1>3 DEF TurnsWorld, Openings
<1> QED BY <1>4 DEF w, z

LEMMA FirstAdmits == \A G, e : Admits(Opened1(G, e), Started1(G, e), Nobody, h1, t1, {t1})
<1> TAKE G, e
<1> DEFINE w == Opened1(G, e)
<1>1. /\ h1 \in w.usable /\ At(w, w.on[h1]) = {}
  <2>1. w.usable = {h1} /\ w.via = Vias(NoHandle, NoHandle, NoHandle)
    BY DEF Opened1, House, World
  <2> HIDE DEF w
  <2> QED BY <2>1 DEF At, Vias
<1>2. TurnsWorld(w, [do |-> "start", of |-> <<h1, t1>>], Started1(G, e))
  <2>1. \A x \in Tasks : Vias(h1, NoHandle, NoHandle)[x]
                           = IF x = t1 THEN h1 ELSE Vias(NoHandle, NoHandle, NoHandle)[x]
    BY DEF Vias
  <2> QED BY <2>1, HouseStarts DEF Opened1, Started1
<1> HIDE DEF w
<1>3. Admits(w, Started1(G, e), Nobody, h1, t1, {t1})
  BY <1>1, <1>2, AdmitsFirst, ScenarioAssumption
<1> QED BY <1>3 DEF w

\* What a guarded scenario knows of its first task, having come to the end of sc.
Gets(sc, f, S) == Leads(Before(Tasks, TRUE, Usual), sc,
      Stage(f, Started1(Tasks, TRUE), Nobody, t1, S))

Asks1 == Asking({t1}, "none", "none", <<>>)

LEMMA GetsOpening == Gets(Opening, Usual, {Asks1})
<1>1. Leads(Before(Tasks, TRUE, Usual), Creates(h1, c1),
            Stage(Usual, Opened1(Tasks, TRUE), Nobody, t1, {Fresh}))
  BY FirstCreates
<1>2. Admits(Opened1(Tasks, TRUE), Started1(Tasks, TRUE), Nobody, h1, t1, {t1})
  BY FirstAdmits
<1>3. t1 \in Started1(Tasks, TRUE).guarded
  BY ScenarioAssumption DEF Started1, House, World
<1>4. Usual.start = "accept" /\ ~Usual.manual
  BY DEF Usual, Playing
<1> QED BY <1>1, <1>2, <1>3, <1>4, ThenOpens DEF Gets, Opening, Asks1

LEMMA GetsTold ==
  ASSUME NEW p, NEW f, NEW x, NEW what \in OfTask, NEW is, Gets(p, f, {x}), Told(x, what) \in is
  PROVE  Gets(p \o Asserts(what, t1, is), f, {x})
BY ThenTells, ScenarioAssumption DEF Gets

LEMMA GetsBlocked ==
  ASSUME NEW p, NEW f, NEW x, NEW d, NEW why, Gets(p, f, {x}), Answerable(x, d) = why
  PROVE  Gets(p \o Blocks(t1, d, why), f, {x})
BY ThenBlocks, ScenarioAssumption DEF Gets

LEMMA GetsSet ==
  ASSUME NEW p, NEW f, NEW g, NEW S, NEW control, NEW is, Gets(p, f, S),
         Steady(S, g, Started1(Tasks, TRUE), t1),
         Tuned(f, g, control, is)
  PROVE  Gets(p \o Sets(control, is), g, S)
BY ThenSets, NobodyRests, ScenarioAssumption DEF Gets

LEMMA GetsSetMore ==
  ASSUME NEW p, NEW f, NEW g, NEW R, NEW S, NEW control, NEW is, Gets(p, f, R), R \subseteq S,
         Steady(S, g, Started1(Tasks, TRUE), t1),
         Tuned(f, g, control, is)
  PROVE  Gets(p \o Sets(control, is), g, S)
BY ThenSets, NobodyRests, ScenarioAssumption DEF Gets

\* The work is let go on that nothing holds.
LEMMA ThenGoes ==
  ASSUME NEW a, NEW p, NEW f, NEW w, NEW T, NEW t \in Tasks, NEW S,
         Leads(a, p, Stage(f, w, T, t, S)), f.hold = FALSE
  PROVE  Leads(a, p \o LetsGo, Stage(f, w, T, t, S))
<1> DEFINE b == Stage(f, w, T, t, S)
<1>1. Tuned(f, f, "hold", FALSE)
  BY DEF Tuned, ControlNames
<1>2. b = Stage(f, w, T, t, S) /\ Closed(b)
  BY LeadsAway
<1> HIDE DEF b
<1>3. Steady(S, f, w, t) /\ Rests(f, w, T, t)
  BY <1>2, OnStage
<1> QED BY <1>1, <1>3, ThenSets DEF LetsGo

Replying(fate) == Playing("accept", fate, FALSE, FALSE, FALSE)

\* How many of these responses were taken.
Taking(s) == Cardinality({k \in 1..Len(s) : s[k] = "taken"})

LEMMA ToldAsking ==
  ASSUME NEW m, NEW r, NEW d, NEW s
  PROVE  /\ Told(Asking(m, r, d, s), "effects") = 0 /\ Told(Asking(m, r, d, s), "outcome") = "none"
         /\ Told(Asking(m, r, d, s), "taken") = Taking(s)
BY DEF Told, Asking, Standing, Taking

LEMMA AskingIsPending ==
  ASSUME NEW m, NEW r, NEW d, NEW s PROVE Told(Asking(m, r, d, s), "pending") \in {TRUE}
<1>1. Told(Asking(m, r, d, s), "pending") = TRUE
  BY DEF Told, Asking, Standing
<1> QED BY <1>1

\* How many times it was answered, the last answer known.
LEMMA Submissions ==
  ASSUME NEW x, x.reply \notin InFlight
  PROVE  /\ x.sent = <<>> => Told(x, "submissions") \in {0}
         /\ \A a : x.sent = <<a>> => Told(x, "submissions") \in {1}
         /\ \A a, b : x.sent = <<a, b>> => Told(x, "submissions") \in {2}
<1>1. Told(x, "submissions") = Len(x.sent) + 0
  BY DEF Told
<1>2. ASSUME NEW n \in Nat, Len(x.sent) = n PROVE Told(x, "submissions") \in {n}
  BY <1>1, <1>2
<1>3. Len(<<>>) = 0 /\ (\A a : Len(<<a>>) = 1) /\ (\A a, b : Len(<<a, b>>) = 2)
  OBVIOUS
<1> QED BY <1>2, <1>3

LEMMA AskingAnswers ==
  \A m, r, d, s, x : r \notin InFlight /\ x \notin Offered
                       => Answerable(Asking(m, r, d, s), x) = "invalid"
BY DEF Answerable, Asking, Standing

LEMMA ToldPast ==
  ASSUME NEW w, NEW m, NEW e, NEW o, NEW k, NEW r, NEW d, NEW s, NEW z
  PROVE  /\ Told(Past(w, m, e, o, k, r, d, s, z), "effects") = e
         /\ Told(Past(w, m, e, o, k, r, d, s, z), "outcome") = o
         /\ Told(Past(w, m, e, o, k, r, d, s, z), "resolutions") = z
         /\ Told(Past(w, m, e, o, k, r, d, s, z), "taken") = Taking(s)
BY DEF Told, Past, Standing, Taking

LEMMA PastIsNotPending ==
  ASSUME NEW w, NEW m, NEW e, NEW o, NEW k, NEW r, NEW d, NEW s, NEW z
  PROVE  Told(Past(w, m, e, o, k, r, d, s, z), "pending") \in {FALSE}
<1>1. Told(Past(w, m, e, o, k, r, d, s, z), "pending") = FALSE
  BY DEF Told, Past, Standing
<1> QED BY <1>1

LEMMA PastAnswers ==
  \A w, m, e, o, k, r, d, s, z, x : Answerable(Past(w, m, e, o, k, r, d, s, z), x) = "late"
BY DEF Answerable, Past, Standing

LEMMA Appended ==
  ASSUME NEW x, NEW y
  PROVE  Append(<<>>, x) = <<x>> /\ Append(<<x>>, y) = <<x, y>>
<1>1. <<x>> \in Seq({x, y}) /\ <<x, y>> \in Seq({x, y})
  OBVIOUS
<1> DEFINE s == Append(<<x>>, y)
<1>2. s \in Seq({x, y}) /\ Len(s) = 2 /\ s[1] = x /\ s[2] = y
  BY <1>1, AppendProperties
<1> HIDE DEF s
<1>3. s = <<x, y>>
  BY <1>1, <1>2
<1> QED BY <1>3 DEF s

LEMMA TakenOf ==
  /\ Taking(<<>>) = 0 /\ Taking(<<"undelivered">>) = 0 /\ Taking(<<"lost">>) = 0
  /\ Taking(<<"taken">>) = 1 /\ Taking(<<"undelivered", "taken">>) = 1
<1>1. {n \in 1..Len(<<"undelivered">>) : <<"undelivered">>[n] = "taken"} = {}
  OBVIOUS
<1>2. {n \in 1..Len(<<"lost">>) : <<"lost">>[n] = "taken"} = {}
  OBVIOUS
<1>3. {n \in 1..Len(<<"taken">>) : <<"taken">>[n] = "taken"} = {1}
  OBVIOUS
<1>4. {n \in 1..Len(<<"undelivered", "taken">>) : <<"undelivered", "taken">>[n] = "taken"} = {2}
  OBVIOUS
<1>5. {n \in 1..Len(<<>>) : <<>>[n] = "taken"} = {}
  OBVIOUS
<1>6. Cardinality({}) = 0 /\ Cardinality({1}) = 1 /\ Cardinality({2}) = 1
  BY FS_EmptySet, FS_Singleton
<1> QED BY <1>1, <1>2, <1>3, <1>4, <1>5, <1>6 DEF Taking

LEMMA GetsApproved ==
  ASSUME NEW p, NEW f, NEW r, NEW e, NEW s, NEW q, NEW how, NEW z, r \notin InFlight,
         Gets(p, f, {Asking({t1}, r, e, s)}), ~f.manual, q = Append(s, "taken"),
         \/ f.response = "accept" /\ how = "ok" /\ z = <<"responded">>
         \/ f.response = "lose_accepted" /\ how = "unconfirmed" /\ z = <<"response_unconfirmed">>
  PROVE  Gets(p \o RespondsInto(t1, "approve_once", how), f, Effecting({t1}, how, q, z))
BY ThenApproves, ScenarioAssumption DEF Gets

LEMMA GetsReturned ==
  ASSUME NEW p, NEW f, NEW r, NEW e, NEW s, NEW q, NEW d \in Offered, r \notin InFlight,
         Gets(p, f, {Asking({t1}, r, e, s)}), f.response = "reject", q = Append(s, "undelivered")
  PROVE  Gets(p \o RespondsInto(t1, d, "transport"), f, {Asking({t1}, "transport", d, q)})
BY ThenReturns, ScenarioAssumption DEF Gets

LEMMA ThenDone ==
  ASSUME NEW a, NEW p, NEW f, NEW w, NEW T, NEW t \in Tasks, NEW m, NEW r \in {"ok", "unconfirmed"},
         NEW s, NEW z,
         Leads(a, p, Stage(f, w, T, t, Effecting(m, r, s, z))), ~f.manual, f.hold = FALSE
  PROVE  Leads(a, (p \o LetsGo) \o Awaits(t, "completed"),
               Stage(f, w, T, t, {Approved("ended", m, 1, "completed", r, s, z)}))
<1> DEFINE R == Effecting(m, r, s, z)
           C == Approved("ended", m, 1, "completed", r, s, z)
<1>1. Leads(a, p \o LetsGo, Stage(f, w, T, t, R))
  BY ThenGoes
<1>2. Steady({C}, f, w, t)
  BY SteadyEffecting
<1>3. \A x \in R : x.outcome = "none" \/ x \in {C}
  BY DEF Effecting, Approved, Past, Standing
<1>4. C.outcome = "completed"
  BY DEF Approved, Past, Standing
<1> HIDE DEF R, C
<1>5. \A x \in {C} : x.outcome = "completed"
  BY <1>4
<1>6. Leads(a, (p \o LetsGo) \o Awaits(t, "completed"), Stage(f, w, T, t, {C}))
  BY <1>1, <1>2, <1>3, <1>5, ThenAwaits
<1> QED BY <1>6 DEF C

LEMMA GetsGoing ==
  ASSUME NEW p, NEW f, NEW S, Gets(p, f, S), f.hold = FALSE
  PROVE  Gets(p \o LetsGo, f, S)
BY ThenGoes, ScenarioAssumption DEF Gets

LEMMA GetsDone ==
  ASSUME NEW p, NEW f, NEW m, NEW r \in {"ok", "unconfirmed"}, NEW s, NEW z,
         Gets(p, f, Effecting(m, r, s, z)), ~f.manual, f.hold = FALSE
  PROVE  Gets((p \o LetsGo) \o Awaits(t1, "completed"), f,
              {Approved("ended", m, 1, "completed", r, s, z)})
BY ThenDone, ScenarioAssumption DEF Gets

\* A response the boundary refuses is submitted once more, and taken (acceptance.py:144-165).
LEMMA NondeliveredResponsePasses == Passes(Tasks, TRUE, Usual, NondeliveredResponse)
<1> DEFINE A == Asking({t1}, "transport", "approve_once", <<"undelivered">>)
           E == Approved("ended", {t1}, 1, "completed",
                 "ok", <<"undelivered", "taken">>, <<"responded">>)
           p1 == Opening \o Asserts("effects", t1, {0})
           p2 == p1 \o Sets("response", "reject")
           p3 == p2 \o RespondsInto(t1, "approve_once", "transport")
           p4 == p3 \o Asserts("pending", t1, {TRUE}) \o Asserts("taken", t1, {0})
                   \o Asserts("effects", t1, {0})
           p5 == p4 \o Sets("response", "accept")
           p6 == p5 \o Approves(t1) \o LetsGo \o Awaits(t1, "completed")
           p7 == p6 \o Asserts("effects", t1, {1}) \o Asserts("taken", t1, {1})
                   \o Asserts("submissions", t1, {2})
<1>f. /\ ~Usual.manual /\ Usual.hold = FALSE /\ Usual.response = "accept"
           /\ Replying("reject").response = "reject"
      /\ Tuned(Usual, Replying("reject"), "response", "reject")
      /\ Tuned(Replying("reject"), Usual, "response", "accept")
  BY DEF Usual, Replying, Playing, ControlNames, Tuned
<1>0. {"effects", "pending", "taken", "submissions", "outcome"} \subseteq OfTask
  BY DEF OfTask
<1>1. Gets(p1, Usual, {Asks1})
  BY <1>0, GetsOpening, GetsTold, ToldAsking DEF Asks1, InFlight
<1>2. Gets(p2, Replying("reject"), {Asks1})
  <2>1. Steady({Asks1}, Replying("reject"), Started1(Tasks, TRUE), t1)
    BY SteadyQuiet DEF Quiet, Asks1, Asking, Standing, InFlight, Replying, Playing
  <2> HIDE DEF p1
  <2> QED BY <1>1, <1>f, <2>1, GetsSet
<1>3. Gets(p3, Replying("reject"), {A})
  <2> HIDE DEF p2
  <2>1. <<"undelivered">> = Append(<<>>, "undelivered") /\ "approve_once" \in Offered
          /\ "none" \notin InFlight
    BY Appended DEF Offered, InFlight
  <2> QED BY <1>2, <1>f, <2>1, GetsReturned DEF Asks1
<1>4. Gets(p4, Replying("reject"), {A})
  <2>0. "transport" \notin InFlight
    BY DEF InFlight
  <2>1. Told(A, "pending") \in {TRUE}
    BY AskingIsPending
  <2>2. Told(A, "taken") \in {0} /\ Told(A, "effects") \in {0}
    BY ToldAsking, TakenOf
  <2> HIDE DEF p3, A
  <2> QED BY <1>3, <1>0, <2>1, <2>2, GetsTold
<1>5. Gets(p5, Usual, {A})
  <2>1. Steady({A}, Usual, Started1(Tasks, TRUE), t1)
    BY SteadyQuiet DEF Quiet, Asking, Standing, InFlight, Usual, Playing
  <2> HIDE DEF p4, A
  <2> QED BY <1>4, <1>f, <2>1, GetsSet
<1>6. Gets(p6, Usual, {E})
  <2>1. <<"undelivered", "taken">> = Append(<<"undelivered">>, "taken")
          /\ "transport" \notin InFlight
    BY Appended DEF InFlight
  <2> HIDE DEF p5
  <2>2. Gets(p5 \o Approves(t1), Usual,
             Effecting({t1}, "ok", <<"undelivered", "taken">>, <<"responded">>))
    BY <1>5, <1>f, <2>1, GetsApproved DEF Approves
  <2> QED BY <2>2, <1>f, GetsDone
<1>7. Gets(p7, Usual, {E})
  <2>0. "ok" \notin InFlight
    BY DEF InFlight
  <2>1. Told(E, "effects") \in {1} /\ Told(E, "taken") \in {1}
    BY ToldPast, TakenOf DEF Approved
  <2>2. Told(E, "submissions") \in {2}
    <3>1. E.reply = "ok" /\ E.sent = <<"undelivered", "taken">>
      BY DEF Approved, Past, Standing
    <3> HIDE DEF E
    <3> QED BY <2>0, <3>1, Submissions
  <2> HIDE DEF p6, E
  <2> QED BY <1>6, <1>0, <2>1, <2>2, GetsTold
<1> QED BY <1>7 DEF Passes, Gets, NondeliveredResponse

LEMMA AllOfTask ==
  /\ "admission" \in OfTask /\ "reply" \in OfTask /\ "outcome" \in OfTask /\ "pending" \in OfTask
  /\ "resolutions" \in OfTask /\ "seen" \in OfTask /\ "effects" \in OfTask
  /\ "submissions" \in OfTask /\ "taken" \in OfTask
BY DEF OfTask

LEMMA UsualIs ==
  /\ ~Usual.manual /\ Usual.hold = FALSE /\ ~Usual.holdResponse /\ Usual.start = "accept"
  /\ Usual.response = "accept"
BY DEF Usual, Playing

\* The task approved, and over.
Done(m, r, s, z) == Approved("ended", m, 1, "completed", r, s, z)

LEMMA ToldDone ==
  ASSUME NEW m, NEW r, NEW s, NEW z
  PROVE  /\ Told(Done(m, r, s, z), "effects") \in {1}
         /\ Told(Done(m, r, s, z), "resolutions") \in {z}
         /\ Told(Done(m, r, s, z), "taken") = Taking(s)
         /\ \A x : Answerable(Done(m, r, s, z), x) = "late"
         /\ Done(m, r, s, z).reply = r /\ Done(m, r, s, z).sent = s
         /\ Done(m, r, s, z).outcome = "completed"
         /\ Stopped(Done(m, r, s, z)) = Done(m, r, s, z)
BY DEF Told, Answerable, Done, Approved, Past, Standing, Taking, Stopped

LEMMA OpeningAsks ==
  /\ Told(Asks1, "effects") \in {0} /\ Told(Asks1, "submissions") \in {0}
  /\ Answerable(Asks1, "answer") = "invalid" /\ Answerable(Asks1, "approve_for_session") = "invalid"
<1>1. Told(Asks1, "effects") \in {0}
  BY ToldAsking DEF Asks1
<1>2. Asks1.reply \notin InFlight /\ Asks1.sent = <<>>
  BY DEF Asks1, Asking, Standing, InFlight
<1>3. Answerable(Asks1, "answer") = "invalid"
        /\ Answerable(Asks1, "approve_for_session") = "invalid"
  BY AskingAnswers DEF Asks1, InFlight, Offered
<1> QED BY <1>1, <1>2, <1>3, Submissions

LEMMA GetsAllTold ==
  ASSUME NEW p, NEW f, NEW S, NEW what \in OfTask, NEW is, Gets(p, f, S),
         \A x \in S : Told(x, what) \in is
  PROVE  Gets(p \o Asserts(what, t1, is), f, S)
BY ThenTells, ScenarioAssumption DEF Gets

LEMMA GetsAllBlocked ==
  ASSUME NEW p, NEW f, NEW S, NEW d, NEW why, Gets(p, f, S), \A x \in S : Answerable(x, d) = why
  PROVE  Gets(p \o Blocks(t1, d, why), f, S)
BY ThenBlocks, ScenarioAssumption DEF Gets

LEMMA GetsOver ==
  ASSUME NEW p, NEW f, NEW R, NEW x, NEW kind, Gets(p, f, R), x.outcome = kind,
         Steady({x}, f, Started1(Tasks, TRUE), t1), \A y \in R : y.outcome = "none" \/ y = x
  PROVE  Gets(p \o Awaits(t1, kind), f, {x})
BY ThenAwaits, ScenarioAssumption DEF Gets

\* Approved at once.
LEMMA GetsAllDone ==
  ASSUME NEW p, Gets(p, Usual, {Asks1})
  PROVE  Gets(((p \o Approves(t1)) \o LetsGo) \o Awaits(t1, "completed"), Usual,
              {Done({t1}, "ok", <<"taken">>, <<"responded">>)})
<1>1. <<"taken">> = Append(<<>>, "taken") /\ "none" \notin InFlight
  BY Appended DEF InFlight
<1>2. Gets(p \o Approves(t1), Usual, Effecting({t1}, "ok", <<"taken">>, <<"responded">>))
  BY <1>1, UsualIs, GetsApproved DEF Approves, Asks1
<1> QED BY <1>2, UsualIs, GetsDone DEF Done

\* A decision that was not offered submits nothing (interaction.py:38-61).
LEMMA InvalidResponsePasses == Passes(Tasks, TRUE, Usual, InvalidResponse)
<1> DEFINE E == Done({t1}, "ok", <<"taken">>, <<"responded">>)
           p1 == Opening \o Blocks(t1, "answer", "invalid")
                   \o Blocks(t1, "approve_for_session", "invalid")
                   \o Asserts("submissions", t1, {0}) \o Asserts("effects", t1, {0})
           p2 == p1 \o Approves(t1) \o LetsGo \o Awaits(t1, "completed")
           p3 == p2 \o Asserts("effects", t1, {1})
<1>1. Gets(p1, Usual, {Asks1})
  BY GetsOpening, OpeningAsks, AllOfTask, GetsTold, GetsBlocked
<1> HIDE DEF p1
<1>2. Gets(p2, Usual, {E})
  BY <1>1, GetsAllDone
<1> HIDE DEF p2
<1>3. Gets(p3, Usual, {E})
  BY <1>2, AllOfTask, ToldDone, GetsTold
<1> QED BY <1>3 DEF p1, p2, p3, Passes, Gets, InvalidResponse

\* An answered request is not answered again (interaction.py:137-159).
LEMMA LateDuplicatePasses == Passes(Tasks, TRUE, Usual, LateDuplicate)
<1> DEFINE E == Done({t1}, "ok", <<"taken">>, <<"responded">>)
           p1 == Opening \o Approves(t1) \o LetsGo \o Awaits(t1, "completed")
           p2 == p1 \o Blocks(t1, "approve_once", "late")
           p3 == p2 \o Call("cancel", t1)
           p4 == p3 \o Awaits(t1, "completed")
           p5 == p4 \o Asserts("submissions", t1, {1}) \o Asserts("effects", t1, {1})
<1>e. /\ Told(E, "effects") \in {1} /\ Answerable(E, "approve_once") = "late"
           /\ E.outcome = "completed"
      /\ Stopped(E) = E /\ E.reply = "ok" /\ E.sent = <<"taken">>
  BY ToldDone
<1>s. Steady({E}, Usual, Started1(Tasks, TRUE), t1)
  BY UsualIs, SteadyEffecting DEF Done
<1>t. Told(E, "submissions") \in {1}
  <2>1. E.reply \notin InFlight
    BY <1>e DEF InFlight
  <2> HIDE DEF E
  <2> QED BY <1>e, <2>1, Submissions
<1>1. Gets(p1, Usual, {E})
  BY GetsOpening, GetsAllDone
<1> HIDE DEF E, p1
<1>2. Gets(p2, Usual, {E})
  BY <1>1, <1>e, GetsBlocked
<1> HIDE DEF p2
<1>3. Gets(p3, Usual, {E})
  BY <1>2, <1>e, <1>s, ThenCalls, ScenarioAssumption DEF Gets
<1> HIDE DEF p3
<1>4. Gets(p4, Usual, {E})
  BY <1>3, <1>e, <1>s, GetsOver
<1> HIDE DEF p4
<1>5. Gets(p5, Usual, {E})
  BY <1>4, <1>e, <1>t, AllOfTask, GetsTold
<1> QED BY <1>5 DEF p1, p2, p3, p4, p5, Passes, Gets, LateDuplicate

\* No approval for the session is offered (approval.py:29-47).
LEMMA UnboundedGrantPasses == Passes(Tasks, TRUE, Usual, UnboundedGrant)
<1> DEFINE B == Declined("ready", {t1}, "none", <<"taken">>)
           E == Declined("ended", {t1}, "completed", <<"taken">>)
           p1 == Opening \o Blocks(t1, "approve_for_session", "invalid")
                   \o Asserts("submissions", t1, {0}) \o Asserts("effects", t1, {0})
           p2 == p1 \o RespondsInto(t1, "decline", "ok")
           p3 == p2 \o LetsGo
           p4 == p3 \o Awaits(t1, "completed")
           p5 == p4 \o Asserts("effects", t1, {0})
<1>e. /\ Told(E, "effects") \in {0} /\ E.outcome = "completed" /\ B.outcome = "none"
      /\ Steady({E}, Usual, Started1(Tasks, TRUE), t1)
  <2>1. Told(E, "effects") = 0
    BY ToldPast DEF Declined
  <2>2. E.outcome = "completed" /\ B.outcome = "none"
    BY DEF Declined, Past, Standing
  <2>3. Steady({E}, Usual, Started1(Tasks, TRUE), t1)
    BY UsualIs, SteadyQuiet DEF Quiet, Declined, Past, Standing, InFlight
  <2> HIDE DEF E, B
  <2> QED BY <2>1, <2>2, <2>3
<1>1. Gets(p1, Usual, {Asks1})
  BY GetsOpening, OpeningAsks, AllOfTask, GetsTold, GetsBlocked
<1> HIDE DEF p1
<1>2. Gets(p2, Usual, {B} \cup {E})
  <2>1. <<"taken">> = Append(<<>>, "taken") /\ "none" \notin InFlight
    BY Appended DEF InFlight
  <2>2. Leads(Before(Tasks, TRUE, Usual), p1,
              Stage(Usual, Started1(Tasks, TRUE), Nobody, t1, {Asking({t1}, "none", "none", <<>>)}))
    BY <1>1 DEF Gets, Asks1
  <2>3. Leads(Before(Tasks, TRUE, Usual), p2,
              Stage(Usual, Started1(Tasks, TRUE), Nobody, t1,
                    {Declined("ready", {t1}, "none", Append(<<>>, "taken"))}
                      \cup {Declined("ended", {t1}, "completed", Append(<<>>, "taken"))}))
    BY <2>1, <2>2, UsualIs, ThenDeclines, ScenarioAssumption
  <2> QED BY <2>1, <2>3 DEF Gets
<1> HIDE DEF p2, B, E
<1>3. Gets(p3, Usual, {B} \cup {E})
  BY <1>2, UsualIs, GetsGoing
<1> HIDE DEF p3
<1>4. Gets(p4, Usual, {E})
  BY <1>3, <1>e, GetsOver
<1> HIDE DEF p4
<1>5. Gets(p5, Usual, {E})
  BY <1>4, <1>e, AllOfTask, GetsTold
<1> QED BY <1>5 DEF p1, p2, p3, p4, p5, Passes, Gets, UnboundedGrant

\* A scenario goes on to what it knows of a second part, having come to the end of a first one.
LEMMA GetsOn ==
  ASSUME NEW p, NEW s, NEW f, NEW g, NEW R, NEW S, Gets(p, f, R),
         Leads(Stage(f, Started1(Tasks, TRUE), Nobody, t1, R), s,
               Stage(g, Started1(Tasks, TRUE), Nobody, t1, S))
  PROVE  Gets(p \o s, g, S)
BY LeadsOn DEF Gets

\* A response is taken, and its acknowledgement lost (acceptance.py:167-213).
LEMMA LostApprovalPasses == Passes(Tasks, TRUE, Usual, LostResponse("lose_accepted", 1))
<1> DEFINE f == Replying("lose_accepted")
           z == <<"response_unconfirmed">>
           R == Effecting({t1}, "unconfirmed", <<"taken">>, z)
           E == Done({t1}, "unconfirmed", <<"taken">>, z)
           b == Stage(f, Started1(Tasks, TRUE), Nobody, t1, R)
           p1 == Opening \o Sets("response", "lose_accepted")
           p2 == p1 \o RespondsInto(t1, "approve_once", "unconfirmed")
           p3 == p2 \o Asserts("pending", t1, {FALSE}) \o Blocks(t1, "approve_once", "late")
                   \o Asserts("submissions", t1, {1}) \o Asserts("taken", t1, {1})
           s == LetsGo \o Awaits(t1, "completed") \o Asserts("effects", t1, {1})
           p4 == p3 \o s
           p5 == p4 \o Asserts("resolutions", t1, {z})
<1>f. /\ ~f.manual /\ f.hold = FALSE /\ f.response = "lose_accepted"
      /\ Tuned(Usual, f, "response", "lose_accepted")
  BY DEF Usual, Replying, Playing, ControlNames, Tuned
<1>1. Gets(p1, f, {Asks1})
  <2>1. Steady({Asks1}, f, Started1(Tasks, TRUE), t1)
    BY SteadyQuiet DEF Quiet, Asks1, Asking, Standing, InFlight, Replying, Playing
  <2> QED BY <1>f, <2>1, GetsOpening, GetsSet
<1> HIDE DEF p1, f
<1>2. Gets(p2, f, R)
  <2>1. <<"taken">> = Append(<<>>, "taken") /\ "none" \notin InFlight
    BY Appended DEF InFlight
  <2> QED BY <1>1, <1>f, <2>1, GetsApproved DEF Asks1
<1>3. Gets(p3, f, R)
  <2>1. ASSUME NEW x \in R
        PROVE  /\ Told(x, "pending") \in {FALSE} /\ Answerable(x, "approve_once") = "late"
               /\ Told(x, "submissions") \in {1} /\ Told(x, "taken") \in {1}
    <3>1. PICK w, e, o : x = Past(w, {t1}, e, o, "no", "unconfirmed", "approve_once", <<"taken">>,
            z)
      BY DEF Effecting, Approved
    <3>2. x.reply \notin InFlight /\ x.sent = <<"taken">>
      BY <3>1 DEF Past, Standing, InFlight
    <3>3. Told(x, "taken") \in {1}
      BY <3>1, ToldPast, TakenOf
    <3>4. Told(x, "pending") \in {FALSE}
      BY <3>1, PastIsNotPending
    <3>5. Answerable(x, "approve_once") = "late"
      BY <3>1, PastAnswers
    <3> QED BY <3>2, <3>3, <3>4, <3>5, Submissions
  <2> HIDE DEF p2, R
  <2> QED BY <1>2, <2>1, AllOfTask, GetsAllTold, GetsAllBlocked
<1>4. Gets(p4, f, {E})
  <2> HIDE DEF p3
  <2>1. Leads(b, <<>>, b)
    BY <1>3, LeadsAway, LeadsNowhere DEF Gets
  <2>2. Leads(b, (<<>> \o LetsGo) \o Awaits(t1, "completed"),
              Stage(f, Started1(Tasks, TRUE), Nobody, t1, {E}))
    BY <2>1, <1>f, ThenDone, ScenarioAssumption DEF Done
  <2>3. Told(E, "effects") \in {1}
    BY ToldDone
  <2> HIDE DEF b, E
  <2>4. Leads(b, ((<<>> \o LetsGo) \o Awaits(t1, "completed")) \o Asserts("effects", t1, {1}),
              Stage(f, Started1(Tasks, TRUE), Nobody, t1, {E}))
    BY <2>2, <2>3, AllOfTask, ThenTells, ScenarioAssumption
  <2>5. ((<<>> \o LetsGo) \o Awaits(t1, "completed")) \o Asserts("effects", t1, {1}) = s
    BY DEF LetsGo, Sets
  <2> QED BY <1>3, <2>4, <2>5, GetsOn DEF b
<1> HIDE DEF p4
<1>5. Gets(p5, f, {E})
  BY <1>4, AllOfTask, ToldDone, GetsTold
<1>6. LostResponse("lose_accepted", 1) = p5
  BY DEF LostResponse, p1, p2, p3, p4, p5
<1> QED BY <1>5, <1>6 DEF Passes, Gets

\* A pending request is cleared by a cancellation, and the fixture stops the work.
Quitting(w, o, r, d, s, z) == Past(w, {t1}, 0, o, "yes", r, d, s, z)

LEMMA SteadyQuitting ==
  ASSUME NEW f, NEW w, NEW t, NEW r, NEW d, NEW s, NEW z, ~f.manual,
         r \in InFlight => f.holdResponse
  PROVE  /\ Steady({Quitting("asking", "none", r, d, s, z)}
                     \cup {Quitting("ended", "cancelled", r, d, s, z)}, f, w, t)
         /\ Steady({Quitting("ended", "cancelled", r, d, s, z)}, f, w, t)
<1> DEFINE B == Quitting("asking", "none", r, d, s, z)
           C == Quitting("ended", "cancelled", r, d, s, z)
<1>1. Steady({C}, f, w, t)
  BY SteadyQuiet DEF Quiet, Quitting, Past, Standing
<1>2. \A y : Moves(B, y, f, t \in w.guarded, w.shut) => y = C
  BY DEF Quitting, Past, Standing, Moves, JudgedAs, Withdrawing, Live
<1> HIDE DEF B, C
<1>3. Steady({B} \cup {C}, f, w, t)
  BY <1>1, <1>2, SteadyMore
<1> QED BY <1>1, <1>3 DEF B, C

LEMMA ToldQuitting ==
  ASSUME NEW w, NEW o, NEW r, NEW d, NEW s, NEW z
  PROVE  /\ Told(Quitting(w, o, r, d, s, z), "effects") \in {0}
         /\ Told(Quitting(w, o, r, d, s, z), "resolutions") \in {z}
         /\ \A x : Answerable(Quitting(w, o, r, d, s, z), x) = "late"
         /\ Quitting(w, o, r, d, s, z).reply = r /\ Quitting(w, o, r, d, s, z).sent = s
         /\ Quitting(w, o, r, d, s, z).outcome = o
<1> DEFINE x == Quitting(w, o, r, d, s, z)
<1>1. Told(x, "effects") = 0 /\ Told(x, "resolutions") = z
  BY ToldPast DEF Quitting
<1>3. \A d2 : Answerable(x, d2) = "late"
  BY PastAnswers DEF Quitting
<1>4. x.reply = r /\ x.sent = s /\ x.outcome = o
  BY DEF Quitting, Past, Standing
<1> HIDE DEF x
<1>5. Told(x, "effects") \in {0} /\ Told(x, "resolutions") \in {z}
  BY <1>1
<1> QED BY <1>3, <1>4, <1>5 DEF x

LEMMA QuittingIsNotPending ==
  \A w, o, r, d, s, z : Told(Quitting(w, o, r, d, s, z), "pending") \in {FALSE}
BY PastIsNotPending DEF Quitting

\* A response is lost (acceptance.py:167-213).
LEMMA LostDecisionPasses == Passes(Tasks, TRUE, Usual, LostResponse("lose", 0))
<1> DEFINE f == Replying("lose")
           z == <<"response_unconfirmed">>
           L == Past("asking", {t1}, 0, "none", "no", "unconfirmed", "approve_once", <<"lost">>, z)
           B == Quitting("asking", "none", "unconfirmed", "approve_once", <<"lost">>, z)
           C == Quitting("ended", "cancelled", "unconfirmed", "approve_once", <<"lost">>, z)
           S == {B} \cup {C}
           w == Started1(Tasks, TRUE)
           b == Stage(f, w, Nobody, t1, {L})
           p1 == Opening \o Sets("response", "lose")
           p2 == p1 \o RespondsInto(t1, "approve_once", "unconfirmed")
           p3 == p2 \o Asserts("pending", t1, {FALSE}) \o Blocks(t1, "approve_once", "late")
                   \o Asserts("submissions", t1, {1}) \o Asserts("taken", t1, {0})
           s1 == <<>> \o Asserts("effects", t1, {0})
           s2 == s1 \o Asserts("outcome", t1, {"none"})
           s3 == s2 \o Call("cancel", t1)
           s4 == s3 \o Until("outcome", t1, AnyOutcome)
           p5 == (p3 \o s4) \o Asserts("resolutions", t1, {z})
<1>f. /\ ~f.manual /\ f.hold = FALSE /\ f.response = "lose"
      /\ Tuned(Usual, f, "response", "lose")
  BY DEF Usual, Replying, Playing, ControlNames, Tuned
<1>1. Gets(p1, f, {Asks1})
  <2>1. Steady({Asks1}, f, w, t1)
    BY SteadyQuiet DEF Quiet, Asks1, Asking, Standing, InFlight, Replying, Playing
  <2> QED BY <1>f, <2>1, GetsOpening, GetsSet
<1> HIDE DEF p1, f
<1>2. Gets(p2, f, {L})
  <2>1. Append(<<>>, "lost") = <<"lost">> /\ "none" \notin InFlight /\ "approve_once" \in Offered
    BY Appended DEF InFlight, Offered
  <2>2. Leads(Before(Tasks, TRUE, Usual), p1,
          Stage(f, w, Nobody, t1, {Asking({t1}, "none", "none", <<>>)}))
    BY <1>1 DEF Gets, Asks1
  <2>3. Leads(Before(Tasks, TRUE, Usual), p2, Stage(f, w, Nobody, t1,
              {Past("asking", {t1}, 0, "none", "no", "unconfirmed", "approve_once",
                    Append(<<>>, "lost"), <<"response_unconfirmed">>)}))
    BY <1>f, <2>1, <2>2, ThenLoses, ScenarioAssumption
  <2> QED BY <2>1, <2>3 DEF Gets
<1>x. /\ Told(L, "pending") \in {FALSE} /\ Told(L, "taken") \in {0} /\ Told(L, "effects") \in {0}
      /\ Told(L, "outcome") \in {"none"} /\ Answerable(L, "approve_once") = "late"
      /\ Told(L, "submissions") \in {1}
  <2>1. Told(L, "pending") \in {FALSE}
    BY PastIsNotPending
  <2>2. Told(L, "taken") \in {0} /\ Told(L, "effects") \in {0} /\ Told(L, "outcome") \in {"none"}
    BY ToldPast, TakenOf
  <2>3. Answerable(L, "approve_once") = "late"
    BY PastAnswers
  <2>4. L.reply \notin InFlight /\ L.sent = <<"lost">>
    BY DEF Past, Standing, InFlight
  <2> HIDE DEF L
  <2> QED BY <2>1, <2>2, <2>3, <2>4, Submissions
<1>y. Stopped(L) = B
  BY DEF Stopped, Quitting, Past, Standing, Withdrawing
<1>z. /\ \A x \in S : Told(x, "outcome") \in AnyOutcome => x \in {C}
      /\ Told(C, "resolutions") \in {z}
  <2>1. B.outcome = "none" /\ Told(C, "resolutions") \in {z}
    BY ToldQuitting
  <2> HIDE DEF B, C
  <2> QED BY <2>1 DEF Told, AnyOutcome
<1>s. Steady(S, f, w, t1) /\ Steady({C}, f, w, t1)
  BY <1>f, SteadyQuitting DEF InFlight
<1> HIDE DEF L, B, C, S
<1>3. Gets(p3, f, {L})
  <2> HIDE DEF p2
  <2> QED BY <1>2, <1>x, AllOfTask, GetsTold, GetsBlocked
<1> HIDE DEF p3, w
<1>4. Leads(b, s2, b)
  <2>1. Leads(b, <<>>, b)
    BY <1>3, LeadsAway, LeadsNowhere DEF Gets, w
  <2> QED BY <2>1, <1>x, AllOfTask, ThenTells, ScenarioAssumption
<1> HIDE DEF s2
<1>5. Leads(b, s3, Stage(f, w, Nobody, t1, S))
  <2>1. \A x \in {L} : Stopped(x) \in S
    BY <1>y DEF S
  <2> QED BY <1>4, <2>1, <1>s, ThenCalls, ScenarioAssumption
<1> HIDE DEF s3
<1>6. Leads(b, s4, Stage(f, w, Nobody, t1, {C}))
  BY <1>5, <1>z, <1>s, AllOfTask, ThenWaits, ScenarioAssumption
<1> HIDE DEF s4
<1>7. Gets(p5, f, {C})
  <2>1. Gets(p3 \o s4, f, {C})
    BY <1>3, <1>6, GetsOn DEF w
  <2> QED BY <2>1, <1>z, AllOfTask, GetsTold
<1>8. LostResponse("lose", 0) = p5
  <2>1. s4 = Asserts("effects", t1, {0}) \o Asserts("outcome", t1, {"none"}) \o
             Call("cancel", t1) \o Until("outcome", t1, AnyOutcome)
    <3>1. s1 = Asserts("effects", t1, {0})
      BY DEF Asserts
    <3> HIDE DEF s1
    <3> QED BY <3>1 DEF s2, s3, s4
  <2> QED BY <2>1 DEF LostResponse, p1, p2, p3
<1> QED BY <1>7, <1>8 DEF Passes, Gets

\* The responder gives up while its response is under way (interaction.py:63-78).
LEMMA CancelledResponderPasses == Passes(Tasks, TRUE, Usual, CancelledResponder)
<1> DEFINE f == Playing("accept", "accept", FALSE, TRUE, FALSE)
           W == Asking({t1}, "waiting", "approve_once", <<>>)
           A == Asking({t1}, "abandoned", "approve_once", <<>>)
           R == Effecting({t1}, "ok", <<"taken">>, <<"responded">>)
           S == {A} \cup R
           E == Done({t1}, "ok", <<"taken">>, <<"responded">>)
           w == Started1(Tasks, TRUE)
           p1 == Opening \o Sets("holdResponse", TRUE)
           p2 == p1 \o Responds(t1, "approve_once")
           p3 == p2 \o Call("abandon", t1)
           p4 == p3 \o Blocks(t1, "approve_once", "late") \o Asserts("submissions", t1, {1})
           p5 == p4 \o Sets("holdResponse", FALSE)
           p6 == p5 \o LetsGo
           p7 == p6 \o Awaits(t1, "completed")
           p8 == p7 \o Asserts("effects", t1, {1})
<1>f. /\ ~f.manual /\ f.hold = FALSE /\ f.holdResponse = TRUE
      /\ Tuned(Usual, f, "holdResponse", TRUE)
  BY DEF Usual, Playing, ControlNames, Tuned
<1>g. Tuned(f, Usual, "holdResponse", FALSE)
  BY DEF Usual, Playing, ControlNames, Tuned
<1>s. /\ Steady({Asks1}, f, w, t1) /\ Steady({W}, f, w, t1) /\ Steady({A}, f, w, t1)
      /\ Steady(S, Usual, w, t1) /\ Steady({E}, Usual, w, t1)
  <2>1. Quiet(Asks1, f, w, t1) /\ Quiet(W, f, w, t1) /\ Quiet(A, f, w, t1)
    BY <1>f DEF Quiet, Asks1, Asking, Standing, InFlight
  <2>2. \A y : Moves(A, y, Usual, t1 \in w.guarded, w.shut)
                 => y = Approved("allowed", {t1}, 0, "none", "ok",
                       Append(<<>>, "taken"), <<"responded">>)
    BY UsualIs DEF Asking, Standing, Moves, Answer, Approved, Past, Known, Reaches, Withdrawing,
       InFlight, Live
  <2>3. Append(<<>>, "taken") = <<"taken">>
    BY Appended
  <2>4. Approved("allowed", {t1}, 0, "none", "ok", <<"taken">>, <<"responded">>) \in R
    BY DEF Effecting
  <2>5. Steady(R, Usual, w, t1) /\ Steady({E}, Usual, w, t1)
    BY UsualIs, SteadyEffecting DEF Done
  <2> HIDE DEF A, R, E, W, w, f
  <2>6. Steady({A} \cup R, Usual, w, t1)
    BY <2>2, <2>3, <2>4, <2>5, SteadyMore
  <2> QED BY <2>1, <2>5, <2>6, SteadyQuiet
<1>x. /\ Answerable(Asks1, "approve_once") = "submit"
           /\ Submitting(Asks1, "waiting", "approve_once") = W
      /\ W.decision = "approve_once" /\ Submitting(W, "abandoned", "approve_once") = A
      /\ Answerable(A, "approve_once") = "late" /\ A.outcome = "none" /\ E.outcome = "completed"
  BY DEF Asks1, Asking, Standing, Answerable, Submitting, Offered, InFlight, Done, Approved, Past
<1>y. Told(A, "submissions") \in {1}
  <2>1. A.reply \in InFlight /\ A.sent = <<>>
    BY DEF Asking, Standing, InFlight
  <2> HIDE DEF A
  <2>2. Told(A, "submissions") = Len(<<>>) + 1
    BY <2>1 DEF Told
  <2>3. Len(<<>>) = 0
    OBVIOUS
  <2> QED BY <2>2, <2>3
<1>z. \A x \in S : x.outcome = "none" \/ x = E
  <2>1. \A x \in R : x.outcome = "none" \/ x = E
    BY DEF Effecting, Approved, Past, Standing, Done
  <2> HIDE DEF A, R, E
  <2> QED BY <2>1, <1>x
<1> HIDE DEF f, W, A, R, E, w
<1>1. Gets(p1, f, {Asks1})
  BY <1>f, <1>s, GetsOpening, GetsSet DEF w
<1> HIDE DEF p1
<1>2. Gets(p2, f, {W})
  <2>1. \A x \in {Asks1} : Answerable(x, "approve_once") = "submit"
          /\ Submitting(x, "waiting", "approve_once") \in {W}
    BY <1>x
  <2> QED BY <1>1, <1>s, <2>1, ThenResponds, ScenarioAssumption DEF Gets, w
<1> HIDE DEF p2
<1>3. Gets(p3, f, {A})
  <2>1. \A x \in {W} : x.reply = "waiting" => Submitting(x, "abandoned", x.decision) \in {A}
    BY <1>x
  <2> QED BY <1>2, <1>s, <2>1, ThenCalls, ScenarioAssumption DEF Gets, w
<1> HIDE DEF p3
<1>4. Gets(p4, f, {A})
  BY <1>3, <1>x, <1>y, AllOfTask, GetsTold, GetsBlocked
<1> HIDE DEF p4
<1>5. Gets(p5, Usual, S)
  <2>1. {A} \subseteq S
    OBVIOUS
  <2> HIDE DEF S
  <2>2. Steady(S, Usual, w, t1)
    BY <1>s
  <2> QED BY <1>4, <1>g, <2>1, <2>2, GetsSetMore DEF w
<1> HIDE DEF p5, S
<1>6. Gets(p6, Usual, S)
  BY <1>5, UsualIs, GetsGoing
<1> HIDE DEF p6
<1>7. Gets(p7, Usual, {E})
  BY <1>6, <1>s, <1>x, <1>z, GetsOver DEF w
<1> HIDE DEF p7
<1>8. Gets(p8, Usual, {E})
  <2>1. Told(E, "effects") \in {1}
    BY ToldDone DEF E
  <2> QED BY <1>7, <2>1, AllOfTask, GetsTold
<1> QED BY <1>8 DEF p1, p2, p3, p4, p5, p6, p7, p8, Passes, Gets, CancelledResponder

\* A cancellation withdraws the request (interaction.py:80-103).
LEMMA CancellationClearsPasses == Passes(Tasks, TRUE, Usual, CancellationClears)
<1> DEFINE z == <<"cancellation_requested">>
           B == Quitting("asking", "none", "none", "none", <<>>, z)
           C == Quitting("ended", "cancelled", "none", "none", <<>>, z)
           S == {B} \cup {C}
           w == Started1(Tasks, TRUE)
           p1 == Opening \o Call("cancel", t1)
           p2 == p1 \o Asserts("pending", t1, {FALSE}) \o Blocks(t1, "approve_once", "late")
           p3 == p2 \o Awaits(t1, "cancelled")
           p4 == p3 \o LetsGo
           p5 == p4 \o Asserts("effects", t1, {0}) \o Asserts("submissions", t1, {0})
                   \o Asserts("resolutions", t1, {z})
<1>s. Steady(S, Usual, w, t1) /\ Steady({C}, Usual, w, t1)
  BY UsualIs, SteadyQuitting DEF InFlight
<1>x. /\ Answerable(B, "approve_once") = "late" /\ Answerable(C, "approve_once") = "late"
      /\ Told(C, "effects") \in {0} /\ Told(C, "resolutions") \in {z}
      /\ B.outcome = "none" /\ C.outcome = "cancelled" /\ C.reply = "none" /\ C.sent = <<>>
  BY ToldQuitting
<1>y. Told(B, "pending") \in {FALSE} /\ Told(C, "pending") \in {FALSE}
  BY QuittingIsNotPending
<1>z. Stopped(Asks1) = B
  <2>1. Append(<<>>, "cancellation_requested") = z
    BY Appended
  <2> HIDE DEF z
  <2> QED BY <2>1 DEF Stopped, Quitting, Past, Asks1, Asking, Standing, Withdrawing
<1> HIDE DEF z, B, C, w
<1>u. Told(C, "submissions") \in {0}
  BY <1>x, Submissions DEF InFlight
<1>1. Gets(p1, Usual, S)
  <2>1. \A x \in {Asks1} : Stopped(x) \in S
    BY <1>z
  <2> HIDE DEF S
  <2> QED BY <2>1, <1>s, GetsOpening, ThenCalls, ScenarioAssumption DEF Gets, w
<1> HIDE DEF p1
<1>2. Gets(p2, Usual, S)
  <2>1. \A x \in S : Told(x, "pending") \in {FALSE}
    BY <1>y
  <2>2. \A x \in S : Answerable(x, "approve_once") = "late"
    BY <1>x
  <2> HIDE DEF S
  <2> QED BY <1>1, <2>1, <2>2, AllOfTask, GetsAllTold, GetsAllBlocked
<1> HIDE DEF p2
<1>3. Gets(p3, Usual, {C})
  <2>1. \A x \in S : x.outcome = "none" \/ x = C
    BY <1>x
  <2> HIDE DEF S
  <2> QED BY <1>2, <1>s, <1>x, <2>1, GetsOver DEF w
<1> HIDE DEF p3
<1>4. Gets(p4, Usual, {C})
  BY <1>3, UsualIs, GetsGoing
<1> HIDE DEF p4
<1>5. Gets(p5, Usual, {C})
  BY <1>4, <1>x, <1>u, AllOfTask, GetsTold
<1> QED BY <1>5 DEF p1, p2, p3, p4, p5, z, Passes, Gets, CancellationClears

\* A response is delivered after the cancellation (interaction.py:105-135).
LEMMA LateDeliveryPasses == Passes(Tasks, TRUE, Usual, LateDelivery)
<1> DEFINE f == Playing("accept", "accept", FALSE, TRUE, FALSE)
           z == <<"cancellation_requested">>
           W == Asking({t1}, "waiting", "approve_once", <<>>)
           B == Quitting("asking", "none", "waiting", "approve_once", <<>>, z)
           C == Quitting("ended", "cancelled", "waiting", "approve_once", <<>>, z)
           D == Quitting("ended", "cancelled", "unconfirmed", "approve_once", <<"lost">>, z)
           S == {B} \cup {C}
           R == {C} \cup {D}
           w == Started1(Tasks, TRUE)
           p1 == Opening \o Sets("holdResponse", TRUE)
           p2 == p1 \o Responds(t1, "approve_once")
           p3 == p2 \o Call("cancel", t1)
           p4 == p3 \o Awaits(t1, "cancelled")
           p5 == p4 \o Sets("holdResponse", FALSE)
           p6 == p5 \o Answered(t1, "unconfirmed")
           p7 == p6 \o LetsGo
           p8 == p7 \o Awaits(t1, "cancelled")
           p9 == p8 \o Asserts("pending", t1, {FALSE}) \o Asserts("effects", t1, {0})
                   \o Asserts("resolutions", t1, {z})
<1>f. ~f.manual /\ f.holdResponse = TRUE /\ Tuned(Usual, f, "holdResponse", TRUE)
      /\ Tuned(f, Usual, "holdResponse", FALSE)
  BY DEF Usual, Playing, ControlNames, Tuned
<1>s. Steady({Asks1}, f, w, t1) /\ Steady({W}, f, w, t1)
  BY <1>f, SteadyQuiet DEF Quiet, Asks1, Asking, Standing, InFlight
<1>t. /\ Steady(S, f, w, t1) /\ Steady({C}, f, w, t1)
      /\ Steady(R, Usual, w, t1) /\ Steady({D}, Usual, w, t1)
  <2>1. Steady(S, f, w, t1) /\ Steady({C}, f, w, t1) /\ Steady({D}, Usual, w, t1)
    BY <1>f, UsualIs, SteadyQuitting DEF InFlight
  <2>2. Append(<<>>, "lost") = <<"lost">>
    BY Appended
  <2>3. \A y : Moves(C, y, Usual, t1 \in w.guarded, w.shut)
                 => y = Quitting("ended", "cancelled", "unconfirmed", "approve_once",
                                 Append(<<>>, "lost"), z)
    BY UsualIs DEF Quitting, Past, Standing, Moves, Answer, Known, Reaches, Withdrawing, InFlight,
       Live
  <2> HIDE DEF z, w, C
  <2>4. \A y : Moves(C, y, Usual, t1 \in w.guarded, w.shut) => y = D
    BY <2>2, <2>3
  <2> HIDE DEF D
  <2>5. Steady(R, Usual, w, t1)
    BY <2>1, <2>4, SteadyMore
  <2> QED BY <2>1, <2>5
<1>x. /\ Answerable(Asks1, "approve_once") = "submit"
      /\ Submitting(Asks1, "waiting", "approve_once") = W
  BY DEF Asks1, Asking, Standing, Answerable, Submitting, Offered, InFlight
<1>y. Stopped(W) = B
  <2>1. Append(<<>>, "cancellation_requested") = z
    BY Appended
  <2> HIDE DEF z
  <2> QED BY <2>1 DEF Stopped, Quitting, Past, Asking, Standing, Withdrawing
<1>z. /\ B.outcome = "none" /\ C.outcome = "cancelled" /\ D.outcome = "cancelled"
      /\ C.reply = "waiting" /\ D.reply = "unconfirmed"
      /\ Told(D, "effects") \in {0} /\ Told(D, "resolutions") \in {z}
  BY ToldQuitting
<1>v. Told(D, "pending") \in {FALSE}
  BY QuittingIsNotPending
<1> HIDE DEF f, z, W, B, C, D, w
<1>1. Gets(p1, f, {Asks1})
  BY <1>f, <1>s, GetsOpening, GetsSet DEF w
<1> HIDE DEF p1
<1>2. Gets(p2, f, {W})
  <2>1. \A x \in {Asks1} : Answerable(x, "approve_once") = "submit"
          /\ Submitting(x, "waiting", "approve_once") \in {W}
    BY <1>x
  <2> QED BY <1>1, <1>s, <2>1, ThenResponds, ScenarioAssumption DEF Gets, w
<1> HIDE DEF p2
<1>3. Gets(p3, f, S)
  <2>1. \A x \in {W} : Stopped(x) \in S
    BY <1>y
  <2> HIDE DEF S
  <2> QED BY <1>2, <1>t, <2>1, ThenCalls, ScenarioAssumption DEF Gets, w
<1> HIDE DEF p3
<1>4. Gets(p4, f, {C})
  <2>1. \A x \in S : x.outcome = "none" \/ x = C
    BY <1>z
  <2> HIDE DEF S
  <2> QED BY <1>3, <1>t, <1>z, <2>1, GetsOver DEF w
<1> HIDE DEF p4
<1>5. Gets(p5, Usual, R)
  <2>1. {C} \subseteq R
    OBVIOUS
  <2> HIDE DEF R
  <2> QED BY <1>4, <1>f, <1>t, <2>1, GetsSetMore DEF w
<1> HIDE DEF p5
<1>6. Gets(p6, Usual, {D})
  <2>1. \A x \in R : x.reply \in {"ok", "transport", "unconfirmed"} => x \in {D}
    BY <1>z
  <2>2. \A x \in {D} : x.reply = "unconfirmed"
    BY <1>z
  <2> HIDE DEF R
  <2> QED BY <1>5, <1>t, <2>1, <2>2, ThenAnswers, ScenarioAssumption DEF Gets, w
<1> HIDE DEF p6
<1>7. Gets(p7, Usual, {D})
  BY <1>6, UsualIs, GetsGoing
<1> HIDE DEF p7
<1>8. Gets(p8, Usual, {D})
  BY <1>7, <1>t, <1>z, GetsOver DEF w
<1> HIDE DEF p8
<1>9. Gets(p9, Usual, {D})
  BY <1>8, <1>z, <1>v, AllOfTask, GetsTold
<1> QED BY <1>9 DEF p1, p2, p3, p4, p5, p6, p7, p8, p9, z, Passes, Gets, LateDelivery

\* Where each of three tasks can stand.
Trio(f, w, x, y, z) == Scene(f, w, Cast(x, y, z))

LEMMA TrioIs ==
  ASSUME NEW f, NEW w, NEW x, NEW y, NEW z, NEW k
  PROVE  /\ Stage(f, w, Cast(k, y, z), t1, x) = Trio(f, w, x, y, z)
         /\ Stage(f, w, Cast(x, k, z), t2, y) = Trio(f, w, x, y, z)
         /\ Stage(f, w, Cast(x, y, k), t3, z) = Trio(f, w, x, y, z)
<1>1. Put(Cast(k, y, z), t1, x) = Cast(x, y, z)
  BY DEF Put, Cast
<1>2. Put(Cast(x, k, z), t2, y) = Cast(x, y, z)
  BY NamesAssumption DEF Put, Cast
<1>3. Put(Cast(x, y, k), t3, z) = Cast(x, y, z)
  BY NamesAssumption DEF Put, Cast
<1> QED BY <1>1, <1>2, <1>3 DEF Stage, Trio

LEMMA CastIs ==
  ASSUME NEW x, NEW y, NEW z
  PROVE  Cast(x, y, z)[t1] = x /\ Cast(x, y, z)[t2] = y /\ Cast(x, y, z)[t3] = z
BY ScenarioAssumption, NamesAssumption DEF Cast

\* Who is on context c.
LEMMA WhoIsThere ==
  ASSUME NEW w, NEW x, NEW y, NEW z, NEW c, w.via = Vias(x, y, z)
  PROVE  /\ y = NoHandle /\ z = NoHandle /\ x \in Handles /\ w.on[x] = c => At(w, c) = {t1}
         /\ x \in Handles /\ w.on[x] # c /\ y = NoHandle /\ z = NoHandle => At(w, c) = {}
         /\ /\ x \in Handles /\ w.on[x] # c /\ y \in Handles /\ w.on[y] = c /\ z = NoHandle
            => At(w, c) = {t2}
         /\ /\ x \in Handles /\ w.on[x] # c /\ y \in Handles /\ w.on[y] # c /\ z = NoHandle
            => At(w, c) = {}
         /\ /\ x \in Handles /\ w.on[x] = c /\ y \in Handles /\ w.on[y] = c /\ z = NoHandle
            => At(w, c) = {t1, t2}
<1> DEFINE V == Vias(x, y, z)
<1>1. /\ \A t \in Tasks : V[t] = IF t = t1 THEN x ELSE IF t = t2 THEN y ELSE IF t = t3 THEN z
           ELSE NoHandle
      /\ w.via = V /\ t1 \in Tasks /\ t2 \in Tasks /\ t3 \in Tasks
  BY ScenarioAssumption DEF Vias
<1> HIDE DEF V
<1> QED BY <1>1, NamesAssumption, NoHandleAssumption DEF At

\* A second task asks, and is declined: no grant is left of the first one.
LEMMA ThenNothingIsGranted ==
  ASSUME NEW a, NEW p, NEW w, NEW v, NEW T, NEW h, NEW m,
         Leads(a, p, Stage(Usual, w, T, t2, {Fresh})), Admits(w, v, T, h, t2, m), t2 \in v.guarded
  PROVE  \E q : Leads(a, p \o Starts(h, t2) \o Until("pending", t2, {TRUE})
         \o Asserts("effects", t2, {0})
                           \o RespondsInto(t2, "decline", "ok") \o LetsGo \o Awaits(t2, "completed")
                           \o Asserts("effects", t2, {0}), q)
<1> DEFINE A == Asking(m, "none", "none", <<>>)
           B == Declined("ready", m, "none", <<"taken">>)
           E == Declined("ended", m, "completed", <<"taken">>)
           p1 == p \o Starts(h, t2) \o Until("pending", t2, {TRUE})
           p2 == p1 \o Asserts("effects", t2, {0})
           p3 == p2 \o RespondsInto(t2, "decline", "ok")
           p4 == p3 \o LetsGo
           p5 == p4 \o Awaits(t2, "completed")
           p6 == p5 \o Asserts("effects", t2, {0})
<1>0. t2 \in Tasks
  BY ScenarioAssumption
<1>e. /\ Told(E, "effects") \in {0} /\ E.outcome = "completed" /\ B.outcome = "none"
      /\ Steady({E}, Usual, v, t2) /\ Told(A, "effects") \in {0}
  <2>1. Told(E, "effects") = 0 /\ Told(A, "effects") = 0
    BY ToldPast, ToldAsking DEF Declined
  <2>2. E.outcome = "completed" /\ B.outcome = "none"
    BY DEF Declined, Past, Standing
  <2>3. Steady({E}, Usual, v, t2)
    BY UsualIs, SteadyQuiet DEF Quiet, Declined, Past, Standing, InFlight
  <2> HIDE DEF E, B, A
  <2> QED BY <2>1, <2>2, <2>3
<1>1. Leads(a, p1, Stage(Usual, v, T, t2, {A}))
  BY UsualIs, ThenOpens
<1> HIDE DEF p1
<1>2. Leads(a, p2, Stage(Usual, v, T, t2, {A}))
  <2> HIDE DEF A
  <2> QED BY <1>0, <1>1, <1>e, AllOfTask, ThenTells
<1> HIDE DEF p2
<1>3. Leads(a, p3, Stage(Usual, v, T, t2, {B} \cup {E}))
  <2>1. <<"taken">> = Append(<<>>, "taken") /\ "none" \notin InFlight
    BY Appended DEF InFlight
  <2>2. Leads(a, p3, Stage(Usual, v, T, t2, {Declined("ready", m, "none", Append(<<>>, "taken"))}
                                            \cup {Declined("ended", m, "completed",
                                                  Append(<<>>, "taken"))}))
    BY <1>0, <1>2, <2>1, UsualIs, ThenDeclines
  <2> QED BY <2>1, <2>2
<1> HIDE DEF p3, A, B, E
<1>4. Leads(a, p4, Stage(Usual, v, T, t2, {B} \cup {E}))
  BY <1>0, <1>3, UsualIs, ThenGoes
<1> HIDE DEF p4
<1>5. Leads(a, p5, Stage(Usual, v, T, t2, {E}))
  <2>1. \A x \in {B} \cup {E} : x.outcome = "none" \/ x \in {E}
    BY <1>e
  <2>2. \A x \in {E} : x.outcome = "completed"
    BY <1>e
  <2> QED BY <1>0, <1>4, <1>e, <2>1, <2>2, ThenAwaits
<1> HIDE DEF p5
<1>6. Leads(a, p6, Stage(Usual, v, T, t2, {E}))
  BY <1>0, <1>5, <1>e, AllOfTask, ThenTells
<1> QED BY <1>6 DEF p1, p2, p3, p4, p5, p6

\* Where an approved task is left, it is in the way of no other one.
LEMMA DoneSettles ==
  ASSUME NEW m, NEW r, NEW s, NEW z
  PROVE  /\ ~Uncertain(Done(m, r, s, z)) /\ ~InTheWay(Done(m, r, s, z))
BY DEF Uncertain, InTheWay, Done, Approved, Past, Standing, Live

LEMMA GetsEffect ==
  Gets(Opening \o Approves(t1) \o LetsGo \o Awaits(t1, "completed")
        \o Asserts("effects", t1, {1}), Usual,
       {Done({t1}, "ok", <<"taken">>, <<"responded">>)})
<1> DEFINE E == Done({t1}, "ok", <<"taken">>, <<"responded">>)
<1>1. Gets(Opening \o Approves(t1) \o LetsGo \o Awaits(t1, "completed"), Usual, {E})
  BY GetsOpening, GetsAllDone
<1>2. Told(E, "effects") \in {1}
  BY ToldDone
<1> HIDE DEF E
<1>3. Gets(Opening \o Approves(t1) \o LetsGo \o Awaits(t1, "completed")
        \o Asserts("effects", t1, {1}),
           Usual, {E})
  BY <1>1, <1>2, AllOfTask, GetsTold
<1> QED BY <1>3 DEF E

\* A second task of the same session asks again (approval.py:49-79).
LEMMA RepeatedEffectPasses == Passes(Tasks, TRUE, Usual, RepeatedEffect(FALSE))
<1> DEFINE E == Done({t1}, "ok", <<"taken">>, <<"responded">>)
           T == Cast({E}, {Fresh}, {Fresh})
           w == Started1(Tasks, TRUE)
           o == Hands(c1, NoContext, NoContext)
           v == House(Tasks, TRUE, o, {h1}, Vias(h1, h1, NoHandle))
           b == Stage(Usual, w, Nobody, t1, {E})
           p1 == Opening \o Approves(t1) \o LetsGo \o Awaits(t1, "completed")
                 \o Asserts("effects", t1, {1})
           p2 == p1 \o <<>>
<1>0. {t1, t2} \subseteq Tasks /\ h1 \in Handles
  BY ScenarioAssumption
<1>1. Gets(p1, Usual, {E})
  BY GetsEffect
<1>e. ~Uncertain(E) /\ ~InTheWay(E)
  BY DoneSettles
<1>w. /\ w.via = Vias(h1, NoHandle, NoHandle) /\ w.usable = {h1} /\ w.on[h1] = c1
      /\ t2 \in v.guarded
  BY <1>0 DEF Started1, House, World, Hands
<1>v. TurnsWorld(w, [do |-> "start", of |-> <<h1, t2>>], v)
  <2>1. \A x \in Tasks : Vias(h1, h1, NoHandle)[x] = IF x = t2 THEN h1
          ELSE Vias(h1, NoHandle, NoHandle)[x]
    BY NamesAssumption DEF Vias
  <2> QED BY <2>1, HouseStarts DEF Started1
<1>t. T[t1] = {E}
  BY CastIs
<1> HIDE DEF E, T, w, v, b, p1
<1>b. b = Stage(Usual, w, T, t2, {Fresh})
  <2>1. b = Trio(Usual, w, {E}, {Fresh}, {Fresh})
    BY TrioIs DEF b, Nobody
  <2>2. Stage(Usual, w, T, t2, {Fresh}) = Trio(Usual, w, {E}, {Fresh}, {Fresh})
    BY TrioIs DEF T
  <2> QED BY <2>1, <2>2
<1>2. Leads(Before(Tasks, TRUE, Usual), p2, Stage(Usual, w, T, t2, {Fresh}))
  <2>1. Leads(Before(Tasks, TRUE, Usual), p1, b)
    BY <1>1 DEF Gets, b, w
  <2>2. Leads(b, <<>>, b)
    BY <2>1, LeadsAway, LeadsNowhere
  <2> QED BY <2>1, <2>2, <1>b, LeadsOn
<1>3. Admits(w, v, T, h1, t2, {t2} \cup E.saw)
  <2>1. At(w, w.on[h1]) = {t1}
    BY <1>0, <1>w, WhoIsThere
  <2>2. h1 \in w.usable
    BY <1>w
  <2> QED BY <1>0, <1>e, <1>v, <1>t, <2>1, <2>2, NamesAssumption, AdmitsSecond
<1> HIDE DEF p2
<1>4. PICK q : Leads(Before(Tasks, TRUE, Usual),
                     p2 \o Starts(h1, t2) \o Until("pending", t2, {TRUE})
                           \o Asserts("effects", t2, {0})
                        \o RespondsInto(t2, "decline", "ok") \o LetsGo \o Awaits(t2, "completed")
                        \o Asserts("effects", t2, {0}), q)
  BY <1>2, <1>3, <1>w, ThenNothingIsGranted
<1>5. RepeatedEffect(FALSE) =
        p2 \o Starts(h1, t2) \o Until("pending", t2, {TRUE}) \o Asserts("effects", t2, {0})
           \o RespondsInto(t2, "decline", "ok") \o LetsGo \o Awaits(t2, "completed")
           \o Asserts("effects", t2, {0})
  BY DEF RepeatedEffect, p1, p2
<1> QED BY <1>4, <1>5 DEF Passes

\* A task of another session asks again (approval.py:49-79).
LEMMA NewSessionPasses == Passes(Tasks, TRUE, Usual, RepeatedEffect(TRUE))
<1> DEFINE E == Done({t1}, "ok", <<"taken">>, <<"responded">>)
           T == Cast({E}, {Fresh}, {Fresh})
           w == Started1(Tasks, TRUE)
           o == Hands(c1, c2, NoContext)
           u == House(Tasks, TRUE, o, {h1} \cup {h2}, Vias(h1, NoHandle, NoHandle))
           v == House(Tasks, TRUE, o, {h1} \cup {h2}, Vias(h1, h2, NoHandle))
           i == [do |-> "create", of |-> <<h2, c2>>]
           p1 == Opening \o Approves(t1) \o LetsGo \o Awaits(t1, "completed")
                 \o Asserts("effects", t1, {1})
           p2 == p1 \o Creates(h2, c2)
<1>0. {t1, t2} \subseteq Tasks /\ {h1, h2} \subseteq Handles
  BY ScenarioAssumption
<1>1. Gets(p1, Usual, {E})
  BY GetsEffect
<1>u. TurnsWorld(w, i, u)
  <2>1. \A x \in Handles : o[x] = IF x = h2 THEN c2 ELSE Hands(c1, NoContext, NoContext)[x]
    BY NamesAssumption DEF Hands
  <2>2. i.do = "create" /\ i.of[1] = h2 /\ i.of[2] = c2
    OBVIOUS
  <2> HIDE DEF i, o
  <2> QED BY <1>0, <2>1, <2>2, HouseOpens DEF Started1
<1>i. i.do = "create" /\ Creates(h2, c2) = <<i>>
  BY DEF Creates, Call
<1>w. /\ u.via = Vias(h1, NoHandle, NoHandle) /\ h2 \in u.usable /\ u.on[h1] = c1 /\ u.on[h2] = c2
      /\ t2 \in v.guarded
  BY <1>0, NamesAssumption DEF House, World, Hands
<1>v. TurnsWorld(u, [do |-> "start", of |-> <<h2, t2>>], v)
  <2>1. \A x \in Tasks : Vias(h1, h2, NoHandle)[x] = IF x = t2 THEN h2
          ELSE Vias(h1, NoHandle, NoHandle)[x]
    BY NamesAssumption DEF Vias
  <2> QED BY <2>1, HouseStarts
<1> HIDE DEF E, T, w, u, v, i, p1
<1>b. Stage(Usual, u, Nobody, t1, {E}) = Stage(Usual, u, T, t2, {Fresh})
  <2>1. Stage(Usual, u, Nobody, t1, {E}) = Trio(Usual, u, {E}, {Fresh}, {Fresh})
    BY TrioIs DEF Nobody
  <2>2. Stage(Usual, u, T, t2, {Fresh}) = Trio(Usual, u, {E}, {Fresh}, {Fresh})
    BY TrioIs DEF T
  <2> QED BY <2>1, <2>2
<1>2. Leads(Before(Tasks, TRUE, Usual), p2, Stage(Usual, u, T, t2, {Fresh}))
  <2>1. Leads(Before(Tasks, TRUE, Usual), p1, Stage(Usual, w, Nobody, t1, {E}))
    BY <1>1 DEF Gets, w
  <2>2. Leads(Before(Tasks, TRUE, Usual), p2, Stage(Usual, u, Nobody, t1, {E}))
    BY <1>0, <1>u, <1>i, <2>1, ThenTurns
  <2> QED BY <2>2, <1>b
<1>3. Admits(u, v, T, h2, t2, {t2})
  <2>1. At(u, u.on[h2]) = {}
    BY <1>0, <1>w, NamesAssumption, WhoIsThere
  <2> QED BY <1>0, <1>v, <1>w, <2>1, AdmitsFirst
<1> HIDE DEF p2
<1>4. PICK q : Leads(Before(Tasks, TRUE, Usual),
                     p2 \o Starts(h2, t2) \o Until("pending", t2, {TRUE})
                           \o Asserts("effects", t2, {0})
                        \o RespondsInto(t2, "decline", "ok") \o LetsGo \o Awaits(t2, "completed")
                        \o Asserts("effects", t2, {0}), q)
  BY <1>2, <1>3, <1>w, ThenNothingIsGranted
<1>5. RepeatedEffect(TRUE) =
        p2 \o Starts(h2, t2) \o Until("pending", t2, {TRUE}) \o Asserts("effects", t2, {0})
           \o RespondsInto(t2, "decline", "ok") \o LetsGo \o Awaits(t2, "completed")
           \o Asserts("effects", t2, {0})
  BY DEF RepeatedEffect, p1, p2
<1> QED BY <1>4, <1>5 DEF Passes

-----------------------------------------------------------------------------
(* The scenarios of the runtime, which does what it is told.               *)

LEMMA ManualIs == Manual.manual /\ Manual.start = "accept"
BY DEF Manual, Playing

\* Working, and what ends it; asked to stop or not.
Told1(w, o, k) == Alone("accepted", w, {t1}, o, k)

LEMMA SteadyTold ==
  ASSUME NEW x, NEW y, NEW o, NEW k, NEW w, NEW t, k = "no" \/ o # "none" \/ ~w.shut
  PROVE  Steady({Alone("accepted", x, y, o, k)}, Manual, w, t)
BY ManualIs, SteadyQuiet DEF Quiet, Alone, Standing, InFlight

LEMMA ToldMoves ==
  ASSUME NEW m, NEW w, NEW o, NEW k, NEW kind
  PROVE  /\ JudgedAs(Alone("accepted", w, m, o, k), "ended", kind)
              = Alone("accepted", "ended", m, IF o = "none" THEN kind ELSE o, k)
         /\ Stopped(Alone("accepted", w, m, "none", k)) = Alone("accepted", w, m, "none", "yes")
         /\ Alone("accepted", w, m, o, k).outcome = o
BY DEF JudgedAs, Stopped, Withdrawing, Alone, Standing

LEMMA StartIsTold ==
  ASSUME NEW G, NEW e
  PROVE  Leads(Before(G, e, Manual), Creates(h1, c1) \o Starts(h1, t1),
               Stage(Manual, Started1(G, e), Nobody, t1, {Told1("working", "none", "no")}))
<1>1. Leads(Before(G, e, Manual), Creates(h1, c1),
        Stage(Manual, Opened1(G, e), Nobody, t1, {Fresh}))
  BY FirstCreates
<1>2. Admits(Opened1(G, e), Started1(G, e), Nobody, h1, t1, {t1})
  BY FirstAdmits
<1> QED BY <1>1, <1>2, ManualIs, ThenWorks DEF Told1, Working

\* What is known of t1 goes on from R to S, its handles staying as they are.
LEMMA ToldOn ==
  ASSUME NEW G, NEW e, NEW a, NEW p, NEW x, NEW y,
         Leads(a, p, Stage(Manual, Started1(G, e), Nobody, t1, {x})),
         Steady({y}, Manual, Started1(G, e), t1)
  PROVE  /\ Stopped(x) = y
              => Leads(a, p \o Call("cancel", t1), Stage(Manual, Started1(G, e), Nobody, t1, {y}))
         /\ \A kind : JudgedAs(x, "ended", kind) = y
              => Leads(a, p \o Reports(t1, kind), Stage(Manual, Started1(G, e), Nobody, t1, {y}))
         /\ x = y => Leads(a, p \o Awaits(t1, y.outcome),
              Stage(Manual, Started1(G, e), Nobody, t1, {y}))
<1> DEFINE R == {x}
           S == {y}
<1>1. /\ Stopped(x) = y => \A z \in R : Stopped(z) \in S
      /\ \A kind : JudgedAs(x, "ended", kind) = y => \A z \in R : JudgedAs(z, "ended", kind) \in S
      /\ x = y => (\A z \in R : z.outcome = "none" \/ z \in S)
      /\ \A z \in S : z.outcome = y.outcome
      /\ t1 \in Tasks
  BY ScenarioAssumption
<1>2. Leads(a, p, Stage(Manual, Started1(G, e), Nobody, t1, R))
        /\ Steady(S, Manual, Started1(G, e), t1)
  OBVIOUS
<1> HIDE DEF R, S
<1>3. Stopped(x) = y => Leads(a, p \o Call("cancel", t1),
        Stage(Manual, Started1(G, e), Nobody, t1, S))
  BY <1>1, <1>2, ThenCalls
<1>4. \A kind : JudgedAs(x, "ended", kind) = y
        => Leads(a, p \o Reports(t1, kind), Stage(Manual, Started1(G, e), Nobody, t1, S))
  BY <1>1, <1>2, ThenCalls
<1>5. x = y => Leads(a, p \o Awaits(t1, y.outcome), Stage(Manual, Started1(G, e), Nobody, t1, S))
  BY <1>1, <1>2, ThenAwaits
<1> QED BY <1>3, <1>4, <1>5 DEF S

\* The runtime reports a failure (lifecycle.py:62-71).
LEMMA FailurePasses == \A G, e : Passes(G, e, Manual, Failure)
<1> TAKE G, e
<1> DEFINE X == Told1("working", "none", "no")
           Y == Told1("ended", "failed", "no")
           p1 == Creates(h1, c1) \o Starts(h1, t1)
           p2 == p1 \o Reports(t1, "failed")
<1>1. Leads(Before(G, e, Manual), p1, Stage(Manual, Started1(G, e), Nobody, t1, {X}))
  BY StartIsTold
<1>2. JudgedAs(X, "ended", "failed") = Y /\ Y.outcome = "failed"
  BY ToldMoves DEF Told1
<1>3. Steady({Y}, Manual, Started1(G, e), t1)
  BY SteadyTold DEF Told1
<1> HIDE DEF X, Y, p1
<1>4. Leads(Before(G, e, Manual), p2, Stage(Manual, Started1(G, e), Nobody, t1, {Y}))
  BY <1>1, <1>2, <1>3, ToldOn
<1> HIDE DEF p2
<1>5. Leads(Before(G, e, Manual), p2 \o Awaits(t1, "failed"),
        Stage(Manual, Started1(G, e), Nobody, t1, {Y}))
  BY <1>2, <1>3, <1>4, ToldOn
<1> QED BY <1>5 DEF p1, p2, Passes, Failure

\* The work completes although it was asked to stop (lifecycle.py:73-82).
LEMMA CompletionWinsPasses == \A G, e : Passes(G, e, Manual, CompletionWins)
<1> TAKE G, e
<1> DEFINE X == Told1("working", "none", "no")
           Y == Told1("working", "none", "yes")
           Z == Told1("ended", "completed", "yes")
           w == Started1(G, e)
           p1 == Creates(h1, c1) \o Starts(h1, t1)
           p2 == p1 \o Call("cancel", t1)
           p3 == p2 \o Reports(t1, "completed")
<1>1. Leads(Before(G, e, Manual), p1, Stage(Manual, Started1(G, e), Nobody, t1, {X}))
  BY StartIsTold
<1>2. Stopped(X) = Y /\ JudgedAs(Y, "ended", "completed") = Z /\ Z.outcome = "completed"
  BY ToldMoves DEF Told1
<1>3. Steady({Y}, Manual, Started1(G, e), t1) /\ Steady({Z}, Manual, Started1(G, e), t1)
  <2>1. ~w.shut
    BY DEF Started1, House, World
  <2> QED BY <2>1, SteadyTold DEF Told1
<1> HIDE DEF X, Y, Z, p1
<1>4. Leads(Before(G, e, Manual), p2, Stage(Manual, Started1(G, e), Nobody, t1, {Y}))
  BY <1>1, <1>2, <1>3, ToldOn
<1> HIDE DEF p2
<1>5. Leads(Before(G, e, Manual), p3, Stage(Manual, Started1(G, e), Nobody, t1, {Z}))
  BY <1>2, <1>3, <1>4, ToldOn
<1> HIDE DEF p3
<1>6. Leads(Before(G, e, Manual), p3 \o Awaits(t1, "completed"),
            Stage(Manual, Started1(G, e), Nobody, t1, {Z}))
  BY <1>2, <1>3, <1>5, ToldOn
<1> QED BY <1>6 DEF p1, p2, p3, Passes, CompletionWins

\* A second report changes nothing (lifecycle.py:84-98).
LEMMA LateFailurePasses == \A G, e : Passes(G, e, Manual, LateFailure)
<1> TAKE G, e
<1> DEFINE X == Told1("working", "none", "no")
           Y == Told1("ended", "completed", "no")
           p1 == Creates(h1, c1) \o Starts(h1, t1)
           p2 == p1 \o Reports(t1, "completed")
           p3 == p2 \o Reports(t1, "failed")
<1>1. Leads(Before(G, e, Manual), p1, Stage(Manual, Started1(G, e), Nobody, t1, {X}))
  BY StartIsTold
<1>2. /\ JudgedAs(X, "ended", "completed") = Y /\ JudgedAs(Y, "ended", "failed") = Y
      /\ Y.outcome = "completed"
  BY ToldMoves DEF Told1
<1>3. Steady({Y}, Manual, Started1(G, e), t1)
  BY SteadyTold DEF Told1
<1> HIDE DEF X, Y, p1
<1>4. Leads(Before(G, e, Manual), p2, Stage(Manual, Started1(G, e), Nobody, t1, {Y}))
  BY <1>1, <1>2, <1>3, ToldOn
<1> HIDE DEF p2
<1>5. Leads(Before(G, e, Manual), p3, Stage(Manual, Started1(G, e), Nobody, t1, {Y}))
  BY <1>2, <1>3, <1>4, ToldOn
<1> HIDE DEF p3
<1>6. Leads(Before(G, e, Manual), p3 \o Awaits(t1, "completed"),
            Stage(Manual, Started1(G, e), Nobody, t1, {Y}))
  BY <1>2, <1>3, <1>5, ToldOn
<1> QED BY <1>6 DEF p1, p2, p3, Passes, LateFailure

\* The harness is closed, and its runtime is silent (lifecycle.py:122-132).
LEMMA CloseWithoutEvidencePasses == \A G, e : Passes(G, e, Manual, CloseWithoutEvidence)
<1> TAKE G, e
<1> DEFINE X == Told1("working", "none", "no")
           Y == Told1("working", "none", "yes")
           Z == Told1("working", "unresolved", "yes")
           S == {Y} \cup {Z}
           w == Started1(G, e)
           v == World(G, e, Hands(c1, NoContext, NoContext), Original, {}, TRUE, FALSE,
                      Vias(h1, NoHandle, NoHandle))
           i == [do |-> "aclose", of |-> h1]
           b == Before(G, e, Manual)
           p1 == Creates(h1, c1) \o Starts(h1, t1)
           p2 == p1 \o Call("aclose", h1)
<1>1. Leads(b, p1, Stage(Manual, w, Nobody, t1, {X}))
  BY StartIsTold
<1>2. /\ Stopped(X) = Y /\ Y.outcome = "none" /\ Z.outcome = "unresolved"
      /\ \A z \in {Fresh} : Stopped(z) = z
  <2>1. Stopped(Fresh) = Fresh
    BY DEF Stopped, Fresh, Standing
  <2>2. Stopped(X) = Y /\ Y.outcome = "none" /\ Z.outcome = "unresolved"
    BY ToldMoves DEF Told1
  <2> QED BY <2>1, <2>2
<1>3. Steady(S, Manual, v, t1) /\ Steady({Z}, Manual, v, t1)
  <2>1. Steady({Z}, Manual, v, t1)
    BY SteadyTold DEF Told1
  <2>2. \A y : Moves(Y, y, Manual, t1 \in v.guarded, v.shut) => y = Z
    BY ManualIs DEF Told1, Alone, Standing, Moves, JudgedAs, Withdrawing, InFlight, Live
  <2> HIDE DEF Y, Z, v
  <2> QED BY <2>1, <2>2, SteadyMore
<1>4. i.do = "aclose" /\ Call("aclose", h1) = <<i>>
  BY DEF Call
<1>5. TurnsWorld(w, i, v)
  <2> HIDE DEF i
  <2> QED BY <1>4 DEF TurnsWorld, Openings, Started1, House, World
<1>6. \A x \in Tasks : Nobody[x] = {Fresh}
  BY DEF Nobody, Cast
<1> HIDE DEF X, Y, Z, w, v, i, b, p1
<1>7. Leads(b, p2, Stage(Manual, v, Nobody, t1, S))
  <2>1. \A x \in {X} : Stopped(x) \in S
    BY <1>2
  <2>2. \A x \in Tasks : x # t1 => \/ i.do = "release" /\ w.via[x] # i.of
                                   \/ \A z \in Nobody[x] : Stopped(z) = z
    BY <1>2, <1>6
  <2> HIDE DEF S
  <2> QED BY <1>1, <1>3, <1>4, <1>5, <2>1, <2>2, ThenQuits, NobodyRests, ScenarioAssumption
<1> HIDE DEF p2
<1>8. Leads(b, p2 \o Awaits(t1, "unresolved"), Stage(Manual, v, Nobody, t1, {Z}))
  <2>1. \A x \in S : x.outcome = "none" \/ x \in {Z}
    BY <1>2
  <2>2. \A x \in {Z} : x.outcome = "unresolved"
    BY <1>2
  <2> HIDE DEF S
  <2> QED BY <1>3, <1>7, <2>1, <2>2, ThenAwaits, ScenarioAssumption
<1> QED BY <1>8 DEF b, p1, p2, Passes, CloseWithoutEvidence

-----------------------------------------------------------------------------
(* Several tasks at a time.                                                *)

\* What is known of task t changes from R to S, and nothing else does.
Recast(T, t, R, U, S) == t \in Tasks /\ T = Put(T, t, R) /\ U = Put(T, t, S)

LEMMA CastChanges ==
  ASSUME NEW x, NEW y, NEW z, NEW k
  PROVE  /\ Recast(Cast(x, y, z), t1, x, Cast(k, y, z), k)
         /\ Recast(Cast(x, y, z), t2, y, Cast(x, k, z), k)
         /\ Recast(Cast(x, y, z), t3, z, Cast(x, y, k), k)
<1>1. \A i, j, n, m : /\ Put(Cast(i, j, n), t1, m) = Cast(m, j, n)
                      /\ Put(Cast(i, j, n), t2, m) = Cast(i, m, n)
                      /\ Put(Cast(i, j, n), t3, m) = Cast(i, j, m)
  BY NamesAssumption DEF Put, Cast
<1> QED BY <1>1, ScenarioAssumption DEF Recast

LEMMA RecastStage ==
  ASSUME NEW T, NEW t, NEW R, NEW U, NEW S, Recast(T, t, R, U, S)
  PROVE  /\ t \in Tasks
         /\ \A f, w : Stage(f, w, T, t, R) = Scene(f, w, T) /\ Stage(f, w, T, t, S) = Scene(f, w, U)
BY DEF Recast, Stage

LEMMA RecastSteady ==
  ASSUME NEW T, NEW t, NEW R, NEW U, NEW S, Recast(T, t, R, U, S), NEW f, NEW w,
         Closed(Scene(f, w, U))
  PROVE  Steady(S, f, w, t) /\ Rests(f, w, T, t)
<1>1. t \in Tasks /\ Stage(f, w, T, t, S) = Scene(f, w, U)
  BY RecastStage
<1> QED BY <1>1, OnStage

LEMMA ClosedTrio ==
  ASSUME NEW f, NEW w, NEW x, NEW y, NEW z,
         Steady(x, f, w, t1), Steady(y, f, w, t2), Steady(z, f, w, t3)
  PROVE  Closed(Scene(f, w, Cast(x, y, z)))
BY SteadyFresh DEF Closed, Scene, Cast

LEMMA SceneSets ==
  ASSUME NEW a, NEW p, NEW f, NEW g, NEW w, NEW T, NEW t, NEW R, NEW U, NEW S, NEW control, NEW is,
         Leads(a, p, Scene(f, w, T)), Recast(T, t, R, U, S), R \subseteq S,
         Closed(Scene(g, w, U)), Tuned(f, g, control, is)
  PROVE  Leads(a, p \o Sets(control, is), Scene(g, w, U))
<1>1. Steady(S, g, w, t) /\ Rests(g, w, T, t)
  BY RecastSteady
<1>2. t \in Tasks /\ Leads(a, p, Stage(f, w, T, t, R)) /\ Stage(g, w, T, t, S) = Scene(g, w, U)
  BY RecastStage
<1> QED BY <1>1, <1>2, ThenSets

LEMMA SceneTurns ==
  ASSUME NEW a, NEW p, NEW f, NEW w, NEW v, NEW T, NEW t, NEW R, NEW i,
         Leads(a, p, Scene(f, w, T)), Recast(T, t, R, T, R), TurnsWorld(w, i, v),
         \/ i.do \in {"create", "reopen", "hide"}
         \/ i.do = "recreate" /\ ~f.manual
  PROVE  Leads(a, p \o <<i>>, Scene(f, v, T))
<1>1. t \in Tasks /\ Leads(a, p, Stage(f, w, T, t, R)) /\ Stage(f, v, T, t, R) = Scene(f, v, T)
  BY RecastStage
<1> QED BY <1>1, ThenTurns

LEMMA SceneQuits ==
  ASSUME NEW a, NEW p, NEW f, NEW w, NEW v, NEW T, NEW t, NEW R, NEW U, NEW S, NEW i,
         Leads(a, p, Scene(f, w, T)), Recast(T, t, R, U, S), TurnsWorld(w, i, v),
         i.do \in {"release", "aclose"}, Closed(Scene(f, v, U)), \A x \in R : Stopped(x) \in S,
         i.do = "release" => w.via[t] = i.of \/ R \subseteq S,
         \A x \in Tasks : x # t => \/ i.do = "release" /\ w.via[x] # i.of
                                   \/ \A z \in T[x] : Stopped(z) = z
  PROVE  Leads(a, p \o <<i>>, Scene(f, v, U))
<1>1. Steady(S, f, v, t) /\ Rests(f, v, T, t)
  BY RecastSteady
<1>2. t \in Tasks /\ Leads(a, p, Stage(f, w, T, t, R)) /\ Stage(f, v, T, t, S) = Scene(f, v, U)
  BY RecastStage
<1> QED BY <1>1, <1>2, ThenQuits

\* A handle is released, or the harness closed, and there is nothing to stop.
LEMMA SceneShuts ==
  ASSUME NEW a, NEW p, NEW f, NEW w, NEW v, NEW x, NEW y, NEW z, NEW i,
         Leads(a, p, Scene(f, w, Cast(x, y, z))), TurnsWorld(w, i, v),
         i.do \in {"release", "aclose"}, Closed(Scene(f, v, Cast(x, y, z))),
         \A s \in x \cup y \cup z : Stopped(s) = s
  PROVE  Leads(a, p \o <<i>>, Scene(f, v, Cast(x, y, z)))
<1> DEFINE T == Cast(x, y, z)
<1>1. Recast(T, t1, x, T, x)
  BY CastChanges
<1>2. \A s \in x : Stopped(s) \in x
  OBVIOUS
<1>3. \A t \in Tasks : \A s \in T[t] : Stopped(s) = s
  <2>1. Stopped(Fresh) = Fresh
    BY DEF Stopped, Fresh, Standing
  <2> QED BY <2>1 DEF Cast
<1> HIDE DEF T
<1>4. Leads(a, p, Scene(f, w, T)) /\ Closed(Scene(f, v, T))
  BY DEF T
<1>5. Leads(a, p \o <<i>>, Scene(f, v, T))
  BY <1>1, <1>2, <1>3, <1>4, SceneQuits
<1> QED BY <1>5 DEF T

LEMMA SceneRuns ==
  ASSUME NEW a, NEW p, NEW f, NEW w, NEW v, NEW T, NEW t, NEW h, NEW m, NEW U,
         Leads(a, p, Scene(f, w, T)), Recast(T, t, {Fresh}, U, {Complete(m)}),
         Admits(w, v, T, h, t, m),
         f.start = "accept", ~f.manual, t \notin v.guarded
  PROVE  Leads(a, p \o Runs(h, t), Scene(f, v, U))
<1>1. Leads(a, p, Stage(f, w, T, t, {Fresh})) /\ Stage(f, v, T, t, {Complete(m)}) = Scene(f, v, U)
  BY RecastStage
<1> QED BY <1>1, ThenRuns

LEMMA SceneWorks ==
  ASSUME NEW a, NEW p, NEW f, NEW w, NEW v, NEW T, NEW t, NEW h, NEW m, NEW U,
         Leads(a, p, Scene(f, w, T)), Recast(T, t, {Fresh}, U, {Working(m)}),
         Admits(w, v, T, h, t, m),
         f.start = "accept", f.manual \/ (f.hold /\ t \notin v.guarded)
  PROVE  Leads(a, p \o Starts(h, t), Scene(f, v, U))
<1>1. Leads(a, p, Stage(f, w, T, t, {Fresh})) /\ Stage(f, v, T, t, {Working(m)}) = Scene(f, v, U)
  BY RecastStage
<1> QED BY <1>1, ThenWorks

\* A start the boundary refuses or loses.
LEMMA SceneStarts ==
  ASSUME NEW a, NEW p, NEW f, NEW w, NEW v, NEW T, NEW t, NEW h, NEW m, NEW U, NEW x,
         NEW how \in {"accepted", "refused", "unconfirmed"},
         Leads(a, p, Scene(f, w, T)), Recast(T, t, {Fresh}, U, {x}), Admits(w, v, T, h, t, m),
         Arrived(Underway(m), f.start) = x, Steady({x}, f, v, t), x.admission = how
  PROVE  Leads(a, p \o StartsInto(h, t, how), Scene(f, v, U))
<1>1. Leads(a, p, Stage(f, w, T, t, {Fresh})) /\ Stage(f, v, T, t, {x}) = Scene(f, v, U)
  BY RecastStage
<1>2. Arrived(Underway(m), f.start) \in {x} /\ \A y \in {x} : y.admission = how
  OBVIOUS
<1> QED BY <1>1, <1>2, ThenAdmits

LEMMA SceneAwaits ==
  ASSUME NEW a, NEW p, NEW f, NEW w, NEW T, NEW t, NEW R, NEW U, NEW x, NEW kind,
         Leads(a, p, Scene(f, w, T)), Recast(T, t, R, U, {x}), Steady({x}, f, w, t),
         \A y \in R : y.outcome = "none" \/ y = x, x.outcome = kind
  PROVE  Leads(a, p \o Awaits(t, kind), Scene(f, w, U))
<1>1. t \in Tasks /\ Leads(a, p, Stage(f, w, T, t, R)) /\ Stage(f, w, T, t, {x}) = Scene(f, w, U)
  BY RecastStage
<1>2. (\A y \in R : y.outcome = "none" \/ y \in {x}) /\ \A y \in {x} : y.outcome = kind
  OBVIOUS
<1> QED BY <1>1, <1>2, ThenAwaits

LEMMA SceneTells ==
  ASSUME NEW a, NEW p, NEW f, NEW w, NEW T, NEW t \in Tasks, NEW what \in OfTask, NEW is,
         Leads(a, p, Scene(f, w, T)), \A x \in T[t] : Told(x, what) \in is
  PROVE  Leads(a, p \o Asserts(what, t, is), Scene(f, w, T))
<1>1. Shows(Scene(f, w, T), what, t, is)
  BY DEF Shows, Scene
<1> QED BY <1>1, ThenAsserts

LEMMA SceneWaits ==
  ASSUME NEW a, NEW p, NEW f, NEW w, NEW T, NEW t, NEW R, NEW what \in OfTask, NEW is,
         Leads(a, p, Scene(f, w, T)), Recast(T, t, R, T, R), Closed(Scene(f, w, T))
  PROVE  Leads(a, p \o Until(what, t, is), Scene(f, w, T))
<1>1. Steady(R, f, w, t)
  BY RecastSteady
<1>2. t \in Tasks /\ Leads(a, p, Stage(f, w, T, t, R)) /\ Stage(f, w, T, t, R) = Scene(f, w, T)
  BY RecastStage
<1>3. \A x \in R : Told(x, what) \in is => x \in R
  OBVIOUS
<1> QED BY <1>1, <1>2, <1>3, ThenWaits

-----------------------------------------------------------------------------
(* What the port answers in a scene.                                       *)

LEMMA SceneIs ==
  \A f, w, T : Scene(f, w, T).fixture = f /\ Scene(f, w, T).world = w /\ Scene(f, w, T).tasks = T
BY DEF Scene

LEMMA StartIsBlocked ==
  ASSUME NEW a, NEW p, NEW f, NEW w, NEW T, NEW h \in Handles, Leads(a, p, Scene(f, w, T)),
         \/ h \notin w.usable
         \/ \E t \in At(w, w.on[h]) : \A x \in T[t] : Uncertain(x)
  PROVE  Leads(a, p \o Asserts("start", h, {"blocked"}), Scene(f, w, T))
<1> DEFINE b == Scene(f, w, T)
<1>1. b.world = w /\ b.tasks = T
  BY SceneIs
<1> HIDE DEF b
<1>2. Shows(b, "start", h, {"blocked"})
  BY <1>1 DEF Shows, StartShows, Barred
<1>3. Leads(a, p, b)
  BY DEF b
<1> QED BY <1>2, <1>3, ThenAsserts DEF b

LEMMA StartIsTaken ==
  ASSUME NEW a, NEW p, NEW f, NEW w, NEW T, NEW h \in Handles, Leads(a, p, Scene(f, w, T)),
         \E t \in At(w, w.on[h]) : \A x \in T[t] : InTheWay(x)
  PROVE  Leads(a, p \o Asserts("start", h, {"overlap", "blocked"}), Scene(f, w, T))
<1> DEFINE b == Scene(f, w, T)
<1>1. b.world = w /\ b.tasks = T
  BY SceneIs
<1> HIDE DEF b
<1>2. Shows(b, "start", h, {"overlap", "blocked"})
  BY <1>1 DEF Shows, StartShows, Taken
<1>3. Leads(a, p, b)
  BY DEF b
<1> QED BY <1>2, <1>3, ThenAsserts DEF b

\* Open handles stand for context c.
StandsFor(w, c) == ~w.shut /\ ~w.hidden /\ \E h \in Handles : w.on[h] = c

LEMMA ReopeningFails ==
  ASSUME NEW a, NEW p, NEW f, NEW w, NEW T, NEW c, NEW k, NEW is, Leads(a, p, Scene(f, w, T)),
         \/ (w.shut \/ w.hidden \/ \A h \in Handles : w.on[h] # c) /\ "transport" \in is
         \/ /\ StandsFor(w, c) /\ "blocked" \in is
            /\ \E t \in At(w, c) : \A x \in T[t] : Uncertain(x)
         \/ /\ StandsFor(w, c) /\ "blocked" \in is /\ "overlap" \in is
            /\ \E t \in At(w, c) : \A x \in T[t] : InTheWay(x)
         \/ /\ StandsFor(w, c) /\ "incompatible" \in is
            /\ \A t \in At(w, c) : \A x \in T[t] : ~Uncertain(x) /\ ~InTheWay(x)
            /\ \E h \in Handles : w.on[h] = c /\ w.config[h] # k
            /\ ~w.adaptable \/ \E h \in Handles : w.on[h] = c /\ h \in w.usable /\ w.config[h] # k
  PROVE  Leads(a, p \o Asserts("reopening", <<c, k>>, is), Scene(f, w, T))
<1> DEFINE b == Scene(f, w, T)
           r == <<c, k>>
<1>1. b.world = w /\ b.tasks = T /\ r[1] = c /\ r[2] = k
  BY SceneIs
<1> HIDE DEF b, r
<1>2. ReopenShows(b, c, k, is)
  BY <1>1 DEF ReopenShows, StandsFor, Barred, Taken, Free
<1>3. Shows(b, "reopening", r, is)
  BY <1>1, <1>2 DEF Shows
<1>4. Leads(a, p, b)
  BY DEF b
<1>5. Leads(a, p \o Asserts("reopening", r, is), b)
  BY <1>3, <1>4, ThenAsserts
<1> QED BY <1>5 DEF b, r

\* A context is reopened, and handle h stands for it from then on.
LEMMA ReopeningGoes ==
  ASSUME NEW a, NEW p, NEW f, NEW w, NEW v, NEW T, NEW t, NEW R, NEW h, NEW c, NEW k,
         Leads(a, p, Scene(f, w, T)), Recast(T, t, R, T, R),
         TurnsWorld(w, [do |-> "reopen", of |-> <<h, c, k>>], v), StandsFor(w, c),
         \A s \in At(w, c) : \A x \in T[s] : ~Uncertain(x) /\ ~InTheWay(x),
         \/ \A g \in Handles : w.on[g] = c => w.config[g] = k
         \/ w.adaptable /\ \A g \in Handles : w.on[g] = c /\ g \in w.usable => w.config[g] = k
  PROVE  Leads(a, p \o Reopens(h, c, k), Scene(f, v, T))
<1> DEFINE b == Scene(f, w, T)
           r == <<c, k>>
           i == [do |-> "reopen", of |-> <<h, c, k>>]
           e == Scene(f, v, T)
<1>1. b.world = w /\ b.tasks = T /\ r[1] = c /\ r[2] = k
  BY SceneIs
<1>i. i.do = "reopen" /\ Call("reopen", <<h, c, k>>) = <<i>>
  BY DEF Call
<1>0. Leads(a, p, b)
  OBVIOUS
<1> HIDE DEF b, r
<1>2. ReopenShows(b, c, k, {"reopened"})
  BY <1>1 DEF ReopenShows, StandsFor, Free
<1>3. Shows(b, "reopening", r, {"reopened"})
  BY <1>1, <1>2 DEF Shows
<1>4. Leads(a, p \o Asserts("reopening", r, {"reopened"}), b)
  BY <1>0, <1>3, ThenAsserts
<1>5. Leads(b, <<>>, b)
  BY <1>4, LeadsAway, LeadsNowhere
<1>6. Leads(b, <<>> \o Asserts("reopening", r, {"reopened"}), b)
  BY <1>3, <1>5, ThenAsserts
<1> HIDE DEF i, e
<1>7. Leads(b, (<<>> \o Asserts("reopening", r, {"reopened"})) \o <<i>>, e)
  BY <1>6, <1>i, SceneTurns DEF b, e, i
<1>8. Reopens(h, c, k) = (<<>> \o Asserts("reopening", r, {"reopened"})) \o <<i>>
  <2>1. \A x : (<<>> \o <<x>>) \o <<i>> = <<x>> \o <<i>>
    OBVIOUS
  <2>2. Reopens(h, c, k) = Asserts("reopening", r, {"reopened"}) \o <<i>>
    BY <1>i DEF Reopens, r
  <2> QED BY <2>1, <2>2 DEF Asserts
<1> QED BY <1>0, <1>7, <1>8, LeadsOn DEF e

LEMMA ContextIs ==
  ASSUME NEW a, NEW p, NEW f, NEW w, NEW T, NEW t \in Tasks, NEW m, Leads(a, p, Scene(f, w, T)),
         \A x \in T[t] : x.admission # "submitted" /\ x.saw = m
  PROVE  Leads(a, p \o Asserts("context", t, {m}), Scene(f, w, T))
<1>1. Shows(Scene(f, w, T), "context", t, {m})
  BY SceneIs DEF Shows
<1> QED BY <1>1, ThenAsserts

LEMMA InstructionsAre ==
  ASSUME NEW a, NEW p, NEW f, NEW w, NEW T, NEW t \in Tasks, NEW k, Leads(a, p, Scene(f, w, T)),
         w.via[t] \in Handles, w.config[w.via[t]] = k
  PROVE  Leads(a, p \o Asserts("instructions", t, {k}), Scene(f, w, T))
<1>1. Shows(Scene(f, w, T), "instructions", t, {k})
  BY SceneIs DEF Shows
<1> QED BY <1>1, ThenAsserts

-----------------------------------------------------------------------------
(* Counting starts.                                                        *)

Numbers == {"submitted starts", "accepted starts"}

Begun(what, x) == (IF what = "submitted starts" THEN x.admission ELSE x.work) # "none"

LEMMA Counting ==
  ASSUME NEW a, NEW p, NEW f, NEW w, NEW T, NEW what \in Numbers, NEW h, NEW S, NEW n,
         Leads(a, p, Scene(f, w, T)), S \subseteq Tasks, Cardinality(S) = n,
         \A t \in S : \A x \in T[t] : Begun(what, x),
         \A t \in Tasks \ S : \A x \in T[t] : ~Begun(what, x)
  PROVE  Leads(a, p \o Asserts(what, h, {n}), Scene(f, w, T))
<1>1. Counts(Scene(f, w, T), S, what)
  <2>1. \A t \in Tasks : \A x \in T[t] : t \in S <=> Begun(what, x)
    OBVIOUS
  <2>2. \A t \in Tasks : \A x \in Scene(f, w, T).tasks[t] : t \in S <=> Begun(what, x)
    BY <2>1, SceneIs
  <2> QED BY <2>2 DEF Counts, Begun
<1>2. Shows(Scene(f, w, T), what, h, {n})
  BY <1>1 DEF Shows, Numbers
<1> QED BY <1>2, ThenAsserts

LEMMA HowMany ==
  Cardinality({}) = 0 /\ Cardinality({t1}) = 1 /\ Cardinality({t2}) = 1 /\ Cardinality({t1, t2}) = 2
<1>1. Cardinality({}) = 0 /\ \A x : Cardinality({x}) = 1
  BY FS_EmptySet, FS_Singleton
<1>2. Cardinality({t1, t2}) = 2
  <2>1. IsFiniteSet({t1}) /\ {t1, t2} = {t1} \cup {t2} /\ t2 \notin {t1}
    BY FS_Singleton, NamesAssumption
  <2>2. Cardinality({t1} \cup {t2}) = Cardinality({t1}) + 1
    BY <2>1, FS_AddElement
  <2>3. Cardinality({t1} \cup {t2}) = 2
    <3>1. Cardinality({t1}) = 1
      BY <1>1
    <3>2. 1 + 1 = 2
      OBVIOUS
    <3>3. Cardinality({t1} \cup {t2}) = 1 + 1
      BY <2>2, <3>1, Zenon
    <3> QED BY <3>2, <3>3, Zenon
  <2> QED BY <2>1, <2>3
<1> QED BY <1>1, <1>2

LEMMA CastBegins ==
  ASSUME NEW what \in Numbers, NEW x, NEW y, NEW z, \A s \in z : ~Begun(what, s)
  PROVE  /\ (\A s \in x \cup y : ~Begun(what, s))
              => \A t \in Tasks \ {} : \A s \in Cast(x, y, z)[t] : ~Begun(what, s)
         /\ (\A s \in x : Begun(what, s)) /\ (\A s \in y : ~Begun(what, s))
              => /\ \A t \in {t1} : \A s \in Cast(x, y, z)[t] : Begun(what, s)
                 /\ \A t \in Tasks \ {t1} : \A s \in Cast(x, y, z)[t] : ~Begun(what, s)
         /\ (\A s \in x : ~Begun(what, s)) /\ (\A s \in y : Begun(what, s))
              => /\ \A t \in {t2} : \A s \in Cast(x, y, z)[t] : Begun(what, s)
                 /\ \A t \in Tasks \ {t2} : \A s \in Cast(x, y, z)[t] : ~Begun(what, s)
         /\ (\A s \in x \cup y : Begun(what, s))
              => /\ \A t \in {t1, t2} : \A s \in Cast(x, y, z)[t] : Begun(what, s)
                 /\ \A t \in Tasks \ {t1, t2} : \A s \in Cast(x, y, z)[t] : ~Begun(what, s)
<1>1. ~Begun(what, Fresh)
  BY DEF Begun, Fresh, Standing
<1> QED BY <1>1, ScenarioAssumption, NamesAssumption DEF Cast

LEMMA CastCounts ==
  ASSUME NEW a, NEW p, NEW f, NEW w, NEW x, NEW y, NEW z, NEW what \in Numbers, NEW h,
         Leads(a, p, Scene(f, w, Cast(x, y, z))), \A s \in z : ~Begun(what, s)
  PROVE  /\ (\A s \in x \cup y : ~Begun(what, s))
              => Leads(a, p \o Asserts(what, h, {0}), Scene(f, w, Cast(x, y, z)))
         /\ (\A s \in x : Begun(what, s)) /\ (\A s \in y : ~Begun(what, s))
              => Leads(a, p \o Asserts(what, h, {1}), Scene(f, w, Cast(x, y, z)))
         /\ (\A s \in x : ~Begun(what, s)) /\ (\A s \in y : Begun(what, s))
              => Leads(a, p \o Asserts(what, h, {1}), Scene(f, w, Cast(x, y, z)))
         /\ (\A s \in x \cup y : Begun(what, s))
              => Leads(a, p \o Asserts(what, h, {2}), Scene(f, w, Cast(x, y, z)))
<1> DEFINE T == Cast(x, y, z)
<1>0. {} \subseteq Tasks /\ {t1} \subseteq Tasks /\ {t2} \subseteq Tasks /\ {t1, t2} \subseteq Tasks
  BY ScenarioAssumption
<1>1. ASSUME \A s \in x \cup y : ~Begun(what, s)
      PROVE  \A t \in Tasks \ {} : \A s \in T[t] : ~Begun(what, s)
  BY <1>1, CastBegins
<1>2. ASSUME \A s \in x : Begun(what, s), \A s \in y : ~Begun(what, s)
      PROVE  /\ \A t \in {t1} : \A s \in T[t] : Begun(what, s)
             /\ \A t \in Tasks \ {t1} : \A s \in T[t] : ~Begun(what, s)
  BY <1>2, CastBegins
<1>3. ASSUME \A s \in x : ~Begun(what, s), \A s \in y : Begun(what, s)
      PROVE  /\ \A t \in {t2} : \A s \in T[t] : Begun(what, s)
             /\ \A t \in Tasks \ {t2} : \A s \in T[t] : ~Begun(what, s)
  BY <1>3, CastBegins
<1>4. ASSUME \A s \in x \cup y : Begun(what, s)
      PROVE  /\ \A t \in {t1, t2} : \A s \in T[t] : Begun(what, s)
             /\ \A t \in Tasks \ {t1, t2} : \A s \in T[t] : ~Begun(what, s)
  BY <1>4, CastBegins
<1>5. Leads(a, p, Scene(f, w, T))
  OBVIOUS
<1> HIDE DEF T
<1>6. (\A s \in x \cup y : ~Begun(what, s)) => Leads(a, p \o Asserts(what, h, {0}), Scene(f, w, T))
  BY <1>0, <1>1, <1>5, HowMany, Counting
<1>7. (\A s \in x : Begun(what, s)) /\ (\A s \in y : ~Begun(what, s))
        => Leads(a, p \o Asserts(what, h, {1}), Scene(f, w, T))
  BY <1>0, <1>2, <1>5, HowMany, Counting
<1>8. (\A s \in x : ~Begun(what, s)) /\ (\A s \in y : Begun(what, s))
        => Leads(a, p \o Asserts(what, h, {1}), Scene(f, w, T))
  BY <1>0, <1>3, <1>5, HowMany, Counting
<1>9. (\A s \in x \cup y : Begun(what, s)) => Leads(a, p \o Asserts(what, h, {2}), Scene(f, w, T))
  BY <1>0, <1>4, <1>5, HowMany, Counting
<1> QED BY <1>6, <1>7, <1>8, <1>9 DEF T

-----------------------------------------------------------------------------
(* How the handles change.                                                 *)

LEMMA WorldIs ==
  \A g, a, o, k, u, s, d, v :
    /\ World(g, a, o, k, u, s, d, v).guarded = g /\ World(g, a, o, k, u, s, d, v).adaptable = a
    /\ World(g, a, o, k, u, s, d, v).on = o /\ World(g, a, o, k, u, s, d, v).config = k
    /\ World(g, a, o, k, u, s, d, v).usable = u /\ World(g, a, o, k, u, s, d, v).shut = s
    /\ World(g, a, o, k, u, s, d, v).hidden = d /\ World(g, a, o, k, u, s, d, v).via = v
BY DEF World

LEMMA WorldStarts ==
  ASSUME NEW G, NEW e, NEW o, NEW k, NEW u, NEW s, NEW d, NEW v, NEW y, NEW h, NEW t,
         \A x \in Tasks : y[x] = IF x = t THEN h ELSE v[x]
  PROVE  TurnsWorld(World(G, e, o, k, u, s, d, v), [do |-> "start", of |-> <<h, t>>],
                    World(G, e, o, k, u, s, d, y))
<1> DEFINE i == [do |-> "start", of |-> <<h, t>>]
           w == World(G, e, o, k, u, s, d, v)
           z == World(G, e, o, k, u, s, d, y)
<1>1. i.do = "start" /\ i.of[1] = h /\ i.of[2] = t
  OBVIOUS
<1>2. /\ w.guarded = G /\ w.adaptable = e /\ w.on = o /\ w.config = k /\ w.usable = u
      /\ w.shut = s /\ w.hidden = d /\ w.via = v
      /\ z.guarded = G /\ z.adaptable = e /\ z.on = o /\ z.config = k /\ z.usable = u
      /\ z.shut = s /\ z.hidden = d /\ z.via = y
  BY WorldIs
<1> HIDE DEF i, w, z
<1>3. TurnsWorld(w, i, z)
  BY <1>1, <1>2 DEF TurnsWorld, Openings
<1> QED BY <1>3 DEF i, w, z

LEMMA WorldOpens ==
  ASSUME NEW G, NEW e, NEW o, NEW k, NEW u, NEW s, NEW d, NEW v, NEW y, NEW j, NEW i,
         NEW h \in Handles, NEW c, NEW q,
         (i.do = "create" /\ q = "original") \/ (i.do = "reopen" /\ i.of[3] = q),
         i.of[1] = h, i.of[2] = c,
         \A x \in Handles : y[x] = IF x = h THEN c ELSE o[x],
         \A x \in Handles : j[x] = IF x = h THEN q ELSE k[x]
  PROVE  TurnsWorld(World(G, e, o, k, u, s, d, v), i, World(G, e, y, j, u \cup {h}, s, d, v))
<1> DEFINE w == World(G, e, o, k, u, s, d, v)
           z == World(G, e, y, j, u \cup {h}, s, d, v)
<1>2. /\ w.guarded = G /\ w.adaptable = e /\ w.on = o /\ w.config = k /\ w.usable = u
      /\ w.shut = s /\ w.hidden = d /\ w.via = v
      /\ z.guarded = G /\ z.adaptable = e /\ z.on = y /\ z.config = j /\ z.usable = u \cup {h}
      /\ z.shut = s /\ z.hidden = d /\ z.via = v
  BY WorldIs
<1> HIDE DEF w, z
<1>4. TurnsWorld(w, i, z)
  BY <1>2 DEF TurnsWorld, Openings
<1> QED BY <1>4 DEF w, z

LEMMA WorldShuts ==
  ASSUME NEW G, NEW e, NEW o, NEW k, NEW u, NEW s, NEW d, NEW v, NEW n, NEW r, NEW i,
         \/ i.do = "release" /\ n = u \ {i.of} /\ r = s
         \/ i.do = "aclose" /\ n = {} /\ r = TRUE
         \/ i.do = "recreate" /\ n = u /\ r = FALSE
  PROVE  TurnsWorld(World(G, e, o, k, u, s, d, v), i, World(G, e, o, k, n, r, d, v))
<1> DEFINE w == World(G, e, o, k, u, s, d, v)
           z == World(G, e, o, k, n, r, d, v)
<1>2. /\ w.guarded = G /\ w.adaptable = e /\ w.on = o /\ w.config = k /\ w.usable = u
      /\ w.shut = s /\ w.hidden = d /\ w.via = v
      /\ z.guarded = G /\ z.adaptable = e /\ z.on = o /\ z.config = k /\ z.usable = n
      /\ z.shut = r /\ z.hidden = d /\ z.via = v
  BY WorldIs
<1> HIDE DEF w, z
<1>4. TurnsWorld(w, i, z)
  BY <1>2 DEF TurnsWorld, Openings
<1> QED BY <1>4 DEF w, z

LEMMA WorldHides ==
  ASSUME NEW G, NEW e, NEW o, NEW k, NEW u, NEW s, NEW d, NEW v, NEW r
  PROVE  TurnsWorld(World(G, e, o, k, u, s, d, v), [do |-> "hide", of |-> r],
                    World(G, e, o, k, u, s, r, v))
<1> DEFINE w == World(G, e, o, k, u, s, d, v)
           z == World(G, e, o, k, u, s, r, v)
           i == [do |-> "hide", of |-> r]
<1>1. i.do = "hide" /\ i.of = r
  OBVIOUS
<1>2. /\ w.guarded = G /\ w.adaptable = e /\ w.on = o /\ w.config = k /\ w.usable = u
      /\ w.shut = s /\ w.hidden = d /\ w.via = v
      /\ z.guarded = G /\ z.adaptable = e /\ z.on = o /\ z.config = k /\ z.usable = u
      /\ z.shut = s /\ z.hidden = r /\ z.via = v
  BY WorldIs
<1> HIDE DEF w, z, i
<1>4. TurnsWorld(w, i, z)
  BY <1>1, <1>2 DEF TurnsWorld, Openings
<1> QED BY <1>4 DEF w, z, i

LEMMA HandsAre ==
  \A x, y, z : /\ Hands(x, y, z)[h1] = x /\ Hands(x, y, z)[h2] = y /\ Hands(x, y, z)[h3] = z
               /\ \A h \in Handles : \/ h = h1 \/ h = h2 \/ h = h3 \/ Hands(x, y, z)[h] = NoContext
BY ScenarioAssumption, NamesAssumption DEF Hands

LEMMA HandsChange ==
  \A x, y, z, k : \A h \in Handles :
    /\ Hands(k, y, z)[h] = IF h = h1 THEN k ELSE Hands(x, y, z)[h]
    /\ Hands(x, k, z)[h] = IF h = h2 THEN k ELSE Hands(x, y, z)[h]
    /\ Hands(x, y, k)[h] = IF h = h3 THEN k ELSE Hands(x, y, z)[h]
BY ScenarioAssumption, NamesAssumption DEF Hands

LEMMA ViasChange ==
  \A x, y, z, k : \A t \in Tasks :
    /\ Vias(k, y, z)[t] = IF t = t1 THEN k ELSE Vias(x, y, z)[t]
    /\ Vias(x, k, z)[t] = IF t = t2 THEN k ELSE Vias(x, y, z)[t]
    /\ Vias(x, y, k)[t] = IF t = t3 THEN k ELSE Vias(x, y, z)[t]
BY NamesAssumption DEF Vias

LEMMA ViasAre ==
  \A x, y, z : Vias(x, y, z)[t1] = x /\ Vias(x, y, z)[t2] = y /\ Vias(x, y, z)[t3] = z
BY ScenarioAssumption, NamesAssumption DEF Vias

-----------------------------------------------------------------------------
(* Who is admitted, and what the model is shown.                           *)

LEMMA FirstIsAdmitted ==
  ASSUME NEW G, NEW e, NEW o, NEW k, NEW u, NEW s, NEW d, NEW T, NEW h \in Handles, h \in u
  PROVE  Admits(World(G, e, o, k, u, s, d, Vias(NoHandle, NoHandle, NoHandle)),
                World(G, e, o, k, u, s, d, Vias(h, NoHandle, NoHandle)), T, h, t1, {t1})
<1> DEFINE w == World(G, e, o, k, u, s, d, Vias(NoHandle, NoHandle, NoHandle))
           v == World(G, e, o, k, u, s, d, Vias(h, NoHandle, NoHandle))
<1>1. TurnsWorld(w, [do |-> "start", of |-> <<h, t1>>], v)
  BY ViasChange, WorldStarts
<1>2. w.usable = u /\ w.on = o /\ w.via = Vias(NoHandle, NoHandle, NoHandle)
  BY WorldIs
<1> HIDE DEF w, v
<1>3. At(w, w.on[h]) = {}
  BY <1>2 DEF At, Vias
<1>4. Admits(w, v, T, h, t1, {t1})
  BY <1>1, <1>2, <1>3, ScenarioAssumption, AdmitsFirst
<1> QED BY <1>4 DEF w, v

LEMMA SecondIsAdmitted ==
  ASSUME NEW G, NEW e, NEW o, NEW k, NEW u, NEW s, NEW d, NEW T, NEW h \in Handles,
         NEW g \in Handles, h \in u, o[g] # o[h]
  PROVE  Admits(World(G, e, o, k, u, s, d, Vias(g, NoHandle, NoHandle)),
                World(G, e, o, k, u, s, d, Vias(g, h, NoHandle)), T, h, t2, {t2})
<1> DEFINE w == World(G, e, o, k, u, s, d, Vias(g, NoHandle, NoHandle))
           v == World(G, e, o, k, u, s, d, Vias(g, h, NoHandle))
<1>1. TurnsWorld(w, [do |-> "start", of |-> <<h, t2>>], v)
  BY ViasChange, WorldStarts
<1>2. w.usable = u /\ w.on = o /\ w.via = Vias(g, NoHandle, NoHandle)
  BY WorldIs
<1> HIDE DEF w, v
<1>3. At(w, w.on[h]) = {}
  BY <1>2, WhoIsThere
<1>4. Admits(w, v, T, h, t2, {t2})
  BY <1>1, <1>2, <1>3, ScenarioAssumption, AdmitsFirst
<1> QED BY <1>4 DEF w, v

LEMMA SecondFollows ==
  ASSUME NEW G, NEW e, NEW o, NEW k, NEW u, NEW s, NEW d, NEW y, NEW z, NEW h \in Handles,
         NEW g \in Handles, NEW r, NEW m, h \in u, o[g] = o[h], ~Uncertain(r), ~InTheWay(r),
         m = {t2} \cup r.saw
  PROVE  Admits(World(G, e, o, k, u, s, d, Vias(g, NoHandle, NoHandle)),
                World(G, e, o, k, u, s, d, Vias(g, h, NoHandle)), Cast({r}, y, z), h, t2, m)
<1> DEFINE w == World(G, e, o, k, u, s, d, Vias(g, NoHandle, NoHandle))
           v == World(G, e, o, k, u, s, d, Vias(g, h, NoHandle))
           T == Cast({r}, y, z)
<1>1. TurnsWorld(w, [do |-> "start", of |-> <<h, t2>>], v)
  BY ViasChange, WorldStarts
<1>2. w.usable = u /\ w.on = o /\ w.via = Vias(g, NoHandle, NoHandle)
  BY WorldIs
<1>3. T[t1] = {r}
  BY CastIs
<1> HIDE DEF w, v, T
<1>4. At(w, w.on[h]) = {t1}
  BY <1>2, WhoIsThere
<1>5. {t1, t2} \subseteq Tasks /\ t1 # t2
  BY ScenarioAssumption, NamesAssumption
<1>6. Admits(w, v, T, h, t2, m)
  BY <1>1, <1>2, <1>3, <1>4, <1>5, AdmitsSecond
<1> QED BY <1>6 DEF w, v, T

LEMMA ThirdIsAdmitted ==
  ASSUME NEW G, NEW e, NEW o, NEW k, NEW u, NEW s, NEW d, NEW T, NEW h \in Handles,
         NEW g \in Handles, NEW j \in Handles, h \in u, o[g] # o[h], o[j] # o[h]
  PROVE  Admits(World(G, e, o, k, u, s, d, Vias(g, j, NoHandle)),
                World(G, e, o, k, u, s, d, Vias(g, j, h)), T, h, t3, {t3})
<1> DEFINE w == World(G, e, o, k, u, s, d, Vias(g, j, NoHandle))
           v == World(G, e, o, k, u, s, d, Vias(g, j, h))
<1>1. TurnsWorld(w, [do |-> "start", of |-> <<h, t3>>], v)
  BY ViasChange, WorldStarts
<1>2. w.usable = u /\ w.on = o /\ w.via = Vias(g, j, NoHandle)
  BY WorldIs
<1> HIDE DEF w, v
<1>3. At(w, w.on[h]) = {}
  BY <1>2, WhoIsThere
<1>4. Admits(w, v, T, h, t3, {t3})
  BY <1>1, <1>2, <1>3, ScenarioAssumption, AdmitsFirst
<1> QED BY <1>4 DEF w, v

LEMMA ThirdFollows ==
  ASSUME NEW G, NEW e, NEW o, NEW k, NEW u, NEW s, NEW d, NEW z, NEW h \in Handles,
         NEW g \in Handles, NEW j \in Handles, NEW q, NEW r, NEW m, h \in u,
         o[g] = o[h], o[j] = o[h], ~Uncertain(q), ~InTheWay(q), ~Uncertain(r), ~InTheWay(r),
         m = {t3} \cup q.saw \cup r.saw
  PROVE  Admits(World(G, e, o, k, u, s, d, Vias(g, j, NoHandle)),
                World(G, e, o, k, u, s, d, Vias(g, j, h)), Cast({q}, {r}, z), h, t3, m)
<1> DEFINE w == World(G, e, o, k, u, s, d, Vias(g, j, NoHandle))
           v == World(G, e, o, k, u, s, d, Vias(g, j, h))
           T == Cast({q}, {r}, z)
<1>1. TurnsWorld(w, [do |-> "start", of |-> <<h, t3>>], v)
  BY ViasChange, WorldStarts
<1>2. /\ w.usable = u /\ w.on = o /\ w.via = Vias(g, j, NoHandle)
  BY WorldIs
<1>6. T[t1] = {q} /\ T[t2] = {r}
  <2>1. \A x, y : Cast(x, y, z)[t1] = x /\ Cast(x, y, z)[t2] = y
    BY CastIs
  <2> QED BY <2>1, Zenon
<1> HIDE DEF w, v, T
<1>3. At(w, w.on[h]) = {t1, t2}
  BY <1>2, WhoIsThere
<1>4. {t1, t2, t3} \subseteq Tasks /\ t1 # t3 /\ t2 # t3
  BY ScenarioAssumption, NamesAssumption
<1>5. Admits(w, v, T, h, t3, m)
  BY <1>1, <1>2, <1>3, <1>4, <1>6, AdmitsThird
<1> QED BY <1>5 DEF w, v, T

-----------------------------------------------------------------------------
(* The scenarios of tasks that ask for nothing.                            *)

LEMMA CompleteIs ==
  \A m : LET x == Complete(m)
         IN /\ x.saw = m /\ x.outcome = "completed" /\ x.admission # "submitted"
            /\ ~Uncertain(x) /\ ~InTheWay(x) /\ Stopped(x) = x
BY DEF Complete, Alone, Standing, Uncertain, InTheWay, Stopped, Live

LEMMA WorkingIs ==
  \A m : LET x == Working(m)
         IN x.saw = m /\ x.outcome = "none" /\ x.work = "working" /\ InTheWay(x)
BY DEF Working, Alone, Standing, InTheWay, Live

LEMMA Begins ==
  ASSUME NEW what \in Numbers
  PROVE  ~Begun(what, Fresh) /\ \A m : Begun(what, Complete(m)) /\ Begun(what, Working(m))
BY DEF Numbers, Begun, Fresh, Complete, Working, Alone, Standing

\* The first task runs to its end.
C1 == Complete({t1})

LEMMA FirstRuns ==
  ASSUME NEW e
  PROVE  Leads(Before({}, e, Usual), Creates(h1, c1) \o Runs(h1, t1),
               Scene(Usual, Started1({}, e), Cast({C1}, {Fresh}, {Fresh})))
<1> DEFINE S == {Complete({t1})}
<1>1. Leads(Before({}, e, Usual), Creates(h1, c1),
        Stage(Usual, Opened1({}, e), Nobody, t1, {Fresh}))
  BY FirstCreates
<1>2. Admits(Opened1({}, e), Started1({}, e), Nobody, h1, t1, {t1})
  BY FirstAdmits
<1>3. t1 \notin Started1({}, e).guarded
  BY DEF Started1, House, World
<1>4. Leads(Before({}, e, Usual), Creates(h1, c1) \o Runs(h1, t1),
            Stage(Usual, Started1({}, e), Nobody, t1, S))
  BY <1>1, <1>2, <1>3, UsualIs, ThenRuns
<1> HIDE DEF S
<1>5. Recast(Nobody, t1, {Fresh}, Cast(S, {Fresh}, {Fresh}), S)
  BY CastChanges DEF Nobody
<1>6. Leads(Before({}, e, Usual), Creates(h1, c1) \o Runs(h1, t1),
            Scene(Usual, Started1({}, e), Cast(S, {Fresh}, {Fresh})))
  BY <1>4, <1>5, RecastStage
<1> QED BY <1>6 DEF S, C1

\* No handle stands for the context (persistence.py:76-101).
LEMMA UnknownReferencePasses == Passes({}, TRUE, Usual, UnknownReference)
<1> DEFINE o == Hands(c1, NoContext, NoContext)
           m == {t2} \cup {t1}
           u == {h1}
           C2 == Complete(m)
           w == World({}, TRUE, o, Original, u, FALSE, FALSE, Vias(h1, NoHandle, NoHandle))
           v == World({}, TRUE, o, Original, u, FALSE, FALSE, Vias(h1, h1, NoHandle))
           T == Cast({C1}, {Fresh}, {Fresh})
           U == Cast({C1}, {C2}, {Fresh})
           is == {"transport", "incompatible"}
           b == Before({}, TRUE, Usual)
           p1 == Creates(h1, c1) \o Runs(h1, t1)
           p2 == p1 \o Asserts("reopening", <<c2, "original">>, is)
           p3 == p2 \o Runs(h1, t2)
<1>1. Leads(b, p1, Scene(Usual, w, T))
  BY FirstRuns DEF Started1, House
<1>o. \A h \in Handles : o[h] # c2
  BY HandsAre, ScenarioAssumption, NamesAssumption, NoContextAssumption DEF Hands
<1>w. w.on = o /\ v.guarded = {}
  BY DEF World
<1>i. "transport" \in is
  OBVIOUS
<1>m. C1.saw = {t1} /\ ~Uncertain(C1) /\ ~InTheWay(C1)
  BY CompleteIs DEF C1
<1>a. Admits(w, v, T, h1, t2, m)
  <2>1. h1 \in Handles /\ h1 \in u /\ m = {t2} \cup C1.saw
    BY <1>m, ScenarioAssumption
  <2> HIDE DEF o, m, u
  <2> QED BY <1>m, <2>1, SecondFollows
<1>r. Recast(T, t2, {Fresh}, U, {C2})
  <2> HIDE DEF C2
  <2> QED BY CastChanges
<1> HIDE DEF w, v, T, U, is, p1, o, u, m, b
<1>2. Leads(b, p2, Scene(Usual, w, T))
  BY <1>1, <1>o, <1>w, <1>i, ReopeningFails
<1> HIDE DEF p2
<1>3. Leads(b, p3, Scene(Usual, v, U))
  BY <1>2, <1>a, <1>r, <1>w, UsualIs, SceneRuns
<1> QED BY <1>3 DEF b, p1, p2, p3, is, Passes, UnknownReference

LEMMA HoldingIs == Holding.hold /\ ~Holding.manual /\ Holding.start = "accept"
BY DEF Holding, Playing

LEMMA TunedHolding == Tuned(Usual, Holding, "hold", TRUE)
BY DEF Holding, Usual, Playing, Tuned, ControlNames

LEMMA TunedUsual == Tuned(Holding, Usual, "hold", FALSE)
BY DEF Holding, Usual, Playing, Tuned, ControlNames

LEMMA FirstSets ==
  ASSUME NEW G, NEW e, NEW f, NEW g, NEW control, NEW is, Tuned(f, g, control, is)
  PROVE  Leads(Before(G, e, f), Sets(control, is), Before(G, e, g))
<1> DEFINE w == Empty(G, e)
           b == Before(G, e, f)
           p == <<>>
           F == {Fresh}
<1>1. Leads(b, p, Stage(f, w, Nobody, t1, F))
  BY BeforeLeads DEF Before
<1>2. Steady(F, g, w, t1) /\ Rests(g, w, Nobody, t1) /\ t1 \in Tasks
  BY NobodyRests, SteadyFresh, ScenarioAssumption
<1> HIDE DEF w, b, p, F
<1>3. Leads(b, p \o Sets(control, is), Stage(g, w, Nobody, t1, F))
  BY <1>1, <1>2, ThenSets
<1> QED BY <1>3 DEF Sets, Before, p, w, b, F

\* A start is known while its work is held (acceptance.py:52-68).
LEMMA HeldStartPasses == Passes({}, TRUE, Usual, HeldStart)
<1> DEFINE w == Started1({}, TRUE)
           e == Empty({}, TRUE)
           W == Working({t1})
           T == Cast({W}, {Fresh}, {Fresh})
           U == Cast({W} \cup {C1}, {Fresh}, {Fresh})
           E == Cast({C1}, {Fresh}, {Fresh})
           b == Before({}, TRUE, Usual)
           p1 == Holds
           p2 == p1 \o Creates(h1, c1)
           p3 == p2 \o Starts(h1, t1)
           p4 == p3 \o Until("seen", t1, {TRUE})
           p5 == p4 \o Asserts("outcome", t1, {"none"})
           p6 == p5 \o LetsGo
           p7 == p6 \o Awaits(t1, "completed")
<1>0. t1 \in Tasks /\ "seen" \in OfTask /\ "outcome" \in OfTask
  BY ScenarioAssumption, AllOfTask
<1>1. Leads(b, p1, Before({}, TRUE, Holding))
  BY TunedHolding, FirstSets DEF Holds
<1> HIDE DEF p1
<1>2. Leads(b, p2, Stage(Holding, Opened1({}, TRUE), Nobody, t1, {Fresh}))
  <2> HIDE DEF b
  <2> QED BY <1>1, ThenCreates1
<1>g. w.guarded = {}
  BY DEF Started1, House, World
<1> HIDE DEF p2, b, w
<1>3. Leads(b, p3, Stage(Holding, w, Nobody, t1, {W}))
  BY <1>2, <1>g, FirstAdmits, HoldingIs, ThenWorks DEF w
<1>s. /\ Steady({W}, Holding, w, t1) /\ Steady({W} \cup {C1}, Usual, w, t1)
      /\ Steady({C1}, Usual, w, t1)
  <2>1. Steady({W}, Holding, w, t1)
    BY <1>g, HoldingIs, SteadyHeld
  <2>2. Steady({Working({t1}), Complete({t1})}, Usual, w, t1)
    BY <1>g, UsualIs, SteadyRunning
  <2>3. {Working({t1}), Complete({t1})} = {W} \cup {C1}
    BY DEF C1
  <2> QED BY <2>1, <2>2, <2>3, SteadyComplete DEF C1
<1>f. /\ W.outcome = "none" /\ C1.outcome = "completed"
      /\ Told(W, "outcome") \in {"none"}
  BY WorkingIs, CompleteIs DEF C1, Told
<1>n. \A f : Rests(f, w, Nobody, t1)
  BY NobodyRests
<1> HIDE DEF p3, W
<1>4. Leads(b, p4, Stage(Holding, w, Nobody, t1, {W}))
  <2>1. \A x \in {W} : Told(x, "seen") \in {TRUE} => x \in {W}
    OBVIOUS
  <2> QED BY <1>0, <1>3, <1>s, <2>1, ThenWaits
<1> HIDE DEF p4
<1>5. Leads(b, p5, Stage(Holding, w, Nobody, t1, {W}))
  <2>1. \A x \in {W} : Told(x, "outcome") \in {"none"}
    BY <1>f
  <2> QED BY <1>0, <1>4, <2>1, ThenTells
<1> HIDE DEF p5
<1>6. Leads(b, p6, Stage(Usual, w, Nobody, t1, {W} \cup {C1}))
  BY <1>0, <1>5, <1>s, <1>n, TunedUsual, ThenSets DEF LetsGo
<1> HIDE DEF p6
<1>7. Leads(b, p7, Stage(Usual, w, Nobody, t1, {C1}))
  <2>1. /\ \A x \in {W} \cup {C1} : x.outcome = "none" \/ x \in {C1}
        /\ \A x \in {C1} : x.outcome = "completed"
    BY <1>f
  <2> QED BY <1>0, <1>6, <1>s, <2>1, ThenAwaits
<1> QED BY <1>7 DEF b, p1, p2, p3, p4, p5, p6, p7, Passes, HeldStart

LEMMA FirstScene ==
  ASSUME NEW G, NEW e, NEW f
  PROVE  Leads(Before(G, e, f), Creates(h1, c1),
               Scene(f, World(G, e, Hands(c1, NoContext, NoContext), Original, {h1}, FALSE, FALSE,
                              Vias(NoHandle, NoHandle, NoHandle)), Nobody))
<1> DEFINE F == {Fresh}
<1>1. Leads(Before(G, e, f), Creates(h1, c1), Stage(f, Opened1(G, e), Nobody, t1, F))
  BY FirstCreates
<1>2. Recast(Nobody, t1, F, Nobody, F)
  BY CastChanges DEF Nobody
<1> HIDE DEF F
<1>3. Leads(Before(G, e, f), Creates(h1, c1), Scene(f, Opened1(G, e), Nobody))
  BY <1>1, <1>2, RecastStage
<1> QED BY <1>3 DEF Opened1, House

LEMMA SceneCreates ==
  ASSUME NEW a, NEW p, NEW f, NEW G, NEW e, NEW o, NEW u, NEW s, NEW d, NEW v, NEW j, NEW c,
         NEW x, NEW y, NEW z, NEW h \in Handles,
         Leads(a, p, Scene(f, World(G, e, o, Original, u, s, d, v), Cast(x, y, z))),
         \A g \in Handles : j[g] = IF g = h THEN c ELSE o[g]
  PROVE  Leads(a, p \o Creates(h, c),
               Scene(f, World(G, e, j, Original, u \cup {h}, s, d, v), Cast(x, y, z)))
<1> DEFINE i == [do |-> "create", of |-> <<h, c>>]
           T == Cast(x, y, z)
           w == World(G, e, o, Original, u, s, d, v)
           n == World(G, e, j, Original, u \cup {h}, s, d, v)
<1>1. i.do = "create" /\ i.of[1] = h /\ i.of[2] = c /\ Creates(h, c) = <<i>>
  BY DEF Creates, Call
<1>2. \A g \in Handles : Original[g] = IF g = h THEN "original" ELSE Original[g]
  BY DEF Original
<1>3. Recast(T, t1, x, T, x)
  BY CastChanges
<1>4. Leads(a, p, Scene(f, w, T))
  OBVIOUS
<1> HIDE DEF i, T
<1>5. TurnsWorld(w, i, n)
  BY <1>1, <1>2, WorldOpens
<1> HIDE DEF w, n
<1>6. Leads(a, p \o <<i>>, Scene(f, n, T))
  BY <1>1, <1>3, <1>4, <1>5, SceneTurns
<1> QED BY <1>1, <1>6 DEF n, T

LEMMA SceneReports ==
  ASSUME NEW a, NEW p, NEW f, NEW w, NEW T, NEW t, NEW x, NEW y, NEW U, NEW kind,
         Leads(a, p, Scene(f, w, T)), Recast(T, t, {x}, U, {y}), Steady({y}, f, w, t),
         JudgedAs(x, "ended", kind) = y
  PROVE  Leads(a, p \o Reports(t, kind), Scene(f, w, U))
<1> DEFINE R == {x}
           S == {y}
<1>1. t \in Tasks /\ Leads(a, p, Stage(f, w, T, t, R)) /\ Stage(f, w, T, t, S) = Scene(f, w, U)
  BY RecastStage
<1>2. (\A z \in R : JudgedAs(z, "ended", kind) \in S) /\ Steady(S, f, w, t)
  OBVIOUS
<1> HIDE DEF R, S
<1> QED BY <1>1, <1>2, ThenCalls

\* Two sessions work at a time (lifecycle.py:100-120).
LEMMA ConcurrentPasses == \A G, e : Passes(G, e, Manual, Concurrent)
<1> TAKE G, e
<1> DEFINE o == Hands(c1, NoContext, NoContext)
           j == Hands(c1, c2, NoContext)
           u == {h1} \cup {h2}
           w0 == World(G, e, j, Original, u, FALSE, FALSE, Vias(NoHandle, NoHandle, NoHandle))
           w1 == World(G, e, j, Original, u, FALSE, FALSE, Vias(h1, NoHandle, NoHandle))
           w2 == World(G, e, j, Original, u, FALSE, FALSE, Vias(h1, h2, NoHandle))
           X1 == {Working({t1})}
           X2 == {Working({t2})}
           Y1 == {Complete({t1})}
           Y2 == {Complete({t2})}
           F == {Fresh}
           b == Before(G, e, Manual)
           p1 == Creates(h1, c1) \o Creates(h2, c2)
           p2 == p1 \o Starts(h1, t1)
           p3 == p2 \o Starts(h2, t2)
           p4 == p3 \o Reports(t1, "completed")
           p5 == p4 \o Reports(t2, "completed")
           p6 == p5 \o Awaits(t1, "completed")
           p7 == p6 \o Awaits(t2, "completed")
<1>0. h1 \in Handles /\ h2 \in Handles /\ h1 \in u /\ h2 \in u
  BY ScenarioAssumption
<1>j. j[h1] # j[h2]
  BY HandsAre, NamesAssumption
<1>s. /\ Steady(Y1, Manual, w2, t1) /\ Steady(Y2, Manual, w2, t2)
  BY SteadyComplete
<1>e. /\ JudgedAs(Working({t1}), "ended", "completed") = Complete({t1})
      /\ JudgedAs(Working({t2}), "ended", "completed") = Complete({t2})
      /\ Complete({t1}).outcome = "completed" /\ Complete({t2}).outcome = "completed"
  <2>1. \A m : JudgedAs(Working(m), "ended", "completed") = Complete(m)
    BY DEF JudgedAs, Working, Complete, Alone, Standing, Withdrawing
  <2> QED BY <2>1, CompleteIs
<1>1. Leads(b, p1, Scene(Manual, w0, Cast(F, F, F)))
  <2>1. \A g \in Handles : j[g] = IF g = h2 THEN c2 ELSE o[g]
    BY HandsChange
  <2> HIDE DEF j, o
  <2>2. Leads(b, Creates(h1, c1), Scene(Manual, World(G, e, o, Original, {h1}, FALSE, FALSE,
                                   Vias(NoHandle, NoHandle, NoHandle)),
                         Cast({Fresh}, {Fresh}, {Fresh})))
    BY FirstScene DEF Nobody, o
  <2> HIDE DEF b
  <2> QED BY <1>0, <2>1, <2>2, SceneCreates
<1> HIDE DEF b, p1, j, u
<1>2. Leads(b, p2, Scene(Manual, w1, Cast(X1, F, F)))
  <2>1. Recast(Cast(F, F, F), t1, F, Cast(X1, F, F), X1)
    BY CastChanges
  <2>2. Admits(w0, w1, Cast(F, F, F), h1, t1, {t1})
    BY <1>0, FirstIsAdmitted
  <2> HIDE DEF w0, w1
  <2> QED BY <1>1, <2>1, <2>2, ManualIs, SceneWorks
<1> HIDE DEF p2
<1>3. Leads(b, p3, Scene(Manual, w2, Cast(X1, X2, F)))
  <2>1. Recast(Cast(X1, F, F), t2, F, Cast(X1, X2, F), X2)
    BY CastChanges
  <2>2. Admits(w1, w2, Cast(X1, F, F), h2, t2, {t2})
    BY <1>0, <1>j, SecondIsAdmitted
  <2> HIDE DEF w1, w2, X1
  <2> QED BY <1>2, <2>1, <2>2, ManualIs, SceneWorks
<1> HIDE DEF p3, w0, w1, w2
<1>4. Leads(b, p4, Scene(Manual, w2, Cast(Y1, X2, F)))
  <2>1. Recast(Cast(X1, X2, F), t1, X1, Cast(Y1, X2, F), Y1)
    BY CastChanges
  <2> HIDE DEF X2
  <2> QED BY <1>3, <1>s, <1>e, <2>1, SceneReports
<1> HIDE DEF p4
<1>5. Leads(b, p5, Scene(Manual, w2, Cast(Y1, Y2, F)))
  <2>1. Recast(Cast(Y1, X2, F), t2, X2, Cast(Y1, Y2, F), Y2)
    BY CastChanges
  <2> HIDE DEF Y1
  <2> QED BY <1>4, <1>s, <1>e, <2>1, SceneReports
<1> HIDE DEF p5
<1>6. Leads(b, p6, Scene(Manual, w2, Cast(Y1, Y2, F)))
  <2>1. Recast(Cast(Y1, Y2, F), t1, Y1, Cast(Y1, Y2, F), Y1)
    BY CastChanges
  <2>2. \A y \in Y1 : y.outcome = "none" \/ y = Complete({t1})
    OBVIOUS
  <2> HIDE DEF Y2
  <2> QED BY <1>5, <1>s, <1>e, <2>1, <2>2, SceneAwaits
<1> HIDE DEF p6
<1>7. Leads(b, p7, Scene(Manual, w2, Cast(Y1, Y2, F)))
  <2>1. Recast(Cast(Y1, Y2, F), t2, Y2, Cast(Y1, Y2, F), Y2)
    BY CastChanges
  <2>2. \A y \in Y2 : y.outcome = "none" \/ y = Complete({t2})
    OBVIOUS
  <2> HIDE DEF Y1
  <2> QED BY <1>6, <1>s, <1>e, <2>1, <2>2, SceneAwaits
<1> QED BY <1>7 DEF b, p1, p2, p3, p4, p5, p6, p7, Passes, Concurrent

\* The boundary refuses the first start.
Refused == Alone("refused", "none", {}, "none", "no")

LEMMA RefusedIs ==
  /\ Refused.saw = {} /\ Refused.admission = "refused" /\ ~Uncertain(Refused) /\ ~InTheWay(Refused)
  /\ \A m : Arrived(Underway(m), "reject") = Refused
  /\ \A w : Steady({Refused}, Usual, w, t1)
  /\ Begun("submitted starts", Refused) /\ ~Begun("accepted starts", Refused)
<1>1. /\ Refused.saw = {} /\ Refused.admission = "refused" /\ ~Uncertain(Refused)
      /\ ~InTheWay(Refused)
  BY DEF Refused, Alone, Standing, Uncertain, InTheWay
<1>2. \A m : Arrived(Underway(m), "reject") = Refused
  BY DEF Refused, Underway, Alone, Standing, Arrived, Known, Reaches
<1>3. \A w : Quiet(Refused, Usual, w, t1)
  BY UsualIs DEF Quiet, Refused, Alone, Standing, InFlight
<1>4. Begun("submitted starts", Refused) /\ ~Begun("accepted starts", Refused)
  BY DEF Begun, Refused, Alone, Standing
<1> HIDE DEF Refused
<1> QED BY <1>1, <1>2, <1>3, <1>4, SteadyQuiet

LEMMA AllNumbers == "submitted starts" \in Numbers /\ "accepted starts" \in Numbers
BY DEF Numbers

\* A start the boundary refuses leaves the handle free (acceptance.py:75-90).
LEMMA NondeliveredStartPasses == Passes({}, TRUE, Usual, NondeliveredStart)
<1> DEFINE f == Playing("reject", "accept", FALSE, FALSE, FALSE)
           o == Hands(c1, NoContext, NoContext)
           u == {h1}
           w0 == World({}, TRUE, o, Original, u, FALSE, FALSE, Vias(NoHandle, NoHandle, NoHandle))
           w1 == World({}, TRUE, o, Original, u, FALSE, FALSE, Vias(h1, NoHandle, NoHandle))
           w2 == World({}, TRUE, o, Original, u, FALSE, FALSE, Vias(h1, h1, NoHandle))
           F == {Fresh}
           X == {Refused}
           m == {t2}
           Y == {Complete(m)}
           b == Before({}, TRUE, Usual)
           p1 == Creates(h1, c1)
           p2 == p1 \o Sets("start", "reject")
           p3 == p2 \o StartsInto(h1, t1, "refused")
           p4 == p3 \o Asserts("submitted starts", h1, {1})
           p5 == p4 \o Asserts("accepted starts", h1, {0})
           p6 == p5 \o Sets("start", "accept")
           p7 == p6 \o Runs(h1, t2)
           p8 == p7 \o Asserts("submitted starts", h1, {2})
           p9 == p8 \o Asserts("accepted starts", h1, {1})
<1>0. h1 \in Handles /\ h1 \in u
  BY ScenarioAssumption
<1>1. Leads(b, p1, Scene(Usual, w0, Cast(F, F, F)))
  BY FirstScene DEF Nobody
<1>f. f.start = "reject" /\ Tuned(Usual, f, "start", "reject") /\ Tuned(f, Usual, "start", "accept")
  BY DEF Usual, Playing, Tuned, ControlNames
<1>s. /\ Steady(F, f, w0, t1) /\ Steady(F, f, w0, t2) /\ Steady(F, f, w0, t3)
      /\ Steady(X, Usual, w1, t1) /\ Steady(F, Usual, w1, t2) /\ Steady(F, Usual, w1, t3)
  BY SteadyFresh, RefusedIs
<1>x. Steady(X, f, w1, t1)
  <2>1. Quiet(Refused, f, w1, t1)
    BY DEF f, Playing, Quiet, Refused, Alone, Standing, InFlight
  <2> HIDE DEF f, w1
  <2> QED BY <2>1, SteadyQuiet
<1>n. /\ \A x \in F : ~Begun("submitted starts", x) /\ ~Begun("accepted starts", x)
      /\ \A x \in X : Begun("submitted starts", x) /\ ~Begun("accepted starts", x)
      /\ \A x \in Y : Begun("submitted starts", x) /\ Begun("accepted starts", x)
  BY AllNumbers, Begins, RefusedIs
<1>a. Admits(w0, w1, Cast(F, F, F), h1, t1, {t1})
  BY <1>0, FirstIsAdmitted
<1>c. Admits(w1, w2, Cast(X, F, F), h1, t2, m)
  <2>1. m = {t2} \cup Refused.saw
    BY RefusedIs
  <2> HIDE DEF m, u, o
  <2> QED BY <1>0, <2>1, RefusedIs, SecondFollows
<1>g. w2.guarded = {}
  BY DEF World
<1> HIDE DEF b, p1, w0, w1, w2, f, u, o
<1>2. Leads(b, p2, Scene(f, w0, Cast(F, F, F)))
  <2>1. Recast(Cast(F, F, F), t1, F, Cast(F, F, F), F)
    BY CastChanges
  <2>2. Closed(Scene(f, w0, Cast(F, F, F)))
    BY <1>s, ClosedTrio
  <2> HIDE DEF F
  <2> QED BY <1>1, <1>f, <2>1, <2>2, SceneSets
<1> HIDE DEF p2
<1>3. Leads(b, p3, Scene(f, w1, Cast(X, F, F)))
  <2>1. Recast(Cast(F, F, F), t1, F, Cast(X, F, F), X)
    BY CastChanges
  <2>2. Arrived(Underway({t1}), f.start) = Refused /\ Refused.admission = "refused"
    BY <1>f, RefusedIs
  <2> QED BY <1>2, <1>a, <1>x, <2>1, <2>2, SceneStarts
<1> HIDE DEF p3, X, F, Y, m
<1>4. Leads(b, p4, Scene(f, w1, Cast(X, F, F)))
  BY <1>3, <1>n, AllNumbers, CastCounts
<1> HIDE DEF p4
<1>5. Leads(b, p5, Scene(f, w1, Cast(X, F, F)))
  <2>1. \A s \in X \cup F : ~Begun("accepted starts", s)
    BY <1>n
  <2> QED BY <1>4, <1>n, <2>1, AllNumbers, CastCounts
<1> HIDE DEF p5
<1>6. Leads(b, p6, Scene(Usual, w1, Cast(X, F, F)))
  <2>1. Recast(Cast(X, F, F), t1, X, Cast(X, F, F), X)
    BY CastChanges
  <2>2. Closed(Scene(Usual, w1, Cast(X, F, F)))
    BY <1>s, ClosedTrio
  <2> QED BY <1>5, <1>f, <2>1, <2>2, SceneSets
<1> HIDE DEF p6
<1>7. Leads(b, p7, Scene(Usual, w2, Cast(X, Y, F)))
  <2>1. Recast(Cast(X, F, F), t2, F, Cast(X, Y, F), Y)
    BY CastChanges
  <2> QED BY <1>6, <1>c, <1>g, <2>1, UsualIs, SceneRuns DEF F, Y
<1> HIDE DEF p7
<1>8. Leads(b, p8, Scene(Usual, w2, Cast(X, Y, F)))
  <2>1. \A s \in X \cup Y : Begun("submitted starts", s)
    BY <1>n
  <2> QED BY <1>7, <1>n, <2>1, AllNumbers, CastCounts
<1> HIDE DEF p8
<1>9. Leads(b, p9, Scene(Usual, w2, Cast(X, Y, F)))
  BY <1>8, <1>n, AllNumbers, CastCounts
<1> QED BY <1>9 DEF b, p1, p2, p3, p4, p5, p6, p7, p8, p9, Passes, NondeliveredStart

\* Task t1 is on the context of handle h1.
LEMMA FirstIsThere ==
  ASSUME NEW w, NEW y, NEW z, w.via = Vias(h1, y, z)
  PROVE  t1 \in At(w, w.on[h1])
<1>1. w.via[t1] = h1 /\ t1 \in Tasks /\ h1 # NoHandle
  BY ViasAre, ScenarioAssumption, NoHandleAssumption
<1> QED BY <1>1 DEF At

LEMMA HandsJoin ==
  \A h \in Handles :
    Hands(c1, c2, NoContext)[h] = IF h = h2 THEN c2 ELSE Hands(c1, NoContext, NoContext)[h]
BY HandsChange

LEMMA TunedLosing ==
  ASSUME NEW fate, NEW f, NEW g,
         f = Playing(fate, "accept", TRUE, FALSE, FALSE),
         g = Playing(fate, "accept", FALSE, FALSE, FALSE)
  PROVE  f.start = fate /\ Tuned(Holding, f, "start", fate) /\ Tuned(g, Usual, "start", "accept")
BY DEF Holding, Usual, Playing, Tuned, ControlNames

LEMMA TunedLost ==
  ASSUME NEW fate, NEW f, NEW g,
         f = Playing(fate, "accept", TRUE, FALSE, FALSE),
         g = Playing(fate, "accept", FALSE, FALSE, FALSE)
  PROVE  Tuned(f, g, "hold", FALSE)
BY DEF Playing, Tuned, ControlNames

\* What is known of a start the boundary lost, whatever became of it: U at first, and S when its
\* work goes on.
LosesStart(fate, n, seen, U, S, f, g) ==
  /\ f = Playing(fate, "accept", TRUE, FALSE, FALSE)
  /\ g = Playing(fate, "accept", FALSE, FALSE, FALSE)
  /\ Arrived(Underway({t1}), fate) = U /\ U \in S
  /\ \A x \in S : x.admission = "unconfirmed" /\ Begun("submitted starts", x)
  /\ \/ n = 1 /\ Begun("accepted starts", U)
     \/ n = 0 /\ ~Begun("accepted starts", U)
  /\ Told(U, "seen") \in seen
  /\ \A w, t : t \notin w.guarded =>
       Steady({U}, f, w, t) /\ Steady(S, g, w, t) /\ Steady(S, Usual, w, t)

LEMMA LostStartLeads ==
  ASSUME NEW fate, NEW n, NEW seen, NEW U, NEW S, NEW f, NEW g,
         LosesStart(fate, n, seen, U, S, f, g)
  PROVE  Passes({}, TRUE, Usual,
           Holds \o Creates(h1, c1) \o Sets("start", fate) \o StartsInto(h1, t1, "unconfirmed") \o
           Asserts("submitted starts", h1, {1}) \o Asserts("accepted starts", h1, {n}) \o
           Asserts("start", h1, {"blocked"}) \o Asserts("seen", t1, seen) \o LetsGo \o
           Sets("start", "accept") \o Creates(h2, c2) \o Runs(h2, t2) \o
           Asserts("start", h1, {"blocked"}) \o Asserts("submitted starts", h1, {2}))
<1> DEFINE o == Hands(c1, NoContext, NoContext)
           j == Hands(c1, c2, NoContext)
           u == {h1}
           i == u \cup {h2}
           w0 == World({}, TRUE, o, Original, u, FALSE, FALSE, Vias(NoHandle, NoHandle, NoHandle))
           w1 == World({}, TRUE, o, Original, u, FALSE, FALSE, Vias(h1, NoHandle, NoHandle))
           w2 == World({}, TRUE, j, Original, i, FALSE, FALSE, Vias(h1, NoHandle, NoHandle))
           w3 == World({}, TRUE, j, Original, i, FALSE, FALSE, Vias(h1, h2, NoHandle))
           F == {Fresh}
           X == {U}
           m == {t2}
           Y == {Complete(m)}
           b == Before({}, TRUE, Usual)
           p1 == Holds
           p2 == p1 \o Creates(h1, c1)
           p3 == p2 \o Sets("start", fate)
           p4 == p3 \o StartsInto(h1, t1, "unconfirmed")
           p5 == p4 \o Asserts("submitted starts", h1, {1})
           p6 == p5 \o Asserts("accepted starts", h1, {n})
           p7 == p6 \o Asserts("start", h1, {"blocked"})
           p8 == p7 \o Asserts("seen", t1, seen)
           p9 == p8 \o LetsGo
           p10 == p9 \o Sets("start", "accept")
           p11 == p10 \o Creates(h2, c2)
           p12 == p11 \o Runs(h2, t2)
           p13 == p12 \o Asserts("start", h1, {"blocked"})
           p14 == p13 \o Asserts("submitted starts", h1, {2})
<1>0. h1 \in Handles /\ h2 \in Handles /\ h1 \in u /\ h2 \in i
  BY ScenarioAssumption
<1>t. t1 \in Tasks /\ "seen" \in OfTask
  BY ScenarioAssumption, AllOfTask
<1>h. j[h1] # j[h2]
  BY HandsAre, NamesAssumption
<1>j. \A q \in Handles : j[q] = IF q = h2 THEN c2 ELSE o[q]
  BY HandsJoin
<1>f. f.start = fate /\ Tuned(Holding, f, "start", fate) /\ Tuned(g, Usual, "start", "accept")
  BY TunedLosing DEF LosesStart
<1>g. Tuned(f, g, "hold", FALSE)
  BY TunedLost DEF LosesStart
<1>w. /\ w1.guarded = {} /\ w3.guarded = {}
      /\ w1.via = Vias(h1, NoHandle, NoHandle) /\ w3.via = Vias(h1, h2, NoHandle)
  BY DEF World
<1>s. \A q, w : Steady(F, q, w, t1) /\ Steady(F, q, w, t2) /\ Steady(F, q, w, t3)
  BY SteadyFresh
<1>n. /\ \A x \in F : ~Begun("submitted starts", x) /\ ~Begun("accepted starts", x)
      /\ \A x \in Y : Begun("submitted starts", x)
  BY AllNumbers, Begins
<1>c. \A x \in S : Uncertain(x) /\ Begun("submitted starts", x)
  BY DEF Uncertain, LosesStart
<1>u. /\ Arrived(Underway({t1}), fate) = U /\ U \in S /\ U.admission = "unconfirmed"
      /\ \/ n = 1 /\ Begun("accepted starts", U)
         \/ n = 0 /\ ~Begun("accepted starts", U)
  BY DEF LosesStart
<1>v. Told(U, "seen") \in seen
  BY DEF LosesStart
<1>q. \A w, t : t \notin w.guarded =>
        Steady({U}, f, w, t) /\ Steady(S, g, w, t) /\ Steady(S, Usual, w, t)
  BY DEF LosesStart
<1>a. Admits(w0, w1, Cast(F, F, F), h1, t1, {t1})
  BY <1>0, FirstIsAdmitted
<1>b. Admits(w2, w3, Cast(S, F, F), h2, t2, m)
  <2> HIDE DEF j, i
  <2> QED BY <1>0, <1>h, SecondIsAdmitted
<1> HIDE DEF b
<1>1. Leads(b, p1, Before({}, TRUE, Holding))
  BY TunedHolding, FirstSets DEF Holds, b
<1> HIDE DEF p1
<1>2. Leads(b, p2, Scene(Holding, w0, Cast(F, F, F)))
  <2>1. Leads(Before({}, TRUE, Holding), Creates(h1, c1), Scene(Holding, w0, Cast(F, F, F)))
    BY FirstScene DEF Nobody
  <2> HIDE DEF w0, F
  <2> QED BY <1>1, <2>1, LeadsOn
<1> HIDE DEF p2, w0, w3, F, u, i, o, j
<1>3. Leads(b, p3, Scene(f, w0, Cast(F, F, F)))
  <2>1. Recast(Cast(F, F, F), t1, F, Cast(F, F, F), F)
    BY CastChanges
  <2>2. Closed(Scene(f, w0, Cast(F, F, F)))
    BY <1>s, ClosedTrio
  <2> QED BY <1>2, <1>f, <2>1, <2>2, SceneSets
<1> HIDE DEF p3, w1
<1>4. Leads(b, p4, Scene(f, w1, Cast(X, F, F)))
  <2>1. Recast(Cast(F, F, F), t1, F, Cast(X, F, F), X)
    BY CastChanges
  <2>2. Steady(X, f, w1, t1)
    BY <1>w, <1>q
  <2> QED BY <1>3, <1>a, <1>f, <1>u, <2>1, <2>2, SceneStarts DEF F
<1> HIDE DEF p4, X, Y, m
<1>5. Leads(b, p5, Scene(f, w1, Cast(X, F, F)))
  <2>1. \A x \in X : Begun("submitted starts", x)
    BY <1>c, <1>u DEF X
  <2> QED BY <1>4, <1>n, <2>1, AllNumbers, CastCounts
<1> HIDE DEF p5
<1>6. Leads(b, p6, Scene(f, w1, Cast(X, F, F)))
  <2>1. CASE n = 1 /\ Begun("accepted starts", U)
    <3>1. \A x \in X : Begun("accepted starts", x)
      BY <2>1 DEF X
    <3> QED BY <1>5, <1>n, <2>1, <3>1, AllNumbers, CastCounts
  <2>2. CASE n = 0 /\ ~Begun("accepted starts", U)
    <3>1. \A x \in X \cup F : ~Begun("accepted starts", x)
      BY <1>n, <2>2 DEF X
    <3> QED BY <1>5, <1>n, <2>2, <3>1, AllNumbers, CastCounts
  <2> QED BY <1>u, <2>1, <2>2
<1> HIDE DEF p6
<1>7. Leads(b, p7, Scene(f, w1, Cast(X, F, F)))
  <2>1. \A x \in Cast(X, F, F)[t1] : Uncertain(x)
    <3>1. Cast(X, F, F)[t1] = X
      BY CastIs
    <3> QED BY <1>c, <1>u, <3>1 DEF X
  <2>2. t1 \in At(w1, w1.on[h1])
    BY <1>w, FirstIsThere
  <2> QED BY <1>0, <1>6, <2>1, <2>2, StartIsBlocked
<1> HIDE DEF p7
<1>8. Leads(b, p8, Scene(f, w1, Cast(X, F, F)))
  <2>1. \A x \in Cast(X, F, F)[t1] : Told(x, "seen") \in seen
    <3>1. Cast(X, F, F)[t1] = X
      BY CastIs
    <3> QED BY <1>v, <3>1 DEF X
  <2> QED BY <1>7, <1>t, <2>1, SceneTells
<1> HIDE DEF p8
<1>9. Leads(b, p9, Scene(g, w1, Cast(S, F, F)))
  <2>1. Recast(Cast(X, F, F), t1, X, Cast(S, F, F), S) /\ X \subseteq S
    BY <1>u, CastChanges DEF X
  <2>2. Closed(Scene(g, w1, Cast(S, F, F)))
    BY <1>s, <1>w, <1>q, ClosedTrio
  <2> QED BY <1>8, <1>g, <2>1, <2>2, SceneSets DEF LetsGo
<1> HIDE DEF p9
<1>10. Leads(b, p10, Scene(Usual, w1, Cast(S, F, F)))
  <2>1. Recast(Cast(S, F, F), t1, S, Cast(S, F, F), S)
    BY CastChanges
  <2>2. Closed(Scene(Usual, w1, Cast(S, F, F)))
    BY <1>s, <1>w, <1>q, ClosedTrio
  <2> QED BY <1>9, <1>f, <2>1, <2>2, SceneSets
<1> HIDE DEF p10
<1>11. Leads(b, p11, Scene(Usual, w2, Cast(S, F, F)))
  BY <1>0, <1>10, <1>j, SceneCreates DEF w1, i
<1> HIDE DEF p11, w2
<1>12. Leads(b, p12, Scene(Usual, w3, Cast(S, Y, F)))
  <2>1. Recast(Cast(S, F, F), t2, F, Cast(S, Y, F), Y)
    BY CastChanges
  <2> QED BY <1>11, <1>b, <1>w, <2>1, UsualIs, SceneRuns DEF F, Y
<1> HIDE DEF p12
<1>13. Leads(b, p13, Scene(Usual, w3, Cast(S, Y, F)))
  <2>1. \A x \in Cast(S, Y, F)[t1] : Uncertain(x)
    <3>1. Cast(S, Y, F)[t1] = S
      BY CastIs
    <3> QED BY <1>c, <3>1
  <2>2. t1 \in At(w3, w3.on[h1])
    BY <1>w, FirstIsThere
  <2> QED BY <1>0, <1>12, <2>1, <2>2, StartIsBlocked
<1> HIDE DEF p13
<1>14. Leads(b, p14, Scene(Usual, w3, Cast(S, Y, F)))
  <2>1. \A x \in S \cup Y : Begun("submitted starts", x)
    BY <1>c, <1>n
  <2> QED BY <1>13, <1>n, <2>1, AllNumbers, CastCounts
<1> QED
  BY <1>14 DEF b, p1, p2, p3, p4, p5, p6, p7, p8, p9, p10, p11, p12, p13, p14, Passes

\* The runtime works on a start of which nobody heard (acceptance.py:92-135).
LEMMA LostAcceptancePasses == Passes({}, TRUE, Usual, LostStart("lose_accepted", 1))
<1> DEFINE f == Playing("lose_accepted", "accept", TRUE, FALSE, FALSE)
           g == Playing("lose_accepted", "accept", FALSE, FALSE, FALSE)
           U == Unheard("working", {t1})
           E == Unheard("ended", {t1})
           S == {U} \cup {E}
<1>1. Arrived(Underway({t1}), "lose_accepted") = U
  BY DEF Underway, Unheard, Alone, Standing, Arrived, Known, Reaches
<1>2. /\ U.admission = "unconfirmed" /\ E.admission = "unconfirmed" /\ U.work = "working"
      /\ Begun("submitted starts", U) /\ Begun("submitted starts", E) /\ Begun("accepted starts", U)
  BY DEF Unheard, Alone, Standing, Begun
<1>3. Told(U, "seen") \in {1 = 1}
  <2> HIDE DEF U
  <2> QED BY <1>2 DEF Told
<1>4. ASSUME NEW w, NEW t, t \notin w.guarded
      PROVE  Steady({U}, f, w, t) /\ Steady(S, g, w, t) /\ Steady(S, Usual, w, t)
  <2>1. Quiet(U, f, w, t)
    BY <1>4 DEF Quiet, Unheard, Alone, Standing, Playing, InFlight
  <2>2. Quiet(E, g, w, t) /\ Quiet(E, Usual, w, t)
    BY <1>4 DEF Quiet, Unheard, Alone, Standing, Usual, Playing, InFlight
  <2>3. /\ \A z : Moves(U, z, g, t \in w.guarded, w.shut) => z = E
        /\ \A z : Moves(U, z, Usual, t \in w.guarded, w.shut) => z = E
    BY <1>4 DEF Unheard, Alone, Standing, Moves, JudgedAs, Usual, Playing, InFlight, Live
  <2> HIDE DEF U, E, f, g
  <2>4. Steady({U}, f, w, t) /\ Steady({E}, g, w, t) /\ Steady({E}, Usual, w, t)
    BY <2>1, <2>2, SteadyQuiet
  <2>5. Steady(S, g, w, t) /\ Steady(S, Usual, w, t)
    BY <2>3, <2>4, SteadyMore
  <2> QED BY <2>4, <2>5
<1> HIDE DEF U, E
<1>5. U \in S /\ \A x \in S : x.admission = "unconfirmed" /\ Begun("submitted starts", x)
  BY <1>2
<1> HIDE DEF S
<1>6. LosesStart("lose_accepted", 1, {1 = 1}, U, S, f, g)
  BY <1>1, <1>2, <1>3, <1>4, <1>5 DEF LosesStart
<1> QED BY <1>6, LostStartLeads DEF LostStart

\* Nothing became of the start, and nobody knows (acceptance.py:92-135).
LEMMA LostSubmissionPasses == Passes({}, TRUE, Usual, LostStart("lose", 0))
<1> DEFINE f == Playing("lose", "accept", TRUE, FALSE, FALSE)
           g == Playing("lose", "accept", FALSE, FALSE, FALSE)
           U == Unheard("none", {})
           S == {U}
<1>1. Arrived(Underway({t1}), "lose") = U
  BY DEF Underway, Unheard, Alone, Standing, Arrived, Known, Reaches
<1>2. /\ U.admission = "unconfirmed" /\ U.work = "none"
      /\ Begun("submitted starts", U) /\ ~Begun("accepted starts", U)
  BY DEF Unheard, Alone, Standing, Begun
<1>3. Told(U, "seen") \in {0 = 1}
  <2> HIDE DEF U
  <2>1. Told(U, "seen") = FALSE
    BY <1>2 DEF Told
  <2>2. FALSE \in {0 = 1}
    <3>1. 0 # 1
      OBVIOUS
    <3> QED BY <3>1, Zenon
  <2> QED BY <2>1, <2>2, Zenon
<1>4. ASSUME NEW w, NEW t, t \notin w.guarded
      PROVE  Steady({U}, f, w, t) /\ Steady(S, g, w, t) /\ Steady(S, Usual, w, t)
  <2>1. Quiet(U, f, w, t) /\ Quiet(U, g, w, t) /\ Quiet(U, Usual, w, t)
    BY <1>4 DEF Quiet, Unheard, Alone, Standing, Usual, Playing, InFlight
  <2> HIDE DEF U, f, g
  <2> QED BY <2>1, SteadyQuiet
<1> HIDE DEF U
<1>5. U \in S /\ \A x \in S : x.admission = "unconfirmed" /\ Begun("submitted starts", x)
  BY <1>2
<1> HIDE DEF S
<1>6. LosesStart("lose", 0, {0 = 1}, U, S, f, g)
  BY <1>1, <1>2, <1>3, <1>4, <1>5 DEF LosesStart
<1> QED BY <1>6, LostStartLeads DEF LostStart

\* A second handle stands for the context of the first one.
LEMMA HandsShare ==
  /\ \A h \in Handles : Hands(c1, c1, NoContext)[h]
                          = IF h = h2 THEN c1 ELSE Hands(c1, NoContext, NoContext)[h]
  /\ Hands(c1, c1, NoContext)[h1] = c1 /\ Hands(c1, c1, NoContext)[h2] = c1
  /\ Hands(c1, NoContext, NoContext)[h1] = c1
BY HandsChange, HandsAre

\* The context of the first task, which is over, is reopened: u are the handles still usable.
LEMMA SecondReopens ==
  ASSUME NEW a, NEW p, NEW u,
         Leads(a, p, Scene(Usual, World({}, TRUE, Hands(c1, NoContext, NoContext), Original, u,
                                        FALSE, FALSE, Vias(h1, NoHandle, NoHandle)),
                           Cast({C1}, {Fresh}, {Fresh})))
  PROVE  Leads(a, p \o Reopens(h2, c1, "original"),
               Scene(Usual, World({}, TRUE, Hands(c1, c1, NoContext), Original, u \cup {h2},
                                  FALSE, FALSE, Vias(h1, NoHandle, NoHandle)),
                     Cast({C1}, {Fresh}, {Fresh})))
<1> DEFINE o == Hands(c1, NoContext, NoContext)
           j == Hands(c1, c1, NoContext)
           w == World({}, TRUE, o, Original, u, FALSE, FALSE, Vias(h1, NoHandle, NoHandle))
           v == World({}, TRUE, j, Original, u \cup {h2}, FALSE, FALSE,
                 Vias(h1, NoHandle, NoHandle))
           X == {C1}
           F == {Fresh}
           T == Cast(X, F, F)
           i == [do |-> "reopen", of |-> <<h2, c1, "original">>]
<1>0. h1 \in Handles /\ h2 \in Handles
  BY ScenarioAssumption
<1>1. i.do = "reopen" /\ i.of[1] = h2 /\ i.of[2] = c1 /\ i.of[3] = "original"
  OBVIOUS
<1>2. \A h \in Handles : Original[h] = "original"
  BY DEF Original
<1>3. /\ w.on = o /\ w.config = Original /\ ~w.shut /\ ~w.hidden
      /\ w.via = Vias(h1, NoHandle, NoHandle)
  BY DEF World
<1>4. Recast(T, t1, X, T, X) /\ T[t1] = X
  BY CastChanges, CastIs
<1>5. \A x \in X : ~Uncertain(x) /\ ~InTheWay(x)
  BY CompleteIs DEF C1
<1>6. Leads(a, p, Scene(Usual, w, T))
  OBVIOUS
<1>7. TurnsWorld(w, i, v)
  <2>1. \A x \in Handles : j[x] = IF x = h2 THEN c1 ELSE o[x]
    BY HandsShare
  <2> DEFINE V == Vias(h1, NoHandle, NoHandle)
  <2> HIDE DEF i, j, o, V
  <2>2. TurnsWorld(House({}, TRUE, o, u, V), i, House({}, TRUE, j, u \cup {h2}, V))
    BY <1>0, <1>1, <2>1, HouseOpens
  <2> QED BY <2>2 DEF House, V
<1> HIDE DEF w, v, T, X
<1>8. StandsFor(w, c1) /\ \A t \in At(w, c1) : \A x \in T[t] : ~Uncertain(x) /\ ~InTheWay(x)
  <2>1. w.on[h1] = c1
    BY <1>3, HandsShare
  <2>2. At(w, c1) = {t1}
    BY <1>0, <1>3, <2>1, WhoIsThere
  <2> QED BY <1>0, <1>3, <1>4, <1>5, <2>1, <2>2 DEF StandsFor
<1>9. \A g \in Handles : w.on[g] = c1 => w.config[g] = "original"
  BY <1>2, <1>3
<1>10. Leads(a, p \o Reopens(h2, c1, "original"), Scene(Usual, v, T))
  BY <1>4, <1>6, <1>7, <1>8, <1>9, ReopeningGoes
<1> QED BY <1>10 DEF v, T, X

\* Two handles stand for one context (context.py:26-49).
LEMMA SharedExclusionPasses == Passes({}, TRUE, Usual, SharedExclusion)
<1> DEFINE o == Hands(c1, NoContext, NoContext)
           j == Hands(c1, c1, NoContext)
           u == {h1}
           i == u \cup {h2}
           n == i \ {h1}
           w1 == World({}, TRUE, o, Original, u, FALSE, FALSE, Vias(h1, NoHandle, NoHandle))
           w2 == World({}, TRUE, j, Original, i, FALSE, FALSE, Vias(h1, NoHandle, NoHandle))
           w3 == World({}, TRUE, j, Original, i, FALSE, FALSE, Vias(h1, h2, NoHandle))
           w4 == World({}, TRUE, j, Original, n, FALSE, FALSE, Vias(h1, h2, NoHandle))
           w5 == World({}, TRUE, j, Original, n, FALSE, FALSE, Vias(h1, h2, h2))
           m == {t2} \cup {t1}
           k == {t3} \cup {t1} \cup m
           W == Working(m)
           C2 == Complete(m)
           C3 == Complete(k)
           F == {Fresh}
           X == {C1}
           Y == {W}
           Z == {W} \cup {C2}
           E == {C2}
           L == {C3}
           l == [do |-> "release", of |-> h1]
           is == {"overlap", "blocked"}
           b == Before({}, TRUE, Usual)
           p1 == Creates(h1, c1) \o Runs(h1, t1)
           p2 == p1 \o Reopens(h2, c1, "original")
           p3 == p2 \o Holds
           p4 == p3 \o Starts(h2, t2)
           p5 == p4 \o Asserts("start", h1, is)
           p6 == p5 \o Asserts("reopening", <<c1, "original">>, is)
           p7 == p6 \o Asserts("submitted starts", h1, {2})
           p8 == p7 \o LetsGo
           p9 == p8 \o Awaits(t2, "completed")
           p10 == p9 \o <<l>>
           p11 == p10 \o Asserts("start", h1, {"blocked"})
           p12 == p11 \o Runs(h2, t3)
           p13 == p12 \o Asserts("context", t3, {{t1, t2, t3}})
<1>0. /\ h1 \in Handles /\ h2 \in Handles /\ h2 \in i /\ h2 \in n /\ h1 \notin n
      /\ t1 \in Tasks /\ t2 \in Tasks /\ t3 \in Tasks
  BY ScenarioAssumption, NamesAssumption
<1>1. Leads(b, p1, Scene(Usual, w1, Cast(X, F, F)))
  BY FirstRuns DEF Started1, House
<1>k. k = {t1, t2, t3}
  OBVIOUS
<1>i. "blocked" \in is /\ "overlap" \in is
  OBVIOUS
<1>l. l.do = "release" /\ l.of = h1 /\ Call("release", h1) = <<l>>
  BY DEF Call
<1>j. j[h1] = c1 /\ j[h2] = c1
  BY HandsShare
<1>w. /\ w2.guarded = {} /\ w3.guarded = {} /\ w4.guarded = {} /\ w5.guarded = {}
      /\ w3.on = j /\ w3.via = Vias(h1, h2, NoHandle) /\ ~w3.shut /\ ~w3.hidden
      /\ w4.usable = n
  BY DEF World
<1>c. /\ C1.saw = {t1} /\ ~Uncertain(C1) /\ ~InTheWay(C1) /\ Stopped(C1) = C1
      /\ C2.saw = m /\ C2.outcome = "completed" /\ ~Uncertain(C2) /\ ~InTheWay(C2)
      /\ Stopped(C2) = C2 /\ C3.saw = k /\ C3.admission # "submitted"
  BY CompleteIs DEF C1
<1>f. W.outcome = "none" /\ InTheWay(W)
  BY WorkingIs
<1>s. /\ \A f, w : Steady(F, f, w, t1) /\ Steady(F, f, w, t2) /\ Steady(F, f, w, t3)
      /\ \A f, w : Steady(X, f, w, t1) /\ Steady(E, f, w, t2)
  BY SteadyFresh, SteadyComplete DEF C1
<1>z. Steady(Z, Usual, w3, t2)
  <2>1. Steady({Working(m), Complete(m)}, Usual, w3, t2)
    BY <1>w, UsualIs, SteadyRunning
  <2>2. {Working(m), Complete(m)} = Z
    OBVIOUS
  <2> QED BY <2>1, <2>2
<1>n. /\ \A x \in F : ~Begun("submitted starts", x)
      /\ \A x \in X : Begun("submitted starts", x)
      /\ \A x \in Y : Begun("submitted starts", x)
  BY AllNumbers, Begins DEF C1
<1>a. Admits(w2, w3, Cast(X, F, F), h2, t2, m)
  <2>1. m = {t2} \cup C1.saw
    BY <1>c
  <2> HIDE DEF j, i, m
  <2> QED BY <1>0, <1>j, <1>c, <2>1, SecondFollows
<1>b. Admits(w4, w5, Cast(X, E, F), h2, t3, k)
  <2>1. k = {t3} \cup C1.saw \cup C2.saw
    BY <1>c
  <2>2. h1 \in Handles /\ h2 \in Handles /\ h2 \in n /\ j[h1] = j[h2]
    BY <1>0, <1>j
  <2>3. ~Uncertain(C1) /\ ~InTheWay(C1) /\ ~Uncertain(C2) /\ ~InTheWay(C2)
    BY <1>c
  <2> HIDE DEF j, n, k, C2, F
  <2> QED BY <2>1, <2>2, <2>3, ThirdFollows
<1> HIDE DEF p1, b
<1>2. Leads(b, p2, Scene(Usual, w2, Cast(X, F, F)))
  BY <1>1, SecondReopens
<1> HIDE DEF p2, u, i, n, j, o, F, X, m, k
<1>q. TurnsWorld(w3, l, w4)
  BY <1>l, WorldShuts DEF n
<1> HIDE DEF w1, w2, w3, w4, w5, W, C2, C3, l, is
<1>3. Leads(b, p3, Scene(Holding, w2, Cast(X, F, F)))
  <2>1. Recast(Cast(X, F, F), t1, X, Cast(X, F, F), X)
    BY CastChanges
  <2>2. Closed(Scene(Holding, w2, Cast(X, F, F)))
    BY <1>s, ClosedTrio
  <2> QED BY <1>2, <2>1, <2>2, TunedHolding, SceneSets DEF Holds
<1> HIDE DEF p3
<1>4. Leads(b, p4, Scene(Holding, w3, Cast(X, Y, F)))
  <2>1. Recast(Cast(X, F, F), t2, F, Cast(X, Y, F), Y)
    BY CastChanges
  <2> QED BY <1>3, <1>a, <1>w, <2>1, HoldingIs, SceneWorks DEF F, Y, W
<1> HIDE DEF p4
<1>t. t2 \in At(w3, w3.on[h1]) /\ t2 \in At(w3, c1) /\ \A x \in Cast(X, Y, F)[t2] : InTheWay(x)
  <2>1. At(w3, c1) = {t1, t2}
    BY <1>0, <1>w, <1>j, WhoIsThere
  <2>2. Cast(X, Y, F)[t2] = Y
    BY CastIs
  <2> QED BY <1>w, <1>j, <1>f, <2>1, <2>2
<1>5. Leads(b, p5, Scene(Holding, w3, Cast(X, Y, F)))
  BY <1>0, <1>4, <1>t, StartIsTaken DEF is
<1> HIDE DEF p5
<1>6. Leads(b, p6, Scene(Holding, w3, Cast(X, Y, F)))
  <2>1. StandsFor(w3, c1)
    BY <1>0, <1>w, <1>j DEF StandsFor
  <2> QED BY <1>5, <1>t, <1>i, <2>1, ReopeningFails
<1> HIDE DEF p6
<1>7. Leads(b, p7, Scene(Holding, w3, Cast(X, Y, F)))
  <2>1. \A x \in X \cup Y : Begun("submitted starts", x)
    BY <1>n
  <2> QED BY <1>6, <1>n, <2>1, AllNumbers, CastCounts
<1> HIDE DEF p7
<1>8. Leads(b, p8, Scene(Usual, w3, Cast(X, Z, F)))
  <2>1. Recast(Cast(X, Y, F), t2, Y, Cast(X, Z, F), Z) /\ Y \subseteq Z
    BY CastChanges
  <2>2. Closed(Scene(Usual, w3, Cast(X, Z, F)))
    BY <1>s, <1>z, ClosedTrio
  <2> QED BY <1>7, <2>1, <2>2, TunedUsual, SceneSets DEF LetsGo
<1> HIDE DEF p8
<1>9. Leads(b, p9, Scene(Usual, w3, Cast(X, E, F)))
  <2>1. Recast(Cast(X, Z, F), t2, Z, Cast(X, E, F), E)
    BY CastChanges
  <2>2. \A x \in Z : x.outcome = "none" \/ x = C2
    BY <1>f
  <2> QED BY <1>8, <1>s, <1>c, <2>1, <2>2, SceneAwaits
<1> HIDE DEF p9
<1>10. Leads(b, p10, Scene(Usual, w4, Cast(X, E, F)))
  <2>1. \A x \in X \cup E \cup F : Stopped(x) = x
    <3>1. Stopped(Fresh) = Fresh
      BY DEF Stopped, Fresh, Standing
    <3> QED BY <1>c, <3>1 DEF X, F
  <2>2. Closed(Scene(Usual, w4, Cast(X, E, F)))
    BY <1>s, ClosedTrio
  <2> QED BY <1>9, <1>q, <1>l, <2>1, <2>2, SceneShuts
<1> HIDE DEF p10
<1>11. Leads(b, p11, Scene(Usual, w4, Cast(X, E, F)))
  BY <1>0, <1>10, <1>w, StartIsBlocked
<1> HIDE DEF p11
<1>12. Leads(b, p12, Scene(Usual, w5, Cast(X, E, L)))
  <2>1. Recast(Cast(X, E, F), t3, F, Cast(X, E, L), L)
    BY CastChanges
  <2> QED BY <1>11, <1>b, <1>w, <2>1, UsualIs, SceneRuns DEF F, C3
<1> HIDE DEF p12
<1>13. Leads(b, p13, Scene(Usual, w5, Cast(X, E, L)))
  <2>1. Cast(X, E, L)[t3] = L
    BY CastIs
  <2>2. \A x \in Cast(X, E, L)[t3] : x.admission # "submitted" /\ x.saw = k
    BY <1>c, <2>1
  <2>3. Leads(b, p12 \o Asserts("context", t3, {k}), Scene(Usual, w5, Cast(X, E, L)))
    BY <1>0, <1>12, <2>2, ContextIs
  <2> QED BY <1>k, <2>3
<1> QED
  BY <1>13, <1>l DEF b, p1, p2, p3, p4, p5, p6, p7, p8, p9, p10, p11, p12, p13, is, Passes,
                     SharedExclusion

\* What the boundary loses, nobody works on.
Lost == Unheard("none", {})

LEMMA LostIs ==
  /\ Lost.admission = "unconfirmed" /\ Uncertain(Lost) /\ Stopped(Lost) = Lost
  /\ Begun("submitted starts", Lost) /\ \A m : Arrived(Underway(m), "lose") = Lost
  /\ \A r, w, t : ~r.manual => Steady({Lost}, r, w, t)
<1>1. Lost.admission = "unconfirmed" /\ Uncertain(Lost) /\ Begun("submitted starts", Lost)
  BY DEF Lost, Unheard, Alone, Standing, Uncertain, Begun
<1>2. \A m : Arrived(Underway(m), "lose") = Lost
  BY DEF Lost, Underway, Unheard, Alone, Standing, Arrived, Known, Reaches
<1>3. Stopped(Lost) = Lost
  BY DEF Lost, Unheard, Alone, Standing, Stopped
<1>4. \A r, w, t : ~r.manual => Quiet(Lost, r, w, t)
  BY DEF Quiet, Lost, Unheard, Alone, Standing, InFlight
<1> HIDE DEF Lost
<1> QED BY <1>1, <1>2, <1>3, <1>4, SteadyQuiet

LEMMA FreshStopped == Stopped(Fresh) = Fresh
BY DEF Stopped, Fresh, Standing

LEMMA TunedToLose ==
  ASSUME NEW f, f = Playing("lose", "accept", FALSE, FALSE, FALSE)
  PROVE  /\ f.start = "lose" /\ ~f.manual
         /\ Tuned(Usual, f, "start", "lose") /\ Tuned(f, Usual, "start", "accept")
<1>1. f.start = "lose" /\ ~f.manual
  BY DEF Playing
<1> QED BY <1>1 DEF Usual, Playing, Tuned, ControlNames

\* An uncertain start blocks every handle of its context (context.py:51-80).
LEMMA BlockedAliasesPasses == Passes({}, TRUE, Usual, BlockedAliases)
<1> DEFINE f == Playing("lose", "accept", FALSE, FALSE, FALSE)
           o == Hands(c1, NoContext, NoContext)
           j == Hands(c1, c1, NoContext)
           d == Hands(c1, c1, c2)
           u == {h1}
           i == u \cup {h2}
           n == i \ {h1}
           z == n \ {h2}
           y == {}
           q == y \cup {h3}
           w1 == World({}, TRUE, o, Original, u, FALSE, FALSE, Vias(h1, NoHandle, NoHandle))
           w2 == World({}, TRUE, j, Original, i, FALSE, FALSE, Vias(h1, NoHandle, NoHandle))
           w3 == World({}, TRUE, j, Original, i, FALSE, FALSE, Vias(h1, h2, NoHandle))
           w4 == World({}, TRUE, j, Original, n, FALSE, FALSE, Vias(h1, h2, NoHandle))
           w5 == World({}, TRUE, j, Original, z, FALSE, FALSE, Vias(h1, h2, NoHandle))
           w6 == World({}, TRUE, j, Original, y, TRUE, FALSE, Vias(h1, h2, NoHandle))
           w7 == World({}, TRUE, j, Original, y, FALSE, FALSE, Vias(h1, h2, NoHandle))
           w8 == World({}, TRUE, d, Original, q, FALSE, FALSE, Vias(h1, h2, NoHandle))
           w9 == World({}, TRUE, d, Original, q, FALSE, FALSE, Vias(h1, h2, h3))
           m == {t2} \cup {t1}
           k == {t3}
           C3 == Complete(k)
           F == {Fresh}
           X == {C1}
           Y == {Lost}
           Z == {C3}
           l1 == [do |-> "release", of |-> h1]
           l2 == [do |-> "release", of |-> h2]
           l3 == [do |-> "aclose", of |-> h1]
           l4 == [do |-> "recreate", of |-> h1]
           is == {"blocked"}
           b == Before({}, TRUE, Usual)
           p1 == Creates(h1, c1) \o Runs(h1, t1)
           p2 == p1 \o Reopens(h2, c1, "original")
           p3 == p2 \o Sets("start", "lose")
           p4 == p3 \o StartsInto(h2, t2, "unconfirmed")
           p5 == p4 \o Asserts("start", h1, is)
           p6 == p5 \o Asserts("reopening", <<c1, "original">>, is)
           p7 == p6 \o <<l1>>
           p8 == p7 \o <<l2>>
           p9 == p8 \o Asserts("submitted starts", h1, {2})
           p10 == p9 \o <<l3>>
           p11 == p10 \o <<l4>>
           p12 == p11 \o Asserts("reopening", <<c1, "original">>, is)
           p13 == p12 \o Sets("start", "accept")
           p14 == p13 \o Creates(h3, c2)
           p15 == p14 \o Runs(h3, t3)
           p16 == p15 \o Asserts("context", t3, {k})
<1>0. /\ h1 \in Handles /\ h2 \in Handles /\ h3 \in Handles /\ h2 \in i /\ h3 \in q
      /\ t1 \in Tasks /\ t2 \in Tasks /\ t3 \in Tasks
  BY ScenarioAssumption, NamesAssumption
<1>1. Leads(b, p1, Scene(Usual, w1, Cast(X, F, F)))
  BY FirstRuns DEF Started1, House
<1>i. "blocked" \in is
  OBVIOUS
<1>l. /\ l1.do = "release" /\ l1.of = h1 /\ Call("release", h1) = <<l1>>
      /\ l2.do = "release" /\ l2.of = h2 /\ Call("release", h2) = <<l2>>
      /\ l3.do = "aclose" /\ Call("aclose", h1) = <<l3>>
      /\ l4.do = "recreate" /\ Call("recreate", h1) = <<l4>>
  BY DEF Call
<1>j. j[h1] = c1 /\ j[h2] = c1
  BY HandsShare
<1>d. /\ d[h1] # d[h3] /\ d[h2] # d[h3]
      /\ \A g \in Handles : d[g] = IF g = h3 THEN c2 ELSE j[g]
  BY HandsAre, HandsChange, NamesAssumption
<1>w. /\ w9.guarded = {} /\ w3.on = j /\ w3.via = Vias(h1, h2, NoHandle)
      /\ w7.on = j /\ w7.via = Vias(h1, h2, NoHandle)
  BY DEF World
<1>x. ~w3.shut /\ ~w3.hidden /\ ~w7.shut /\ ~w7.hidden
  BY DEF World
<1>c. /\ C1.saw = {t1} /\ ~Uncertain(C1) /\ ~InTheWay(C1) /\ Stopped(C1) = C1
      /\ C3.saw = k /\ C3.admission # "submitted"
  BY CompleteIs DEF C1
<1>f. f.start = "lose" /\ Tuned(Usual, f, "start", "lose") /\ Tuned(f, Usual, "start", "accept")
  BY TunedToLose
<1>m. ~f.manual
  BY TunedToLose
<1>s. /\ \A r, w : Steady(F, r, w, t1) /\ Steady(F, r, w, t2) /\ Steady(F, r, w, t3)
      /\ \A r, w : Steady(X, r, w, t1)
      /\ \A r, w : ~r.manual => Steady(Y, r, w, t2)
  BY SteadyFresh, SteadyComplete, LostIs DEF C1
<1>n. /\ \A x \in F : ~Begun("submitted starts", x)
      /\ \A x \in X : Begun("submitted starts", x)
      /\ \A x \in Y : Begun("submitted starts", x)
  BY AllNumbers, Begins, LostIs DEF C1
<1>a. Admits(w2, w3, Cast(X, F, F), h2, t2, m)
  <2>1. m = {t2} \cup C1.saw
    BY <1>c
  <2> HIDE DEF j, i, m
  <2> QED BY <1>0, <1>j, <1>c, <2>1, SecondFollows
<1>b. Admits(w8, w9, Cast(X, Y, F), h3, t3, k)
  <2> HIDE DEF d, q
  <2> QED BY <1>0, <1>d, ThirdIsAdmitted
<1> HIDE DEF p1, b
<1>2. Leads(b, p2, Scene(Usual, w2, Cast(X, F, F)))
  BY <1>1, SecondReopens
<1> HIDE DEF p2, u, i, n, z, q, j, d, o, F, X, m, k
<1>q. TurnsWorld(w3, l1, w4) /\ TurnsWorld(w4, l2, w5)
  BY <1>l, WorldShuts DEF n, z
<1>r. TurnsWorld(w5, l3, w6)
  BY <1>l, WorldShuts
<1>t. TurnsWorld(w6, l4, w7)
  BY <1>l, WorldShuts
<1> HIDE DEF w1, w2, w3, w4, w5, w6, w7, w9, C3, l1, l2, l3, l4, is, f, y
<1>3. Leads(b, p3, Scene(f, w2, Cast(X, F, F)))
  <2>1. Recast(Cast(X, F, F), t1, X, Cast(X, F, F), X)
    BY CastChanges
  <2>2. Closed(Scene(f, w2, Cast(X, F, F)))
    BY <1>s, ClosedTrio
  <2> QED BY <1>2, <1>f, <2>1, <2>2, SceneSets
<1> HIDE DEF p3
<1>4. Leads(b, p4, Scene(f, w3, Cast(X, Y, F)))
  <2>1. Recast(Cast(X, F, F), t2, F, Cast(X, Y, F), Y)
    BY CastChanges
  <2>2. Steady(Y, f, w3, t2)
    BY <1>m, <1>s
  <2>3. Arrived(Underway(m), f.start) = Lost /\ Lost.admission = "unconfirmed"
    BY <1>f, LostIs
  <2> QED BY <1>3, <1>a, <2>1, <2>2, <2>3, SceneStarts DEF F
<1> HIDE DEF p4
<1>u. Cast(X, Y, F)[t2] = Y /\ \A x \in Y : Uncertain(x)
  <2>1. Cast(X, Y, F)[t2] = Y
    BY CastIs
  <2> QED BY <2>1, LostIs
<1>v. t2 \in At(w3, w3.on[h1]) /\ t2 \in At(w3, c1) /\ t2 \in At(w7, c1)
  <2>1. At(w3, c1) = {t1, t2} /\ At(w7, c1) = {t1, t2}
    BY <1>0, <1>w, <1>j, WhoIsThere
  <2> QED BY <1>w, <1>j, <2>1
<1>5. Leads(b, p5, Scene(f, w3, Cast(X, Y, F)))
  BY <1>0, <1>4, <1>u, <1>v, StartIsBlocked DEF is
<1> HIDE DEF p5
<1>6. Leads(b, p6, Scene(f, w3, Cast(X, Y, F)))
  <2>1. StandsFor(w3, c1)
    BY <1>0, <1>w, <1>x, <1>j DEF StandsFor
  <2> QED BY <1>5, <1>u, <1>v, <1>i, <2>1, ReopeningFails
<1> HIDE DEF p6
<1>y. \A x \in X \cup Y \cup F : Stopped(x) = x
  BY <1>c, LostIs, FreshStopped DEF X, F
<1>z. \A w : Closed(Scene(f, w, Cast(X, Y, F)))
  BY <1>m, <1>s, ClosedTrio
<1>7. Leads(b, p7, Scene(f, w4, Cast(X, Y, F)))
  BY <1>6, <1>q, <1>l, <1>y, <1>z, SceneShuts
<1> HIDE DEF p7
<1>8. Leads(b, p8, Scene(f, w5, Cast(X, Y, F)))
  BY <1>7, <1>q, <1>l, <1>y, <1>z, SceneShuts
<1> HIDE DEF p8
<1>9. Leads(b, p9, Scene(f, w5, Cast(X, Y, F)))
  <2>1. \A x \in X \cup Y : Begun("submitted starts", x)
    BY <1>n
  <2> QED BY <1>8, <1>n, <2>1, AllNumbers, CastCounts
<1> HIDE DEF p9
<1>10. Leads(b, p10, Scene(f, w6, Cast(X, Y, F)))
  BY <1>9, <1>r, <1>l, <1>y, <1>z, SceneShuts
<1> HIDE DEF p10
<1>11. Leads(b, p11, Scene(f, w7, Cast(X, Y, F)))
  <2>1. Recast(Cast(X, Y, F), t1, X, Cast(X, Y, F), X)
    BY CastChanges
  <2> QED BY <1>10, <1>m, <1>t, <1>l, <2>1, SceneTurns
<1> HIDE DEF p11
<1>12. Leads(b, p12, Scene(f, w7, Cast(X, Y, F)))
  <2>1. StandsFor(w7, c1)
    BY <1>0, <1>w, <1>x, <1>j DEF StandsFor
  <2> QED BY <1>11, <1>u, <1>v, <1>i, <2>1, ReopeningFails
<1> HIDE DEF p12
<1>13. Leads(b, p13, Scene(Usual, w7, Cast(X, Y, F)))
  <2>1. Recast(Cast(X, Y, F), t1, X, Cast(X, Y, F), X)
    BY CastChanges
  <2>2. Closed(Scene(Usual, w7, Cast(X, Y, F)))
    BY <1>s, UsualIs, ClosedTrio
  <2> QED BY <1>12, <1>f, <2>1, <2>2, SceneSets
<1> HIDE DEF p13
<1>14. Leads(b, p14, Scene(Usual, w8, Cast(X, Y, F)))
  BY <1>0, <1>13, <1>d, SceneCreates DEF w7, q
<1> HIDE DEF p14, w8
<1>15. Leads(b, p15, Scene(Usual, w9, Cast(X, Y, Z)))
  <2>1. Recast(Cast(X, Y, F), t3, F, Cast(X, Y, Z), Z)
    BY CastChanges
  <2> QED BY <1>14, <1>b, <1>w, <2>1, UsualIs, SceneRuns DEF F, C3
<1> HIDE DEF p15
<1>16. Leads(b, p16, Scene(Usual, w9, Cast(X, Y, Z)))
  <2>1. Cast(X, Y, Z)[t3] = Z
    BY CastIs
  <2>2. \A x \in Cast(X, Y, Z)[t3] : x.admission # "submitted" /\ x.saw = k
    BY <1>c, <2>1
  <2> QED BY <1>0, <1>15, <2>2, ContextIs
<1> QED
  BY <1>16, <1>l DEF b, p1, p2, p3, p4, p5, p6, p7, p8, p9, p10, p11, p12, p13, p14, p15, p16, is,
                     k, Passes, BlockedAliases

\* The work of the first task is asked to stop, and stops.
Halting == Alone("accepted", "working", {t1}, "none", "yes")
Halted == Alone("accepted", "ended", {t1}, "cancelled", "yes")

LEMMA HaltingIs ==
  /\ Stopped(Working({t1})) = Halting /\ Halting.outcome = "none" /\ Halted.outcome = "cancelled"
  /\ \A w : t1 \notin w.guarded => Steady({Halting} \cup {Halted}, Holding, w, t1)
  /\ \A r, w : ~r.manual => Steady({Halted}, r, w, t1)
<1>1. Stopped(Working({t1})) = Halting
  BY ToldMoves DEF Halting, Working
<1>2. Halting.outcome = "none" /\ Halted.outcome = "cancelled"
  BY DEF Halting, Halted, Alone, Standing
<1>3. \A r, w : ~r.manual => Quiet(Halted, r, w, t1)
  BY DEF Quiet, Halted, Alone, Standing, InFlight
<1>4. ASSUME NEW w, t1 \notin w.guarded
      PROVE  \A z : Moves(Halting, z, Holding, t1 \in w.guarded, w.shut) => z = Halted
  BY <1>4, HoldingIs DEF Halting, Halted, Alone, Standing, Moves, JudgedAs, Withdrawing, InFlight,
                         Live
<1> HIDE DEF Halting, Halted
<1>5. \A r, w : ~r.manual => Steady({Halted}, r, w, t1)
  BY <1>3, SteadyQuiet
<1>6. ASSUME NEW w, t1 \notin w.guarded
      PROVE  Steady({Halting} \cup {Halted}, Holding, w, t1)
  <2>1. Steady({Halted}, Holding, w, t1)
    BY <1>5, HoldingIs
  <2> QED BY <1>4, <1>6, <2>1, SteadyMore
<1> QED BY <1>1, <1>2, <1>5, <1>6

\* One handle is released while another works (context.py:82-104).
LEMMA IndependentReleasePasses == Passes({}, TRUE, Usual, IndependentRelease)
<1> DEFINE o == Hands(c1, NoContext, NoContext)
           j == Hands(c1, c2, NoContext)
           u == {h1} \cup {h2}
           n == u \ {h1}
           w0 == World({}, TRUE, j, Original, u, FALSE, FALSE, Vias(NoHandle, NoHandle, NoHandle))
           w1 == World({}, TRUE, j, Original, u, FALSE, FALSE, Vias(h1, NoHandle, NoHandle))
           w2 == World({}, TRUE, j, Original, u, FALSE, FALSE, Vias(h1, h2, NoHandle))
           w3 == World({}, TRUE, j, Original, n, FALSE, FALSE, Vias(h1, h2, NoHandle))
           m == {t2}
           W == Working(m)
           D == Complete(m)
           X1 == {Working({t1})}
           X2 == {Halting} \cup {Halted}
           X3 == {Halted}
           Y1 == {W}
           Y2 == {W} \cup {D}
           Y3 == {D}
           F == {Fresh}
           l == [do |-> "release", of |-> h1]
           b == Before({}, TRUE, Usual)
           p1 == Creates(h1, c1)
           p2 == p1 \o Creates(h2, c2)
           p3 == p2 \o Holds
           p4 == p3 \o Starts(h1, t1)
           p5 == p4 \o Starts(h2, t2)
           p6 == p5 \o Until("seen", t2, {TRUE})
           p7 == p6 \o <<l>>
           p8 == p7 \o Awaits(t1, "cancelled")
           p9 == p8 \o Asserts("outcome", t2, {"none"})
           p10 == p9 \o LetsGo
           p11 == p10 \o Awaits(t2, "completed")
           p12 == p11 \o Asserts("context", t2, {m})
<1>0. /\ h1 \in Handles /\ h2 \in Handles /\ h1 \in u /\ h2 \in u
      /\ t1 \in Tasks /\ t2 \in Tasks /\ t3 \in Tasks
  BY ScenarioAssumption
<1>o. "seen" \in OfTask /\ "outcome" \in OfTask
  BY AllOfTask
<1>j. j[h1] # j[h2]
  BY HandsAre, NamesAssumption
<1>l. l.do = "release" /\ l.of = h1 /\ Call("release", h1) = <<l>>
  BY DEF Call
<1>w. /\ w1.guarded = {} /\ w2.guarded = {} /\ w3.guarded = {}
      /\ w2.via = Vias(h1, h2, NoHandle)
  BY DEF World
<1>s. /\ \A r, w : Steady(F, r, w, t1) /\ Steady(F, r, w, t2) /\ Steady(F, r, w, t3)
      /\ \A r, w : Steady(Y3, r, w, t2)
  BY SteadyFresh, SteadyComplete
<1>c. Steady(X1, Holding, w2, t1) /\ Steady(Y1, Holding, w2, t2) /\ Steady(Y1, Holding, w3, t2)
  BY <1>w, HoldingIs, SteadyHeld
<1>d. /\ Steady(X2, Holding, w3, t1) /\ Steady(X3, Holding, w3, t1) /\ Steady(X3, Usual, w3, t1)
      /\ Stopped(Working({t1})) \in X2 /\ Halting.outcome = "none" /\ Halted.outcome = "cancelled"
  <2> HIDE DEF w3
  <2>1. Steady(X2, Holding, w3, t1)
    BY <1>w, HaltingIs
  <2>2. Steady(X3, Holding, w3, t1) /\ Steady(X3, Usual, w3, t1)
    BY HaltingIs, HoldingIs, UsualIs
  <2> QED BY <2>1, <2>2, HaltingIs
<1>e. Steady(Y2, Usual, w3, t2)
  <2>1. Steady({Working(m), Complete(m)}, Usual, w3, t2)
    BY <1>w, UsualIs, SteadyRunning
  <2>2. {Working(m), Complete(m)} = Y2
    OBVIOUS
  <2> QED BY <2>1, <2>2
<1>f. /\ W.outcome = "none" /\ D.outcome = "completed" /\ D.saw = m /\ D.admission # "submitted"
      /\ Told(W, "outcome") \in {"none"}
  <2>1. W.outcome = "none" /\ D.outcome = "completed" /\ D.saw = m /\ D.admission # "submitted"
    BY WorkingIs, CompleteIs
  <2> HIDE DEF W, D
  <2> QED BY <2>1 DEF Told
<1>1. Leads(b, p2, Scene(Usual, w0, Cast(F, F, F)))
  <2>1. \A g \in Handles : j[g] = IF g = h2 THEN c2 ELSE o[g]
    BY HandsChange
  <2> HIDE DEF j, o
  <2>2. Leads(b, p1, Scene(Usual, World({}, TRUE, o, Original, {h1}, FALSE, FALSE,
                                   Vias(NoHandle, NoHandle, NoHandle)),
                         Cast({Fresh}, {Fresh}, {Fresh})))
    BY FirstScene DEF Nobody, o
  <2> HIDE DEF b, p1
  <2> QED BY <1>0, <2>1, <2>2, SceneCreates
<1> HIDE DEF b, p2, j, u, n
<1>a. Admits(w0, w1, Cast(F, F, F), h1, t1, {t1})
  BY <1>0, FirstIsAdmitted
<1>b. Admits(w1, w2, Cast(X1, F, F), h2, t2, m)
  BY <1>0, <1>j, SecondIsAdmitted
<1>q. TurnsWorld(w2, l, w3)
  BY <1>l, WorldShuts DEF n
<1>v. /\ w2.via[t1] = h1 /\ w2.via[t2] # h1
      /\ \A x \in Tasks : x # t1 => x = t2 \/ Cast(X1, Y1, F)[x] = F
  <2> HIDE DEF w2, X1, Y1
  <2>1. w2.via[t1] = h1 /\ w2.via[t2] # h1
    BY <1>w, ViasAre, NamesAssumption
  <2>2. \A x \in Tasks : x # t1 => x = t2 \/ Cast(X1, Y1, F)[x] = F
    BY DEF Cast
  <2> QED BY <2>1, <2>2
<1> HIDE DEF w0, w1, w2, w3, F, W, D, m, l
<1>2. Leads(b, p3, Scene(Holding, w0, Cast(F, F, F)))
  <2>1. Recast(Cast(F, F, F), t1, F, Cast(F, F, F), F)
    BY CastChanges
  <2>2. Closed(Scene(Holding, w0, Cast(F, F, F)))
    BY <1>s, ClosedTrio
  <2> QED BY <1>1, <2>1, <2>2, TunedHolding, SceneSets DEF Holds
<1> HIDE DEF p3
<1>3. Leads(b, p4, Scene(Holding, w1, Cast(X1, F, F)))
  <2>1. Recast(Cast(F, F, F), t1, F, Cast(X1, F, F), X1)
    BY CastChanges
  <2> QED BY <1>2, <1>a, <1>w, <2>1, HoldingIs, SceneWorks DEF F
<1> HIDE DEF p4
<1>4. Leads(b, p5, Scene(Holding, w2, Cast(X1, Y1, F)))
  <2>1. Recast(Cast(X1, F, F), t2, F, Cast(X1, Y1, F), Y1)
    BY CastChanges
  <2> HIDE DEF X1
  <2> QED BY <1>3, <1>b, <1>w, <2>1, HoldingIs, SceneWorks DEF F, W
<1> HIDE DEF p5
<1>5. Leads(b, p6, Scene(Holding, w2, Cast(X1, Y1, F)))
  <2>1. Recast(Cast(X1, Y1, F), t2, Y1, Cast(X1, Y1, F), Y1)
    BY CastChanges
  <2>2. Closed(Scene(Holding, w2, Cast(X1, Y1, F)))
    BY <1>s, <1>c, ClosedTrio
  <2> HIDE DEF X1, Y1
  <2> QED BY <1>4, <1>o, <2>1, <2>2, SceneWaits
<1> HIDE DEF p6
<1>6. Leads(b, p7, Scene(Holding, w3, Cast(X2, Y1, F)))
  <2>1. Recast(Cast(X1, Y1, F), t1, X1, Cast(X2, Y1, F), X2)
    BY CastChanges
  <2>2. Closed(Scene(Holding, w3, Cast(X2, Y1, F)))
    <3> HIDE DEF X2, Y1
    <3> QED BY <1>s, <1>c, <1>d, ClosedTrio
  <2>3. \A x \in X1 : Stopped(x) \in X2
    BY <1>d
  <2>4. \A z \in F : Stopped(z) = z
    BY FreshStopped DEF F
  <2> HIDE DEF X1, X2, Y1
  <2>5. \A x \in Tasks : x # t1 => \/ l.do = "release" /\ w2.via[x] # l.of
                                   \/ \A z \in Cast(X1, Y1, F)[x] : Stopped(z) = z
    BY <1>v, <1>l, <2>4
  <2> QED BY <1>5, <1>q, <1>v, <1>l, <2>1, <2>2, <2>3, <2>5, SceneQuits
<1> HIDE DEF p7
<1>7. Leads(b, p8, Scene(Holding, w3, Cast(X3, Y1, F)))
  <2>1. Recast(Cast(X2, Y1, F), t1, X2, Cast(X3, Y1, F), X3)
    BY CastChanges
  <2>2. \A x \in X2 : x.outcome = "none" \/ x = Halted
    BY <1>d
  <2> HIDE DEF X2, Y1
  <2> QED BY <1>6, <1>d, <2>1, <2>2, SceneAwaits
<1> HIDE DEF p8, X1, X2, X3
<1>8. Leads(b, p9, Scene(Holding, w3, Cast(X3, Y1, F)))
  <2>1. Cast(X3, Y1, F)[t2] = Y1
    BY CastIs
  <2>2. \A x \in Cast(X3, Y1, F)[t2] : Told(x, "outcome") \in {"none"}
    BY <1>f, <2>1
  <2> HIDE DEF Y1
  <2> QED BY <1>0, <1>o, <1>7, <2>2, SceneTells
<1> HIDE DEF p9
<1>9. Leads(b, p10, Scene(Usual, w3, Cast(X3, Y2, F)))
  <2>1. Recast(Cast(X3, Y1, F), t2, Y1, Cast(X3, Y2, F), Y2) /\ Y1 \subseteq Y2
    BY CastChanges
  <2> HIDE DEF Y1, Y2
  <2>2. Closed(Scene(Usual, w3, Cast(X3, Y2, F)))
    BY <1>s, <1>d, <1>e, ClosedTrio
  <2> QED BY <1>8, <2>1, <2>2, TunedUsual, SceneSets DEF LetsGo
<1> HIDE DEF p10
<1>10. Leads(b, p11, Scene(Usual, w3, Cast(X3, Y3, F)))
  <2>1. Recast(Cast(X3, Y2, F), t2, Y2, Cast(X3, Y3, F), Y3)
    BY CastChanges
  <2>2. \A x \in Y2 : x.outcome = "none" \/ x = D
    BY <1>f
  <2> HIDE DEF Y2
  <2> QED BY <1>9, <1>s, <1>f, <2>1, <2>2, SceneAwaits
<1> HIDE DEF p11
<1>11. Leads(b, p12, Scene(Usual, w3, Cast(X3, Y3, F)))
  <2>1. Cast(X3, Y3, F)[t2] = Y3
    BY CastIs
  <2>2. \A x \in Cast(X3, Y3, F)[t2] : x.admission # "submitted" /\ x.saw = m
    BY <1>f, <2>1
  <2> HIDE DEF Y3
  <2> QED BY <1>0, <1>10, <2>2, ContextIs
<1> QED
  BY <1>11, <1>l DEF b, p1, p2, p3, p4, p5, p6, p7, p8, p9, p10, p11, p12, m, Passes,
                     IndependentRelease

\* The stored contexts cannot be read for a while (persistence.py:103-144).
LEMMA UnavailableHistoryPasses == Passes({}, TRUE, Usual, UnavailableHistory)
<1> DEFINE o == Hands(c1, NoContext, NoContext)
           j == Hands(c1, c1, NoContext)
           V == Vias(h1, NoHandle, NoHandle)
           u == {h1}
           n == u \ {h1}
           y == {}
           q == y \cup {h2}
           w1 == World({}, TRUE, o, Original, u, FALSE, FALSE, V)
           w2 == World({}, TRUE, o, Original, n, FALSE, FALSE, V)
           w3 == World({}, TRUE, o, Original, y, TRUE, FALSE, V)
           w4 == World({}, TRUE, o, Original, y, TRUE, TRUE, V)
           w5 == World({}, TRUE, o, Original, y, FALSE, TRUE, V)
           w6 == World({}, TRUE, j, Original, q, FALSE, FALSE, V)
           w7 == World({}, TRUE, j, Original, q, FALSE, FALSE, Vias(h1, h2, NoHandle))
           w8 == World({}, TRUE, o, Original, y, FALSE, FALSE, V)
           m == {t2} \cup {t1}
           D == Complete(m)
           X == {C1}
           Y == {D}
           F == {Fresh}
           T == Cast(X, F, F)
           l1 == [do |-> "release", of |-> h1]
           l2 == [do |-> "aclose", of |-> h1]
           l3 == [do |-> "hide", of |-> TRUE]
           l4 == [do |-> "recreate", of |-> h1]
           l5 == [do |-> "hide", of |-> FALSE]
           is == {"transport"}
           b == Before({}, TRUE, Usual)
           p1 == Creates(h1, c1) \o Runs(h1, t1)
           p2 == p1 \o <<l1>>
           p3 == p2 \o <<l2>>
           p4 == p3 \o <<l3>>
           p5 == p4 \o <<l4>>
           p6 == p5 \o Asserts("reopening", <<c1, "original">>, is)
           p7 == p6 \o <<l2>>
           p8 == p7 \o <<l5>>
           p9 == p8 \o <<l4>>
           p10 == p9 \o Reopens(h2, c1, "original")
           p11 == p10 \o Runs(h2, t2)
           p12 == p11 \o Asserts("context", t2, {{t1, t2}})
<1>0. h1 \in Handles /\ h2 \in Handles /\ h2 \in q /\ t2 \in Tasks
  BY ScenarioAssumption
<1>1. Leads(b, p1, Scene(Usual, w1, T))
  BY FirstRuns DEF Started1, House
<1>l. /\ l1.do = "release" /\ l1.of = h1 /\ Call("release", h1) = <<l1>>
      /\ l2.do = "aclose" /\ Call("aclose", h1) = <<l2>>
      /\ l4.do = "recreate" /\ Call("recreate", h1) = <<l4>>
  BY DEF Call
<1>m. l3.do = "hide" /\ Call("hide", TRUE) = <<l3>> /\ l5.do = "hide"
        /\ Call("hide", FALSE) = <<l5>>
  BY DEF Call
<1>i. "transport" \in is /\ m = {t1, t2}
  OBVIOUS
<1>w. w5.hidden /\ w7.guarded = {}
  BY DEF World
<1>j. j[h1] = j[h2]
  BY HandsShare
<1>c. /\ C1.saw = {t1} /\ ~Uncertain(C1) /\ ~InTheWay(C1) /\ Stopped(C1) = C1
      /\ D.saw = m /\ D.admission # "submitted"
  BY CompleteIs DEF C1
<1>y. \A x \in X \cup F \cup F : Stopped(x) = x
  BY <1>c, FreshStopped
<1>z. \A f, w : Closed(Scene(f, w, T))
  BY SteadyFresh, SteadyComplete, ClosedTrio DEF C1
<1>r. Recast(T, t1, X, T, X)
  BY CastChanges
<1>a. Admits(w6, w7, T, h2, t2, m)
  <2>1. m = {t2} \cup C1.saw
    BY <1>c
  <2> HIDE DEF j, q, m
  <2> QED BY <1>0, <1>j, <1>c, <2>1, SecondFollows
<1>d. TurnsWorld(w3, l3, w4) /\ TurnsWorld(w4, l5, w3)
  <2> HIDE DEF o, V, y
  <2> QED BY WorldHides
<1> HIDE DEF u, n, y, q, o, j, V
<1>e. TurnsWorld(w1, l1, w2)
  BY <1>l, WorldShuts DEF n
<1>f. TurnsWorld(w2, l2, w3)
  BY <1>l, WorldShuts DEF y
<1>g. TurnsWorld(w4, l4, w5)
  BY <1>l, WorldShuts
<1>h. TurnsWorld(w5, l2, w4)
  BY <1>l, WorldShuts DEF y
<1>k. TurnsWorld(w3, l4, w8)
  BY <1>l, WorldShuts
<1> HIDE DEF w1, w2, w3, w4, w5, w6, w7, w8, l1, l2, l3, l4, l5, is, p1, b, m, D
<1>n. \A p, w, v, i :
        /\ Leads(b, p, Scene(Usual, w, T)) /\ TurnsWorld(w, i, v) /\ i.do \in {"release", "aclose"}
        => Leads(b, p \o <<i>>, Scene(Usual, v, T))
  BY <1>y, <1>z, SceneShuts
<1> HIDE DEF T
<1>2. Leads(b, p2, Scene(Usual, w2, T))
  BY <1>1, <1>e, <1>l, <1>n
<1> HIDE DEF p2
<1>3. Leads(b, p3, Scene(Usual, w3, T))
  BY <1>2, <1>f, <1>l, <1>n
<1> HIDE DEF p3
<1>4. Leads(b, p4, Scene(Usual, w4, T))
  BY <1>3, <1>d, <1>m, <1>r, SceneTurns
<1> HIDE DEF p4
<1>5. Leads(b, p5, Scene(Usual, w5, T))
  BY <1>4, <1>g, <1>l, <1>r, UsualIs, SceneTurns
<1> HIDE DEF p5
<1>6. Leads(b, p6, Scene(Usual, w5, T))
  BY <1>5, <1>w, <1>i, ReopeningFails
<1> HIDE DEF p6
<1>7. Leads(b, p7, Scene(Usual, w4, T))
  BY <1>6, <1>h, <1>l, <1>n
<1> HIDE DEF p7
<1>8. Leads(b, p8, Scene(Usual, w3, T))
  BY <1>7, <1>d, <1>m, <1>r, SceneTurns
<1> HIDE DEF p8
<1>9. Leads(b, p9, Scene(Usual, w8, T))
  BY <1>8, <1>k, <1>l, <1>r, UsualIs, SceneTurns
<1> HIDE DEF p9
<1>10. Leads(b, p10, Scene(Usual, w6, T))
  BY <1>9, SecondReopens DEF w8, w6, T, o, j, V, q
<1> HIDE DEF p10
<1>11. Leads(b, p11, Scene(Usual, w7, Cast(X, Y, F)))
  <2>1. Recast(T, t2, F, Cast(X, Y, F), Y)
    BY CastChanges DEF T
  <2> HIDE DEF X
  <2> QED BY <1>10, <1>a, <1>w, <2>1, UsualIs, SceneRuns DEF D
<1> HIDE DEF p11
<1>12. Leads(b, p12, Scene(Usual, w7, Cast(X, Y, F)))
  <2>1. Cast(X, Y, F)[t2] = Y
    BY CastIs
  <2>2. \A x \in Cast(X, Y, F)[t2] : x.admission # "submitted" /\ x.saw = m
    BY <1>c, <2>1
  <2> HIDE DEF X, Y, F
  <2>3. Leads(b, p11 \o Asserts("context", t2, {m}), Scene(Usual, w7, Cast(X, Y, F)))
    BY <1>0, <1>11, <2>2, ContextIs
  <2> QED BY <1>i, <2>3
<1> QED
  BY <1>12, <1>l, <1>m DEF b, p1, p2, p3, p4, p5, p6, p7, p8, p9, p10, p11, p12, is, Passes,
                           UnavailableHistory

LEMMA NothingBefore ==
  /\ \A what, of, is : <<>> \o Asserts(what, of, is) = Asserts(what, of, is)
  /\ \A h, c, k : <<>> \o Reopens(h, c, k) = Reopens(h, c, k)
<1>1. \A x : <<>> \o <<x>> = <<x>>
  OBVIOUS
<1>2. \A x, y : <<>> \o (<<x>> \o <<y>>) = <<x>> \o <<y>>
  OBVIOUS
<1> QED BY <1>1, <1>2 DEF Asserts, Reopens, Call

\* The second task runs to its end after the first one.
C2 == Complete({t2} \cup {t1})

LEMMA ChangedOpening ==
  ASSUME NEW e, NEW w,
         w = World({}, e, Hands(c1, NoContext, NoContext), Original, {h1} \ {h1}, FALSE, FALSE,
                   Vias(h1, h1, NoHandle))
  PROVE  Leads(Before({}, e, Usual),
               Creates(h1, c1) \o Runs(h1, t1) \o
               Asserts("reopening", <<c1, "changed">>, {"incompatible"}) \o Runs(h1, t2) \o
               Asserts("instructions", t2, {"original"}) \o Call("release", h1),
               Scene(Usual, w, Cast({C1}, {C2}, {Fresh})))
<1> DEFINE o == Hands(c1, NoContext, NoContext)
           u == {h1}
           n == u \ {h1}
           w1 == World({}, e, o, Original, u, FALSE, FALSE, Vias(h1, NoHandle, NoHandle))
           w2 == World({}, e, o, Original, u, FALSE, FALSE, Vias(h1, h1, NoHandle))
           m == {t2} \cup {t1}
           F == {Fresh}
           X == {C1}
           Y == {C2}
           l == [do |-> "release", of |-> h1]
           is == {"incompatible"}
           b == Before({}, e, Usual)
           p1 == Creates(h1, c1) \o Runs(h1, t1)
           p2 == p1 \o Asserts("reopening", <<c1, "changed">>, is)
           p3 == p2 \o Runs(h1, t2)
           p4 == p3 \o Asserts("instructions", t2, {"original"})
           p5 == p4 \o <<l>>
<1>0. h1 \in Handles /\ h1 \in u /\ t2 \in Tasks /\ "incompatible" \in is
  BY ScenarioAssumption
<1>1. Leads(b, p1, Scene(Usual, w1, Cast(X, F, F)))
  BY FirstRuns DEF Started1, House
<1>l. l.do = "release" /\ l.of = h1 /\ Call("release", h1) = <<l>>
  BY DEF Call
<1>j. o[h1] = c1 /\ Original[h1] = "original"
  BY HandsShare, ScenarioAssumption DEF Original
<1>w. /\ w1.on = o /\ w1.via = Vias(h1, NoHandle, NoHandle) /\ w1.usable = u
      /\ w1.config = Original
      /\ w2.config = Original /\ w2.via = Vias(h1, h1, NoHandle) /\ w2.guarded = {}
  BY DEF World
<1>x. ~w1.shut /\ ~w1.hidden
  BY DEF World
<1>c. /\ C1.saw = {t1} /\ ~Uncertain(C1) /\ ~InTheWay(C1) /\ Stopped(C1) = C1
      /\ Stopped(C2) = C2
  BY CompleteIs DEF C1, C2
<1>s. \A r, v : Closed(Scene(r, v, Cast(X, Y, F)))
  <2>1. \A r, v : Steady(F, r, v, t3) /\ Steady(X, r, v, t1) /\ Steady(Y, r, v, t2)
    BY SteadyFresh, SteadyComplete DEF C1, C2
  <2> QED BY <2>1, ClosedTrio
<1>a. Admits(w1, w2, Cast(X, F, F), h1, t2, m)
  <2>1. m = {t2} \cup C1.saw
    BY <1>c
  <2> HIDE DEF o, u, m
  <2> QED BY <1>0, <1>c, <2>1, SecondFollows
<1>y. \A x \in X \cup Y \cup F : Stopped(x) = x
  BY <1>c, FreshStopped
<1>k. w = World({}, e, o, Original, n, FALSE, FALSE, Vias(h1, h1, NoHandle))
  OBVIOUS
<1>h. "original" # "changed"
  OBVIOUS
<1> HIDE DEF u, n, o, F, X, Y, m, b, p1, is
<1>q. TurnsWorld(w2, l, w)
  <2> DEFINE v == World({}, e, o, Original, n, FALSE, FALSE, Vias(h1, h1, NoHandle))
  <2>1. TurnsWorld(w2, l, v)
    BY <1>l, WorldShuts DEF n
  <2> QED BY <1>k, <2>1
<1> HIDE DEF w1, w2, l
<1>2. Leads(b, p2, Scene(Usual, w1, Cast(X, F, F)))
  <2>1. StandsFor(w1, c1)
    BY <1>0, <1>j, <1>w, <1>x DEF StandsFor
  <2>2. At(w1, c1) = {t1}
    BY <1>0, <1>j, <1>w, WhoIsThere
  <2>3. Cast(X, F, F)[t1] = X
    BY CastIs
  <2>4. \A t \in At(w1, c1) : \A x \in Cast(X, F, F)[t] : ~Uncertain(x) /\ ~InTheWay(x)
    BY <1>c, <2>2, <2>3 DEF X
  <2>5. \E h \in Handles : w1.on[h] = c1 /\ h \in w1.usable /\ w1.config[h] # "changed"
    BY <1>0, <1>h, <1>j, <1>w
  <2> QED BY <1>1, <1>0, <2>1, <2>4, <2>5, ReopeningFails
<1> HIDE DEF p2
<1>3. Leads(b, p3, Scene(Usual, w2, Cast(X, Y, F)))
  <2>1. Recast(Cast(X, F, F), t2, F, Cast(X, Y, F), Y)
    BY CastChanges
  <2> QED BY <1>2, <1>a, <1>w, <2>1, UsualIs, SceneRuns DEF F, Y, C2, m
<1> HIDE DEF p3
<1>4. Leads(b, p4, Scene(Usual, w2, Cast(X, Y, F)))
  <2>1. w2.via[t2] = h1
    BY <1>w, ViasAre
  <2> QED BY <1>0, <1>3, <1>j, <1>w, <2>1, InstructionsAre
<1> HIDE DEF p4
<1>5. Leads(b, p5, Scene(Usual, w, Cast(X, Y, F)))
  BY <1>4, <1>q, <1>l, <1>y, <1>s, SceneShuts
<1> QED BY <1>5, <1>l DEF b, p1, p2, p3, p4, p5, is, X, Y, F

LEMMA ChangedIs ==
  /\ C2.saw = {t2} \cup {t1} /\ ~Uncertain(C2) /\ ~InTheWay(C2)
  /\ C1.saw = {t1} /\ ~Uncertain(C1) /\ ~InTheWay(C1)
BY CompleteIs DEF C1, C2

\* The instructions of a context cannot change (persistence.py:23-74).
LEMMA RigidConfigurationPasses == Passes({}, FALSE, Usual, ChangedConfiguration(FALSE))
<1> DEFINE o == Hands(c1, NoContext, NoContext)
           n == {h1} \ {h1}
           w == World({}, FALSE, o, Original, n, FALSE, FALSE, Vias(h1, h1, NoHandle))
           X == {C1}
           Y == {C2}
           F == {Fresh}
           q == Scene(Usual, w, Cast(X, Y, F))
           is == {"incompatible"}
           s == Asserts("reopening", <<c1, "changed">>, is)
           b == Before({}, FALSE, Usual)
           p1 == Creates(h1, c1) \o Runs(h1, t1) \o
                 Asserts("reopening", <<c1, "changed">>, {"incompatible"}) \o Runs(h1, t2) \o
                 Asserts("instructions", t2, {"original"}) \o Call("release", h1)
<1>1. Leads(b, p1, q)
  BY ChangedOpening
<1>0. h1 \in Handles /\ "incompatible" \in is /\ "original" # "changed"
  BY ScenarioAssumption
<1>j. o[h1] = c1 /\ Original[h1] = "original"
  BY HandsShare, ScenarioAssumption DEF Original
<1>w. w.on = o /\ w.via = Vias(h1, h1, NoHandle) /\ w.config = Original
  BY DEF World
<1>x. ~w.shut /\ ~w.hidden /\ ~w.adaptable
  BY DEF World
<1> HIDE DEF b, p1, w, is, o, X, Y, F
<1>2. StandsFor(w, c1)
  BY <1>0, <1>j, <1>w, <1>x DEF StandsFor
<1>3. \A t \in At(w, c1) : \A x \in Cast(X, Y, F)[t] : ~Uncertain(x) /\ ~InTheWay(x)
  <2>1. At(w, c1) = {t1, t2}
    BY <1>0, <1>j, <1>w, WhoIsThere
  <2>2. Cast(X, Y, F)[t1] = X /\ Cast(X, Y, F)[t2] = Y
    BY CastIs
  <2> QED BY <2>1, <2>2, ChangedIs DEF X, Y
<1>4. \E h \in Handles : w.on[h] = c1 /\ w.config[h] # "changed"
  BY <1>0, <1>j, <1>w
<1>5. Leads(q, <<>>, q)
  BY <1>1, LeadsAway, LeadsNowhere
<1>6. Leads(q, <<>> \o s, q)
  BY <1>0, <1>2, <1>3, <1>4, <1>5, <1>x, ReopeningFails
<1>7. Leads(q, s, q)
  BY <1>6, NothingBefore
<1> HIDE DEF s, q
<1>8. Leads(b, p1 \o s, q)
  BY <1>1, <1>7, LeadsOn
<1>9. p1 \o s = ChangedConfiguration(FALSE)
  BY DEF p1, s, is, ChangedConfiguration
<1> QED BY <1>8, <1>9 DEF Passes, b

\* The instructions change once no handle is in use (persistence.py:23-74).
LEMMA AdaptableConfigurationPasses == Passes({}, TRUE, Usual, ChangedConfiguration(TRUE))
<1> DEFINE o == Hands(c1, NoContext, NoContext)
           j == Hands(c1, c1, NoContext)
           n == {h1} \ {h1}
           u == n \cup {h2}
           K == [h \in Handles |-> IF h = h2 THEN "changed" ELSE "original"]
           V == Vias(h1, h1, NoHandle)
           w == World({}, TRUE, o, Original, n, FALSE, FALSE, V)
           v == World({}, TRUE, j, K, u, FALSE, FALSE, V)
           z == World({}, TRUE, j, K, u, FALSE, FALSE, Vias(h1, h1, h2))
           X == {C1}
           Y == {C2}
           F == {Fresh}
           m == {t3} \cup {t1} \cup ({t2} \cup {t1})
           Z == {Complete(m)}
           T == Cast(X, Y, F)
           U == Cast(X, Y, Z)
           q == Scene(Usual, w, T)
           i == [do |-> "reopen", of |-> <<h2, c1, "changed">>]
           b == Before({}, TRUE, Usual)
           p1 == Creates(h1, c1) \o Runs(h1, t1) \o
                 Asserts("reopening", <<c1, "changed">>, {"incompatible"}) \o Runs(h1, t2) \o
                 Asserts("instructions", t2, {"original"}) \o Call("release", h1)
           s1 == Reopens(h2, c1, "changed")
           s2 == s1 \o Runs(h2, t3)
           s3 == s2 \o Asserts("instructions", t3, {"changed"})
<1>1. Leads(b, p1, q)
  BY ChangedOpening
<1>0. h1 \in Handles /\ h2 \in Handles /\ h1 \notin n /\ h2 \in u /\ t3 \in Tasks
  BY ScenarioAssumption
<1>j. o[h1] = c1 /\ j[h1] = j[h2] /\ K[h2] = "changed"
  BY HandsShare, ScenarioAssumption
<1>h. /\ \A x \in Handles : j[x] = IF x = h2 THEN c1 ELSE o[x]
      /\ \A x \in Handles : K[x] = IF x = h2 THEN "changed" ELSE Original[x]
  BY HandsShare DEF Original
<1>w. /\ w.on = o /\ w.via = V /\ w.config = Original /\ w.usable = n /\ z.guarded = {}
      /\ z.config = K /\ z.via = Vias(h1, h1, h2)
  BY DEF World
<1>x. ~w.shut /\ ~w.hidden /\ w.adaptable
  BY DEF World
<1>i. i.do = "reopen" /\ i.of[1] = h2 /\ i.of[2] = c1 /\ i.of[3] = "changed"
  OBVIOUS
<1>e. n = {}
  OBVIOUS
<1>a. Admits(v, z, T, h2, t3, m)
  <2>1. m = {t3} \cup C1.saw \cup C2.saw
    BY ChangedIs
  <2> HIDE DEF j, K, u, m, F
  <2> QED BY <1>0, <1>j, <2>1, ChangedIs, ThirdFollows
<1> HIDE DEF o, j, K, n, u, m, i, X, Y, F, b, p1
<1>t. TurnsWorld(w, i, v)
  <2> HIDE DEF V
  <2>1. ASSUME NEW e, NEW r, NEW d
        PROVE  TurnsWorld(World({}, e, o, Original, n, r, d, V), i, World({}, e, j, K, u, r, d, V))
    BY <1>0, <1>h, <1>i, WorldOpens DEF u
  <2> QED BY <2>1
<1> HIDE DEF w, v, z
<1>2. StandsFor(w, c1)
  BY <1>0, <1>j, <1>w, <1>x DEF StandsFor
<1>3. \A t \in At(w, c1) : \A x \in T[t] : ~Uncertain(x) /\ ~InTheWay(x)
  <2>1. At(w, c1) = {t1, t2}
    BY <1>0, <1>j, <1>w, WhoIsThere
  <2>2. T[t1] = X /\ T[t2] = Y
    BY CastIs
  <2> HIDE DEF T
  <2> QED BY <2>1, <2>2, ChangedIs DEF X, Y
<1>4. \A g \in Handles : w.on[g] = c1 /\ g \in w.usable => w.config[g] = "changed"
  BY <1>e, <1>w
<1>5. Recast(T, t1, X, T, X) /\ Recast(T, t3, F, U, Z)
  BY CastChanges
<1> HIDE DEF T, U
<1>6. Leads(q, <<>>, q)
  BY <1>1, LeadsAway, LeadsNowhere
<1>7. Leads(q, <<>> \o s1, Scene(Usual, v, T))
  BY <1>2, <1>3, <1>4, <1>5, <1>6, <1>t, <1>x, ReopeningGoes DEF i
<1>8. Leads(q, s1, Scene(Usual, v, T))
  BY <1>7, NothingBefore
<1> HIDE DEF s1, q
<1>9. Leads(q, s2, Scene(Usual, z, U))
  BY <1>5, <1>8, <1>a, <1>w, UsualIs, SceneRuns DEF F, Z
<1> HIDE DEF s2
<1>10. Leads(q, s3, Scene(Usual, z, U))
  <2>1. z.via[t3] = h2
    BY <1>w, ViasAre
  <2> QED BY <1>0, <1>9, <1>j, <1>w, <2>1, InstructionsAre
<1> HIDE DEF s3
<1>11. Leads(b, p1 \o s3, Scene(Usual, z, U))
  BY <1>1, <1>10, LeadsOn
<1>12. p1 \o s3 = ChangedConfiguration(TRUE)
  BY DEF p1, s1, s2, s3, ChangedConfiguration
<1> QED BY <1>11, <1>12 DEF Passes, b

-----------------------------------------------------------------------------
(* Every scenario passes.                                                  *)

LEMMA ControlsAre == Controls(FALSE) = Usual /\ Controls(TRUE) = Manual
BY DEF Controls, Usual, Manual, Playing

LEMMA FirstFits ==
  ASSUME Init, NEW f, fixture = f
  PROVE  Fits(Before(guarded, adaptable, f))
<1> DEFINE w == Empty(guarded, adaptable)
           b == Before(guarded, adaptable, f)
<1>1. /\ w.guarded = guarded /\ w.adaptable = adaptable /\ w.usable = {} /\ ~w.shut /\ ~w.hidden
      /\ \A h \in Handles : w.on[h] = NoContext /\ w.config[h] = "original"
      /\ \A t \in Tasks : w.via[t] = NoHandle
  BY DEF Empty, House, World, Hands, Vias, Original
<1>2. w.shut = FALSE /\ w.hidden = FALSE
  BY DEF Empty, House, World
<1>3. b.fixture = f /\ b.world = w /\ \A t \in Tasks : b.tasks[t] = {Fresh}
  BY DEF Before, Stage, Scene, Put, Nobody, Cast
<1>4. \A t \in Tasks : StandingOf(t) = Fresh
  <2> TAKE t \in Tasks
  <2>1. /\ admission[t] = "none" /\ work[t] = "none" /\ saw[t] = {} /\ effects[t] = 0
        /\ outcome[t] = "none" /\ t \notin cancelling /\ t \notin pending /\ reply[t] = "none"
        /\ decision[t] = "none" /\ sent[t] = <<>> /\ resolutions[t] = <<>>
    BY DEF Init
  <2> QED BY <2>1 DEF StandingOf, Fresh
<1> HIDE DEF w, b
<1>5. FitsWorld(w)
  BY <1>1, <1>2 DEF Init, FitsWorld
<1>6. Fits(b)
  BY <1>3, <1>4, <1>5 DEF Fits
<1> QED BY <1>6 DEF b

LEMMA PlainTestsPass == \A sc \in PlainTests : Passes({}, TRUE, Usual, sc)
BY HeldStartPasses, NondeliveredStartPasses, LostAcceptancePasses, LostSubmissionPasses,
   SharedExclusionPasses, BlockedAliasesPasses, IndependentReleasePasses, UnknownReferencePasses,
   UnavailableHistoryPasses
   DEF PlainTests

LEMMA GuardedTestsPass == \A sc \in GuardedTests : Passes(Tasks, TRUE, Usual, sc)
BY NondeliveredResponsePasses, LostApprovalPasses, LostDecisionPasses, InvalidResponsePasses,
   CancelledResponderPasses, CancellationClearsPasses, LateDeliveryPasses, LateDuplicatePasses,
   UnboundedGrantPasses, RepeatedEffectPasses, NewSessionPasses
   DEF GuardedTests

LEMMA LifecycleTestsPass == \A sc \in LifecycleTests : \A G, e : Passes(G, e, Manual, sc)
BY FailurePasses, CompletionWinsPasses, LateFailurePasses, ConcurrentPasses,
   CloseWithoutEvidencePasses
   DEF LifecycleTests

LEMMA ConfigurationTestsPass == \A b \in BOOLEAN : Passes({}, b, Usual, ChangedConfiguration(b))
<1> TAKE b \in BOOLEAN
<1>1. CASE b = TRUE
  BY <1>1, AdaptableConfigurationPasses
<1>2. CASE b = FALSE
  BY <1>2, RigidConfigurationPasses
<1> QED BY <1>1, <1>2

LEMMA TestsPass ==
  ASSUME NEW test \in Tests
  PROVE  Passes(test[2], test[3], Controls(test[1] \in LifecycleTests), test[1])
<1>1. CASE test[1] \in LifecycleTests
  <2>1. Controls(test[1] \in LifecycleTests) = Manual
    BY <1>1, ControlsAre
  <2> QED BY <1>1, <2>1, LifecycleTestsPass
<1>2. CASE test[1] \notin LifecycleTests
  <2>1. Controls(test[1] \in LifecycleTests) = Usual
    <3>1. (test[1] \in LifecycleTests) = FALSE
      BY <1>2
    <3>2. Controls(test[1] \in LifecycleTests) = Controls(FALSE)
      BY <3>1, Zenon
    <3> QED BY <3>2, ControlsAre
  <2>2. CASE test \in PlainTests \X {{}} \X {TRUE}
    <3>1. test[1] \in PlainTests /\ test[2] = {} /\ test[3] = TRUE
      BY <2>2
    <3> QED BY <2>1, <3>1, PlainTestsPass
  <2>3. CASE test \in GuardedTests \X {Tasks} \X {TRUE}
    <3>1. test[1] \in GuardedTests /\ test[2] = Tasks /\ test[3] = TRUE
      BY <2>3
    <3> QED BY <2>1, <3>1, GuardedTestsPass
  <2>4. CASE test \in LifecycleTests \X {{}} \X {TRUE}
    BY <1>2, <2>4
  <2>5. CASE test \in {<<ChangedConfiguration(b), {}, b>> : b \in BOOLEAN}
    <3>1. PICK b \in BOOLEAN : test = <<ChangedConfiguration(b), {}, b>>
      BY <2>5
    <3>2. test[1] = ChangedConfiguration(b) /\ test[2] = {} /\ test[3] = b
      BY <3>1
    <3> QED BY <2>1, <3>2, ConfigurationTestsPass
  <2> QED BY <2>2, <2>3, <2>4, <2>5 DEF Tests
<1> QED BY <1>1, <1>2

LEMMA PlannedInit == SuiteInit => Planned
<1> SUFFICES ASSUME SuiteInit PROVE Planned
  OBVIOUS
<1>1. Init /\ OnScript /\ verdict = "passing"
  BY OnScriptInit DEF SuiteInit
<1>2. SuiteInv
  BY <1>1, DeliveryInit DEF SuiteInv, Seen, Marked, Init
<1>3. PICK test \in Tests :
        /\ script = test[1] /\ guarded = test[2] /\ adaptable = test[3]
        /\ fixture = Controls(test[1] \in LifecycleTests)
  BY DEF SuiteInit
<1>4. PICK q : Leads(Before(guarded, adaptable, fixture), script, q)
  BY <1>3, TestsPass DEF Passes
<1>5. Fits(Before(guarded, adaptable, fixture))
  BY <1>1, FirstFits
<1> QED BY <1>1, <1>2, <1>4, <1>5 DEF Planned

\* Every assertion of every scenario of the suites holds, in every order the adapter, the
\* boundary and the runtime may take their turns in, for any handles, contexts and tasks:
\* none of these tests of acceptance.py, interaction.py, approval.py, context.py,
\* persistence.py and lifecycle.py can fail by timing against code that keeps the contract.
THEOREM DeliverySuiteHolds == SuiteSpec => []DeliverySuitePasses
<1>1. SuiteInit => Planned
  BY PlannedInit
<1>2. Planned /\ [SuiteNext]_suiteVars => Planned'
  BY PlannedStep
<1>3. Planned => DeliverySuitePasses
  BY DEF Planned, DeliverySuitePasses
<1> QED BY <1>1, <1>2, <1>3, PTL DEF SuiteSpec
=============================================================================
