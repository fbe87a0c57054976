-------------------------- MODULE TaskStreamProofs --------------------------
(***************************************************************************)
(* Theorems about TaskStream: what the readers of a task's events are      *)
(* told, for any number of sessions, tasks and readers and any buffer.     *)
(***************************************************************************)
EXTENDS TaskStream, HarnessProofs

\* The stream with what is proved about it.
S == INSTANCE FanoutProofs WITH closed <- sealed, MaxPublished <- 3

-----------------------------------------------------------------------------
(* The stream in the composition.                                          *)

\* Both instances of the fan-out are the same.
LEMMA SameSteps ==
  /\ Stream!Init <=> S!Init
  /\ Stream!Publish <=> S!Publish
  /\ \A b \in BOOLEAN : Stream!Close(b) <=> S!Close(b)
  /\ \A r \in Readers : /\ Stream!Subscribe(r) <=> S!Subscribe(r)
                        /\ Stream!Advance(r) <=> S!Advance(r)
                        /\ Stream!Abandon(r) <=> S!Abandon(r)
                        /\ Stream!DropUnstarted(r) <=> S!DropUnstarted(r)
  /\ \A q, n : Stream!Offer(q, n) = S!Offer(q, n)
<1>1. \A q, n : Stream!Offer(q, n) = S!Offer(q, n)
  BY DEF Stream!Offer, S!Offer, Stream!TailIsGap, S!TailIsGap, Stream!Item, S!Item,
         Stream!GapAt, S!GapAt, Stream!Grown, S!Grown
<1>2. Stream!Publish <=> S!Publish
  BY <1>1 DEF Stream!Publish, S!Publish
<1>3. \A r \in Readers : /\ Stream!Subscribe(r) <=> S!Subscribe(r)
                         /\ Stream!Abandon(r) <=> S!Abandon(r)
                         /\ Stream!DropUnstarted(r) <=> S!DropUnstarted(r)
  BY DEF Stream!Subscribe, S!Subscribe, Stream!Abandon, S!Abandon, Stream!DropUnstarted,
         S!DropUnstarted
<1>4. \A r \in Readers : Stream!Advance(r) <=> S!Advance(r)
  BY DEF Stream!Advance, S!Advance, Stream!Deliver, S!Deliver, Stream!DeliverFinal,
         S!DeliverFinal, Stream!Return, S!Return, Stream!Wait, S!Wait, Stream!LateFinal,
         S!LateFinal, Stream!LateReturn, S!LateReturn, Stream!Resumed, S!Resumed
<1>5. /\ Stream!Init <=> S!Init
      /\ \A b \in BOOLEAN : Stream!Close(b) <=> S!Close(b)
  BY DEF Stream!Init, S!Init, Stream!Close, S!Close
<1> QED BY <1>1, <1>2, <1>3, <1>4, <1>5

\* What is proved of the fan-out, as an invariant of the stream here.
StreamCore == S!TypeOK /\ S!Registered /\ S!Accounts /\ S!FinalIsLast /\ S!Concluded

LEMMA InitStreamCore == Stream!Init => StreamCore
BY SameSteps, CapacityAssumption, ReadersAssumption, S!InitTypes, S!InitRegistered,
   S!InitAccounts, S!InitFinal, S!InitConcluded DEF StreamCore

LEMMA StreamCoreStep ==
  ASSUME StreamCore,
         \/ Stream!Publish \/ (\E b \in BOOLEAN : Stream!Close(b)) \/ UNCHANGED streamVars
         \/ \E r \in Readers : \/ Stream!Subscribe(r) \/ Stream!Advance(r)
                               \/ Stream!Abandon(r) \/ Stream!DropUnstarted(r)
  PROVE  StreamCore'
<1>1. S!Next \/ UNCHANGED S!vars
  BY SameSteps DEF S!Next, S!vars, streamVars
<1> QED BY <1>1, CapacityAssumption, ReadersAssumption, S!NextTypes, S!NextRegistered,
           S!NextAccounts, S!NextFinal, S!NextConcluded DEF StreamCore

\* Two publications in one step do what two steps would.
LEMMA PublishTwoStep == ASSUME StreamCore, PublishTwo PROVE StreamCore'
<1> USE CapacityAssumption, ReadersAssumption
<1> DEFINE once(r) == S!Offer(entries[r], published + 1)
           twice(r) == S!Offer(once(r), published + 2)
<1>0. /\ published \in Nat /\ published + 1 \in Nat /\ published + 2 \in Nat
      /\ (published + 1) + 1 = published + 2
  BY DEF StreamCore, S!TypeOK
<1>1. \A r \in Readers : once(r) \in Seq(S!Entry) /\ twice(r) \in Seq(S!Entry)
  <2> SUFFICES ASSUME NEW r \in Readers
               PROVE  once(r) \in Seq(S!Entry) /\ twice(r) \in Seq(S!Entry)
    OBVIOUS
  <2>1. entries[r] \in Seq(S!Entry)
    BY DEF StreamCore, S!TypeOK
  <2>2. once(r) \in Seq(S!Entry)
    BY <1>0, <2>1, S!OfferType
  <2> QED BY <1>0, <2>2, S!OfferType
<1>2. /\ entries' = [r \in Readers |-> IF r \in subscribers THEN twice(r) ELSE entries[r]]
      /\ published' = published + 2
      /\ ready' = [r \in Readers |-> ready[r] \/ r \in subscribers]
      /\ UNCHANGED <<sealed, final, subscribers, phase, ended, base, heard, told>>
      /\ ~sealed
  BY SameSteps DEF PublishTwo
<1> HIDE DEF once, twice
<1>3. S!TypeOK'
  BY <1>0, <1>1, <1>2 DEF StreamCore, S!TypeOK
<1>4. S!Registered'
  <2> SUFFICES ASSUME NEW r \in Readers PROVE S!Registration(r)'
    BY DEF S!Registered
  <2>1. S!Registration(r)
    BY DEF StreamCore, S!Registered
  <2> QED BY <1>2, <2>1 DEF S!Registration, StreamCore, S!TypeOK
<1>5. S!Accounts'
  <2> SUFFICES ASSUME NEW r \in Readers PROVE S!Accounted(r)'
    BY DEF S!Accounts
  <2>1. S!Accounted(r) /\ S!Registration(r)
    BY DEF StreamCore, S!Accounts, S!Registered
  <2>2. /\ heard[r] \in Seq(S!Entry) /\ entries[r] \in Seq(S!Entry) /\ base[r] \in Nat
        /\ S!Stream(r) = heard[r] \o entries[r] /\ S!Stream(r) \in Seq(S!Entry)
    BY ConcatProperties DEF StreamCore, S!TypeOK, S!Stream
  <2>3. CASE r \in subscribers
    <3> DEFINE one == heard[r] \o once(r)
               two == heard[r] \o twice(r)
    <3>1. S!Extended(S!Stream(r), one, published + 1)
      BY <1>0, <2>2, S!OfferExtends DEF once
    <3>2. /\ S!Contiguous(one, base[r]) /\ S!NoNeighbouringGaps(one)
          /\ S!Reach(one, base[r]) = published + 1
      <4>1. /\ S!Contiguous(S!Stream(r), base[r]) /\ S!NoNeighbouringGaps(S!Stream(r))
            /\ S!Reach(S!Stream(r), base[r]) = published
        BY <2>1, <2>3 DEF S!Accounted
      <4>2. S!Stream(r) \in Seq(S!Entry) /\ base[r] \in Nat /\ published \in Nat
        BY <1>0, <2>2
      <4>3. S!Extended(S!Stream(r), one, published + 1)
        BY <3>1
      <4> HIDE DEF one
      <4> QED BY <4>1, <4>2, <4>3, S!ExtendedAccounts
    <3>3. one \in Seq(S!Entry)
      BY <1>1, <2>2, ConcatProperties
    <3>4. S!Extended(one, two, published + 2)
      BY <1>0, <1>1, <2>2, S!OfferExtends DEF twice
    <3>5. /\ S!Contiguous(two, base[r]) /\ S!NoNeighbouringGaps(two)
          /\ S!Reach(two, base[r]) = published + 2
      <4> HIDE DEF one, two
      <4>1. /\ S!Contiguous(two, base[r]) /\ S!NoNeighbouringGaps(two)
            /\ S!Reach(two, base[r]) = (published + 1) + 1
        BY <1>0, <2>2, <3>2, <3>3, <3>4, S!ExtendedAccounts
      <4> QED BY <1>0, <4>1
    <3>6. S!Stream(r)' = two /\ base'[r] = base[r] /\ published' = published + 2
      BY <1>2, <2>3 DEF S!Stream
    <3> QED BY <3>5, <3>6 DEF S!Accounted
  <2>4. CASE r \notin subscribers
    <3>1. S!Stream(r)' = S!Stream(r) /\ base'[r] = base[r]
      BY <1>2, <2>4 DEF S!Stream
    <3>2. ~S!Joined(r)
      BY <1>2, <2>1, <2>4 DEF S!Registration, S!Joined, StreamCore, S!TypeOK, S!Phases
    <3>3. ~(r \in subscribers \/ S!Joined(r))'
      BY <1>2, <2>4, <3>2 DEF S!Joined
    <3> QED BY <2>1, <3>1, <3>3 DEF S!Accounted
  <2> QED BY <2>3, <2>4
<1>6. S!FinalIsLast' /\ S!Concluded'
  BY <1>2 DEF StreamCore, S!FinalIsLast, S!Concluded
<1> QED BY <1>3, <1>4, <1>5, <1>6 DEF StreamCore

-----------------------------------------------------------------------------
(* What a step of the task publishes.                                      *)

LEMMA NewsOfOne ==
  ASSUME NEW X, NEW q \in Seq(X), NEW e \in X
  PROVE  SubSeq(Append(q, e), Len(q) + 1, Len(Append(q, e))) = <<e>>
<1> DEFINE p == Append(q, e)
<1>1. Len(q) \in Nat /\ p \in Seq(X) /\ Len(p) = Len(q) + 1 /\ p[Len(q) + 1] = e
  BY AppendProperties
<1> HIDE DEF p
<1> DEFINE d == SubSeq(p, Len(q) + 1, Len(q) + 1)
<1>2. d \in Seq(X) /\ Len(d) = 1 /\ d[1] = e
  <2>1. \A i \in Len(q) + 1 .. Len(q) + 1 : p[i] \in X
    BY <1>1
  <2> QED BY <1>1, <2>1, SubSeqProperties
<1>3. <<e>> \in Seq(X) /\ Len(<<e>>) = 1 /\ <<e>>[1] = e
  OBVIOUS
<1>4. d = <<e>>
  <2> HIDE DEF d
  <2>1. \A i \in 1 .. 1 : d[i] = <<e>>[i]
    BY <1>2
  <2> QED BY <1>2, <1>3, <2>1, SeqEqual
<1> QED BY <1>1, <1>4 DEF p

LEMMA NewsOfTwo == SubSeq(Told, 2, 3) = <<"message", "usage">>
<1> DEFINE X == {"started", "message", "usage"}
           d == SubSeq(Told, 2, 3)
           m == <<"message", "usage">>
<1>1. /\ Told[2] = "message" /\ Told[3] = "usage"
      /\ m \in Seq(X) /\ Len(m) = 2 /\ m[1] = "message" /\ m[2] = "usage"
  BY DEF Told
<1>2. \A i \in 2 .. 3 : Told[i] \in X
  <2>1. \A i \in 2 .. 3 : i = 2 \/ i = 3
    OBVIOUS
  <2> QED BY <1>1, <2>1
<1> HIDE DEF X, m
<1>3. d \in Seq(X) /\ Len(d) = 2 /\ \A i \in 1 .. 2 : d[i] = Told[2 + i - 1]
  BY <1>2, SubSeqProperties
<1>4. \A i \in 1 .. 2 : d[i] = m[i]
  <2>1. \A i \in 1 .. 2 : i = 1 \/ i = 2
    OBVIOUS
  <2> QED BY <1>1, <1>3, <2>1
<1> HIDE DEF d
<1>5. d = m
  BY <1>1, <1>3, <1>4, SeqEqual
<1> QED BY <1>5 DEF d, m

\* A step publishes nothing, the start, the reply, with its usage or without, or the outcome; all but
\* nothing while the task is unsettled, and the outcome as it is settled.
LEMMA NewsOfStep ==
  ASSUME Core, Core', Narrated, [Next]_vars
  PROVE  \/ News = <<>> /\ UNCHANGED <<outcome[Watched], events[Watched]>>
         \/ /\ News = <<"started">> /\ outcome'[Watched] = outcome[Watched]
            /\ ~Settled(Watched) /\ events[Watched] = <<>> /\ Len(events'[Watched]) = 1
         \/ /\ News = <<"message">> /\ outcome'[Watched] = outcome[Watched]
            /\ ~Settled(Watched) /\ Len(events[Watched]) = 1 /\ Len(events'[Watched]) = 2
         \/ /\ News = <<"message", "usage">> /\ outcome'[Watched] = outcome[Watched]
            /\ ~Settled(Watched) /\ Len(events[Watched]) = 1 /\ Len(events'[Watched]) = 3
         \/ /\ News = <<"terminal">> /\ ~Settled(Watched) /\ Settled(Watched)'
            /\ Len(events'[Watched]) = Len(events[Watched]) + 1
<1> DEFINE t == Watched
           E == {"started", "message", "usage", "terminal"}
<1>1. t \in Tasks /\ events[t] \in Seq(E) /\ Len(events[t]) \in Nat
  BY WatchedAssumption, LenProperties DEF Core, TypeOK
<1> HIDE DEF t
<1>2. PICK n \in Reports : Reported(t, n)
  BY <1>1 DEF Narrated
<1> DEFINE Goal ==
      \/ News = <<>> /\ UNCHANGED <<outcome[Watched], events[Watched]>>
      \/ /\ News = <<"started">> /\ outcome'[Watched] = outcome[Watched]
         /\ ~Settled(Watched) /\ events[Watched] = <<>> /\ Len(events'[Watched]) = 1
      \/ /\ News = <<"message">> /\ outcome'[Watched] = outcome[Watched]
         /\ ~Settled(Watched) /\ Len(events[Watched]) = 1 /\ Len(events'[Watched]) = 2
      \/ /\ News = <<"message", "usage">> /\ outcome'[Watched] = outcome[Watched]
         /\ ~Settled(Watched) /\ Len(events[Watched]) = 1 /\ Len(events'[Watched]) = 3
      \/ /\ News = <<"terminal">> /\ ~Settled(Watched) /\ Settled(Watched)'
         /\ Len(events'[Watched]) = Len(events[Watched]) + 1
<1>3. ASSUME Kept(t) PROVE Goal
  <2>1. News = SubSeq(events[t], Len(events[t]) + 1, Len(events[t]))
    BY <1>3 DEF News, Kept, t
  <2>2. News = <<>>
    BY <1>1, <2>1, SubSeqEmpty
  <2> QED BY <1>3, <2>2 DEF Kept, t
<1>4. ASSUME RunBegins(t), ~Settled(t) PROVE Goal
  <2>1. events[t] = <<>> /\ outcome' = outcome /\ events'[t] = Append(events[t], "started")
    BY <1>1, <1>2, <1>4 DEF Reported, RunBegins, Publish, Core, TypeOK
  <2>2. News = <<"started">>
    <3>1. News = SubSeq(Append(events[t], "started"), Len(events[t]) + 1,
                        Len(Append(events[t], "started")))
      BY <2>1 DEF News, t
    <3>2. "started" \in E
      OBVIOUS
    <3> HIDE DEF E
    <3> QED BY <1>1, <3>1, <3>2, NewsOfOne
  <2>3. Len(events'[t]) = 1
    BY <2>1
  <2> QED BY <1>4, <2>1, <2>2, <2>3 DEF t
<1>5. ASSUME RunReports(t), ~Settled(t) PROVE Goal
  <2>0. events[t] = <<"started">>
    BY <1>2, <1>5 DEF Reported, RunReports, Live
  <2>1. events[t] = <<"started">> /\ outcome' = outcome
        /\ events'[t] = <<"started">> \o <<"message", "usage">>
    BY <1>1, <1>5, <2>0 DEF RunReports, Core, TypeOK
  <2>2. Len(events[t]) = 1 /\ events'[t] = Told /\ Len(Told) = 3
    BY <2>1, StartAndEnd DEF Told
  <2>3. News = SubSeq(Told, 2, 3)
    BY <2>2 DEF News, t
  <2> QED BY <1>5, <2>1, <2>2, <2>3, NewsOfTwo DEF t
<1>10. ASSUME RunBreaksOff(t), ~Settled(t) PROVE Goal
  <2>0. events[t] = <<"started">>
    BY <1>2, <1>10 DEF Reported, RunBreaksOff, Live
  <2>1. events[t] = <<"started">> /\ outcome' = outcome
        /\ events'[t] = Append(events[t], "message")
    BY <1>1, <1>10, <2>0 DEF RunBreaksOff, Publish, Core, TypeOK
  <2>2. News = <<"message">>
    <3>1. News = SubSeq(Append(events[t], "message"), Len(events[t]) + 1,
                        Len(Append(events[t], "message")))
      BY <2>1 DEF News, t
    <3>2. "message" \in E
      OBVIOUS
    <3> HIDE DEF E
    <3> QED BY <1>1, <3>1, <3>2, NewsOfOne
  <2>3. Len(events[t]) = 1 /\ Len(events'[t]) = 2
    BY <2>1
  <2> QED BY <1>10, <2>1, <2>2, <2>3 DEF t
<1>6. ASSUME RunBegins(t) \/ RunReports(t) \/ RunBreaksOff(t), Settled(t) PROVE Goal
  <2>1. CASE RunBegins(t)
    BY <1>1, <1>6, <2>1 DEF RunBegins, Core, Judged, Ended
  <2>2. CASE RunReports(t)
    BY <1>1, <1>3, <1>6, <2>2 DEF RunReports, Kept, Core, TypeOK
  <2>3. CASE RunBreaksOff(t)
    BY <1>1, <1>3, <1>6, <2>3 DEF RunBreaksOff, Publish, Kept, Core, TypeOK
  <2> QED BY <1>6, <2>1, <2>2, <2>3
<1>7. ASSUME JudgedByEnd(t) \/ JudgedByForce(t) PROVE Goal
  <2>1. ~Settled(t) /\ Settled(t)' /\ events'[t] = Append(events[t], "terminal")
    BY <1>1, <1>7, JudgmentType DEF JudgedByEnd, JudgedByForce, SettledWith, Core
  <2>2. News = <<"terminal">>
    <3>1. News = SubSeq(Append(events[t], "terminal"), Len(events[t]) + 1,
                        Len(Append(events[t], "terminal")))
      BY <2>1 DEF News, t
    <3>2. "terminal" \in E
      OBVIOUS
    <3> HIDE DEF E
    <3> QED BY <1>1, <3>1, <3>2, NewsOfOne
  <2> QED BY <1>1, <2>1, <2>2, AppendProperties DEF t
<1>8. \/ Kept(t) \/ RunBegins(t) \/ RunReports(t) \/ RunBreaksOff(t)
      \/ JudgedByEnd(t) \/ JudgedByForce(t)
  BY <1>1, Judgments DEF Core
<1> HIDE DEF Goal
<1>9. Goal
  BY <1>3, <1>4, <1>5, <1>6, <1>7, <1>8, <1>10
<1> QED BY <1>9 DEF Goal

-----------------------------------------------------------------------------
(* The task and its stream together.                                       *)

\* The stream has been given what the task published, and ends with its judgment.
Tied ==
  /\ sealed <=> Settled(Watched)
  /\ final = sealed
  /\ published = Len(events[Watched]) - (IF Settled(Watched) THEN 1 ELSE 0)

Together == Core /\ Measured /\ Narrated /\ StreamCore /\ Tied

\* A step of a reader leaves the stream tied to the task.
LEMMA ReadsTied == ASSUME Together, NEW r \in Readers, Reads(r) PROVE Tied'
<1>1. UNCHANGED <<outcome, events>>
  BY DEF Reads, vars, settleVars
<1>2. UNCHANGED <<published, sealed, final>>
  BY DEF Reads, Stream!Subscribe, Stream!Advance, Stream!Deliver, Stream!DeliverFinal,
         Stream!Return, Stream!Wait, Stream!LateFinal, Stream!LateReturn, Stream!Abandon,
         Stream!DropUnstarted
<1> QED BY <1>1, <1>2 DEF Tied, Together, Settled

\* What the task publishes, in the words of Follows.
LEMMA FollowsCases ==
  ASSUME Follows
  PROVE  /\ News = <<>> => UNCHANGED streamVars
         /\ News = <<"started">> => Stream!Publish
         /\ News = <<"message">> => Stream!Publish
         /\ News = <<"message", "usage">> => PublishTwo
         /\ News = <<"terminal">> => Stream!Close(TRUE)
<1>1. /\ <<"started">> # <<>> /\ <<"message">> # <<>> /\ <<"message", "usage">> # <<>>
      /\ <<"terminal">> # <<>>
      /\ <<"started">> # <<"message">> /\ <<"started">> # <<"message", "usage">>
      /\ <<"started">> # <<"terminal">> /\ <<"message">> # <<"message", "usage">>
      /\ <<"message">> # <<"terminal">> /\ <<"message", "usage">> # <<"terminal">>
  OBVIOUS
<1> QED BY <1>1 DEF Follows

LEMMA FollowedTied == ASSUME Together, Core', Next, Follows PROVE Tied' /\ StreamCore'
<1>1. /\ Len(events[Watched]) \in Nat /\ published \in Nat
      /\ sealed \in BOOLEAN /\ Settled(Watched) \in BOOLEAN
  BY WatchedAssumption, LenProperties
  DEF Together, Core, TypeOK, StreamCore, S!TypeOK, Settled
<1>2. CASE News = <<>> /\ UNCHANGED <<outcome[Watched], events[Watched]>>
  <2>1. UNCHANGED streamVars
    BY <1>2, FollowsCases
  <2>2. StreamCore'
    BY <2>1, StreamCoreStep DEF Together
  <2> QED BY <1>2, <2>1, <2>2 DEF streamVars, Tied, Together, Settled
<1>3. CASE /\ News = <<"started">> /\ outcome'[Watched] = outcome[Watched]
           /\ ~Settled(Watched) /\ events[Watched] = <<>> /\ Len(events'[Watched]) = 1
  <2>1. Stream!Publish
    BY <1>3, FollowsCases
  <2>2. StreamCore'
    BY <2>1, StreamCoreStep DEF Together
  <2>3. published' = published + 1 /\ UNCHANGED <<sealed, final>> /\ published = 0
    BY <1>3, <2>1 DEF Stream!Publish, Together, Tied
  <2> QED BY <1>3, <2>2, <2>3 DEF Tied, Together, Settled
<1>4. CASE /\ News = <<"message", "usage">> /\ outcome'[Watched] = outcome[Watched]
           /\ ~Settled(Watched) /\ Len(events[Watched]) = 1 /\ Len(events'[Watched]) = 3
  <2>1. PublishTwo
    BY <1>4, FollowsCases
  <2>2. StreamCore'
    BY <2>1, PublishTwoStep DEF Together
  <2>3. published' = published + 2 /\ UNCHANGED <<sealed, final>>
    BY <2>1 DEF PublishTwo
  <2>4. published = 1
    BY <1>4 DEF Together, Tied
  <2>5. Settled(Watched)' <=> Settled(Watched)
    BY <1>4 DEF Settled
  <2>6. published' = Len(events'[Watched]) - (IF Settled(Watched)' THEN 1 ELSE 0)
    BY <1>4, <2>3, <2>4, <2>5
  <2> QED BY <1>4, <2>2, <2>3, <2>5, <2>6 DEF Tied, Together
<1>6. CASE /\ News = <<"message">> /\ outcome'[Watched] = outcome[Watched]
           /\ ~Settled(Watched) /\ Len(events[Watched]) = 1 /\ Len(events'[Watched]) = 2
  <2>1. Stream!Publish
    BY <1>6, FollowsCases
  <2>2. StreamCore'
    BY <2>1, StreamCoreStep DEF Together
  <2>3. published' = published + 1 /\ UNCHANGED <<sealed, final>>
    BY <2>1 DEF Stream!Publish
  <2>4. published = 1
    BY <1>6 DEF Together, Tied
  <2>5. Settled(Watched)' <=> Settled(Watched)
    BY <1>6 DEF Settled
  <2>6. published' = Len(events'[Watched]) - (IF Settled(Watched)' THEN 1 ELSE 0)
    BY <1>6, <2>3, <2>4, <2>5
  <2> QED BY <1>6, <2>2, <2>3, <2>5, <2>6 DEF Tied, Together
<1>5. CASE /\ News = <<"terminal">> /\ ~Settled(Watched) /\ Settled(Watched)'
           /\ Len(events'[Watched]) = Len(events[Watched]) + 1
  <2>1. Stream!Close(TRUE)
    BY <1>5, FollowsCases
  <2>2. StreamCore'
    BY <2>1, StreamCoreStep DEF Together
  <2>3. sealed' = TRUE /\ final' = TRUE /\ published' = published
        /\ published = Len(events[Watched])
    BY <1>1, <1>5, <2>1 DEF Stream!Close, Together, Tied
  <2> QED BY <1>1, <1>5, <2>2, <2>3 DEF Tied
<1> QED BY <1>2, <1>3, <1>4, <1>5, <1>6, NewsOfStep DEF Together

LEMMA TogetherStep == Together /\ [StreamNext]_<<vars, streamVars>> => Together'
<1> SUFFICES ASSUME Together, [StreamNext]_<<vars, streamVars>>
             PROVE  Together'
  OBVIOUS
<1>1. CASE Next /\ Follows
  <2>1. Core' /\ Measured'
    BY <1>1, CoreStep, MeasuredStep DEF Together
  <2>2. Narrated'
    BY <1>1, <2>1, NarratedStep DEF Together
  <2> QED BY <1>1, <2>1, <2>2, FollowedTied DEF Together
<1>2. ASSUME NEW r \in Readers, Reads(r) PROVE Together'
  <2>1. UNCHANGED vars
    BY <1>2 DEF Reads
  <2>2. Core' /\ Measured' /\ Narrated'
    BY <2>1, CoreStep, MeasuredStep, NarratedStep DEF Together
  <2>3. StreamCore'
    BY <1>2, StreamCoreStep DEF Together, Reads
  <2> QED BY <1>2, <2>2, <2>3, ReadsTied DEF Together
<1>3. CASE UNCHANGED <<vars, streamVars>>
  <2>1. Core' /\ Measured' /\ Narrated'
    BY <1>3, CoreStep, MeasuredStep, NarratedStep DEF Together
  <2>2. StreamCore'
    BY <1>3, StreamCoreStep DEF Together
  <2> QED BY <1>3, <2>1, <2>2 DEF Together, Tied, Settled, streamVars, vars, settleVars
<1> QED BY <1>1, <1>2, <1>3 DEF StreamNext

LEMMA InitTogether == Init /\ Stream!Init => Together
<1> SUFFICES ASSUME Init, Stream!Init PROVE Together
  OBVIOUS
<1>1. Core
  BY InitLinked, InitJudged DEF Core
<1>2. Measured /\ Narrated /\ StreamCore
  BY InitNarrated, InitStreamCore DEF Init, Measured
<1>3. Tied
  <2>1. ~Settled(Watched) /\ events[Watched] = <<>>
    BY WatchedAssumption DEF Init, Settled
  <2>2. sealed = FALSE /\ final = FALSE /\ published = 0
    BY DEF Stream!Init
  <2>3. published = Len(events[Watched]) - (IF Settled(Watched) THEN 1 ELSE 0)
    <3>1. Len(events[Watched]) = 0 /\ 0 - 0 = 0
      BY <2>1
    <3> QED BY <2>1, <2>2, <3>1
  <2> QED BY <2>1, <2>2, <2>3 DEF Tied
<1> QED BY <1>1, <1>2, <1>3 DEF Together

LEMMA TogetherInvariant == StreamSpec => []Together
BY InitTogether, TogetherStep, PTL DEF StreamSpec

\* Whatever the task does, the stream takes what it publishes: it is not closed yet, and
\* has been given no more than a task publishes (_run and _settle, harness.py:760-852).
Accepted ==
  \/ News = <<>>
  \/ News \in {<<"started">>, <<"message">>, <<"message", "usage">>}
       /\ ~sealed /\ published + Len(News) <= 3
  \/ News = <<"terminal">> /\ ~sealed

\* Reading along does not keep a task from any step: in every state of the composition
\* (TogetherInvariant), where Harness may take a step, Follows is free to as well.
THEOREM NothingIsHindered == Together /\ Next => Accepted
<1>1. ASSUME Together, Next PROVE Accepted
  <2>1. Core' /\ Core /\ Narrated /\ Tied
    BY <1>1, CoreStep DEF Together
  <2>2. CASE News = <<>>
    BY <2>2 DEF Accepted
  <2>3. CASE News = <<"started">> /\ ~Settled(Watched) /\ events[Watched] = <<>>
    <3>1. ~sealed /\ published = 0
      BY <2>1, <2>3 DEF Tied
    <3>2. Len(News) = 1
      BY <2>3
    <3> QED BY <2>3, <3>1, <3>2 DEF Accepted
  <2>4. CASE News = <<"message", "usage">> /\ ~Settled(Watched) /\ Len(events[Watched]) = 1
    <3>1. ~sealed /\ published = 1
      BY <2>1, <2>4 DEF Tied
    <3>2. Len(News) = 2
      BY <2>4
    <3> QED BY <2>4, <3>1, <3>2 DEF Accepted
  <2>6. CASE News = <<"message">> /\ ~Settled(Watched) /\ Len(events[Watched]) = 1
    <3>1. ~sealed /\ published = 1
      BY <2>1, <2>6 DEF Tied
    <3>2. Len(News) = 1
      BY <2>6
    <3> QED BY <2>6, <3>1, <3>2 DEF Accepted
  <2>5. CASE News = <<"terminal">> /\ ~Settled(Watched)
    BY <2>1, <2>5 DEF Tied, Accepted
  <2> QED BY <1>1, <2>1, <2>2, <2>3, <2>4, <2>5, <2>6, NewsOfStep
<1> QED BY <1>1

-----------------------------------------------------------------------------
(* What a reader has been told.                                            *)

\* A stream without gaps that reaches publication 3 from the start has the second and the
\* third publication in it.
LEMMA WholeStream ==
  ASSUME NEW h \in Seq(S!Entry), S!Contiguous(h, 0), S!Reach(h, 0) = 3,
         \A i \in 1 .. Len(h) : ~h[i].gap
  PROVE  /\ 2 \in 1 .. Len(h) /\ h[2].first = 2
         /\ 3 \in 1 .. Len(h) /\ h[3].first = 3
<1>1. Len(h) \in Nat /\ h # <<>> /\ Len(h) # 0
  BY EmptySeq, LenProperties DEF S!Reach
<1>2. /\ \A i \in 1 .. Len(h) : h[i].count = 1
      /\ \A i \in 1 .. Len(h) : h[i] \in S!Entry
  BY ElementOfSeq DEF S!Contiguous
<1>3. \A i \in 1 .. Len(h) : h[i].first \in Nat
  BY <1>2 DEF S!Entry
<1>4. h[1].first = 1
  BY <1>1 DEF S!Contiguous
<1>5. \A i \in 1 .. Len(h) : i # 1 => h[i].first = h[i-1].first + 1
  <2> SUFFICES ASSUME NEW i \in 1 .. Len(h), i # 1 PROVE h[i].first = h[i-1].first + 1
    OBVIOUS
  <2>1. i - 1 \in 1 .. Len(h)
    BY <1>1
  <2>2. h[i].first = h[i-1].first + h[i-1].count - 1 + 1
    BY DEF S!Contiguous
  <2> QED BY <1>2, <1>3, <2>1, <2>2
<1>6. h[Len(h)].first = 3
  <2>1. Len(h) \in 1 .. Len(h)
    BY <1>1
  <2>2. h[Len(h)].first + h[Len(h)].count - 1 = 3
    BY <1>1 DEF S!Reach
  <2> QED BY <1>2, <1>3, <2>1, <2>2
<1>7. Len(h) # 1
  BY <1>4, <1>6
<1>8. 2 \in 1 .. Len(h) /\ h[2].first = 2
  <2>1. 2 \in 1 .. Len(h)
    <3>1. \A n \in Nat : n # 0 /\ n # 1 => 2 \in 1 .. n
      OBVIOUS
    <3> QED BY <1>1, <1>7, <3>1
  <2> QED BY <1>4, <1>5, <2>1
<1>9. Len(h) # 2
  BY <1>6, <1>8
<1>10. 3 \in 1 .. Len(h)
  <2>1. \A n \in Nat : n # 0 /\ n # 1 /\ n # 2 => 3 \in 1 .. n
    OBVIOUS
  <2> QED BY <1>1, <1>7, <1>9, <2>1
<1> QED BY <1>5, <1>8, <1>10

\* Who was told of the judgment and missed nothing was shown the reply and its usage, if
\* the outcome speaks of them.
LEMMA ShownInFull ==
  ASSUME Together, NEW r \in Readers, told[r], Gapless(r),
         outcome[Watched].output \/ outcome[Watched].usage \notin {ZERO, UNKNOWN}
  PROVE  {"message", "usage"} \subseteq Shown(r)
<1>1. sealed /\ Settled(Watched)
  BY DEF Together, StreamCore, S!FinalIsLast, Tied
<1>2. events[Watched] = Append(Told, "terminal")
  BY <1>1, WatchedAssumption DEF Together, Narrated, Reported
<1>3. /\ Len(events[Watched]) = 4
      /\ events[Watched][2] = "message" /\ events[Watched][3] = "usage"
  BY <1>2 DEF Told
<1>4. published = 3
  BY <1>1, <1>3 DEF Together, Tied
<1>5. /\ heard[r] \in Seq(S!Entry) /\ base[r] = 0
      /\ S!Reach(heard[r], 0) = 3
  BY <1>4 DEF Together, StreamCore, S!TypeOK, S!FinalIsLast, Gapless
<1>6. S!Contiguous(heard[r], 0)
  <2>1. entries[r] = <<>>
    BY DEF Together, StreamCore, S!Registered, S!Registration
  <2>2. S!Stream(r) = heard[r]
    BY <1>5, <2>1, ConcatEmptySeq DEF S!Stream
  <2> QED BY <1>5, <2>2 DEF Together, StreamCore, S!Accounts, S!Accounted
<1>7. \A i \in 1 .. Len(heard[r]) : ~heard[r][i].gap
  BY DEF Gapless, Heard
<1>8. /\ 2 \in 1 .. Len(heard[r]) /\ heard[r][2].first = 2
      /\ 3 \in 1 .. Len(heard[r]) /\ heard[r][3].first = 3
  BY <1>5, <1>6, <1>7, WholeStream
<1>9. /\ heard[r][2] \in Heard(r) /\ ~heard[r][2].gap
      /\ heard[r][3] \in Heard(r) /\ ~heard[r][3].gap
  BY <1>7, <1>8 DEF Heard
<1> QED BY <1>3, <1>8, <1>9 DEF Shown

\* The end of a stream is the judgment of its task, and tells all that the outcome does.
THEOREM StreamTells == StreamSpec => []StreamTellsTheOutcome
<1>1. Together => StreamTellsTheOutcome
  <2> SUFFICES ASSUME Together, NEW r \in Readers
               PROVE  /\ told[r] \/ phase[r] = "over" => Settled(Watched) /\ told[r]
                      /\ told[r] /\ Gapless(r) =>
                           /\ outcome[Watched].output => {"message", "usage"} \subseteq Shown(r)
                           /\ outcome[Watched].usage \notin {ZERO, UNKNOWN}
                                => "usage" \in Shown(r)
    BY DEF StreamTellsTheOutcome
  <2>1. told[r] => Settled(Watched)
    BY DEF Together, StreamCore, S!FinalIsLast, Tied
  <2>2. phase[r] = "over" => told[r]
    <3>1. phase[r] = "over" => sealed
      BY DEF Together, StreamCore, S!Registered, S!Registration
    <3>2. sealed => final
      BY DEF Together, Tied
    <3> QED BY <3>1, <3>2 DEF Together, StreamCore, S!Concluded
  <2>3. told[r] /\ Gapless(r) =>
          /\ outcome[Watched].output => {"message", "usage"} \subseteq Shown(r)
          /\ outcome[Watched].usage \notin {ZERO, UNKNOWN} => "usage" \in Shown(r)
    BY ShownInFull
  <2> QED BY <2>1, <2>2, <2>3
<1> QED BY <1>1, TogetherInvariant, PTL

\* The loss accounting stays exact, and no wake-up is lost, although the reply and its usage
\* are published in one step (harness.py:776-790).
THEOREM TaskLossesAreCounted ==
  StreamSpec => [](S!ExactAccounting /\ S!GapsAreMaximal /\ S!NoLostWakeup)
<1>1. Together => S!ExactAccounting
  BY DEF Together, StreamCore, S!Accounts, S!Accounted, S!ExactAccounting
<1>2. Together => S!GapsAreMaximal
  BY DEF Together, StreamCore, S!Accounts, S!Accounted, S!NoNeighbouringGaps,
         S!GapsAreMaximal
<1>3. Together => S!NoLostWakeup
  BY DEF Together, StreamCore, S!Registered, S!Registration, S!NoLostWakeup
<1> QED BY <1>1, <1>2, <1>3, TogetherInvariant, PTL
=============================================================================
