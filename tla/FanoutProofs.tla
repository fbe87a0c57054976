---------------------------- MODULE FanoutProofs ----------------------------
(***************************************************************************)
(* Theorems about Fanout, for every set of readers, every capacity of at   *)
(* least two and every number of publications.                             *)
(***************************************************************************)
EXTENDS Fanout, SequenceTheorems, TLAPS

USE CapacityAssumption, BoundAssumption DEF CapacityAssumption, BoundAssumption

\* s followed by publication n: as an entry of its own, or one more in the gap
\* at the end of s.
Extended(s, t, n) ==
  \/ t = Append(s, Item(n))
  \/ s # <<>> /\ ~s[Len(s)].gap /\ t = Append(s, GapAt(n))
  \/ s # <<>> /\ s[Len(s)].gap /\ t = [s EXCEPT ![Len(s)] = Grown(@)]

NoNeighbouringGaps(s) == \A i \in 2 .. Len(s) : ~(s[i-1].gap /\ s[i].gap)

\* An entry for one publication is an Entry.
LEMMA EntryType == \A n \in Nat : Item(n) \in Entry /\ GapAt(n) \in Entry
  BY DEF Item, GapAt, Entry

\* One more drop in a gap leaves it a gap, at its place.
LEMMA GrownType ==
  ASSUME NEW e \in Entry
  PROVE  /\ Grown(e) \in Entry
         /\ Grown(e).gap = e.gap
         /\ Grown(e).first = e.first
         /\ Grown(e).count = e.count + 1
  BY DEF Grown, Entry

\* publish() keeps a buffer a buffer (_fanout.py:72-83).
LEMMA OfferType ==
  ASSUME NEW q \in Seq(Entry), NEW n \in Nat
  PROVE  Offer(q, n) \in Seq(Entry)
<1>1. Append(q, Item(n)) \in Seq(Entry) /\ Append(q, GapAt(n)) \in Seq(Entry)
  BY EntryType, AppendProperties
<1>2. ASSUME q # <<>>
      PROVE  [q EXCEPT ![Len(q)] = Grown(@)] \in Seq(Entry)
  <2>1. Len(q) \in 1 .. Len(q) /\ q[Len(q)] \in Entry
    BY <1>2
  <2> QED BY <2>1, GrownType, ExceptSeq
<1> QED BY <1>1, <1>2 DEF Offer, TailIsGap

\* publish() keeps a buffer within its capacity, with the last slot for a gap.
LEMMA OfferBound ==
  ASSUME NEW q \in Seq(Entry), NEW n \in Nat,
         Len(q) <= Capacity, Len(q) = Capacity => TailIsGap(q)
  PROVE  /\ Len(Offer(q, n)) <= Capacity
         /\ Len(Offer(q, n)) = Capacity => TailIsGap(Offer(q, n))
<1>1. CASE Len(q) < Capacity - 1
  BY <1>1, EntryType DEF Offer
<1>2. CASE ~(Len(q) < Capacity - 1) /\ TailIsGap(q)
  <2> DEFINE t == [q EXCEPT ![Len(q)] = Grown(@)]
  <2>1. Len(q) \in 1 .. Len(q) /\ q[Len(q)] \in Entry
    BY <1>2 DEF TailIsGap
  <2>2. t \in Seq(Entry) /\ Len(t) = Len(q) /\ t[Len(q)].gap = q[Len(q)].gap
    BY <2>1, GrownType, ExceptSeq
  <2> HIDE DEF t
  <2>3. t # <<>>
    BY <2>1, <2>2
  <2>4. Offer(q, n) = t
    BY <1>2 DEF Offer, t
  <2> QED BY <1>2, <2>2, <2>3, <2>4 DEF TailIsGap
<1>3. CASE ~(Len(q) < Capacity - 1) /\ ~TailIsGap(q)
  BY <1>3, EntryType DEF Offer, TailIsGap, GapAt
<1> QED BY <1>1, <1>2, <1>3

\* publish() extends what a subscription accounts for by one publication.
LEMMA OfferExtends ==
  ASSUME NEW h \in Seq(Entry), NEW q \in Seq(Entry), NEW n \in Nat
  PROVE  Extended(h \o q, h \o Offer(q, n), n)
<1> DEFINE s == h \o q
<1>1. s \in Seq(Entry) /\ Len(s) = Len(h) + Len(q)
  BY ConcatProperties
<1>2. \A e \in Entry : h \o Append(q, e) = Append(s, e)
  BY AppendIsConcat, ConcatAssociative
<1>3. CASE Len(q) < Capacity - 1
  BY <1>2, <1>3, EntryType DEF Offer, Extended
<1>4. CASE ~(Len(q) < Capacity - 1)
  <2>1. Len(q) >= 1 /\ q # <<>> /\ s # <<>> /\ s[Len(s)] = q[Len(q)]
    BY <1>1, <1>4
  <2>2. CASE TailIsGap(q)
    <3> DEFINE t == [q EXCEPT ![Len(q)] = Grown(@)]
               u == [s EXCEPT ![Len(s)] = Grown(@)]
    <3>1. Offer(q, n) = t
      BY <1>4, <2>2 DEF Offer
    <3>2. Len(q) \in 1 .. Len(q) /\ q[Len(q)] \in Entry
      BY <2>1
    <3>3. /\ t \in Seq(Entry) /\ Len(t) = Len(q)
          /\ \A j \in 1 .. Len(q) : t[j] = IF j = Len(q) THEN Grown(q[j]) ELSE q[j]
      BY <3>2, GrownType, ExceptSeq
    <3>4. Len(s) \in 1 .. Len(s) /\ s[Len(s)] \in Entry
      BY <1>1, <2>1
    <3> HIDE DEF s, t
    <3>5. /\ u \in Seq(Entry) /\ Len(u) = Len(s)
          /\ \A j \in 1 .. Len(s) : u[j] = IF j = Len(s) THEN Grown(s[j]) ELSE s[j]
      BY <1>1, <3>4, GrownType, ExceptSeq
    <3>6. /\ h \o t \in Seq(Entry) /\ Len(h \o t) = Len(h) + Len(t)
          /\ \A i \in 1 .. Len(h) + Len(t) :
               (h \o t)[i] = IF i <= Len(h) THEN h[i] ELSE t[i - Len(h)]
      BY <3>3, ConcatProperties
    <3>7. \A i \in 1 .. Len(h) + Len(q) :
            s[i] = IF i <= Len(h) THEN h[i] ELSE q[i - Len(h)]
      BY ConcatProperties DEF s
    <3> HIDE DEF u
    <3>8. Len(h) \in Nat /\ Len(q) \in Nat
      BY LenProperties
    <3>9. ASSUME NEW i \in 1 .. Len(h \o t)
          PROVE  (h \o t)[i] = u[i]
      <4>1. i \in 1 .. Len(h) + Len(q) /\ i \in 1 .. Len(s)
        BY <1>1, <3>3, <3>6, <3>8
      <4>2. CASE i <= Len(h)
        BY <1>1, <2>1, <3>3, <3>5, <3>6, <3>7, <3>8, <4>1, <4>2
      <4>3. CASE ~(i <= Len(h))
        <5>1. i - Len(h) \in 1 .. Len(q) /\ (i = Len(s) <=> i - Len(h) = Len(q))
          BY <1>1, <3>8, <4>1, <4>3
        <5> QED BY <3>3, <3>5, <3>6, <3>7, <4>1, <4>3, <5>1
      <4> QED BY <4>2, <4>3
    <3>10. h \o t = u
      BY <1>1, <3>3, <3>5, <3>6, <3>9, SeqEqual
    <3> USE DEF s, t, u
    <3> QED BY <2>1, <2>2, <3>1, <3>10 DEF Extended, TailIsGap
  <2>3. CASE ~TailIsGap(q)
    BY <1>2, <1>4, <2>1, <2>3, EntryType DEF Offer, Extended, TailIsGap
  <2> QED BY <2>2, <2>3
<1> QED BY <1>3, <1>4

\* A stream extended by the next publication accounts for that one too, and
\* still reports neighbouring losses as one.
LEMMA ExtendedAccounts ==
  ASSUME NEW s \in Seq(Entry), NEW t, NEW b \in Nat, NEW n \in Nat,
         Contiguous(s, b), Reach(s, b) = n, Extended(s, t, n + 1)
  PROVE  /\ Contiguous(t, b)
         /\ Reach(t, b) = n + 1
         /\ NoNeighbouringGaps(s) => NoNeighbouringGaps(t)
<1>1. Len(s) \in Nat /\ (s # <<>> => Len(s) \in 1 .. Len(s))
  BY LenProperties, EmptySeq
<1>2. \A i \in 1 .. Len(s) : s[i] \in Entry
  BY ElementOfSeq
<1>3. ASSUME NEW e \in Entry, t = Append(s, e),
             e.first = n + 1, e.count = 1, e.gap => s # <<>> /\ ~s[Len(s)].gap
      PROVE  /\ Contiguous(t, b)
             /\ Reach(t, b) = n + 1
             /\ NoNeighbouringGaps(s) => NoNeighbouringGaps(t)
  <2>1. /\ t # <<>> /\ Len(t) = Len(s) + 1
        /\ \A i \in 1 .. Len(s) : t[i] = s[i]
        /\ t[Len(s) + 1] = e
    BY <1>3, AppendProperties
  <2>2. Reach(t, b) = n + 1
    BY <1>1, <1>3, <2>1 DEF Reach
  <2>3. ASSUME NEW i \in 1 .. Len(t)
        PROVE  /\ t[i].count >= 1
               /\ ~t[i].gap => t[i].count = 1
               /\ t[i].first = (IF i = 1 THEN b
                                ELSE t[i-1].first + t[i-1].count - 1) + 1
    <3>1. CASE i <= Len(s)
      <4>1. i \in 1 .. Len(s) /\ (i # 1 => i - 1 \in 1 .. Len(s))
        BY <1>1, <3>1
      <4> QED BY <2>1, <4>1 DEF Contiguous
    <3>2. CASE i = Len(s) + 1 /\ s = <<>>
      BY <1>1, <1>3, <2>1, <3>2 DEF Reach
    <3>3. CASE i = Len(s) + 1 /\ s # <<>>
      <4>1. i # 1 /\ i - 1 = Len(s) /\ i - 1 \in 1 .. Len(s)
        BY <1>1, <3>3
      <4>2. t[i-1] = s[Len(s)] /\ t[i] = e
        BY <2>1, <3>3, <4>1
      <4>3. s[Len(s)].first + s[Len(s)].count - 1 = n
        BY <3>3 DEF Reach
      <4> QED BY <1>3, <4>1, <4>2, <4>3
    <3> QED BY <1>1, <2>1, <3>1, <3>2, <3>3
  <2>4. ASSUME NoNeighbouringGaps(s), NEW i \in 2 .. Len(t)
        PROVE  ~(t[i-1].gap /\ t[i].gap)
    <3>1. CASE i <= Len(s)
      <4>1. i \in 2 .. Len(s) /\ i \in 1 .. Len(s) /\ i - 1 \in 1 .. Len(s)
        BY <1>1, <3>1
      <4> QED BY <2>1, <2>4, <4>1 DEF NoNeighbouringGaps
    <3>2. CASE i = Len(s) + 1
      <4>1. i - 1 = Len(s) /\ i - 1 \in 1 .. Len(s)
        BY <1>1, <3>2
      <4>2. t[i-1] = s[Len(s)] /\ t[i] = e
        BY <2>1, <3>2, <4>1
      <4> QED BY <1>3, <4>2
    <3> QED BY <1>1, <2>1, <3>1, <3>2
  <2> QED BY <2>2, <2>3, <2>4 DEF Contiguous, NoNeighbouringGaps
<1>4. ASSUME s # <<>>, s[Len(s)].gap, t = [s EXCEPT ![Len(s)] = Grown(@)]
      PROVE  /\ Contiguous(t, b)
             /\ Reach(t, b) = n + 1
             /\ NoNeighbouringGaps(s) => NoNeighbouringGaps(t)
  <2>1. Len(s) \in 1 .. Len(s) /\ s[Len(s)] \in Entry
    BY <1>1, <1>2, <1>4
  <2>2. /\ t \in Seq(Entry) /\ Len(t) = Len(s)
        /\ \A j \in 1 .. Len(s) : t[j] = IF j = Len(s) THEN Grown(s[j]) ELSE s[j]
    BY <1>4, <2>1, GrownType, ExceptSeq
  <2>3. \A j \in 1 .. Len(s) :
          /\ t[j].gap = s[j].gap /\ t[j].first = s[j].first
          /\ j < Len(s) => t[j].count = s[j].count
          /\ j = Len(s) => t[j].count = s[j].count + 1
    BY <1>1, <1>2, <2>2, GrownType
  <2>4. t # <<>>
    BY <2>1, <2>2
  <2>5. Reach(t, b) = n + 1
    <3>1. Reach(s, b) = n /\ n = s[Len(s)].first + s[Len(s)].count - 1
      BY <1>4 DEF Reach
    <3>2. t[Len(t)].first = s[Len(s)].first /\ t[Len(t)].count = s[Len(s)].count + 1
      BY <2>1, <2>2, <2>3
    <3>3. s[Len(s)].first \in Nat /\ s[Len(s)].count \in Nat
      BY <2>1 DEF Entry
    <3>4. Reach(t, b) = t[Len(t)].first + t[Len(t)].count - 1
      BY <2>4 DEF Reach
    <3> QED BY <3>1, <3>2, <3>3, <3>4
  <2>6. ASSUME NEW i \in 1 .. Len(t)
        PROVE  /\ t[i].count >= 1
               /\ ~t[i].gap => t[i].count = 1
               /\ t[i].first = (IF i = 1 THEN b
                                ELSE t[i-1].first + t[i-1].count - 1) + 1
    <3>1. i \in 1 .. Len(s) /\ s[i].count \in Nat
      BY <1>2, <2>2 DEF Entry
    <3>2. i # 1 => i - 1 \in 1 .. Len(s) /\ i - 1 < Len(s)
      BY <1>1, <3>1
    <3>3. /\ s[i].count >= 1
          /\ ~s[i].gap => s[i].count = 1
          /\ s[i].first = (IF i = 1 THEN b
                           ELSE s[i-1].first + s[i-1].count - 1) + 1
      BY <3>1 DEF Contiguous
    <3>4. CASE i = Len(s)
      <4>1. t[i].gap /\ t[i].first = s[i].first /\ t[i].count = s[i].count + 1
        BY <1>4, <2>3, <3>1, <3>4
      <4>2. i # 1 => t[i-1].first = s[i-1].first /\ t[i-1].count = s[i-1].count
        BY <2>3, <3>2
      <4> QED BY <3>1, <3>3, <4>1, <4>2
    <3>5. CASE i # Len(s)
      <4>1. i < Len(s)
        BY <1>1, <3>1, <3>5
      <4>2. i # 1 => t[i-1].first = s[i-1].first /\ t[i-1].count = s[i-1].count
        BY <2>3, <3>2
      <4>3. t[i].gap = s[i].gap /\ t[i].first = s[i].first /\ t[i].count = s[i].count
        BY <2>3, <3>1, <4>1
      <4> QED BY <3>1, <3>3, <4>2, <4>3
    <3> QED BY <3>4, <3>5
  <2>7. ASSUME NoNeighbouringGaps(s), NEW i \in 2 .. Len(t)
        PROVE  ~(t[i-1].gap /\ t[i].gap)
    <3>1. i \in 2 .. Len(s) /\ i \in 1 .. Len(s) /\ i - 1 \in 1 .. Len(s)
      BY <1>1, <2>2
    <3> QED BY <2>3, <2>7, <3>1 DEF NoNeighbouringGaps
  <2> QED BY <2>5, <2>6, <2>7 DEF Contiguous, NoNeighbouringGaps
<1>5. CASE t = Append(s, Item(n + 1))
  <2>1. Item(n + 1) \in Entry
    BY EntryType
  <2> QED BY <1>3, <1>5, <2>1 DEF Item
<1>6. CASE s # <<>> /\ ~s[Len(s)].gap /\ t = Append(s, GapAt(n + 1))
  <2>1. GapAt(n + 1) \in Entry
    BY EntryType
  <2> QED BY <1>3, <1>6, <2>1 DEF GapAt
<1> QED BY <1>4, <1>5, <1>6 DEF Extended

-----------------------------------------------------------------------------
(* Type correctness.                                                       *)

LEMMA InitTypes == Init => TypeOK
<1>1. <<>> \in Seq(Entry)
  BY EmptySeq
<1> DEFINE E == Seq(Entry)
<1> HIDE DEF E
<1>2. ASSUME Init
      PROVE  entries \in [Readers -> E] /\ heard \in [Readers -> E]
  BY <1>1, <1>2 DEF Init, E
<1>3. ASSUME Init
      PROVE  /\ published \in Nat /\ closed \in BOOLEAN /\ final \in BOOLEAN
             /\ subscribers \in SUBSET Readers
             /\ phase \in [Readers -> Phases]
             /\ ready \in [Readers -> BOOLEAN] /\ ended \in [Readers -> BOOLEAN]
             /\ base \in [Readers -> Nat] /\ told \in [Readers -> BOOLEAN]
  BY <1>3 DEF Init, Phases
<1> QED BY <1>2, <1>3 DEF TypeOK, E

LEMMA NextTypes == TypeOK /\ [Next]_vars => TypeOK'
<1> SUFFICES ASSUME TypeOK, [Next]_vars
             PROVE  TypeOK'
  OBVIOUS
<1> USE DEF TypeOK, Phases
<1>1. CASE Publish
  <2>1. published + 1 \in Nat
    OBVIOUS
  <2>2. \A r \in Readers : Offer(entries[r], published + 1) \in Seq(Entry)
    BY <2>1, OfferType
  <2> QED BY <1>1, <2>1, <2>2 DEF Publish
<1>2. ASSUME NEW withFinal \in BOOLEAN, Close(withFinal)
      PROVE  TypeOK'
  BY <1>2 DEF Close
<1>3. ASSUME NEW r \in Readers, Subscribe(r)
      PROVE  TypeOK'
  BY <1>3 DEF Subscribe
<1>4. ASSUME NEW r \in Readers, Deliver(r)
      PROVE  TypeOK'
  <2>1. Tail(entries[r]) \in Seq(Entry) /\ Head(entries[r]) \in Entry
    BY <1>4, HeadTailProperties DEF Deliver
  <2>2. Append(heard[r], Head(entries[r])) \in Seq(Entry)
    BY <2>1, AppendProperties
  <2> QED BY <1>4, <2>1, <2>2 DEF Deliver
<1>5. ASSUME NEW r \in Readers, DeliverFinal(r)
      PROVE  TypeOK'
  BY <1>5 DEF DeliverFinal
<1>6. ASSUME NEW r \in Readers, Return(r)
      PROVE  TypeOK'
  BY <1>6 DEF Return
<1>7. ASSUME NEW r \in Readers, Wait(r)
      PROVE  TypeOK'
  BY <1>7 DEF Wait
<1>8. ASSUME NEW r \in Readers, LateFinal(r)
      PROVE  TypeOK'
  BY <1>8 DEF LateFinal
<1>9. ASSUME NEW r \in Readers, LateReturn(r)
      PROVE  TypeOK'
  BY <1>9 DEF LateReturn
<1>10. ASSUME NEW r \in Readers, Abandon(r)
       PROVE  TypeOK'
  BY <1>10 DEF Abandon
<1>11. ASSUME NEW r \in Readers, DropUnstarted(r)
       PROVE  TypeOK'
  BY <1>11 DEF DropUnstarted
<1>12. CASE UNCHANGED vars
  BY <1>12 DEF vars
<1> QED BY <1>1, <1>2, <1>3, <1>4, <1>5, <1>6, <1>7, <1>8, <1>9, <1>10,
           <1>11, <1>12 DEF Next, Advance

\* Every variable of the fan-out keeps its type.
THEOREM TypeCorrect == Spec => []TypeOK
BY InitTypes, NextTypes, PTL DEF Spec

-----------------------------------------------------------------------------
(* Who is registered, and what the end of the stream implies.              *)

Registration(r) ==
  /\ phase[r] = "out" => /\ r \notin subscribers /\ ~ended[r] /\ ~told[r]
                         /\ entries[r] = <<>> /\ heard[r] = <<>>
  /\ phase[r] = "late" => entries[r] = <<>>
  /\ phase[r] \in {"late", "over"} \/ ended[r] \/ told[r] => closed
  /\ closed => r \notin subscribers
  /\ phase[r] \in {"fresh", "yielded", "waiting"} => r \in subscribers \/ ended[r]
  /\ told[r] => /\ final /\ entries[r] = <<>>
                /\ phase[r] \in {"yielded", "late", "over", "left"}
                /\ phase[r] = "yielded" => ended[r]
  /\ phase[r] = "waiting" /\ (entries[r] # <<>> \/ ended[r]) => ready[r]

Registered == \A r \in Readers : Registration(r)

LEMMA InitRegistered == Init => Registered
BY DEF Init, Registered, Registration

LEMMA NextRegistered == TypeOK /\ Registered /\ [Next]_vars => Registered'
<1> SUFFICES ASSUME TypeOK, Registered, [Next]_vars, NEW x \in Readers
             PROVE  Registration(x)'
  BY DEF Registered
<1>0. Registration(x)
  BY DEF Registered
<1> USE DEF TypeOK, Registration
<1>1. CASE Publish
  BY <1>0, <1>1 DEF Publish
<1>2. ASSUME NEW withFinal \in BOOLEAN, Close(withFinal)
      PROVE  Registration(x)'
  BY <1>0, <1>2 DEF Close
<1>3. ASSUME NEW r \in Readers, Subscribe(r)
      PROVE  Registration(x)'
  BY <1>0, <1>3 DEF Subscribe
<1>4. ASSUME NEW r \in Readers, Deliver(r)
      PROVE  Registration(x)'
  BY <1>0, <1>4 DEF Deliver, Resumed
<1>5. ASSUME NEW r \in Readers, DeliverFinal(r)
      PROVE  Registration(x)'
  BY <1>0, <1>5 DEF DeliverFinal, Resumed
<1>6. ASSUME NEW r \in Readers, Return(r)
      PROVE  Registration(x)'
  BY <1>0, <1>6 DEF Return, Resumed
<1>7. ASSUME NEW r \in Readers, Wait(r)
      PROVE  Registration(x)'
  BY <1>0, <1>7 DEF Wait, Resumed
<1>8. ASSUME NEW r \in Readers, LateFinal(r)
      PROVE  Registration(x)'
  BY <1>0, <1>8 DEF LateFinal
<1>9. ASSUME NEW r \in Readers, LateReturn(r)
      PROVE  Registration(x)'
  BY <1>0, <1>9 DEF LateReturn
<1>10. ASSUME NEW r \in Readers, Abandon(r)
       PROVE  Registration(x)'
  BY <1>0, <1>10 DEF Abandon
<1>11. ASSUME NEW r \in Readers, DropUnstarted(r)
       PROVE  Registration(x)'
  BY <1>0, <1>11 DEF DropUnstarted
<1>12. CASE UNCHANGED vars
  BY <1>0, <1>12 DEF vars
<1> QED BY <1>1, <1>2, <1>3, <1>4, <1>5, <1>6, <1>7, <1>8, <1>9, <1>10,
           <1>11, <1>12 DEF Next, Advance

\* The publisher knows every subscription whose generator can still wait, until
\* it tells it of the end.
LEMMA RegistrationInvariant == Spec => []Registered
BY InitRegistered, NextRegistered, TypeCorrect, PTL DEF Spec

\* No wake-up is lost: whoever waits with something to hear has been woken.
THEOREM Wakeup == Spec => []NoLostWakeup
<1>1. Registered => NoLostWakeup
  BY DEF Registered, Registration, NoLostWakeup
<1> QED BY <1>1, RegistrationInvariant, PTL

-----------------------------------------------------------------------------
(* Loss accounting.                                                        *)

Accounted(r) ==
  /\ Contiguous(Stream(r), base[r])
  /\ NoNeighbouringGaps(Stream(r))
  /\ r \in subscribers \/ Joined(r) => Reach(Stream(r), base[r]) = published

Accounts == \A r \in Readers : Accounted(r)

\* Delivering the head of a buffer moves it from one part of the stream to the
\* other.
LEMMA DeliverKeepsStream ==
  ASSUME NEW h \in Seq(Entry), NEW q \in Seq(Entry), q # <<>>
  PROVE  Append(h, Head(q)) \o Tail(q) = h \o q
<1>1. Head(q) \in Entry /\ Tail(q) \in Seq(Entry) /\ <<Head(q)>> \in Seq(Entry)
  BY HeadTailProperties
<1>2. <<Head(q)>> \o Tail(q) = q
  <2> DEFINE t == <<Head(q)>> \o Tail(q)
  <2>1. Len(t) = Len(q)
    BY <1>1, ConcatProperties, HeadTailProperties
  <2>2. t \in Seq(Entry)
    BY <1>1, ConcatProperties
  <2>3. ASSUME NEW i \in 1 .. Len(t)
        PROVE  t[i] = q[i]
    <3>1. Len(<<Head(q)>>) = 1 /\ <<Head(q)>>[1] = q[1] /\ Len(q) \in Nat
      BY <1>1, LenProperties
    <3>2. t[i] = IF i <= 1 THEN <<Head(q)>>[i] ELSE Tail(q)[i - 1]
      BY <1>1, <2>1, <3>1, ConcatProperties, HeadTailProperties
    <3>3. i # 1 => i - 1 \in 1 .. Len(Tail(q)) /\ Tail(q)[i - 1] = q[i]
      BY <2>1, <3>1, HeadTailProperties
    <3> HIDE DEF t
    <3> QED BY <2>1, <3>1, <3>2, <3>3
  <2> QED BY <2>1, <2>2, <2>3, SeqEqual
<1>3. Append(h, Head(q)) = h \o <<Head(q)>>
  BY <1>1, AppendIsConcat
<1> QED BY <1>1, <1>2, <1>3, ConcatAssociative

LEMMA InitAccounts == Init => Accounts
<1> SUFFICES ASSUME Init, NEW r \in Readers
             PROVE  Accounted(r)
  BY DEF Accounts
<1>1. Stream(r) = <<>> /\ ~Joined(r) /\ r \notin subscribers
  BY DEF Init, Stream, Joined
<1> QED BY <1>1 DEF Accounted, Contiguous, NoNeighbouringGaps

LEMMA NextAccounts == TypeOK /\ Registered /\ Accounts /\ [Next]_vars => Accounts'
<1> SUFFICES ASSUME TypeOK, Registered, Accounts, [Next]_vars, NEW x \in Readers
             PROVE  Accounted(x)'
  BY DEF Accounts
<1>0. Accounted(x) /\ Registration(x)
  BY DEF Accounts, Registered
<1>a. ASSUME Stream(x)' = Stream(x), base[x]' = base[x], published' = published,
             (x \in subscribers \/ Joined(x))' => x \in subscribers \/ Joined(x)
      PROVE  Accounted(x)'
  BY <1>0, <1>a DEF Accounted
<1>b. ASSUME heard[x]' = heard[x], entries[x]' = entries[x]
      PROVE  Stream(x)' = Stream(x)
  BY <1>b DEF Stream
<1>1. CASE Publish
  <2>1. CASE x \in subscribers
    <3>1. /\ Stream(x) \in Seq(Entry) /\ base[x] \in Nat /\ published \in Nat
      BY ConcatProperties DEF Stream, TypeOK
    <3>2. Reach(Stream(x), base[x]) = published
      BY <1>0, <2>1 DEF Accounted
    <3>3. Stream(x)' = heard[x] \o Offer(entries[x], published + 1)
      BY <1>1, <2>1 DEF Publish, Stream
    <3>4. Extended(Stream(x), Stream(x)', published + 1)
      BY <3>3, OfferExtends DEF Stream, TypeOK
    <3>5. /\ Contiguous(Stream(x)', base[x])
          /\ NoNeighbouringGaps(Stream(x)')
          /\ Reach(Stream(x)', base[x]) = published + 1
      BY <1>0, <3>1, <3>2, <3>4, ExtendedAccounts DEF Accounted
    <3> QED BY <1>1, <3>5 DEF Publish, Accounted
  <2>2. CASE x \notin subscribers
    <3>1. heard[x]' = heard[x] /\ entries[x]' = entries[x] /\ base[x]' = base[x]
      BY <1>1, <2>2 DEF Publish, TypeOK
    <3>2. ~Joined(x)
      BY <1>0, <1>1, <2>2 DEF Publish, Registration, Joined, TypeOK, Phases
    <3>3. ~(x \in subscribers \/ Joined(x))'
      BY <1>1, <2>2, <3>2 DEF Publish, Joined
    <3> QED BY <1>0, <1>b, <3>1, <3>3 DEF Accounted
  <2> QED BY <2>1, <2>2
<1>2. ASSUME NEW withFinal \in BOOLEAN, Close(withFinal)
      PROVE  Accounted(x)'
  BY <1>2, <1>a, <1>b DEF Close, Joined
<1>3. ASSUME NEW r \in Readers, Subscribe(r)
      PROVE  Accounted(x)'
  <2>1. CASE r = x
    <3>1. Stream(x)' = <<>>
      BY <1>0, <1>3, <2>1 DEF Subscribe, Registration, Stream
    <3>2. base[x]' = published /\ published' = published
      BY <1>3, <2>1 DEF Subscribe, TypeOK
    <3> QED BY <3>1, <3>2 DEF Accounted, Contiguous, NoNeighbouringGaps, Reach
  <2>2. CASE r # x
    BY <1>3, <1>a, <1>b, <2>2 DEF Subscribe, Joined, TypeOK
  <2> QED BY <2>1, <2>2
<1>4. ASSUME NEW r \in Readers, Deliver(r)
      PROVE  Accounted(x)'
  <2>1. Stream(x)' = Stream(x)
    BY <1>4, DeliverKeepsStream DEF Deliver, Stream, TypeOK
  <2> QED BY <1>4, <1>a, <2>1 DEF Deliver, Resumed, Joined, TypeOK
<1>5. ASSUME NEW r \in Readers, DeliverFinal(r)
      PROVE  Accounted(x)'
  BY <1>5, <1>a, <1>b DEF DeliverFinal, Resumed, Joined, TypeOK
<1>6. ASSUME NEW r \in Readers, Return(r)
      PROVE  Accounted(x)'
  BY <1>6, <1>a, <1>b DEF Return, Resumed, Joined, TypeOK
<1>7. ASSUME NEW r \in Readers, Wait(r)
      PROVE  Accounted(x)'
  BY <1>7, <1>a, <1>b DEF Wait, Resumed, Joined, TypeOK
<1>8. ASSUME NEW r \in Readers, LateFinal(r)
      PROVE  Accounted(x)'
  BY <1>8, <1>a, <1>b DEF LateFinal, Joined, TypeOK
<1>9. ASSUME NEW r \in Readers, LateReturn(r)
      PROVE  Accounted(x)'
  BY <1>9, <1>a, <1>b DEF LateReturn, Joined, TypeOK
<1>10. ASSUME NEW r \in Readers, Abandon(r)
       PROVE  Accounted(x)'
  BY <1>10, <1>a, <1>b DEF Abandon, Joined, TypeOK
<1>11. ASSUME NEW r \in Readers, DropUnstarted(r)
       PROVE  Accounted(x)'
  BY <1>11, <1>a, <1>b DEF DropUnstarted, Joined, TypeOK
<1>12. CASE UNCHANGED vars
  BY <1>12, <1>a, <1>b DEF vars, Joined
<1> QED BY <1>1, <1>2, <1>3, <1>4, <1>5, <1>6, <1>7, <1>8, <1>9, <1>10,
           <1>11, <1>12 DEF Next, Advance

\* Each subscription's reports and buffer stand for exactly the publications
\* since it subscribed, with neighbouring losses in one gap.
LEMMA AccountsInvariant == Spec => []Accounts
BY InitAccounts, NextAccounts, TypeCorrect, RegistrationInvariant, PTL DEF Spec

\* The loss accounting of every subscription is exact.
THEOREM Accounting == Spec => []ExactAccounting
<1>1. Accounts => ExactAccounting
  BY DEF Accounts, Accounted, ExactAccounting
<1> QED BY <1>1, AccountsInvariant, PTL

\* No subscription reports one run of losses as two gaps.
THEOREM MaximalGaps == Spec => []GapsAreMaximal
<1>1. Accounts => GapsAreMaximal
  BY DEF Accounts, Accounted, NoNeighbouringGaps, GapsAreMaximal
<1> QED BY <1>1, AccountsInvariant, PTL

-----------------------------------------------------------------------------
(* Bounded buffers and the final item.                                     *)

\* No buffer outgrows its capacity, and a full one ends in a gap.
THEOREM Bounded == Spec => []BoundedBuffer
<1>1. Init => BoundedBuffer
  <2> SUFFICES ASSUME Init, NEW r \in Readers
               PROVE  /\ Len(entries[r]) <= Capacity
                      /\ Len(entries[r]) = Capacity => TailIsGap(entries[r])
    BY DEF BoundedBuffer
  <2>1. entries[r] = <<>>
    BY DEF Init
  <2> QED BY <2>1
<1>2. TypeOK /\ BoundedBuffer /\ [Next]_vars => BoundedBuffer'
  <2> SUFFICES ASSUME TypeOK, BoundedBuffer, [Next]_vars, NEW x \in Readers
               PROVE  /\ Len(entries[x]') <= Capacity
                      /\ Len(entries[x]') = Capacity => TailIsGap(entries[x]')
    BY DEF BoundedBuffer
  <2>0. /\ entries[x] \in Seq(Entry)
        /\ Len(entries[x]) <= Capacity
        /\ Len(entries[x]) = Capacity => TailIsGap(entries[x])
    BY DEF BoundedBuffer, TypeOK
  <2>1. CASE Publish
    <3>1. published + 1 \in Nat
      BY DEF TypeOK
    <3>2. entries[x]' = Offer(entries[x], published + 1) \/ entries[x]' = entries[x]
      BY <2>1 DEF Publish
    <3> QED BY <2>0, <3>1, <3>2, OfferBound
  <2>2. ASSUME NEW r \in Readers, Deliver(r)
        PROVE  /\ Len(entries[x]') <= Capacity
               /\ Len(entries[x]') = Capacity => TailIsGap(entries[x]')
    <3>1. CASE r = x
      <4>1. entries[x]' = Tail(entries[x]) /\ entries[x] # <<>>
        BY <2>2, <3>1 DEF Deliver, TypeOK
      <4>2. Len(entries[x]') = Len(entries[x]) - 1
        BY <2>0, <4>1, HeadTailProperties
      <4> QED BY <2>0, <4>2
    <3>2. CASE r # x
      BY <2>0, <2>2, <3>2 DEF Deliver, TypeOK
    <3> QED BY <3>1, <3>2
  <2>3. CASE UNCHANGED entries
    BY <2>0, <2>3
  <2> QED BY <2>1, <2>2, <2>3
       DEF Next, vars, Close, Subscribe, Advance, DeliverFinal, Return, Wait,
           LateFinal, LateReturn, Abandon, DropUnstarted
<1> QED BY <1>1, <1>2, TypeCorrect, PTL DEF Spec

LEMMA InitFinal == Init => FinalIsLast
BY DEF Init, FinalIsLast

LEMMA NextFinal ==
  TypeOK /\ Registered /\ Accounts /\ FinalIsLast /\ [Next]_vars => FinalIsLast'
<1> SUFFICES ASSUME TypeOK, Registered, Accounts, FinalIsLast, [Next]_vars,
                    NEW x \in Readers, told[x]'
             PROVE  /\ closed' /\ final'
                    /\ Reach(heard[x]', base[x]') = published'
  BY DEF FinalIsLast
<1>0. Registration(x) /\ Accounted(x)
  BY DEF Registered, Accounts
<1>1. CASE told[x]
  <2>1. /\ closed /\ final /\ Reach(heard[x], base[x]) = published
        /\ entries[x] = <<>> /\ phase[x] # "out"
    BY <1>0, <1>1 DEF FinalIsLast, Registration
  <2>2. UNCHANGED <<closed, final, published, heard[x], base[x]>>
    BY <2>1 DEF TypeOK, Next, vars, Publish, Close, Subscribe, Advance, Deliver,
          DeliverFinal, Return, Wait, LateFinal, LateReturn, Abandon,
          DropUnstarted
  <2> QED BY <2>1, <2>2
<1>2. CASE ~told[x]
  <2>1. DeliverFinal(x) \/ LateFinal(x)
    BY <1>2 DEF TypeOK, Next, vars, Publish, Close, Subscribe, Advance, Deliver,
          DeliverFinal, Return, Wait, LateFinal, LateReturn, Abandon,
          DropUnstarted
  <2>2. final /\ closed /\ entries[x] = <<>> /\ Joined(x)
    BY <1>0, <2>1 DEF DeliverFinal, LateFinal, Registration, Resumed, Joined
  <2>3. Stream(x) = heard[x]
    BY <2>2, ConcatEmptySeq DEF Stream, TypeOK
  <2>4. Reach(heard[x], base[x]) = published
    BY <1>0, <2>2, <2>3 DEF Accounted
  <2> QED BY <2>1, <2>2, <2>4 DEF DeliverFinal, LateFinal
<1> QED BY <1>1, <1>2

\* Whoever was told the final item had heard of everything published.
THEOREM Final == Spec => []FinalIsLast
BY InitFinal, NextFinal, TypeCorrect, RegistrationInvariant, AccountsInvariant, PTL DEF Spec

\* After the final item a reader hears nothing more.
THEOREM FinalEndsTheStream == Spec => NothingAfterFinal
<1>1. TypeOK /\ Registered /\ [Next]_vars =>
        [\A r \in Readers : told[r] => heard'[r] = heard[r] /\ told'[r]]_vars
  <2> SUFFICES ASSUME TypeOK, Registered, Next, NEW x \in Readers, told[x]
               PROVE  heard'[x] = heard[x] /\ told'[x]
    BY DEF vars
  <2>1. entries[x] = <<>>
    BY DEF Registered, Registration
  <2> QED BY <2>1 DEF TypeOK, Next, Publish, Close, Subscribe, Advance, Deliver,
            DeliverFinal, Return, Wait, LateFinal, LateReturn, Abandon,
            DropUnstarted
<1> QED BY <1>1, TypeCorrect, RegistrationInvariant, PTL DEF Spec, NothingAfterFinal

\* An iteration over a stream that has a final item does not end before it
\* delivered it, however late it began (_fanout.py:108-128).
Concluded == \A r \in Readers : final /\ phase[r] = "over" => told[r]

LEMMA InitConcluded == Init => Concluded
BY DEF Init, Concluded

LEMMA NextConcluded == TypeOK /\ Registered /\ Concluded /\ [Next]_vars => Concluded'
<1> SUFFICES ASSUME TypeOK, Registered, Concluded, [Next]_vars, NEW x \in Readers,
                    final', phase'[x] = "over"
             PROVE  told'[x]
  BY DEF Concluded
<1>1. /\ final /\ phase[x] = "over" => told[x]
      /\ phase[x] = "over" => closed
  BY DEF Concluded, Registered, Registration
<1>2. ASSUME NEW withFinal \in BOOLEAN, Close(withFinal)
      PROVE  told'[x]
  BY <1>1, <1>2 DEF Close
<1>3. ASSUME NEW r \in Readers, Return(r) \/ LateReturn(r)
      PROVE  told'[x]
  <2>1. CASE r = x
    BY <1>3, <2>1 DEF Return, LateReturn
  <2>2. CASE r # x
    BY <1>1, <1>3, <2>2 DEF Return, LateReturn, TypeOK
  <2> QED BY <2>1, <2>2
<1>4. ASSUME NEW r \in Readers,
             \/ Subscribe(r) \/ Deliver(r) \/ DeliverFinal(r) \/ Wait(r)
             \/ LateFinal(r) \/ Abandon(r) \/ DropUnstarted(r)
      PROVE  told'[x]
  BY <1>1, <1>4 DEF Subscribe, Deliver, DeliverFinal, Wait, LateFinal, Abandon,
       DropUnstarted, TypeOK, Phases
<1>5. CASE Publish \/ UNCHANGED vars
  BY <1>1, <1>5 DEF Publish, vars
<1> QED BY <1>2, <1>3, <1>4, <1>5 DEF Next, Advance

\* Who has seen an iteration to its end has heard the final item.
THEOREM EndTellsTheFinal == Spec => []Concluded
BY InitConcluded, NextConcluded, TypeCorrect, RegistrationInvariant, PTL DEF Spec

-----------------------------------------------------------------------------
(* The fan-out keeps the promise of EventLog.                              *)

\* The publications up to n that the gaps of a stream stand for.
Lost(s, n) == {k \in 1 .. n : \E i \in 1 .. Len(s) :
                 s[i].gap /\ k \in s[i].first .. s[i].first + s[i].count - 1}

\* The entries of a stream that starts after b stand for publications up to n, each
\* for later ones than those before it.
Ordered(s, b, n) ==
  /\ \A i \in 1 .. Len(s) : b + i <= s[i].first /\ s[i].first + s[i].count <= n + 1
  /\ \A i, j \in 1 .. Len(s) :
       i < j => /\ s[i].first + s[i].count <= s[j].first
                /\ s[i].first + (j - i) <= s[j].first

\* A publication adds an entry for itself, or is counted in the last one.
Appended(s, t, n) ==
  /\ Len(t) = Len(s) + 1
  /\ \A i \in 1 .. Len(s) : t[i] = s[i]
  /\ t[Len(t)].first = n /\ t[Len(t)].count = 1

Counted(s, t, n) ==
  /\ Len(t) = Len(s) /\ Len(s) >= 1
  /\ \A i \in 1 .. Len(s) - 1 : t[i] = s[i]
  /\ s[Len(s)].gap /\ t[Len(s)].gap
  /\ t[Len(s)].first = s[Len(s)].first
  /\ t[Len(s)].count = s[Len(s)].count + 1
  /\ s[Len(s)].first + s[Len(s)].count = n

LEMMA ExtendedShape ==
  ASSUME NEW s \in Seq(Entry), NEW t, NEW b \in Nat, NEW n \in Nat,
         Reach(s, b) = n, Extended(s, t, n + 1)
  PROVE  t \in Seq(Entry) /\ (Appended(s, t, n + 1) \/ Counted(s, t, n + 1))
<1>1. ASSUME NEW e \in Entry, e.first = n + 1, e.count = 1, t = Append(s, e)
      PROVE  t \in Seq(Entry) /\ Appended(s, t, n + 1)
  BY <1>1, AppendProperties, LenProperties DEF Appended
<1>2. CASE s # <<>> /\ s[Len(s)].gap /\ t = [s EXCEPT ![Len(s)] = Grown(@)]
  <2>1. Len(s) \in 1 .. Len(s) /\ s[Len(s)] \in Entry
    BY <1>2, LenProperties, EmptySeq, ElementOfSeq
  <2>2. /\ t \in Seq(Entry) /\ Len(t) = Len(s)
        /\ \A j \in 1 .. Len(s) : t[j] = IF j = Len(s) THEN Grown(s[j]) ELSE s[j]
    BY <1>2, <2>1, GrownType, ExceptSeq
  <2>3. s[Len(s)].first + s[Len(s)].count = n + 1
    BY <1>2, <2>1 DEF Reach, Entry
  <2> QED BY <1>2, <2>1, <2>2, <2>3, GrownType DEF Counted
<1>3. Item(n + 1) \in Entry /\ GapAt(n + 1) \in Entry
  BY EntryType
<1> QED BY <1>1, <1>2, <1>3 DEF Extended, Item, GapAt

LEMMA ExtendedOrder ==
  ASSUME NEW s \in Seq(Entry), NEW t \in Seq(Entry), NEW b \in Nat, NEW n \in Nat,
         Contiguous(s, b), Reach(s, b) = n, Ordered(s, b, n),
         Appended(s, t, n + 1) \/ Counted(s, t, n + 1)
  PROVE  Ordered(t, b, n + 1)
<1>1. Len(s) \in Nat
  BY LenProperties
<1>2. \A i \in 1 .. Len(s) : s[i].first \in Nat /\ s[i].count \in Nat /\ s[i].count >= 1
  <2>1. \A i \in 1 .. Len(s) : s[i] \in Entry
    BY ElementOfSeq
  <2> QED BY <2>1 DEF Entry, Contiguous
<1>3. CASE Appended(s, t, n + 1)
  <2>1. s # <<>> => s[Len(s)].first + s[Len(s)].count = n + 1 /\ Len(s) \in 1 .. Len(s)
    BY <1>1, <1>2, EmptySeq DEF Reach
  <2>2. b + Len(s) <= n
    <3>1. CASE s = <<>>
      BY <3>1 DEF Reach
    <3>2. CASE s # <<>>
      BY <1>1, <1>2, <2>1, <3>2 DEF Ordered
    <3> QED BY <3>1, <3>2
  <2>3. ASSUME NEW i \in 1 .. Len(t)
        PROVE  b + i <= t[i].first /\ t[i].first + t[i].count <= n + 2
    <3>1. CASE i \in 1 .. Len(s)
      <4>1. t[i] = s[i]
        BY <1>3, <3>1 DEF Appended
      <4>2. b + i <= s[i].first /\ s[i].first + s[i].count <= n + 1
        BY <3>1 DEF Ordered
      <4>3. s[i].first \in Nat /\ s[i].count \in Nat
        BY <1>2, <3>1
      <4> QED BY <4>1, <4>2, <4>3
    <3>2. CASE i = Len(s) + 1
      BY <1>1, <1>3, <2>2, <3>2 DEF Appended
    <3> QED BY <1>1, <1>3, <3>1, <3>2 DEF Appended
  <2>4. ASSUME NEW i \in 1 .. Len(t), NEW j \in 1 .. Len(t), i < j
        PROVE  /\ t[i].first + t[i].count <= t[j].first
               /\ t[i].first + (j - i) <= t[j].first
    <3>1. i \in 1 .. Len(s) /\ t[i] = s[i]
      BY <1>1, <1>3, <2>4 DEF Appended
    <3>2. CASE j \in 1 .. Len(s)
      BY <1>3, <2>4, <3>1, <3>2 DEF Appended, Ordered
    <3>3. CASE j = Len(s) + 1
      <4>1. t[j].first = n + 1 /\ Len(s) \in 1 .. Len(s) /\ s # <<>>
        BY <1>1, <1>3, <3>1, <3>3, EmptySeq DEF Appended
      <4>2. s[Len(s)].first + 1 <= n + 1
        BY <1>2, <2>1, <4>1
      <4>3. i < Len(s) => s[i].first + (Len(s) - i) <= s[Len(s)].first
        BY <3>1, <4>1 DEF Ordered
      <4>4. s[i].first + s[i].count <= n + 1
        BY <3>1 DEF Ordered
      <4>5. s[i].first \in Nat /\ s[Len(s)].first \in Nat
        BY <1>2, <3>1, <4>1
      <4>6. i = Len(s) \/ i < Len(s)
        BY <1>1, <3>1
      <4>7. s[i].first + (Len(s) - i) <= s[Len(s)].first
        <5>1. CASE i < Len(s)
          BY <4>3, <5>1
        <5>2. CASE i = Len(s)
          <6>1. s[i].first = s[Len(s)].first /\ Len(s) - i = 0
            BY <1>1, <5>2
          <6> QED BY <4>5, <6>1
        <5> QED BY <4>6, <5>1, <5>2
      <4>8. j - i = (Len(s) - i) + 1 /\ Len(s) - i \in Int
        BY <1>1, <3>3
      <4>9. \A x, y, d \in Int : x + d <= y /\ y + 1 <= n + 1 => x + (d + 1) <= n + 1
        OBVIOUS
      <4>10. s[i].first + ((Len(s) - i) + 1) <= n + 1
        BY <4>2, <4>5, <4>7, <4>8, <4>9
      <4>11. t[i].first + (j - i) <= t[j].first
        BY <3>1, <4>1, <4>8, <4>10, Zenon
      <4> QED BY <3>1, <4>1, <4>4, <4>11
    <3> QED BY <1>1, <1>3, <3>2, <3>3 DEF Appended
  <2> QED BY <2>3, <2>4 DEF Ordered
<1>4. CASE Counted(s, t, n + 1)
  <2>1. /\ \A i \in 1 .. Len(s) : t[i].first = s[i].first
        /\ \A i \in 1 .. Len(s) : i # Len(s) => t[i].count = s[i].count
        /\ t[Len(s)].count = s[Len(s)].count + 1
        /\ s[Len(s)].first + s[Len(s)].count = n + 1
    <3>1. \A i \in 1 .. Len(s) : i # Len(s) => t[i] = s[i]
      BY <1>1, <1>4 DEF Counted
    <3> QED BY <1>4, <3>1 DEF Counted
  <2>2. Len(t) = Len(s)
    BY <1>4 DEF Counted
  <2>3. ASSUME NEW i \in 1 .. Len(s)
        PROVE  b + i <= t[i].first /\ t[i].first + t[i].count <= n + 2
    <3>1. b + i <= s[i].first /\ s[i].first + s[i].count <= n + 1
      BY DEF Ordered
    <3>2. t[i].first = s[i].first /\ s[i].first \in Nat /\ s[i].count \in Nat
      BY <1>2, <2>1
    <3>3. t[i].count = s[i].count \/ t[i].count = s[i].count + 1
      BY <2>1
    <3> QED BY <3>1, <3>2, <3>3
  <2>4. ASSUME NEW i \in 1 .. Len(s), NEW j \in 1 .. Len(s), i < j
        PROVE  /\ t[i].first + t[i].count <= t[j].first
               /\ t[i].first + (j - i) <= t[j].first
    <3>1. i # Len(s)
      BY <1>1, <2>4
    <3>2. t[i].first = s[i].first /\ t[j].first = s[j].first /\ t[i].count = s[i].count
      BY <2>1, <3>1
    <3> QED BY <2>4, <3>2 DEF Ordered
  <2> QED BY <2>2, <2>3, <2>4 DEF Ordered
<1> QED BY <1>3, <1>4

LEMMA ExtendedLoss ==
  ASSUME NEW s \in Seq(Entry), NEW t \in Seq(Entry), NEW b \in Nat, NEW n \in Nat,
         Ordered(s, b, n), Appended(s, t, n + 1) \/ Counted(s, t, n + 1)
  PROVE  Lost(t, n + 1) = Lost(s, n) \cup (IF t[Len(t)].gap THEN {n + 1} ELSE {})
<1>1. Len(s) \in Nat
  BY LenProperties
<1>2. \A i \in 1 .. Len(s) : /\ s[i].first \in Nat /\ s[i].count \in Nat
                             /\ b + i <= s[i].first /\ s[i].first + s[i].count <= n + 1
  <2>1. \A i \in 1 .. Len(s) : s[i] \in Entry
    BY ElementOfSeq
  <2> QED BY <2>1 DEF Entry, Ordered
<1> DEFINE In(e, k) == e.gap /\ k \in e.first .. e.first + e.count - 1
<1>3. \A k : k \in Lost(s, n) <=> k \in 1 .. n /\ \E i \in 1 .. Len(s) : In(s[i], k)
  BY DEF Lost
<1>4. \A k : k \in Lost(t, n + 1) <=> k \in 1 .. n + 1 /\ \E i \in 1 .. Len(t) : In(t[i], k)
  BY DEF Lost
<1>5. \A i \in 1 .. Len(s) : ~In(s[i], n + 1)
  BY <1>2
<1>6. CASE Appended(s, t, n + 1)
  <2>1. \A k \in 1 .. n + 1 : In(t[Len(t)], k) <=> t[Len(t)].gap /\ k = n + 1
    BY <1>6 DEF Appended
  <2>2. \A k : (\E i \in 1 .. Len(t) : In(t[i], k)) <=>
                 In(t[Len(t)], k) \/ \E i \in 1 .. Len(s) : In(s[i], k)
    <3>1. /\ Len(t) = Len(s) + 1 /\ Len(t) \in 1 .. Len(t)
          /\ \A i \in 1 .. Len(s) : t[i] = s[i] /\ i \in 1 .. Len(t)
          /\ \A i \in 1 .. Len(t) : i = Len(t) \/ i \in 1 .. Len(s)
      BY <1>1, <1>6 DEF Appended
    <3> HIDE DEF In
    <3> QED BY <3>1
  <2> HIDE DEF In
  <2>3. \A k : k \in 1 .. n + 1 <=> k \in 1 .. n \/ k = n + 1
    OBVIOUS
  <2> QED BY <1>3, <1>4, <1>5, <2>1, <2>2, <2>3
<1>7. CASE Counted(s, t, n + 1)
  <2>1. /\ t[Len(t)].gap /\ Len(s) \in 1 .. Len(s) /\ Len(t) = Len(s)
        /\ \A i \in 1 .. Len(s) : i # Len(s) => t[i] = s[i]
    BY <1>1, <1>7 DEF Counted
  <2>2. \A k \in 1 .. n + 1 : In(t[Len(s)], k) <=> In(s[Len(s)], k) \/ k = n + 1
    <3>1. /\ t[Len(s)].gap /\ s[Len(s)].gap /\ t[Len(s)].first = s[Len(s)].first
          /\ t[Len(s)].count = s[Len(s)].count + 1
          /\ s[Len(s)].first + s[Len(s)].count = n + 1
      BY <1>7 DEF Counted
    <3>2. s[Len(s)].first \in Nat /\ s[Len(s)].count \in Nat
      BY <1>2, <2>1
    <3>3. ASSUME NEW f \in Nat, NEW c \in Nat, f + c = n + 1, NEW k \in 1 .. n + 1
          PROVE  k \in f .. f + (c + 1) - 1 <=> k \in f .. f + c - 1 \/ k = n + 1
      BY <3>3
    <3> QED BY <3>1, <3>2, <3>3
  <2> HIDE DEF In
  <2>3. \A k \in 1 .. n + 1 : (\E i \in 1 .. Len(t) : In(t[i], k)) <=>
                 k = n + 1 \/ \E i \in 1 .. Len(s) : In(s[i], k)
    BY <2>1, <2>2
  <2>4. \A k : k \in 1 .. n + 1 <=> k \in 1 .. n \/ k = n + 1
    OBVIOUS
  <2> QED BY <1>3, <1>4, <1>5, <2>1, <2>3, <2>4
<1> QED BY <1>6, <1>7

Orders == \A r \in Readers : Ordered(Stream(r), base[r], published)

LEMMA StreamType ==
  ASSUME TypeOK, NEW r \in Readers
  PROVE  /\ heard[r] \in Seq(Entry) /\ entries[r] \in Seq(Entry) /\ Stream(r) \in Seq(Entry)
         /\ base[r] \in Nat /\ published \in Nat
BY ConcatProperties DEF TypeOK, Stream

\* Only a publication changes what the streams stand for.
LEMMA StreamKept ==
  ASSUME TypeOK, Registered, [Next]_vars, ~Publish
  PROVE  /\ published' = published
         /\ \A x \in Readers : /\ Stream(x)' = Stream(x)
                               /\ base'[x] = base[x] \/ Stream(x) = <<>>
<1> SUFFICES ASSUME NEW x \in Readers
             PROVE  /\ published' = published
                    /\ Stream(x)' = Stream(x)
                    /\ base'[x] = base[x] \/ Stream(x) = <<>>
  <2>1. published' = published
    BY DEF Next, vars, Close, Subscribe, Advance, Deliver, DeliverFinal, Return, Wait,
           LateFinal, LateReturn, Abandon, DropUnstarted
  <2> QED BY <2>1
<1>1. ASSUME NEW r \in Readers, Subscribe(r)
      PROVE  /\ UNCHANGED <<published, heard, entries>>
             /\ base'[x] = base[x] \/ Stream(x) = <<>>
  BY <1>1 DEF Subscribe, Registered, Registration, Stream, TypeOK
<1>2. ASSUME NEW r \in Readers, Deliver(r)
      PROVE  UNCHANGED <<published, base>> /\ Stream(x)' = Stream(x)
  BY <1>2, DeliverKeepsStream DEF Deliver, Stream, TypeOK
<1>3. CASE UNCHANGED <<published, base, heard, entries>>
  BY <1>3 DEF Stream
<1>4. CASE ~UNCHANGED <<published, base, heard, entries>>
  <2>1. \E r \in Readers : Subscribe(r) \/ Deliver(r)
    BY <1>4 DEF Next, vars, Close, Advance, DeliverFinal, Return, Wait, LateFinal,
            LateReturn, Abandon, DropUnstarted
  <2> QED BY <1>1, <1>2, <2>1 DEF Stream
<1> QED BY <1>3, <1>4

\* What a publication does to the stream of a subscription, and to the others.
LEMMA PublishShape ==
  ASSUME TypeOK, Accounts, Publish, NEW x \in Readers
  PROVE  IF x \in subscribers
           THEN Appended(Stream(x), Stream(x)', published + 1)
                \/ Counted(Stream(x), Stream(x)', published + 1)
           ELSE Stream(x)' = Stream(x)
<1>1. CASE x \in subscribers
  <2>1. Reach(Stream(x), base[x]) = published
    BY <1>1 DEF Accounts, Accounted
  <2>2. Stream(x)' = heard[x] \o Offer(entries[x], published + 1)
    BY <1>1 DEF Publish, Stream
  <2>3. Extended(Stream(x), Stream(x)', published + 1)
    BY <2>2, OfferExtends, StreamType DEF Stream
  <2> QED BY <1>1, <2>1, <2>3, StreamType, ExtendedShape
<1>2. CASE x \notin subscribers
  BY <1>2 DEF Publish, Stream
<1> QED BY <1>1, <1>2

LEMMA OrdersInvariant == Spec => []Orders
<1>1. Init => Orders
  <2> SUFFICES ASSUME Init, NEW r \in Readers
               PROVE  Ordered(Stream(r), base[r], published)
    BY DEF Orders
  <2>1. Stream(r) = <<>>
    BY DEF Init, Stream
  <2> QED BY <2>1 DEF Ordered
<1>2. TypeOK /\ TypeOK' /\ Registered /\ Accounts /\ Orders /\ [Next]_vars => Orders'
  <2> SUFFICES ASSUME TypeOK, TypeOK', Registered, Accounts, Orders, [Next]_vars,
                      NEW x \in Readers
               PROVE  Ordered(Stream(x)', base'[x], published')
    BY DEF Orders
  <2>1. /\ Stream(x) \in Seq(Entry) /\ Stream(x)' \in Seq(Entry)
        /\ base[x] \in Nat /\ published \in Nat
        /\ Ordered(Stream(x), base[x], published)
    BY StreamType, ConcatProperties DEF Orders, Stream, TypeOK
  <2>2. CASE Publish /\ x \in subscribers
    <3>1. /\ Contiguous(Stream(x), base[x]) /\ Reach(Stream(x), base[x]) = published
          /\ base'[x] = base[x] /\ published' = published + 1
      BY <2>2 DEF Publish, Accounts, Accounted
    <3> QED BY <2>1, <2>2, <3>1, PublishShape, ExtendedOrder
  <2>3. CASE Publish /\ x \notin subscribers
    <3>1. Stream(x)' = Stream(x)
      BY <2>3, PublishShape
    <3>2. base'[x] = base[x] /\ published' = published + 1
      BY <2>3 DEF Publish
    <3>3. \A i \in 1 .. Len(Stream(x)) :
            /\ Stream(x)[i].first \in Nat /\ Stream(x)[i].count \in Nat
            /\ Stream(x)[i].first + Stream(x)[i].count <= published + 1
      <4>1. \A i \in 1 .. Len(Stream(x)) : Stream(x)[i] \in Entry
        BY <2>1, ElementOfSeq
      <4> QED BY <2>1, <4>1 DEF Ordered, Entry
    <3>4. \A i \in 1 .. Len(Stream(x)) :
            Stream(x)[i].first + Stream(x)[i].count <= published' + 1
      <4>1. \A f, c, n \in Nat : f + c <= n + 1 => f + c <= (n + 1) + 1
        OBVIOUS
      <4> QED BY <2>1, <3>2, <3>3, <4>1
    <3> QED BY <2>1, <3>1, <3>2, <3>4 DEF Ordered
  <2>4. CASE ~Publish
    <3>1. CASE Stream(x)' = <<>>
      BY <3>1 DEF Ordered
    <3>2. CASE Stream(x)' # <<>>
      BY <2>1, <2>4, <3>2, StreamKept
    <3> QED BY <3>1, <3>2
  <2> QED BY <2>2, <2>3, <2>4
<1> QED BY <1>1, <1>2, TypeCorrect, RegistrationInvariant, AccountsInvariant, PTL DEF Spec

-----------------------------------------------------------------------------
(* The refinement.                                                         *)

Kept == TypeOK /\ Registered /\ Accounts /\ Orders

\* The entry a reader is given next stands where its reports stop.
LEMMA FrontOfBuffer ==
  ASSUME Kept, NEW r \in Readers, entries[r] # <<>>
  PROVE  LET k == Len(heard[r]) + 1
             S == Stream(r)
         IN  /\ k \in 1 .. Len(S) /\ S[k] = Head(entries[r]) /\ S[k] \in Entry
             /\ S[k].first = Reach(heard[r], base[r]) + 1
             /\ Len(S) = Len(heard[r]) + Len(entries[r])
<1> DEFINE h == heard[r]
           q == entries[r]
           S == Stream(r)
<1>1. h \in Seq(Entry) /\ q \in Seq(Entry) /\ S \in Seq(Entry) /\ q # <<>>
  BY StreamType DEF Kept
<1>2. /\ Len(S) = Len(h) + Len(q)
      /\ \A i \in 1 .. Len(h) + Len(q) : S[i] = IF i <= Len(h) THEN h[i] ELSE q[i - Len(h)]
  BY <1>1, ConcatProperties DEF Stream
<1>3. \A i \in 1 .. Len(S) :
        S[i].first = (IF i = 1 THEN base[r] ELSE S[i-1].first + S[i-1].count - 1) + 1
  BY DEF Kept, Accounts, Accounted, Contiguous
<1> SUFFICES /\ Len(h) + 1 \in 1 .. Len(S) /\ S[Len(h) + 1] = Head(q)
             /\ S[Len(h) + 1] \in Entry
             /\ S[Len(h) + 1].first = Reach(h, base[r]) + 1
  BY <1>2
<1> HIDE DEF h, q, S
<1>4. Len(h) \in Nat /\ Len(q) \in Nat /\ Len(q) >= 1 /\ (h = <<>> <=> Len(h) = 0)
  BY <1>1, LenProperties, EmptySeq
<1>5. Len(h) + 1 \in 1 .. Len(S)
  BY <1>2, <1>4
<1>6. S[Len(h) + 1] = Head(q)
  <2>1. S[Len(h) + 1] = q[(Len(h) + 1) - Len(h)]
    BY <1>2, <1>4, <1>5
  <2>2. (Len(h) + 1) - Len(h) = 1
    BY <1>4
  <2> QED BY <2>1, <2>2, <1>1
<1>7. S[Len(h) + 1] \in Entry
  BY <1>1, <1>5, ElementOfSeq
<1>8. S[Len(h) + 1].first = Reach(h, base[r]) + 1
  <2>1. CASE h = <<>>
    BY <1>3, <1>4, <1>5, <2>1 DEF Reach
  <2>2. CASE h # <<>>
    <3>1. Len(h) + 1 # 1 /\ (Len(h) + 1) - 1 = Len(h)
          /\ Len(h) \in 1 .. Len(h) + Len(q) /\ Len(h) <= Len(h)
      BY <1>4, <2>2
    <3>2. S[Len(h)] = h[Len(h)]
      BY <1>2, <3>1
    <3> QED BY <1>3, <1>5, <2>2, <3>1, <3>2 DEF Reach
  <2> QED BY <2>1, <2>2
<1> QED BY <1>5, <1>6, <1>7, <1>8

\* Where a reader's reports stop is a number.
LEMMA ReachType ==
  ASSUME Kept, NEW r \in Readers
  PROVE  Reach(heard[r], base[r]) \in Int
<1>1. heard[r] \in Seq(Entry) /\ base[r] \in Nat
  BY StreamType DEF Kept
<1>2. heard[r] # <<>> => heard[r][Len(heard[r])] \in Entry
  BY <1>1, LenProperties, EmptySeq, ElementOfSeq
<1> QED BY <1>1, <1>2 DEF Reach, Entry

\* A reader is at least as many publications behind as it has entries buffered.
LEMMA Lag ==
  ASSUME Kept, NEW r \in subscribers, entries[r] # <<>>
  PROVE  published - Reach(heard[r], base[r]) >= Len(entries[r])
<1> DEFINE S == Stream(r)
           k == Len(heard[r]) + 1
           m == Len(S)
           c == Reach(heard[r], base[r])
<1>1. r \in Readers
  BY DEF Kept, TypeOK
<1>2. /\ heard[r] \in Seq(Entry) /\ entries[r] \in Seq(Entry) /\ S \in Seq(Entry)
      /\ published \in Nat
  BY <1>1, StreamType DEF Kept
<1>3. Len(heard[r]) \in Nat /\ Len(entries[r]) \in Nat /\ m \in Nat /\ c \in Int
  BY <1>1, <1>2, LenProperties, ReachType
<1>4. /\ k \in 1 .. m /\ m = Len(heard[r]) + Len(entries[r]) /\ S[k] \in Entry
      /\ S[k].first = c + 1
  BY <1>1, FrontOfBuffer
<1>5. /\ \A i \in 1 .. m : S[i].count >= 1
      /\ S # <<>> => published = S[m].first + S[m].count - 1
      /\ \A i, j \in 1 .. m : i < j => S[i].first + (j - i) <= S[j].first
  BY <1>1 DEF Kept, Accounts, Accounted, Contiguous, Reach, Orders, Ordered
<1> HIDE DEF S
<1>6. k \in Nat /\ k <= m /\ 1 <= m /\ m \in 1 .. m /\ S # <<>> /\ S[m] \in Entry
  <2>1. k \in Nat /\ k <= m /\ 1 <= m
    <3>1. \A n \in Nat : \A j \in 1 .. n : j \in Nat /\ j <= n /\ 1 <= n
      OBVIOUS
    <3>2. m \in Nat /\ k \in 1 .. m
      BY <1>3, <1>4
    <3> HIDE DEF k, m
    <3> QED BY <3>1, <3>2
  <2>2. m \in 1 .. m
    BY <1>3, <2>1
  <2>3. S # <<>>
    BY <2>1, EmptySeq
  <2> QED BY <1>2, <2>1, <2>2, <2>3, ElementOfSeq
<1>7. S[k].first \in Nat /\ S[m].first \in Nat /\ S[m].count \in Nat
  BY <1>4, <1>6 DEF Entry
<1> HIDE DEF k, m, c
<1>8. S[k].first + (m - k) <= S[m].first
  <2>1. CASE k = m
    BY <1>3, <1>7, <2>1
  <2>2. CASE k # m
    <3>1. k < m
      BY <1>3, <1>6, <2>2
    <3> QED BY <1>4, <1>5, <1>6, <3>1
  <2> QED BY <2>1, <2>2
<1>9. m - k = Len(entries[r]) - 1
  BY <1>3, <1>4 DEF k
<1>10. published = S[m].first + S[m].count - 1 /\ S[m].count >= 1
  BY <1>5, <1>6
<1>11. published >= S[m].first
  BY <1>2, <1>7, <1>10
<1>12. published - c >= Len(entries[r])
  <2>1. S[k].first = c + 1
    BY <1>4
  <2> QED BY <1>2, <1>3, <1>6, <1>7, <1>8, <1>9, <1>11, <2>1
<1> QED BY <1>12 DEF c

LEMMA CursorIsReach == \A r : Log!Cursor(r) = Reach(heard[r], base[r])
BY DEF Log!Cursor, Reach

\* A publication is lost where it was offered to a full buffer.
LEMMA PublishMaps ==
  ASSUME Kept, Publish
  PROVE  Log!Send
<1> DEFINE U == {r \in subscribers : Stream(r)'[Len(Stream(r)')].gap}
<1>1. subscribers \subseteq Readers /\ published \in Nat /\ published' = published + 1
  BY DEF Kept, TypeOK, Publish
<1>2. ASSUME NEW r \in U
      PROVE  /\ Status(r) \in {"in", "left"}
             /\ published - Log!Cursor(r) >= Capacity - 1
  <2>1. r \in Readers /\ r \in subscribers
    BY <1>1
  <2>2. Status(r) \in {"in", "left"}
    BY <2>1 DEF Kept, Registered, Registration, Status, TypeOK, Phases, Publish
  <2>3. /\ heard[r] \in Seq(Entry) /\ entries[r] \in Seq(Entry)
        /\ Len(entries[r]) \in Nat /\ Len(heard[r]) \in Nat
    BY <2>1, StreamType, LenProperties DEF Kept
  <2>4. Stream(r)' = heard[r] \o Offer(entries[r], published + 1)
    BY <2>1 DEF Publish, Stream
  <2>5. ASSUME Len(entries[r]) < Capacity - 1 PROVE FALSE
    <3>1. Stream(r)' = heard[r] \o Append(entries[r], Item(published + 1))
      BY <2>4, <2>5 DEF Offer
    <3>2. Item(published + 1) \in Entry
      BY <1>1, EntryType
    <3> DEFINE q == Append(entries[r], Item(published + 1))
    <3>3. /\ q \in Seq(Entry) /\ Len(q) = Len(entries[r]) + 1
          /\ q[Len(entries[r]) + 1] = Item(published + 1)
      BY <2>3, <3>2, AppendProperties
    <3> HIDE DEF q
    <3>4. /\ Len(heard[r] \o q) = Len(heard[r]) + Len(q)
          /\ \A i \in 1 .. Len(heard[r]) + Len(q) :
               (heard[r] \o q)[i] = IF i <= Len(heard[r]) THEN heard[r][i]
                                                          ELSE q[i - Len(heard[r])]
      BY <2>3, <3>3, ConcatProperties
    <3>5. /\ Len(heard[r]) + Len(q) \in 1 .. Len(heard[r]) + Len(q)
          /\ ~(Len(heard[r]) + Len(q) <= Len(heard[r]))
          /\ (Len(heard[r]) + Len(q)) - Len(heard[r]) = Len(q)
      <4>1. Len(heard[r]) \in Nat /\ Len(q) \in Nat /\ Len(q) >= 1
        BY <2>3, <3>3
      <4> QED BY <4>1
    <3>6. (heard[r] \o q)[Len(heard[r]) + Len(q)] = q[Len(q)]
      BY <3>4, <3>5
    <3>7. Stream(r)'[Len(Stream(r)')] = Item(published + 1)
      BY <3>1, <3>3, <3>4, <3>6 DEF q
    <3> QED BY <3>7 DEF Item
  <2>6. entries[r] # <<>>
    BY <2>3, <2>5
  <2>7. published - Reach(heard[r], base[r]) >= Len(entries[r])
    BY <2>1, <2>6, Lag
  <2>8. Reach(heard[r], base[r]) \in Int
    BY <2>1, ReachType
  <2> QED BY <1>1, <2>2, <2>3, <2>5, <2>7, <2>8, CursorIsReach
<1>3. ASSUME NEW r \in Readers
      PROVE  LostTo(r)' = IF r \in U THEN LostTo(r) \cup {published + 1} ELSE LostTo(r)
  <2>1. /\ Stream(r) \in Seq(Entry) /\ base[r] \in Nat /\ published \in Nat
        /\ Ordered(Stream(r), base[r], published)
    BY StreamType DEF Kept, Orders
  <2>2. LostTo(r) = Lost(Stream(r), published)
        /\ LostTo(r)' = Lost(Stream(r)', published + 1)
    BY <1>1 DEF LostTo, Lost
  <2>3. CASE r \in subscribers
    <3>1. /\ Appended(Stream(r), Stream(r)', published + 1)
             \/ Counted(Stream(r), Stream(r)', published + 1)
      BY <2>3, PublishShape DEF Kept
    <3>2. Stream(r)' \in Seq(Entry)
      <4>1. Reach(Stream(r), base[r]) = published
        BY <2>3 DEF Kept, Accounts, Accounted
      <4>2. Stream(r)' = heard[r] \o Offer(entries[r], published + 1)
        BY <2>3 DEF Publish, Stream
      <4>3. Extended(Stream(r), Stream(r)', published + 1)
        BY <4>2, OfferExtends, StreamType DEF Stream, Kept
      <4> QED BY <2>1, <4>1, <4>3, ExtendedShape
    <3>3. Lost(Stream(r)', published + 1) = Lost(Stream(r), published)
            \cup (IF Stream(r)'[Len(Stream(r)')].gap THEN {published + 1} ELSE {})
      BY <2>1, <3>1, <3>2, ExtendedLoss
    <3> QED BY <2>2, <2>3, <3>3
  <2>4. CASE r \notin subscribers
    <3>1. Stream(r)' = Stream(r)
      BY <2>4, PublishShape DEF Kept
    <3>2. \A i \in 1 .. Len(Stream(r)) :
            published + 1 \notin Stream(r)[i].first .. Stream(r)[i].first + Stream(r)[i].count - 1
      <4> SUFFICES ASSUME NEW i \in 1 .. Len(Stream(r))
                   PROVE  published + 1 \notin Stream(r)[i].first
                                          .. Stream(r)[i].first + Stream(r)[i].count - 1
        OBVIOUS
      <4>1. Stream(r)[i] \in Entry
        BY <2>1, ElementOfSeq
      <4>2. Stream(r)[i].first + Stream(r)[i].count <= published + 1
        BY <2>1 DEF Ordered
      <4>3. Stream(r)[i].first \in Nat /\ Stream(r)[i].count \in Nat
        BY <4>1 DEF Entry
      <4> QED BY <2>1, <4>2, <4>3
    <3>3. \A x : x \in 1 .. published + 1 <=> x \in 1 .. published \/ x = published + 1
      BY <2>1
    <3>4. Lost(Stream(r), published + 1) = Lost(Stream(r), published)
      BY <3>2, <3>3 DEF Lost
    <3> QED BY <2>2, <2>4, <3>1, <3>4
  <2> QED BY <2>3, <2>4
<1>4. U \in SUBSET {r \in Readers : /\ [x \in Readers |-> Status(x)][r] \in {"in", "left"}
                                    /\ published - Log!Cursor(r) >= Capacity - 1}
  BY <1>1, <1>2
<1>5. [r \in Readers |-> LostTo(r)]' = [r \in Readers |->
         IF r \in U THEN [x \in Readers |-> LostTo(x)][r] \cup {published + 1}
                    ELSE [x \in Readers |-> LostTo(x)][r]]
  BY <1>3
<1>6. ~closed /\ UNCHANGED <<closed, final, [r \in Readers |-> Status(r)], base, heard, told>>
  BY DEF Publish, Status
<1> HIDE DEF U
<1> QED BY <1>1, <1>4, <1>5, <1>6 DEF Log!Send

\* Whatever else happens, what was lost to a reader stays the same.
LEMMA LossKept ==
  ASSUME Kept, [Next]_vars, ~Publish
  PROVE  UNCHANGED <<published, [r \in Readers |-> LostTo(r)]>>
<1>1. /\ published' = published
      /\ \A r \in Readers : Stream(r)' = Stream(r)
  BY StreamKept DEF Kept
<1>2. ASSUME NEW r \in Readers PROVE LostTo(r)' = LostTo(r)
  BY <1>1 DEF LostTo
<1> QED BY <1>1, <1>2

\* What a reader is given next is the publication it has not heard of yet, or all of
\* the losses that begin with it.
LEMMA DeliverMaps ==
  ASSUME Kept, NEW r \in Readers, Deliver(r)
  PROVE  Log!Hear(r) \/ Log!HearGap(r)
<1> DEFINE S == Stream(r)
           k == Len(heard[r]) + 1
           e == Head(entries[r])
           c == Reach(heard[r], base[r])
           lost == [x \in Readers |-> LostTo(x)]
<1>1. entries[r] # <<>> /\ S \in Seq(Entry) /\ Len(S) \in Nat /\ published \in Nat
  BY StreamType, LenProperties DEF Kept, Deliver
<1>2. k \in 1 .. Len(S) /\ S[k] = e /\ e \in Entry /\ e.first = c + 1
  BY <1>1, FrontOfBuffer
<1>3. Log!Cursor(r) = c /\ c \in Int
  BY CursorIsReach, ReachType
<1>4. /\ heard' = [heard EXCEPT ![r] = Append(@, e)]
      /\ UNCHANGED <<published, closed, final, base, told>>
      /\ UNCHANGED [x \in Readers |-> Status(x)]
      /\ Status(r) = "in"
  BY DEF Deliver, Resumed, Status, Kept, TypeOK
<1>5. UNCHANGED lost
  <2>1. [Next]_vars
    BY DEF Next, Advance
  <2>2. ~Publish
    BY <1>1, <1>4 DEF Publish
  <2> QED BY <2>1, <2>2, LossKept
<1>6. /\ \A i \in 1 .. Len(S) : S[i] \in Entry
      /\ \A i \in 1 .. Len(S) : S[i].first \in Nat /\ S[i].count \in Nat
  <2>1. \A i \in 1 .. Len(S) : S[i] \in Entry
    BY <1>1, ElementOfSeq
  <2> QED BY <2>1 DEF Entry
<1>7. /\ \A i \in 1 .. Len(S) : S[i].count >= 1 /\ (~S[i].gap => S[i].count = 1)
      /\ \A i \in 1 .. Len(S) : S[i].first + S[i].count <= published + 1
      /\ \A i, j \in 1 .. Len(S) : i < j => S[i].first + S[i].count <= S[j].first
      /\ \A i \in 2 .. Len(S) : ~(S[i-1].gap /\ S[i].gap)
      /\ \A i \in 2 .. Len(S) : S[i].first = S[i-1].first + S[i-1].count
  <2>1. Contiguous(S, base[r]) /\ NoNeighbouringGaps(S) /\ Ordered(S, base[r], published)
    BY DEF Kept, Accounts, Accounted, Orders
  <2>2. ASSUME NEW i \in 2 .. Len(S) PROVE S[i].first = S[i-1].first + S[i-1].count
    <3>1. i \in 1 .. Len(S) /\ i # 1 /\ i - 1 \in 1 .. Len(S)
      BY <1>1
    <3>2. S[i].first = (S[i-1].first + S[i-1].count - 1) + 1
      BY <2>1, <3>1 DEF Contiguous
    <3> QED BY <1>6, <3>1, <3>2
  <2> QED BY <2>1, <2>2 DEF Contiguous, NoNeighbouringGaps, Ordered
<1>8. \A x : x \in lost[r] <=> /\ x \in 1 .. published
                               /\ \E i \in 1 .. Len(S) : /\ S[i].gap
                                    /\ x \in S[i].first .. S[i].first + S[i].count - 1
  BY DEF LostTo
<1>9. base[r] + k <= S[k].first /\ base[r] \in Nat
  BY <1>2, StreamType DEF Kept, Orders, Ordered
<1> HIDE DEF S, e, c, lost
<1>10. e.first \in Nat /\ e.count \in Nat /\ e.count >= 1 /\ e.first + e.count <= published + 1
  BY <1>2, <1>6, <1>7
<1>11. k \in Nat /\ k >= 1 /\ k <= Len(S)
  <2>1. \A n \in Nat : \A j \in 1 .. n : j \in Nat /\ j <= n /\ 1 <= j
    OBVIOUS
  <2> HIDE DEF k
  <2> QED BY <1>1, <1>2, <2>1
<1> HIDE DEF k
<1>12. ASSUME NEW i \in 1 .. Len(S), i # k,
              e.first \in S[i].first .. S[i].first + S[i].count - 1
       PROVE  FALSE
  <2>1. i \in Nat /\ S[i].first \in Nat /\ S[i].count \in Nat
    BY <1>6
  <2>2. CASE i < k
    <3>1. S[i].first + S[i].count <= e.first
      BY <1>2, <1>7, <2>2
    <3> QED BY <1>10, <1>12, <2>1, <3>1
  <2>3. CASE k < i
    <3>1. e.first + e.count <= S[i].first
      BY <1>2, <1>7, <2>3
    <3> QED BY <1>10, <1>12, <2>1, <3>1
  <2> QED BY <1>11, <1>12, <2>1, <2>2, <2>3
<1>13. CASE ~e.gap
  <2>1. e.count = 1 /\ e = Log!Report(FALSE, c + 1, 1)
    BY <1>2, <1>7, <1>13 DEF Entry, Log!Report
  <2>2. c + 1 \notin lost[r]
    BY <1>2, <1>8, <1>12, <1>13
  <2>3. c # published
    BY <1>1, <1>2, <1>3, <1>10
  <2> QED BY <1>3, <1>4, <1>5, <2>1, <2>2, <2>3 DEF Log!Hear, Log!CaughtUp, lost
<1>14. CASE e.gap
  <2> DEFINE n == e.count
  <2>1. e = Log!Report(TRUE, c + 1, n)
    BY <1>2, <1>14 DEF Entry, Log!Report
  <2>2. n \in 1 .. (published - c)
    BY <1>1, <1>2, <1>3, <1>10
  <2>3. ASSUME NEW i \in 1 .. n PROVE c + i \in lost[r]
    <3>1. c + i \in 1 .. published /\ c + i \in e.first .. e.first + e.count - 1
      BY <1>1, <1>2, <1>3, <1>9, <1>10, <1>11
    <3> QED BY <1>2, <1>8, <1>14, <3>1
  <2>4. c + n + 1 \notin lost[r]
    <3> DEFINE x == e.first + e.count
    <3>1. c + n + 1 = x /\ x \in Nat
      <4>1. \A a, b \in Int : a + b + 1 = (a + 1) + b
        OBVIOUS
      <4>2. e.first = c + 1 /\ e.first \in Nat /\ e.count \in Nat /\ c \in Int
        BY <1>2, <1>3, <1>10
      <4>3. x \in Nat /\ e.count \in Int
        BY <4>2
      <4> QED BY <4>1, <4>2, <4>3
    <3>2. ASSUME NEW i \in 1 .. Len(S), S[i].gap,
                 x \in S[i].first .. S[i].first + S[i].count - 1
          PROVE  FALSE
      <4>1. i \in Nat /\ S[i].first \in Nat /\ S[i].count \in Nat
        BY <1>6
      <4>2. S[i].first <= x /\ x < S[i].first + S[i].count
        BY <3>1, <3>2, <4>1
      <4> HIDE DEF x
      <4>3. CASE i < k
        <5>1. S[i].first + S[i].count <= e.first
          BY <1>2, <1>7, <4>3
        <5> QED BY <1>10, <4>1, <4>2, <5>1 DEF x
      <4>4. CASE i = k
        BY <1>2, <1>10, <4>2, <4>4 DEF x
      <4>5. CASE i = k + 1
        <5>1. i \in 2 .. Len(S) /\ i - 1 = k
          BY <1>11, <4>1, <4>5
        <5> QED BY <1>2, <1>7, <1>14, <3>2, <5>1
      <4>6. CASE k + 1 < i
        <5>1. k + 1 \in 2 .. Len(S) /\ k + 1 \in 1 .. Len(S) /\ (k + 1) - 1 = k
          BY <1>1, <1>11, <4>1, <4>6
        <5>2. S[k + 1].first = x /\ S[k + 1].count >= 1 /\ S[k + 1].count \in Nat
          BY <1>2, <1>6, <1>7, <5>1 DEF x
        <5>3. S[k + 1].first + S[k + 1].count <= S[i].first
          BY <1>7, <4>6, <5>1
        <5> QED BY <3>1, <4>1, <4>2, <5>2, <5>3
      <4> QED BY <1>11, <4>1, <4>3, <4>4, <4>5, <4>6
    <3> QED BY <1>8, <3>1, <3>2
  <2> HIDE DEF n
  <2> QED BY <1>3, <1>4, <1>5, <2>1, <2>2, <2>3, <2>4 DEF Log!HearGap, lost
<1> QED BY <1>13, <1>14

\* A reader that has emptied its buffer, or never had one, has caught up.
LEMMA Emptied ==
  ASSUME Kept, NEW r \in Readers, entries[r] = <<>>, Joined(r)
  PROVE  Log!CaughtUp(r)
<1>1. Stream(r) = heard[r]
  BY StreamType, ConcatEmptySeq DEF Stream, Kept
<1> QED BY <1>1, CursorIsReach DEF Kept, Accounts, Accounted, Log!CaughtUp

LEMMA ReaderMaps ==
  ASSUME Kept, [Next]_vars, NEW r \in Readers,
         \/ DeliverFinal(r) \/ LateFinal(r) \/ Return(r) \/ LateReturn(r)
         \/ Abandon(r) \/ DropUnstarted(r)
  PROVE  Log!HearFinal(r) \/ Log!Finish(r) \/ Log!Leave(r)
<1> DEFINE st == [x \in Readers |-> Status(x)]
<1>1. UNCHANGED <<published, [x \in Readers |-> LostTo(x)]>>
  BY LossKept DEF DeliverFinal, LateFinal, Return, LateReturn, Abandon, DropUnstarted,
       Publish, Kept, TypeOK
<1>2. CASE DeliverFinal(r) \/ LateFinal(r)
  <2>1. Log!CaughtUp(r) /\ closed
    BY <1>2, Emptied
    DEF DeliverFinal, LateFinal, Resumed, Joined, Kept, Registered, Registration
  <2>2. st[r] = "in" /\ UNCHANGED st
    BY <1>2 DEF DeliverFinal, LateFinal, Resumed, Status, Kept, TypeOK
  <2> QED BY <1>1, <1>2, <2>1, <2>2 DEF DeliverFinal, LateFinal, Log!HearFinal
<1>3. CASE Return(r) \/ LateReturn(r)
  <2>1. Log!CaughtUp(r) /\ closed
    BY <1>3, Emptied DEF Return, LateReturn, Resumed, Joined, Kept, Registered, Registration
  <2>2. st[r] = "in" /\ st' = [st EXCEPT ![r] = "over"]
    BY <1>3 DEF Return, LateReturn, Resumed, Status, Kept, TypeOK
  <2> QED BY <1>1, <1>3, <2>1, <2>2 DEF Return, LateReturn, Log!Finish
<1>4. CASE Abandon(r) \/ DropUnstarted(r)
  <2>1. st[r] = "in" /\ st' = [st EXCEPT ![r] = "left"]
    BY <1>4 DEF Abandon, DropUnstarted, Status, Kept, TypeOK
  <2> QED BY <1>1, <1>4, <2>1 DEF Abandon, DropUnstarted, Log!Leave
<1> QED BY <1>2, <1>3, <1>4

LEMMA StepMaps ==
  ASSUME Kept, [Next]_vars
  PROVE  [Log!Next]_(Log!vars)
<1> DEFINE st == [x \in Readers |-> Status(x)]
           lost == [x \in Readers |-> LostTo(x)]
<1>1. CASE Publish
  BY <1>1, PublishMaps DEF Log!Next
<1>2. CASE ~Publish
  <2>1. UNCHANGED <<published, lost>>
    BY <1>2, LossKept
  <2>2. ASSUME NEW withFinal \in BOOLEAN, Close(withFinal) PROVE Log!Close
    <3>1. UNCHANGED st
      BY <2>2 DEF Close, Status
    <3> QED BY <2>1, <2>2, <3>1 DEF Close, Log!Close
  <2>3. ASSUME NEW r \in Readers, Subscribe(r) PROVE Log!Join(r)
    <3>1. st[r] = "out" /\ st' = [st EXCEPT ![r] = "in"]
      BY <2>3 DEF Subscribe, Status, Kept, TypeOK
    <3> QED BY <2>1, <2>3, <3>1 DEF Subscribe, Log!Join
  <2>4. ASSUME NEW r \in Readers, Wait(r) PROVE UNCHANGED Log!vars
    <3>1. UNCHANGED st
      BY <2>4 DEF Wait, Resumed, Status, Kept, TypeOK
    <3> QED BY <2>1, <2>4, <3>1 DEF Wait, Log!vars
  <2>5. CASE UNCHANGED vars
    <3>1. UNCHANGED st
      BY <2>5 DEF vars, Status
    <3> QED BY <2>1, <2>5, <3>1 DEF vars, Log!vars
  <2>6. ASSUME NEW r \in Readers,
               \/ Deliver(r) \/ DeliverFinal(r) \/ LateFinal(r) \/ Return(r)
               \/ LateReturn(r) \/ Abandon(r) \/ DropUnstarted(r)
        PROVE  Log!Next
    BY <2>6, DeliverMaps, ReaderMaps DEF Log!Next
  <2> HIDE DEF st, lost
  <2> QED BY <1>2, <2>2, <2>3, <2>4, <2>5, <2>6 DEF Next, Advance, Log!Next
<1> QED BY <1>1, <1>2

\* The fan-out implements the abstract log, whatever its capacity and its readers.
THEOREM ImplementsLog == Spec => LogSpec
<1>1. Spec => []Kept
  BY TypeCorrect, RegistrationInvariant, AccountsInvariant, OrdersInvariant, PTL DEF Kept
<1>2. Init => Log!Init
  BY DEF Init, Log!Init, Status, LostTo, Stream
<1>3. Kept /\ [Next]_vars => [Log!Next]_(Log!vars)
  BY StepMaps
<1> QED BY <1>1, <1>2, <1>3, PTL DEF Spec, LogSpec, Log!Spec
=============================================================================
