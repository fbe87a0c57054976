------------------------------- MODULE Fanout -------------------------------
(***************************************************************************)
(* BoundedFanout (_fanout.py): one publisher, any number of subscriptions, *)
(* each with a buffer of at most Capacity entries.                         *)
(*                                                                         *)
(* An item is the number of its publication.  A buffered entry carries, as *)
(* history, the number of the first publication it stands for; the code    *)
(* keeps the item itself, or only a count for a run of dropped items.      *)
(*                                                                         *)
(* Everything a coroutine does between two suspensions is one action.  A   *)
(* generator is suspended at its start ("fresh"), at a yield ("yielded")   *)
(* or in ready.wait() ("waiting"); the reader decides when a generator at  *)
(* a yield goes on, the event loop when a woken one does.                  *)
(***************************************************************************)
EXTENDS Naturals, Sequences

CONSTANTS Readers,       \* the subscriptions, one per call of subscribe()
          Diligent,      \* those whose reader keeps asking for the next item
          Capacity,      \* entries buffered per subscription, gaps included
          MaxPublished   \* bound on the number of publications

ASSUME CapacityAssumption == Capacity \in Nat /\ Capacity >= 2
ASSUME ReadersAssumption == Diligent \subseteq Readers
ASSUME BoundAssumption == MaxPublished \in Nat

VARIABLES published,    \* publications so far
          closed,       \* close() has been called
          final,        \* a final item is retained
          subscribers,  \* subscriptions the publisher knows
          phase,        \* where each subscription's generator is
          entries,      \* each subscription's buffer
          ready,        \* each subscription's wake-up event
          ended,        \* each subscription was told of the close
          base,         \* history: publications made before subscribing
          heard,        \* history: entries delivered to the reader
          told          \* history: the final item was delivered

vars == <<published, closed, final, subscribers, phase, entries, ready, ended,
          base, heard, told>>

Entry == [gap : BOOLEAN, first : Nat, count : Nat]

Item(n)  == [gap |-> FALSE, first |-> n, count |-> 1]
GapAt(n) == [gap |-> TRUE,  first |-> n, count |-> 1]

Grown(e) == [e EXCEPT !.count = @ + 1]

TailIsGap(q) == q # <<>> /\ q[Len(q)].gap

\* Variants of Offer with a mistake in them, for checking the properties.
OfferUncounted(q, n) == IF Len(q) < Capacity - 1 THEN Append(q, Item(n))
                        ELSE IF TailIsGap(q) THEN q
                        ELSE Append(q, GapAt(n))
OfferIntoLastSlot(q, n) == IF Len(q) < Capacity THEN Append(q, Item(n))
                           ELSE IF TailIsGap(q) THEN [q EXCEPT ![Len(q)] = Grown(@)]
                           ELSE Append(q, GapAt(n))
OfferGapPerDrop(q, n) == IF Len(q) < Capacity - 1 THEN Append(q, Item(n))
                         ELSE Append(q, GapAt(n))
OfferCountsDown(q, n) == IF Len(q) < Capacity - 1 THEN Append(q, Item(n))
                         ELSE IF TailIsGap(q) THEN [q EXCEPT ![Len(q)].count = @ - 1]
                         ELSE Append(q, GapAt(n))
OfferDropsEarly(q, n) == IF Len(q) + 2 < Capacity THEN Append(q, Item(n))
                         ELSE IF TailIsGap(q) THEN [q EXCEPT ![Len(q)] = Grown(@)]
                         ELSE Append(q, GapAt(n))

\* What publication n does to a buffer.  (A buffer at capacity ends in a gap,
\* so the code's first and third tests agree and are one here.)
Offer(q, n) == IF Len(q) < Capacity - 1 THEN Append(q, Item(n))
               ELSE IF TailIsGap(q) THEN [q EXCEPT ![Len(q)] = Grown(@)]
               ELSE Append(q, GapAt(n))

Init == /\ published = 0
        /\ closed = FALSE
        /\ final = FALSE
        /\ subscribers = {}
        /\ phase = [r \in Readers |-> "out"]
        /\ entries = [r \in Readers |-> <<>>]
        /\ ready = [r \in Readers |-> FALSE]
        /\ ended = [r \in Readers |-> FALSE]
        /\ base = [r \in Readers |-> 0]
        /\ heard = [r \in Readers |-> <<>>]
        /\ told = [r \in Readers |-> FALSE]

Publish ==
  /\ ~closed
  /\ published < MaxPublished
  /\ published' = published + 1
  /\ entries' = [r \in Readers |-> IF r \in subscribers
                                     THEN Offer(entries[r], published + 1)
                                     ELSE entries[r]]
  /\ ready' = [r \in Readers |-> ready[r] \/ r \in subscribers]
  /\ UNCHANGED <<closed, final, subscribers, phase, ended, base, heard, told>>

\* A close that ends the subscriptions without waking them.
CloseUnnoticed(withFinal) ==
  /\ ~closed
  /\ closed' = TRUE
  /\ final' = withFinal
  /\ ended' = [r \in Readers |-> ended[r] \/ r \in subscribers]
  /\ subscribers' = {}
  /\ UNCHANGED <<published, phase, entries, ready, base, heard, told>>

\* close(): with a final item (task events) or without one (diagnostics).
Close(withFinal) ==
  /\ ~closed
  /\ closed' = TRUE
  /\ final' = withFinal
  /\ ended' = [r \in Readers |-> ended[r] \/ r \in subscribers]
  /\ ready' = [r \in Readers |-> ready[r] \/ r \in subscribers]
  /\ subscribers' = {}
  /\ UNCHANGED <<published, phase, entries, base, heard, told>>

Subscribe(r) ==
  /\ phase[r] = "out"
  /\ base' = [base EXCEPT ![r] = published]
  /\ IF closed
       THEN /\ phase' = [phase EXCEPT ![r] = "late"]
            /\ UNCHANGED subscribers
       ELSE /\ phase' = [phase EXCEPT ![r] = "fresh"]
            /\ subscribers' = subscribers \cup {r}
  /\ UNCHANGED <<published, closed, final, entries, ready, ended, heard, told>>

-----------------------------------------------------------------------------
(* The reader's generator.                                                 *)

\* The generator is given control: the reader asks for the next item, or the
\* event loop resumes a wait whose event has been set.
Resumed(r) == \/ phase[r] \in {"fresh", "yielded"}
              \/ phase[r] = "waiting" /\ ready[r]

Deliver(r) ==
  /\ Resumed(r)
  /\ entries[r] # <<>>
  /\ entries' = [entries EXCEPT ![r] = Tail(@)]
  /\ heard' = [heard EXCEPT ![r] = Append(@, Head(entries[r]))]
  /\ phase' = [phase EXCEPT ![r] = "yielded"]
  /\ UNCHANGED <<published, closed, final, subscribers, ready, ended, base, told>>

\* A generator that lets the final item overtake its buffer.
DeliverFinalAtOnce(r) ==
  /\ Resumed(r) /\ ended[r]
  /\ final /\ ~told[r]
  /\ told' = [told EXCEPT ![r] = TRUE]
  /\ phase' = [phase EXCEPT ![r] = "yielded"]
  /\ UNCHANGED <<published, closed, final, subscribers, entries, ready, ended,
                 base, heard>>

DeliverFinal(r) ==
  /\ Resumed(r) /\ entries[r] = <<>> /\ ended[r]
  /\ final /\ ~told[r]
  /\ told' = [told EXCEPT ![r] = TRUE]
  /\ phase' = [phase EXCEPT ![r] = "yielded"]
  /\ UNCHANGED <<published, closed, final, subscribers, entries, ready, ended,
                 base, heard>>

Return(r) ==
  /\ Resumed(r) /\ entries[r] = <<>> /\ ended[r]
  /\ final => told[r]
  /\ phase' = [phase EXCEPT ![r] = "over"]
  /\ subscribers' = subscribers \ {r}
  /\ UNCHANGED <<published, closed, final, entries, ready, ended, base, heard,
                 told>>

Wait(r) ==
  /\ Resumed(r) /\ entries[r] = <<>> /\ ~ended[r]
  /\ ready' = [ready EXCEPT ![r] = FALSE]
  /\ phase' = [phase EXCEPT ![r] = "waiting"]
  /\ UNCHANGED <<published, closed, final, subscribers, entries, ended, base,
                 heard, told>>

\* A late stream that forgets what it was closed with.
LateReturnAtOnce(r) ==
  /\ phase[r] = "late"
  /\ phase' = [phase EXCEPT ![r] = "over"]
  /\ UNCHANGED <<published, closed, final, subscribers, entries, ready, ended,
                 base, heard, told>>

\* A subscription opened after close() has no buffer, only the final item.
LateFinal(r) ==
  /\ phase[r] = "late"
  /\ final /\ ~told[r]
  /\ told' = [told EXCEPT ![r] = TRUE]
  /\ UNCHANGED <<published, closed, final, subscribers, phase, entries, ready,
                 ended, base, heard>>

LateReturn(r) ==
  /\ phase[r] = "late"
  /\ final => told[r]
  /\ phase' = [phase EXCEPT ![r] = "over"]
  /\ UNCHANGED <<published, closed, final, subscribers, entries, ready, ended,
                 base, heard, told>>

\* The reader is cancelled in its wait, or closes the generator at a yield:
\* the finally block withdraws the subscription.
Abandon(r) ==
  /\ phase[r] \in {"yielded", "waiting"}
  /\ phase' = [phase EXCEPT ![r] = "left"]
  /\ subscribers' = subscribers \ {r}
  /\ UNCHANGED <<published, closed, final, entries, ready, ended, base, heard,
                 told>>

\* A generator closed before its first step never enters its try block, so the
\* subscription stays with the publisher until close().  (The generator of a
\* late subscription has no try block at all.)
DropUnstarted(r) ==
  /\ phase[r] \in {"fresh", "late"}
  /\ phase' = [phase EXCEPT ![r] = "left"]
  /\ UNCHANGED <<published, closed, final, subscribers, entries, ready, ended,
                 base, heard, told>>

Advance(r) == \/ Deliver(r) \/ DeliverFinal(r) \/ Return(r) \/ Wait(r)
              \/ LateFinal(r) \/ LateReturn(r)

Next == \/ Publish
        \/ \E withFinal \in BOOLEAN : Close(withFinal)
        \/ \E r \in Readers : \/ Subscribe(r)
                              \/ Advance(r)
                              \/ Abandon(r)
                              \/ DropUnstarted(r)

Spec == Init /\ [][Next]_vars

\* The event loop resumes every wait whose event is set; only a diligent
\* reader asks again after an item.
Fairness ==
  /\ \A r \in Readers : WF_vars(phase[r] = "waiting" /\ Advance(r))
  /\ \A r \in Diligent : WF_vars(Advance(r))

FairSpec == Spec /\ Fairness

-----------------------------------------------------------------------------
(* Properties.                                                             *)

Phases == {"out", "fresh", "yielded", "waiting", "late", "over", "left"}

\* Every variable keeps its type.
TypeOK == /\ published \in Nat
          /\ closed \in BOOLEAN
          /\ final \in BOOLEAN
          /\ subscribers \in SUBSET Readers
          /\ phase \in [Readers -> Phases]
          /\ entries \in [Readers -> Seq(Entry)]
          /\ ready \in [Readers -> BOOLEAN]
          /\ ended \in [Readers -> BOOLEAN]
          /\ base \in [Readers -> Nat]
          /\ heard \in [Readers -> Seq(Entry)]
          /\ told \in [Readers -> BOOLEAN]

\* What a subscription has delivered followed by what it still holds.
Stream(r) == heard[r] \o entries[r]

\* The last publication accounted for by a stream that starts after
\* publication b.
Reach(s, b) == IF s = <<>> THEN b ELSE s[Len(s)].first + s[Len(s)].count - 1

\* Each entry stands for publications, starting where the one before stopped.
Contiguous(s, b) ==
  \A i \in 1 .. Len(s) :
    /\ s[i].count >= 1
    /\ ~s[i].gap => s[i].count = 1
    /\ s[i].first = (IF i = 1 THEN b ELSE s[i-1].first + s[i-1].count - 1) + 1

Joined(r) == phase[r] \notin {"out", "left"}

\* "Exact loss accounting" (_fanout.py:1, 41-48): what a subscription has
\* delivered and still holds stands, in order, with nothing counted twice or
\* forgotten, for exactly the publications made since subscribe(), however
\* publishing, reading, closing and leaving interleave.
ExactAccounting ==
  \A r \in Readers :
    /\ Contiguous(Stream(r), base[r])
    /\ r \in subscribers \/ Joined(r) => Reach(Stream(r), base[r]) = published

\* A buffer never exceeds its capacity, and one at capacity ends in a gap: the
\* slot kept free for a gap is never taken by an item, also while entries are
\* popped and pushed in turn (_fanout.py:75-82).
BoundedBuffer ==
  \A r \in Readers : /\ Len(entries[r]) <= Capacity
                     /\ Len(entries[r]) = Capacity => TailIsGap(entries[r])

\* "A run of dropped items occupies one entry" (_fanout.py:44): no reader gets
\* two gaps in a row, not even one that pops the first gap before the next item
\* is dropped.
GapsAreMaximal ==
  \A r \in Readers : \A i \in 2 .. Len(Stream(r)) :
    ~(Stream(r)[i-1].gap /\ Stream(r)[i].gap)

\* No lost wake-up (_fanout.py:125-126): a generator that waits although it has
\* something to deliver, or the stream has ended, has been woken.
NoLostWakeup ==
  \A r \in Readers :
    phase[r] = "waiting" /\ (entries[r] # <<>> \/ ended[r] \/ closed) => ready[r]

\* "The final item is always delivered last" (_fanout.py:45-47), to current and
\* later subscribers: whoever was told it had by then heard of every publication
\* since it subscribed ...
FinalIsLast ==
  \A r \in Readers : told[r] => /\ closed /\ final
                               /\ Reach(heard[r], base[r]) = published

\* ... and hears nothing more.
NothingAfterFinal ==
  [][\A r \in Readers : told[r] => heard'[r] = heard[r] /\ told'[r]]_vars

\* Every reader that keeps reading and does not go away is told how the task
\* ended, whether it subscribed before or after the close and whatever it lost.
DiligentReaderHearsFinal ==
  \A r \in Diligent :
    closed /\ final /\ Joined(r) ~> told[r] \/ phase[r] = "left"

-----------------------------------------------------------------------------
(* The fan-out keeps the promise of EventLog.                              *)

LostTo(r) == {n \in 1 .. published :
                \E i \in 1 .. Len(Stream(r)) :
                  /\ Stream(r)[i].gap
                  /\ n \in Stream(r)[i].first ..
                            Stream(r)[i].first + Stream(r)[i].count - 1}

Status(r) == IF phase[r] \in {"out", "over", "left"} THEN phase[r] ELSE "in"

Log == INSTANCE EventLog WITH
         Slack  <- Capacity - 1,
         sent   <- published,
         status <- [r \in Readers |-> Status(r)],
         lost   <- [r \in Readers |-> LostTo(r)]

\* The promise is kept: a subscription loses only what was published while at
\* least Capacity - 1 publications were unread, and reports each loss once, where
\* it happened (_fanout.py:41-48).
LogSpec == Log!Spec
=============================================================================
