----------------------------- MODULE TaskStream -----------------------------
(***************************************************************************)
(* A task of the adapter together with its event stream: Harness decides   *)
(* when the watched task publishes and when it is judged, Fanout what      *)
(* becomes of that on the way to a reader.                                 *)
(*                                                                         *)
(* An item of the stream is the number of its publication, so the n-th one *)
(* is the n-th of the events Harness keeps for the task.                   *)
(***************************************************************************)
EXTENDS Harness

CONSTANTS Watched,           \* the task whose events are read
          Readers, Diligent, \* as in Fanout
          Capacity           \* event_buffer_capacity

ASSUME WatchedAssumption == Watched \in Tasks
ASSUME CapacityAssumption == Capacity \in Nat /\ Capacity >= 2
ASSUME ReadersAssumption == Diligent \subseteq Readers

\* The variables of Fanout; its "closed" is called "sealed", since sessions are closed too.
VARIABLES published, sealed, final, subscribers, phase, entries, ready, ended,
          base, heard, told

streamVars == <<published, sealed, final, subscribers, phase, entries, ready, ended,
                base, heard, told>>

\* A task publishes that it started, a message and its usage.
Stream == INSTANCE Fanout WITH closed <- sealed, MaxPublished <- 3

-----------------------------------------------------------------------------

\* Two publications without a suspension between them.
PublishTwo ==
  /\ ~sealed
  /\ published' = published + 2
  /\ entries' = [r \in Readers |->
                   IF r \in subscribers
                     THEN Stream!Offer(Stream!Offer(entries[r], published + 1), published + 2)
                     ELSE entries[r]]
  /\ ready' = [r \in Readers |-> ready[r] \/ r \in subscribers]
  /\ UNCHANGED <<sealed, final, subscribers, phase, ended, base, heard, told>>

\* What a step of the task published.
News == SubSeq(events'[Watched], Len(events[Watched]) + 1, Len(events'[Watched]))

\* Wrong Follows: the stream is closed by the run, not by the judgment.
ClosesAtReturn ==
  CASE News = <<"started">>          -> Stream!Publish
    [] News = <<"message">>          -> Stream!Close(TRUE)
    [] News = <<"message", "usage">> -> Stream!Close(TRUE)
    [] OTHER                         -> UNCHANGED streamVars

\* Wrong Follows: a forced judgment closes nothing.
ForcedUnheard ==
  CASE News = <<"started">>          -> Stream!Publish
    [] News = <<"message">>          -> Stream!Publish
    [] News = <<"message", "usage">> -> PublishTwo
    [] News = <<"terminal">>         -> IF run[Watched] \in Ended THEN Stream!Close(TRUE)
                                                                  ELSE UNCHANGED streamVars
    [] News = <<>>                   -> UNCHANGED streamVars

\* _run publishes to the stream and _settle closes it, each within its own step.
Follows ==
  CASE News = <<"started">>          -> Stream!Publish
    [] News = <<"message">>          -> Stream!Publish
    [] News = <<"message", "usage">> -> PublishTwo
    [] News = <<"terminal">>         -> Stream!Close(TRUE)
    [] News = <<>>                   -> UNCHANGED streamVars

\* The handle is there to subscribe to once the task is started.
Reads(r) == /\ \/ Started(Watched) /\ Stream!Subscribe(r)
               \/ Stream!Advance(r) \/ Stream!Abandon(r) \/ Stream!DropUnstarted(r)
            /\ UNCHANGED vars

StreamNext == (Next /\ Follows) \/ \E r \in Readers : Reads(r)

StreamSpec == /\ Init /\ Stream!Init /\ [][StreamNext]_<<vars, streamVars>>
              /\ Fairness /\ Stream!Fairness

-----------------------------------------------------------------------------
(* Properties.                                                             *)

\* What a reader was shown, and whether it was told of a loss.
Heard(r) == {heard[r][i] : i \in 1 .. Len(heard[r])}
Shown(r) == {events[Watched][e.first] : e \in {e \in Heard(r) : ~e.gap}}
Gapless(r) == base[r] = 0 /\ \A e \in Heard(r) : ~e.gap

\* The end of a stream is the judgment of its task (harness.py:826-852): nobody is told of
\* it, and no iteration ends, before the outcome can be awaited, and who then read
\* everything was shown what the outcome reports, whoever judged the task.
StreamTellsTheOutcome ==
  \A r \in Readers :
    /\ told[r] \/ phase[r] = "over" => Settled(Watched) /\ told[r]
    /\ told[r] /\ Gapless(r) =>
         /\ outcome[Watched].output => {"message", "usage"} \subseteq Shown(r)
         /\ outcome[Watched].usage \notin {ZERO, UNKNOWN} => "usage" \in Shown(r)

\* Cancellation, release and close end an iteration over the task's events, even if the
\* graph run never ends, and so does the end of the run (harness.py:698-742): a reader
\* that keeps reading hears the outcome, unless the caller who cancels gives up.
EndReachesReaders ==
  \A r \in Diligent :
    LET knows == told[r] \/ phase[r] = "left"
    IN /\ canceller[Watched] = "stopping" /\ Stream!Joined(r)
            ~> knows \/ (canceller[Watched] = "idle" /\ ~Settled(Watched))
       /\ (\/ Settled(Watched)
           \/ closer = "scheduled"
           \/ run[Watched] \in Ended
           \/ \E s \in Sessions : owner[Watched] = s /\ release[s] = "scheduled")
          /\ Stream!Joined(r) ~> knows
=============================================================================
