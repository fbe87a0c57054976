------------------------------ MODULE EventLog ------------------------------
(***************************************************************************)
(* What a lossy event subscription promises its reader, independently of   *)
(* any buffer.  Publications are numbered in the order they are made.      *)
(* A reader that joined after `base` publications hears a sequence of      *)
(* reports, each of one publication or of one run of lost publications,    *)
(* that accounts for base+1, base+2, ... one after the other; a            *)
(* publication may be lost only to a reader that is at least Slack         *)
(* publications behind; neighbouring losses are reported as one gap; the   *)
(* final item, if there is one, is told once, after everything else.       *)
(***************************************************************************)
EXTENDS Naturals, Sequences

CONSTANTS Readers,  \* the subscriptions, one per call of subscribe()
          Slack     \* a reader with fewer unread publications loses nothing

VARIABLES sent,     \* number of publications made
          closed,   \* the source has ended
          final,    \* a final item was retained when it ended
          status,   \* of each reader: "out", "in", "over" or "left"
          base,     \* publications made before the reader joined
          lost,     \* publications lost to the reader
          heard,    \* reports delivered to the reader
          told      \* the reader was given the final item

vars == <<sent, closed, final, status, base, lost, heard, told>>

Report(gap, first, count) == [gap |-> gap, first |-> first, count |-> count]

\* The last publication the reader's reports account for.
Cursor(r) == IF heard[r] = <<>> THEN base[r]
             ELSE LET last == heard[r][Len(heard[r])]
                  IN  last.first + last.count - 1

CaughtUp(r) == Cursor(r) = sent

Init == /\ sent = 0
        /\ closed = FALSE
        /\ final = FALSE
        /\ status = [r \in Readers |-> "out"]
        /\ base = [r \in Readers |-> 0]
        /\ lost = [r \in Readers |-> {}]
        /\ heard = [r \in Readers |-> <<>>]
        /\ told = [r \in Readers |-> FALSE]

\* A publication; some of the readers lagging by Slack or more lose it.  (One
\* that left unnoticed lags too.)
Send == /\ ~closed
        /\ sent' = sent + 1
        /\ \E unlucky \in SUBSET {r \in Readers : status[r] \in {"in", "left"}
                                               /\ sent - Cursor(r) >= Slack} :
             lost' = [r \in Readers |-> IF r \in unlucky
                                          THEN lost[r] \cup {sent + 1}
                                          ELSE lost[r]]
        /\ UNCHANGED <<closed, final, status, base, heard, told>>

Close == /\ ~closed
         /\ closed' = TRUE
         /\ final' \in BOOLEAN
         /\ UNCHANGED <<sent, status, base, lost, heard, told>>

Join(r) == /\ status[r] = "out"
           /\ status' = [status EXCEPT ![r] = "in"]
           /\ base' = [base EXCEPT ![r] = sent]
           /\ UNCHANGED <<sent, closed, final, lost, heard, told>>

\* The next publication reaches the reader ...
Hear(r) == /\ status[r] = "in"
           /\ ~CaughtUp(r)
           /\ Cursor(r) + 1 \notin lost[r]
           /\ heard' = [heard EXCEPT ![r] = Append(@, Report(FALSE, Cursor(r) + 1, 1))]
           /\ UNCHANGED <<sent, closed, final, status, base, lost, told>>

\* ... or the whole run of losses it is part of does.
HearGap(r) ==
  /\ status[r] = "in"
  /\ \E n \in 1 .. (sent - Cursor(r)) :
       /\ \A i \in 1 .. n : Cursor(r) + i \in lost[r]
       /\ Cursor(r) + n + 1 \notin lost[r]
       /\ heard' = [heard EXCEPT ![r] = Append(@, Report(TRUE, Cursor(r) + 1, n))]
  /\ UNCHANGED <<sent, closed, final, status, base, lost, told>>

HearFinal(r) == /\ status[r] = "in"
                /\ closed /\ final /\ CaughtUp(r)
                /\ ~told[r]
                /\ told' = [told EXCEPT ![r] = TRUE]
                /\ UNCHANGED <<sent, closed, final, status, base, lost, heard>>

\* The source has nothing more to say.
Finish(r) == /\ status[r] = "in"
             /\ closed /\ CaughtUp(r) /\ (final => told[r])
             /\ status' = [status EXCEPT ![r] = "over"]
             /\ UNCHANGED <<sent, closed, final, base, lost, heard, told>>

\* The reader goes away by itself, at any moment.
Leave(r) == /\ status[r] = "in"
            /\ status' = [status EXCEPT ![r] = "left"]
            /\ UNCHANGED <<sent, closed, final, base, lost, heard, told>>

Next == \/ Send
        \/ Close
        \/ \E r \in Readers : \/ Join(r)
                              \/ Hear(r)
                              \/ HearGap(r)
                              \/ HearFinal(r)
                              \/ Finish(r)
                              \/ Leave(r)

Spec == Init /\ [][Next]_vars
=============================================================================
