----------------------------- MODULE AgentPort -----------------------------
(***************************************************************************)
(* What the abstract port (agent_harness_protocol/harness.py) lets callers *)
(* rely on, whatever adapter is behind it: sessions in which one task runs *)
(* after the other, one judgment per task, usage that adds up, and handles *)
(* that are withdrawn only after what they own is judged.                  *)
(*                                                                         *)
(* It says what one step may do, not when: time bounds, events and how an  *)
(* adapter reaches its judgments are left to the modules that implement it.*)
(***************************************************************************)
EXTENDS Usage

CONSTANTS Sessions, Tasks,
          NoSession, \* the session of a task not started yet
          NoOutcome, \* what await_outcome still waits for
          Outcome    \* the terminal judgments

VARIABLES created,   \* the sessions create_session returned
          withdrawn, \* those whose handle takes no further task
          gone,      \* those whose release() has ended
          phase,     \* the harness is open, closing (aclose called) or closed
          owner,     \* the session of each task
          state,     \* its snapshot
          outcome,   \* the judgment every waiter gets
          total      \* the usage of each session so far

portVars == <<created, withdrawn, gone, phase, owner, state, outcome, total>>

Settled(t) == outcome[t] # NoOutcome

OfSession(s) == {t \in Tasks : owner[t] = s}

Init ==
  /\ created = {} /\ withdrawn = {} /\ gone = {}
  /\ phase = "open"
  /\ owner = [t \in Tasks |-> NoSession]
  /\ state = [t \in Tasks |-> "starting"]
  /\ outcome = [t \in Tasks |-> NoOutcome]
  /\ total = [s \in Sessions |-> ZERO]

CreateSession(s) ==
  /\ phase = "open" /\ s \notin created
  /\ created' = created \cup {s}
  /\ UNCHANGED <<withdrawn, gone, phase, owner, state, outcome, total>>

\* Tasks of one session are sequential.
StartTask(s, t) ==
  /\ phase = "open" /\ s \in created \ withdrawn
  /\ owner[t] = NoSession
  /\ \A x \in OfSession(s) : Settled(x)
  /\ owner' = [owner EXCEPT ![t] = s]
  /\ UNCHANGED <<created, withdrawn, gone, phase, state, outcome, total>>

\* No task of s is judged, ...
NoJudgment(s) ==
  /\ total'[s] = total[s]
  /\ \A t \in OfSession(s) : outcome'[t] = outcome[t]

\* ... or one is, for good, and its usage is committed with its judgment.
Judgment(s, t) ==
  /\ ~Settled(t) /\ outcome'[t] # NoOutcome
  /\ total'[s] = Add(total[s], outcome'[t].usage)
  /\ outcome'[t].sessionUsage = total'[s]
  /\ \A x \in OfSession(s) \ {t} : outcome'[x] = outcome[x]

\* The snapshot follows: running at some point, and then what the judgment says.
Snapshot(t) ==
  IF outcome'[t] # outcome[t]
    THEN state'[t] = outcome'[t].kind
    ELSE state'[t] = state[t] \/ (~Settled(t) /\ state'[t] = "running")

Judgments ==
  /\ outcome' \in [Tasks -> Outcome \cup {NoOutcome}]
  /\ \A s \in Sessions : NoJudgment(s) \/ \E t \in OfSession(s) : Judgment(s, t)
  /\ \A t \in Tasks : /\ owner[t] = NoSession => outcome'[t] = outcome[t]
                      /\ Snapshot(t)

\* What has a session of its own left is judged.
Judged(s) == \A t \in OfSession(s) : outcome'[t] # NoOutcome

\* Handles are withdrawn by release() and aclose(); either ends only when every
\* task it is responsible for is judged.
Withdrawals ==
  /\ withdrawn \subseteq withdrawn' /\ withdrawn' \subseteq created
  /\ gone \subseteq gone' /\ gone' \subseteq withdrawn'
  /\ \A s \in gone' : Judged(s)

Closing ==
  \/ phase' = phase
  \/ phase = "open" /\ phase' = "closing"
  \/ phase = "closing" /\ phase' = "closed"

\* The harness is closed when nothing is left open.
ClosedMeansDone ==
  phase' = "closed" => withdrawn' = created /\ \A s \in Sessions : Judged(s)

Work ==
  /\ UNCHANGED <<created, owner>>
  /\ Judgments
  /\ Withdrawals
  /\ Closing
  /\ ClosedMeansDone

Next == \/ \E s \in Sessions : CreateSession(s) \/ \E t \in Tasks : StartTask(s, t)
        \/ Work

Spec == Init /\ [][Next]_portVars
=============================================================================
