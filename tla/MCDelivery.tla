----------------------------- MODULE MCDelivery -----------------------------
(* The scenarios, and callers bound to none, on small sets. *)
EXTENDS DeliverySuite

\* Callers and a boundary that do what they like, with two tasks on one context; one of
\* them asks.  Stored contexts disappear only while no harness is open, and the second
\* handle is opened after the first.
FreeInit == /\ Init /\ guarded = {t1} /\ adaptable
            /\ script = <<>> /\ fixture = Controls(FALSE) /\ verdict = "free"

FreeStep == /\ verdict = "free" /\ Next
            /\ via'[t3] = NoHandle /\ on'[h3] = NoContext
            /\ on'[h2] # NoContext => on'[h1] # NoContext
            /\ \A h \in Handles : on'[h] # c2
            /\ hidden' # hidden => shut
            /\ UNCHANGED <<script, fixture, verdict>>

MCSpec == (SuiteInit \/ FreeInit) /\ [][SuiteNext \/ FreeStep]_suiteVars
=============================================================================
