------------------------------- MODULE Usage -------------------------------
(***************************************************************************)
(* AgentUsage (outcome.py): cumulative usage, field by field, in which a   *)
(* field that was not measured is Unknown (None), never zero.              *)
(***************************************************************************)
EXTENDS Naturals

CONSTANTS Fields,   \* the measured quantities (input tokens, output tokens, ...)
          Unknown   \* None

ASSUME UnknownAssumption == Unknown \notin Nat

Amount == Nat \cup {Unknown}
AgentUsage == [Fields -> Amount]

ZERO    == [f \in Fields |-> 0]
UNKNOWN == [f \in Fields |-> Unknown]

AddAmounts(left, right) ==
  IF Unknown \in {left, right} THEN Unknown ELSE left + right

\* Wrong SubtractAmounts: the distance between the two.
Distance(current, baseline) ==
  IF Unknown \in {current, baseline} THEN Unknown
  ELSE IF current < baseline THEN baseline - current
  ELSE current - baseline

\* A baseline above the current amount is not a difference anyone measured.
SubtractAmounts(current, baseline) ==
  IF Unknown \in {current, baseline} THEN Unknown
  ELSE IF current < baseline THEN Unknown
  ELSE current - baseline

Add(u, v)      == [f \in Fields |-> AddAmounts(u[f], v[f])]
Subtract(u, v) == [f \in Fields |-> SubtractAmounts(u[f], v[f])]
=============================================================================
