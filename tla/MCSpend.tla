------------------------------ MODULE MCSpend ------------------------------
(***************************************************************************)
(* Small budgets for Spend: what each constant of a run is.                *)
(***************************************************************************)
EXTENDS Spend, TLC

CONSTANTS r1, r2, r3, usd, credits

(* r1 and r2 are in dollars, of different amounts; r3 is in credits.       *)
AmountsOf == [r \in Request |-> IF r = r2 THEN 2 ELSE 1]
UnitsOf == [r \in Request |-> IF r = r3 THEN credits ELSE usd]

\* Months of 3, 2 and 3 ticks; the clock starts with the second.
ThreeMonths == -1..2
MonthStarts == [m \in ThreeMonths |-> CASE m = -1 -> -3 [] m = 0 -> 0 [] m = 1 -> 2 [] m = 2 -> 5]
BeforeAll == -4

Monthly == [amount |-> 2, unit |-> usd, day |-> 1]
OnTheFirst == [amount |-> 2, unit |-> usd, day |-> 0]
LifetimeUsd == [amount |-> 2, unit |-> usd, day |-> None]
LifetimeCredits == [amount |-> 2, unit |-> credits, day |-> None]

OnTheFirstOnly == {OnTheFirst}
AnyBudget == {Monthly, LifetimeUsd, LifetimeCredits, None}

Symmetry == Permutations(Caller) \cup Permutations(Admin)
=============================================================================
