------------------------------ MODULE Calendar ------------------------------
(***************************************************************************)
(* The calendar a budget's periods are cut from (keypool/budget.go, with   *)
(* Go's time.Date and AddDate): months of different lengths, each at least *)
(* as long as the last day a budget may be reset on.  Days count from 0.   *)
(***************************************************************************)
EXTENDS Integers

CONSTANTS
    Months,    \* numbers of the months there are
    First,     \* month -> the instant it begins
    ResetDays, \* the days of a month a budget may be reset on
    Horizon    \* bound: the last instant of the clock

ASSUME MonthsAssumption ==
    /\ Months \subseteq Int /\ First \in [Months -> Int]
    /\ ResetDays \subseteq Nat /\ Horizon \in Nat

(* Every month has every reset day.                                        *)
ASSUME LengthAssumption ==
    \A m, n \in Months : m < n =>
        First[m] < First[n] /\ \A d \in ResetDays : First[m] + d < First[n]

Instant == 0..Horizon

InMonth(t, m) == {m, m + 1} \subseteq Months /\ First[m] <= t /\ t < First[m + 1]

(* The clock starts after the first month there is.                        *)
ASSUME ClockAssumption ==
    \A t \in Instant : \E m \in Months : InMonth(t, m) /\ m - 1 \in Months

(* Time.Month.                                                             *)
MonthOf(t) == CHOOSE m \in Months : InMonth(t, m)

(* time.Date: a day past the end of its month is one of the next.          *)
Date(m, day) == First[m] + day

(* AddDate(0, n, 0).                                                       *)
AddMonths(t, n) == Date(MonthOf(t) + n, t - First[MonthOf(t)])

-----------------------------------------------------------------------------
(* Mutants: before the day in its month, the reset still to come is taken; *)
(* the next reset is a month from now.                                     *)
ThisMonth(day, now) == Date(MonthOf(now), day)
MonthFromNow(day, now) == AddMonths(now, 1)

(* The last reset on this day up to now.                                   *)
LastReset(day, now) ==
    LET start == Date(MonthOf(now), day)
    IN  IF now < start THEN AddMonths(start, -1) ELSE start

NextReset(day, now) == AddMonths(LastReset(day, now), 1)
=============================================================================
