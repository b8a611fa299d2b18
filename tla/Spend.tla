------------------------------- MODULE Spend -------------------------------
(***************************************************************************)
(* The spend budget of one key: its row, the copy the pool decides by, and *)
(* the reports and admin writes that move them (keypool/budget.go,         *)
(* Manager.RecordSpend and ReloadKeys, db/postgres_budget.go).             *)
(*                                                                         *)
(* A report checks the held budget under the read lock, writes the row in  *)
(* one transaction without it, and holds the new total under the write     *)
(* lock.  An admin write reads the row back and installs it the same way.  *)
(* Nothing joins these steps, and time passes between them.                *)
(***************************************************************************)
EXTENDS Calendar, FiniteSets, FiniteSetsExt

CONSTANTS
    Caller,    \* goroutines serving POST /key/{id}/spend
    Admin,     \* goroutines serving an admin write that ends in a reload
    Request,   \* request_ids of the reports clients make
    AmountOf,  \* request -> its amount
    UnitOf,    \* request -> its unit
    Unit,
    Budgets,   \* bound: the budgets an admin sets, None for no budget
    None,      \* nil
    Lifetime,  \* the start of a budget that is never reset
    MaxReports, MaxWrites   \* bounds: reports and admin writes made

(* ValidateBudget, ValidateSpend: amounts above 0, a day every month has.  *)
Budget == [amount : Nat \ {0}, unit : Unit, day : ResetDays \cup {None}]

ASSUME NoneAssumption ==
    /\ None \notin Int /\ None \notin Budget /\ None \notin Request
    /\ None \notin (Int \cup {None}) \X (Unit \cup {None})
ASSUME LifetimeAssumption == Lifetime \in Int /\ \A m \in Months : Lifetime < First[m]
ASSUME BudgetsAssumption == Budgets \subseteq Budget \cup {None}
ASSUME RequestAssumption ==
    /\ IsFiniteSet(Request)
    /\ AmountOf \in [Request -> Nat \ {0}] /\ UnitOf \in [Request -> Unit]
ASSUME BoundsAssumption == MaxReports \in Nat /\ MaxWrites \in Nat

VARIABLES
    clock,     \* time.Now()
    row,       \* keys: [budget, spent, start] (budget_*, spent, spent_period_start)
    recorded,  \* spend_events: the request_ids in the table
    held,      \* PoolKey: Budget, Spent and SpentPeriodStart
    pooled,    \* whether the pool has the key
    report,    \* caller -> the report it serves
    admin,     \* admin -> the write it serves
    reports, writes,  \* made so far (bounded)
    landed,    \* history: request -> the period and the unit it was counted in
    disturbed  \* history: a report, reload or budget change met another
               \* halfway since the pool last took over the row as it was

bounds == <<reports, writes>>
vars == <<clock, row, recorded, held, pooled, report, admin, bounds, landed, disturbed>>

Start == (Lifetime..Horizon) \cup {None}

Account == [budget : Budget \cup {None}, spent : Nat, start : Start]

Reports == [pc : {"idle", "checked", "stamped", "committed"}, request : Request \cup {None},
            budget : Budget \cup {None}, start : Start, resets : Int \cup {None},
            spent : Nat, orphan : BOOLEAN]

(* An orphan holds a PoolKey that a reload has taken out of the pool.      *)
NoReport == [pc |-> "idle", request |-> None, budget |-> None, start |-> None,
             resets |-> None, spent |-> 0, orphan |-> FALSE]

(* The row a reload has read, and whether it has.                          *)
Writes == [pc : {"idle", "reload", "read"}, row : Account]

NoBudget == [budget |-> None, spent |-> 0, start |-> None]
NoWrite == [pc |-> "idle", row |-> NoBudget]

PeriodStart(b, now) == IF b.day = None THEN Lifetime ELSE LastReset(b.day, now)

ResetsAt(b, now) == IF b.day = None THEN None ELSE NextReset(b.day, now)

SpentNow(k) ==
    IF k.budget = None THEN 0
    ELSE IF k.start # PeriodStart(k.budget, clock) THEN 0 ELSE k.spent

UnitOrNone(b) == IF b = None THEN None ELSE b.unit

-----------------------------------------------------------------------------
Init ==
    /\ clock = 0
    /\ row \in [budget : Budgets, spent : {0}, start : {None}]
    /\ held = row /\ pooled = TRUE /\ recorded = {}
    /\ report = [c \in Caller |-> NoReport] /\ admin = [a \in Admin |-> NoWrite]
    /\ reports = 0 /\ writes = 0
    /\ landed = [r \in Request |-> None] /\ disturbed = FALSE

Tick ==
    /\ clock < Horizon
    /\ clock' = clock + 1
    /\ UNCHANGED <<row, recorded, held, pooled, report, admin, bounds, landed, disturbed>>

Reporting(c, pc) == report[c].pc = pc /\ UNCHANGED <<clock, pooled, admin, writes>>

(* RecordSpend under the read lock; a key not in the pool and a mismatched *)
(* unit are turned down.                                                   *)
Check(c, r) ==
    /\ Reporting(c, "idle") /\ pooled
    /\ reports < MaxReports /\ reports' = reports + 1
    /\ held.budget # None => UnitOf[r] = held.budget.unit
    /\ report' = [report EXCEPT ![c] =
            [NoReport EXCEPT !.pc = "checked", !.request = r, !.budget = held.budget]]
    /\ UNCHANGED <<row, recorded, held, landed, disturbed>>

(* The clock is read once the lock is let go.                              *)
Stamp(c) ==
    LET budget == report[c].budget
        start == IF budget = None THEN None ELSE PeriodStart(budget, clock)
        resets == IF budget = None THEN None ELSE ResetsAt(budget, clock)
    IN  /\ Reporting(c, "checked")
        /\ report' = [report EXCEPT
                ![c].pc = "stamped", ![c].start = start, ![c].resets = resets]
        /\ UNCHANGED <<row, recorded, held, reports, landed, disturbed>>

(* Mutant: the row is updated whether the event was new or not.            *)
NeverDuplicate(r) == FALSE

Duplicate(r) == r \in recorded

(* The total in the row for the period a report was checked in.            *)
SpentIn(start) == IF row.start = start THEN row.spent ELSE 0

(* History: this commit meets something halfway.                           *)
MeetsAnother(c) ==
    \/ \E a \in Admin : admin[a].pc = "read"
    \/ report[c].orphan \/ report[c].budget # row.budget
    \/ row.budget # None /\ report[c].start # PeriodStart(row.budget, clock)
    \/ \E d \in Caller : report[d].pc = "committed" /\ report[d].start # report[c].start

(* The transaction of RecordSpend, and how the call to it ends.            *)
Commit(c) ==
    LET r == report[c].request
        start == report[c].start
        total == IF Duplicate(r) THEN SpentIn(start) ELSE SpentIn(start) + AmountOf[r]
    IN  /\ Reporting(c, "stamped")
        /\ recorded' = recorded \cup {r}
        /\ IF start = None \/ Duplicate(r)
           THEN row' = row
           ELSE row' = [row EXCEPT !.spent = total, !.start = start]
        /\ landed' = IF start = None \/ Duplicate(r) THEN landed
                     ELSE [landed EXCEPT ![r] = <<start, UnitOrNone(row.budget)>>]
        /\ \/ /\ start # None
              /\ report' = [report EXCEPT ![c].pc = "committed", ![c].spent = total]
              /\ disturbed' = (disturbed \/ MeetsAnother(c))
           \/ /\ start = None
              /\ report' = [report EXCEPT ![c] = NoReport]
              /\ disturbed' = (disturbed \/ MeetsAnother(c))
           \/ /\ start # None  \* committed, and the answer lost
              /\ report' = [report EXCEPT ![c] = NoReport]
              /\ disturbed' = TRUE
        /\ UNCHANGED <<held, reports>>

CommitFails(c) ==
    /\ Reporting(c, "stamped")
    /\ report' = [report EXCEPT ![c] = NoReport]
    /\ UNCHANGED <<row, recorded, held, reports, landed, disturbed>>

(* Mutant: the last report to arrive is believed.                          *)
Never(k, spent, start) == FALSE

Outdated(k, spent, start) == k.start # None /\ k.start = start /\ spent < k.spent

(* Into the PoolKey it was checked with, in the pool or not.               *)
HoldSpent(c) ==
    /\ Reporting(c, "committed")
    /\ held' = IF report[c].orphan \/ Outdated(held, report[c].spent, report[c].start) THEN held
               ELSE [held EXCEPT !.spent = report[c].spent, !.start = report[c].start]
    /\ report' = [report EXCEPT ![c] = NoReport]
    /\ UNCHANGED <<row, recorded, reports, landed, disturbed>>

-----------------------------------------------------------------------------
Writing(a, pc) == admin[a].pc = pc /\ UNCHANGED <<clock, recorded, reports, landed>>

Goes(a, pc, read) == admin' = [admin EXCEPT ![a] = [pc |-> pc, row |-> read]]

(* Mutant: the total is kept whatever the unit becomes.                    *)
AnyUnit(b) == TRUE

SameUnit(b) == UnitOrNone(row.budget) = UnitOrNone(b)

(* UpdateKeyBudget: another unit starts the count over.                    *)
SetKeyBudget(a, b) ==
    /\ Writing(a, "idle")
    /\ writes < MaxWrites /\ writes' = writes + 1
    /\ row' = IF SameUnit(b) THEN [row EXCEPT !.budget = b]
              ELSE [budget |-> b, spent |-> 0, start |-> None]
    /\ Goes(a, "reload", NoBudget)
    /\ disturbed' = TRUE
    /\ UNCHANGED <<held, pooled, report>>

(* Any other admin write that ends in a reload.                            *)
OtherWrite(a) ==
    /\ Writing(a, "idle")
    /\ writes < MaxWrites /\ writes' = writes + 1
    /\ Goes(a, "reload", NoBudget)
    /\ UNCHANGED <<row, held, pooled, report, disturbed>>

(* ReloadKeys: the read without the lock, and the swap under it.           *)
GetAllKeys(a) ==
    /\ Writing(a, "reload")
    /\ Goes(a, "read", row)
    /\ UNCHANGED <<row, held, pooled, report, writes, disturbed>>

ReloadFails(a) ==
    /\ Writing(a, "reload")
    /\ Goes(a, "idle", NoBudget)
    /\ UNCHANGED <<row, held, pooled, report, writes, disturbed>>

Load(a) ==
    /\ Writing(a, "read")
    /\ held' = admin[a].row /\ pooled' = TRUE
    /\ Goes(a, "idle", NoBudget)
    /\ disturbed' = ~(/\ admin[a].row = row
                      /\ \A c \in Caller : report[c].pc = "committed" /\ ~report[c].orphan =>
                            report[c].start = row.start /\ report[c].spent <= row.spent
                      /\ \A b \in Admin \ {a} : admin[b].pc = "read" => admin[b].row = row)
    /\ UNCHANGED <<row, report, writes>>

(* ReloadKeys leaves a key out whose tier it finds without features.  What *)
(* is held of it from now on is held by reports under way.                 *)
LeaveOut(a) ==
    /\ Writing(a, "read")
    /\ held' = NoBudget /\ pooled' = FALSE
    /\ report' = [c \in Caller |-> [report[c] EXCEPT !.orphan = report[c].pc # "idle"]]
    /\ Goes(a, "idle", NoBudget)
    /\ UNCHANGED <<row, writes, disturbed>>

(* The process dies, and another boots from the row.                       *)
Restart ==
    /\ held' = row /\ pooled' = TRUE
    /\ report' = [c \in Caller |-> NoReport] /\ admin' = [a \in Admin |-> NoWrite]
    /\ disturbed' = FALSE
    /\ UNCHANGED <<clock, row, recorded, bounds, landed>>

Next ==
    \/ \E c \in Caller, r \in Request : Check(c, r)
    \/ \E c \in Caller : Stamp(c) \/ Commit(c) \/ CommitFails(c) \/ HoldSpent(c)
    \/ \E a \in Admin, b \in Budgets : SetKeyBudget(a, b)
    \/ \E a \in Admin : OtherWrite(a) \/ GetAllKeys(a) \/ ReloadFails(a) \/ Load(a) \/ LeaveOut(a)
    \/ Tick
    \/ Restart

Spec == Init /\ [][Next]_vars

-----------------------------------------------------------------------------
(* Every total, wherever it is on its way, is of a period that has begun.  *)
TypeOK ==
    LET begun == (Lifetime..clock) \cup {None}
        account == [budget : Budget \cup {None}, spent : Nat, start : begun]
    IN  /\ clock \in Instant
        /\ row \in account /\ held \in account
        /\ recorded \subseteq Request
        /\ report \in [Caller -> Reports] /\ \A c \in Caller : report[c].start \in begun
        /\ admin \in [Admin -> Writes] /\ \A a \in Admin : admin[a].row \in account
        /\ reports \in 0..MaxReports /\ writes \in 0..MaxWrites
        /\ landed \in [Request -> {None} \cup (begun \X (Unit \cup {None}))]
        /\ disturbed \in BOOLEAN /\ pooled \in BOOLEAN

(* What the reports counted in a period, in one of some units, add up to.  *)
Counted(start, units) ==
    MapThenSumSet(LAMBDA r : AmountOf[r], {r \in Request : landed[r] \in {start} \X units})

(***************************************************************************)
(* Neither the row nor the pool holds more spend for a period than the     *)
(* distinct reports counted in it, however often each is retried, whatever *)
(* answers are lost and whichever reload lands when (the ON CONFLICT of    *)
(* RecordSpend and the new total the pool takes from its answer).          *)
(***************************************************************************)
CountedOnce ==
    \A k \in {row, held} : k.spent <= Counted(k.start, Unit \cup {None})

(***************************************************************************)
(* What was added to the row while its budget was in one unit is not in    *)
(* its total once the budget is in another (the CASE of UpdateKeyBudget),  *)
(* for a lifetime budget too, where the period is the same before and      *)
(* after.                                                                  *)
(***************************************************************************)
UnitsKeptApart == row.spent <= Counted(row.start, {UnitOrNone(row.budget)})

(***************************************************************************)
(* With no report between its commit and its hold, the pool decides by the *)
(* spend and the budget of the row, unless since it last took the row over *)
(* an answer was lost, a budget was changed, or a commit met a reload      *)
(* holding an older read, a report of another period, or the return of its *)
(* key to the pool as another PoolKey.  Two reports of one period may take *)
(* the write lock in either order: holdSpent keeps the larger total.       *)
(***************************************************************************)
HeldIsTheRow ==
    (pooled /\ ~disturbed /\ \A c \in Caller : report[c].pc # "committed") =>
        held.budget = row.budget /\ SpentNow(held) = SpentNow(row)

(***************************************************************************)
(* A report is told when the period it counts in ends: until then, and not *)
(* a moment longer, that is the period a later report counts in, whatever  *)
(* the lengths of the months around it (periodStart, nextReset).           *)
(***************************************************************************)
ResetsAreKept ==
    \A c \in Caller : report[c].start # None =>
        LET running == PeriodStart(report[c].budget, clock) = report[c].start
        IN  running <=> (report[c].resets = None \/ clock < report[c].resets)

(***************************************************************************)
(* "A report that lands late never lowers the spend held for the period"   *)
(* (budget_test.go): of the period now running, whichever the report is of.*)
(***************************************************************************)
LateReportsLowerNothing ==
    [][\A c \in Caller : HoldSpent(c) => SpentNow(held)' >= SpentNow(held)]_vars
=============================================================================
