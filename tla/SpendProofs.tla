---------------------------- MODULE SpendProofs ----------------------------
(***************************************************************************)
(* Theorems about Spend, for any calendar, callers, admins and budgets.    *)
(***************************************************************************)
EXTENDS Spend, Sums, TLAPS

(* No instant is in two months.                                            *)
LEMMA OneMonth ==
    ASSUME NEW t \in Int, NEW m \in Months, NEW n \in Months, InMonth(t, m), InMonth(t, n)
    PROVE  m = n
<1>1. m \in Int /\ n \in Int /\ m + 1 \in Months /\ n + 1 \in Months
    BY MonthsAssumption DEF InMonth
<1>2. \A i, j \in Months : First[i] \in Int /\ (i < j => First[i] < First[j])
    BY MonthsAssumption, LengthAssumption
<1>3. \A i, j \in Months : i <= j => First[i] <= First[j]
    BY <1>2, MonthsAssumption
<1>4. m + 1 <= n => First[m + 1] <= First[n]
    BY <1>1, <1>3
<1>5. n + 1 <= m => First[n + 1] <= First[m]
    BY <1>1, <1>3
<1> QED
    BY <1>1, <1>2, <1>4, <1>5 DEF InMonth

LEMMA MonthIs ==
    ASSUME NEW t \in Int, NEW m \in Months, InMonth(t, m)
    PROVE  MonthOf(t) = m
BY OneMonth DEF MonthOf

(* A reset day is a day of its own month, so a number of months from it is *)
(* the same day.                                                           *)
LEMMA SameDay ==
    ASSUME NEW m \in Months, m + 1 \in Months, NEW d \in ResetDays, NEW n \in Int
    PROVE  AddMonths(Date(m, d), n) = Date(m + n, d)
<1>1. m \in Int /\ d \in Nat /\ First[m] \in Int /\ First[m + 1] \in Int
    BY MonthsAssumption
<1>2. First[m] + d < First[m + 1]
    BY <1>1, LengthAssumption
<1>3. InMonth(First[m] + d, m)
    BY <1>1, <1>2 DEF InMonth
<1>4. MonthOf(First[m] + d) = m
    BY <1>1, <1>3, MonthIs
<1>5. (First[m] + d) - First[m] = d
    BY <1>1
<1> QED
    BY <1>4, <1>5 DEF AddMonths, Date

(* The last and the next reset are on the day in two months in a row, and  *)
(* the clock is between them.                                              *)
LEMMA ResetsFrame ==
    ASSUME NEW t \in Instant, NEW d \in ResetDays
    PROVE  \E n \in Months :
            /\ n + 1 \in Months
            /\ LastReset(d, t) = First[n] + d /\ NextReset(d, t) = First[n + 1] + d
            /\ First[n] + d <= t /\ t < First[n + 1] + d
<1>1. PICK m \in Months : InMonth(t, m) /\ m - 1 \in Months
    BY ClockAssumption
<1>2. t \in Int /\ m \in Int /\ d \in Nat /\ \A i \in Months : First[i] \in Int
    BY MonthsAssumption DEF Instant
<1>3. MonthOf(t) = m
    BY <1>1, <1>2, MonthIs
<1>4. m + 1 \in Months /\ First[m] <= t /\ t < First[m + 1]
    BY <1>1 DEF InMonth
<1>5. (m - 1) + 1 = m /\ m + (-1) = m - 1
    BY <1>2
<1>6. CASE t < Date(m, d)
  <2>1. LastReset(d, t) = AddMonths(Date(m, d), -1)
    BY <1>3, <1>6 DEF LastReset
  <2>2. LastReset(d, t) = Date(m - 1, d)
    BY <1>4, <1>5, <2>1, SameDay
  <2>3. NextReset(d, t) = Date(m, d)
    BY <1>1, <1>5, <2>2, SameDay DEF NextReset
  <2>4. First[m - 1] + d < First[m]
    BY <1>1, <1>2, LengthAssumption
  <2>5. First[m - 1] + d <= t /\ t < First[m] + d
    BY <1>1, <1>2, <1>4, <1>6, <2>4 DEF Date
  <2> QED
    BY <1>1, <1>5, <2>2, <2>3, <2>5 DEF Date
<1>7. CASE ~(t < Date(m, d))
  <2>1. LastReset(d, t) = Date(m, d)
    BY <1>3, <1>7 DEF LastReset
  <2>2. NextReset(d, t) = Date(m + 1, d)
    BY <1>4, <2>1, SameDay DEF NextReset
  <2>3. First[m] + d <= t /\ t < First[m + 1] + d
    BY <1>2, <1>4, <1>7 DEF Date
  <2> QED
    BY <1>4, <2>1, <2>2, <2>3 DEF Date
<1> QED
    BY <1>6, <1>7

(* A period runs until the reset that follows it, and no longer.           *)
LEMMA PeriodRunsUntilReset ==
    ASSUME NEW t \in Instant, NEW u \in Instant, t <= u, NEW d \in ResetDays
    PROVE  /\ LastReset(d, u) = LastReset(d, t) <=> u < NextReset(d, t)
           /\ LastReset(d, t) \in Int /\ LastReset(d, t) <= t /\ NextReset(d, t) \in Int
<1>1. PICK m \in Months :
        /\ m + 1 \in Months
        /\ LastReset(d, t) = First[m] + d /\ NextReset(d, t) = First[m + 1] + d
        /\ First[m] + d <= t /\ t < First[m + 1] + d
    BY ResetsFrame
<1>2. PICK n \in Months :
        /\ n + 1 \in Months
        /\ LastReset(d, u) = First[n] + d
        /\ First[n] + d <= u /\ u < First[n + 1] + d
    BY ResetsFrame
<1>3. /\ m \in Int /\ n \in Int /\ d \in Nat /\ t \in Int /\ u \in Int
      /\ \A i \in Months : First[i] \in Int
    BY MonthsAssumption DEF Instant
<1>4. \A i, j \in Months : i \in Int /\ j \in Int /\ (i < j => First[i] < First[j])
    BY MonthsAssumption, LengthAssumption
<1>5. \A i, j \in Months : i <= j => First[i] <= First[j]
    BY <1>3, <1>4
<1>6. CASE m = n
    BY <1>1, <1>2, <1>3, <1>6
<1>7. CASE n < m
  <2>1. First[n + 1] <= First[m]
    BY <1>2, <1>3, <1>5, <1>7
  <2> QED
    BY <1>1, <1>2, <1>3, <2>1
<1>8. CASE m < n
  <2>1. First[m + 1] <= First[n] /\ First[m] < First[n]
    BY <1>1, <1>3, <1>4, <1>5, <1>8
  <2> QED
    BY <1>1, <1>2, <1>3, <2>1
<1> QED
    BY <1>3, <1>6, <1>7, <1>8

-----------------------------------------------------------------------------
(* Of a budget: the start of its period has come, and its reset has not.   *)
LEMMA PeriodsAreTyped ==
    ASSUME NEW t \in Instant, NEW b \in Budget
    PROVE  /\ PeriodStart(b, t) \in Lifetime..t /\ PeriodStart(b, t) # None
           /\ ResetsAt(b, t) \in Int \cup {None}
           /\ (Lifetime..t) \subseteq (Lifetime..Horizon)
<1>1. t \in Int /\ t <= Horizon /\ Horizon \in Int /\ 0 <= t /\ Lifetime \in Int
    BY MonthsAssumption, LifetimeAssumption DEF Instant
<1>2. \A m \in Months : First[m] \in Int /\ Lifetime < First[m]
    BY MonthsAssumption, LifetimeAssumption
<1>3. b.day \in ResetDays \cup {None}
    BY DEF Budget
<1>4. CASE b.day = None
  <2>1. PICK m \in Months : First[m] <= t
    BY ClockAssumption DEF InMonth
  <2> QED
    BY <1>1, <1>2, <1>4, <2>1, NoneAssumption DEF PeriodStart, ResetsAt
<1>5. CASE b.day # None
  <2>1. b.day \in ResetDays /\ b.day \in Nat
    BY <1>3, <1>5, MonthsAssumption
  <2>2. PICK n \in Months : /\ LastReset(b.day, t) = First[n] + b.day /\ n + 1 \in Months
                            /\ NextReset(b.day, t) = First[n + 1] + b.day
                            /\ First[n] + b.day <= t
    BY <2>1, ResetsFrame
  <2> QED
    BY <1>1, <1>2, <1>5, <2>1, <2>2, NoneAssumption DEF PeriodStart, ResetsAt
<1> QED
    BY <1>4, <1>5

(* The parts of TypeOK, each of the variables it is about.                 *)
Begun == (Lifetime..clock) \cup {None}
Accounts == [budget : Budget \cup {None}, spent : Nat, start : Begun]
Landings == {None} \cup (Begun \X (Unit \cup {None}))

ReportsTyped ==
    /\ report \in [Caller -> Reports]
    /\ \A c \in Caller :
        report[c].start \in Begun /\ (report[c].pc # "idle" => report[c].request \in Request)

WritesTyped == admin \in [Admin -> [pc : {"idle", "reload", "read"}, row : Accounts]]

RowsTyped ==
    /\ clock \in Instant
    /\ row \in Accounts /\ held \in Accounts /\ pooled \in BOOLEAN
    /\ recorded \subseteq Request
    /\ reports \in 0..MaxReports /\ writes \in 0..MaxWrites
    /\ landed \in [Request -> Landings]
    /\ disturbed \in BOOLEAN

Typed == RowsTyped /\ ReportsTyped /\ WritesTyped

LEMMA BegunAreStarts ==
    ASSUME clock \in Instant
    PROVE  Begun \subseteq Start /\ Accounts \subseteq Account /\ None \in Begun
<1>1. (Lifetime..clock) \subseteq (Lifetime..Horizon)
    BY MonthsAssumption, LifetimeAssumption DEF Instant
<1>2. Begun \subseteq Start /\ None \in Begun
    BY <1>1 DEF Begun, Start
<1> QED
    BY <1>2 DEF Accounts, Account

LEMMA TypedIsTypeOK == Typed => TypeOK
<1> SUFFICES ASSUME Typed PROVE TypeOK
    OBVIOUS
<1>1. Accounts \subseteq Account
    BY BegunAreStarts DEF Typed, RowsTyped
<1>2. admin \in [Admin -> Writes] /\ \A a \in Admin : admin[a].row \in Accounts
    BY <1>1 DEF Typed, WritesTyped, Writes
<1> QED
    BY <1>2 DEF Typed, RowsTyped, ReportsTyped, TypeOK, Accounts, Landings, Begun

(***************************************************************************)
(* A report that has read the clock did so at an instant that is past, and *)
(* counts in the period of that instant.                                   *)
(***************************************************************************)
StampedThen(r, t) ==
    /\ r.budget \in Budget
    /\ r.start = PeriodStart(r.budget, t) /\ r.resets = ResetsAt(r.budget, t)

StampsArePast ==
    \A c \in Caller : report[c].start # None => \E t \in 0..clock : StampedThen(report[c], t)

IInv == Typed /\ StampsArePast

LEMMA IdleReport == NoReport \in Reports /\ NoReport.start = None /\ NoReport.pc = "idle"
BY NoneAssumption DEF NoReport, Reports, Start

LEMMA NoBudgetIsAccount == ASSUME clock \in Instant PROVE NoBudget \in Accounts
BY BegunAreStarts DEF NoBudget, Accounts

LEMMA IInvInit == Init => IInv
<1> SUFFICES ASSUME Init PROVE IInv
    OBVIOUS
<1>1. clock \in Instant
    BY MonthsAssumption DEF Init, Instant
<1>2. None \in Begun
    BY <1>1, BegunAreStarts
<1>3. Budgets \subseteq Budget \cup {None}
    BY BudgetsAssumption
<1>4. row \in Accounts
    BY <1>2, <1>3 DEF Init, Accounts
<1>5. ReportsTyped /\ StampsArePast
    BY <1>2, IdleReport DEF Init, ReportsTyped, StampsArePast
<1>6. WritesTyped
    BY <1>1, NoBudgetIsAccount DEF Init, WritesTyped, NoWrite
<1>7. landed \in [Request -> Landings]
    BY DEF Init, Landings
<1>8. reports \in 0..MaxReports /\ writes \in 0..MaxWrites
    BY BoundsAssumption DEF Init
<1> QED
    BY <1>1, <1>4, <1>5, <1>6, <1>7, <1>8 DEF Init, IInv, Typed, RowsTyped

(* One report changes: what has to be shown of it alone.                   *)
LEMMA ReportChanges ==
    ASSUME IInv, UNCHANGED clock, NEW c \in Caller, NEW r \in Reports, r.start \in Begun,
           report' = [report EXCEPT ![c] = r], r.pc # "idle" => r.request \in Request,
           r.start # None => \E t \in 0..clock : StampedThen(r, t)
    PROVE  ReportsTyped' /\ StampsArePast'
<1>1. report'[c] = r /\ \A d \in Caller \ {c} : report'[d] = report[d]
    BY DEF IInv, Typed, ReportsTyped
<1>2. ReportsTyped'
    BY <1>1 DEF IInv, Typed, ReportsTyped, Begun
<1>3. ASSUME NEW d \in Caller, report'[d].start # None
      PROVE  \E t \in 0..clock : StampedThen(report'[d], t)
    BY <1>1, <1>3 DEF IInv, StampsArePast
<1>4. StampsArePast'
    BY <1>3 DEF StampsArePast, StampedThen
<1> QED
    BY <1>2, <1>4

LEMMA IdleReports ==
    ASSUME IInv, UNCHANGED clock, NEW c \in Caller, report' = [report EXCEPT ![c] = NoReport]
    PROVE  ReportsTyped' /\ StampsArePast'
<1>1. clock \in Instant
    BY DEF IInv, Typed, RowsTyped
<1>2. NoReport.start \in Begun
    BY <1>1, IdleReport, BegunAreStarts
<1> QED
    BY <1>2, IdleReport, ReportChanges

LEMMA WritesStand ==
    ASSUME WritesTyped, UNCHANGED <<clock, admin>>
    PROVE  WritesTyped'
BY DEF WritesTyped, Accounts, Begun

LEMMA ReportsStand ==
    ASSUME ReportsTyped, StampsArePast, UNCHANGED <<clock, report>>
    PROVE  ReportsTyped' /\ StampsArePast'
BY DEF ReportsTyped, StampsArePast, StampedThen, Begun

(* What the steps of one report do.                                        *)
LEMMA CheckKeepsIInv ==
    ASSUME IInv, NEW c \in Caller, NEW r \in Request, Check(c, r)
    PROVE  IInv'
<1> DEFINE new == [NoReport EXCEPT !.pc = "checked", !.request = r, !.budget = held.budget]
<1>1. UNCHANGED <<clock, pooled, admin, writes, row, recorded, held, landed, disturbed>>
    BY DEF Check, Reporting
<1>2. held.budget \in Budget \cup {None} /\ clock \in Instant
    BY DEF IInv, Typed, RowsTyped, Accounts
<1>3. new \in Reports /\ new.start = None /\ new.request = r
    BY <1>2 DEF NoReport, Reports, Start
<1>4. report' = [report EXCEPT ![c] = new] /\ reports' \in 0..MaxReports
    BY BoundsAssumption DEF Check, IInv, Typed, RowsTyped
<1> HIDE DEF new
<1>5. ReportsTyped' /\ StampsArePast'
    BY <1>1, <1>2, <1>3, <1>4, ReportChanges, BegunAreStarts
<1>6. RowsTyped'
    BY <1>1, <1>4 DEF IInv, Typed, RowsTyped, Accounts, Landings, Begun
<1> QED
    BY <1>1, <1>5, <1>6, WritesStand DEF IInv, Typed

LEMMA StampKeepsIInv ==
    ASSUME IInv, NEW c \in Caller, Stamp(c)
    PROVE  IInv'
<1> DEFINE b == report[c].budget
           start == IF b = None THEN None ELSE PeriodStart(b, clock)
           resets == IF b = None THEN None ELSE ResetsAt(b, clock)
           new == [[[report[c] EXCEPT !.pc = "stamped"] EXCEPT !.start = start]
                       EXCEPT !.resets = resets]
<1>1. UNCHANGED <<clock, pooled, admin, writes, row, recorded, held, reports, landed, disturbed>>
    BY DEF Stamp, Reporting
<1>2. /\ clock \in Instant /\ report[c] \in Reports /\ b \in Budget \cup {None}
      /\ report[c].request \in Request
    BY DEF Stamp, Reporting, IInv, Typed, RowsTyped, ReportsTyped, Reports
<1>3. /\ start \in Begun /\ resets \in Int \cup {None}
      /\ start # None => b \in Budget /\ start = PeriodStart(b, clock)
                                     /\ resets = ResetsAt(b, clock)
    BY <1>2, PeriodsAreTyped DEF Begun
<1>4. report' = [report EXCEPT ![c] = new]
    BY DEF Stamp, IInv, Typed, ReportsTyped
<1>5. start \in Start
    BY <1>2, <1>3, BegunAreStarts
<1> HIDE DEF start, resets
<1>6. /\ new \in Reports /\ new.start = start /\ new.resets = resets /\ new.budget = b
      /\ new.request = report[c].request
    BY <1>2, <1>3, <1>5 DEF Reports
<1> HIDE DEF new
<1>7. new.start # None => StampedThen(new, clock) /\ clock \in 0..clock
    BY <1>2, <1>3, <1>6 DEF StampedThen, Instant
<1>8. ReportsTyped' /\ StampsArePast'
  <2>1. new.start \in Begun /\ (new.pc # "idle" => new.request \in Request)
    BY <1>2, <1>3, <1>6
  <2>2. new.start # None => \E t \in 0..clock : StampedThen(new, t)
    BY <1>7
  <2>3. UNCHANGED clock
    BY <1>1
  <2> QED
    BY <1>4, <1>6, <2>1, <2>2, <2>3, ReportChanges
<1>9. RowsTyped'
    BY <1>1 DEF IInv, Typed, RowsTyped, Accounts, Landings, Begun
<1> QED
    BY <1>1, <1>8, <1>9, WritesStand DEF IInv, Typed

LEMMA CommitKeepsIInv ==
    ASSUME IInv, NEW c \in Caller, Commit(c)
    PROVE  IInv'
<1> DEFINE r == report[c].request
           start == report[c].start
           total == IF Duplicate(r) THEN SpentIn(start) ELSE SpentIn(start) + AmountOf[r]
           new == [[report[c] EXCEPT !.pc = "committed"] EXCEPT !.spent = total]
<1>1. UNCHANGED <<clock, pooled, admin, writes, held, reports>>
    BY DEF Commit, Reporting
<1>2. /\ clock \in Instant /\ report[c] \in Reports /\ start \in Begun /\ r \in Request
      /\ row \in Accounts /\ landed \in [Request -> Landings] /\ disturbed \in BOOLEAN
      /\ recorded \subseteq Request
    BY DEF Commit, Reporting, IInv, Typed, RowsTyped, ReportsTyped
<1>3. row.spent \in Nat /\ row.budget \in Budget \cup {None} /\ AmountOf[r] \in Nat
    BY <1>2, RequestAssumption DEF Accounts
<1>4. total \in Nat
    BY <1>3 DEF SpentIn
<1>5. UnitOrNone(row.budget) \in Unit \cup {None}
    BY <1>3 DEF UnitOrNone, Budget
<1> HIDE DEF total
<1>6. row' \in Accounts
  <2>1. row' = row \/ row' = [[row EXCEPT !.spent = total] EXCEPT !.start = start]
    BY DEF Commit, total
  <2> QED
    BY <1>2, <1>4, <2>1 DEF Accounts
<1>7. recorded' \subseteq Request
    BY <1>2 DEF Commit
<1>8. landed' \in [Request -> Landings]
  <2>1. <<start, UnitOrNone(row.budget)>> \in Landings
    BY <1>2, <1>5 DEF Landings
  <2>2. landed' = landed \/ landed' = [landed EXCEPT ![r] = <<start, UnitOrNone(row.budget)>>]
    BY DEF Commit
  <2> QED
    BY <1>2, <2>1, <2>2
<1>9. disturbed' \in BOOLEAN
  <2>1. \/ disturbed' = (disturbed \/ MeetsAnother(c))
        \/ disturbed' = TRUE
    BY DEF Commit
  <2> QED
    BY <2>1
<1>10. RowsTyped'
    BY <1>1, <1>6, <1>7, <1>8, <1>9 DEF IInv, Typed, RowsTyped, Accounts, Landings, Begun
<1>11. ReportsTyped' /\ StampsArePast'
  <2>1. \/ report' = [report EXCEPT ![c] = new]
        \/ report' = [report EXCEPT ![c] = NoReport]
    BY DEF Commit, total, IInv, Typed, ReportsTyped
  <2>2. /\ new \in Reports /\ new.start = start /\ new.request = r
        /\ new.budget = report[c].budget /\ new.resets = report[c].resets
    BY <1>2, <1>4 DEF Reports
  <2> HIDE DEF new
  <2>3. new.start # None => \E t \in 0..clock : StampedThen(new, t)
    BY <2>2 DEF IInv, StampsArePast, StampedThen
  <2>4. CASE report' = [report EXCEPT ![c] = new]
    BY <1>1, <1>2, <2>2, <2>3, <2>4, ReportChanges
  <2> QED
    BY <1>1, <2>1, <2>4, IdleReports
<1> QED
    BY <1>1, <1>10, <1>11, WritesStand DEF IInv, Typed

LEMMA CommitFailsKeepsIInv ==
    ASSUME IInv, NEW c \in Caller, CommitFails(c)
    PROVE  IInv'
<1>1. /\ UNCHANGED <<clock, pooled, admin, writes, row, recorded, held, reports, landed, disturbed>>
      /\ report' = [report EXCEPT ![c] = NoReport]
    BY DEF CommitFails, Reporting
<1>2. RowsTyped'
    BY <1>1 DEF IInv, Typed, RowsTyped, Accounts, Landings, Begun
<1> QED
    BY <1>1, <1>2, IdleReports, WritesStand DEF IInv, Typed

LEMMA HoldSpentKeepsIInv ==
    ASSUME IInv, NEW c \in Caller, HoldSpent(c)
    PROVE  IInv'
<1>1. /\ UNCHANGED <<clock, pooled, admin, writes, row, recorded, reports, landed, disturbed>>
      /\ report' = [report EXCEPT ![c] = NoReport]
    BY DEF HoldSpent, Reporting
<1>2. report[c].spent \in Nat /\ report[c].start \in Begun /\ held \in Accounts
    BY DEF IInv, Typed, RowsTyped, ReportsTyped, Reports
<1>3. held' = held \/ held' = [[held EXCEPT !.spent = report[c].spent] EXCEPT !.start = report[c].start]
    BY DEF HoldSpent
<1>4. held' \in Accounts
    BY <1>2, <1>3 DEF Accounts
<1>5. RowsTyped'
    BY <1>1, <1>4 DEF IInv, Typed, RowsTyped, Accounts, Landings, Begun
<1> QED
    BY <1>1, <1>5, IdleReports, WritesStand DEF IInv, Typed

-----------------------------------------------------------------------------
(* What an admin write and its reload do.                                  *)
LEMMA WriteChanges ==
    ASSUME WritesTyped, UNCHANGED clock, NEW a \in Admin, NEW read \in Accounts,
           NEW pc \in {"idle", "reload", "read"}, Goes(a, pc, read)
    PROVE  WritesTyped'
BY DEF WritesTyped, Goes, Accounts, Begun

LEMMA AdminKeepsIInv ==
    ASSUME IInv, NEW a \in Admin,
           \/ \E b \in Budgets : SetKeyBudget(a, b)
           \/ OtherWrite(a) \/ GetAllKeys(a) \/ ReloadFails(a) \/ Load(a) \/ LeaveOut(a)
    PROVE  IInv'
<1> DEFINE Rest == /\ UNCHANGED <<clock, recorded, reports, landed>>
                   /\ writes' \in 0..MaxWrites /\ disturbed' \in BOOLEAN /\ pooled' \in BOOLEAN
<1>1. /\ clock \in Instant /\ row \in Accounts /\ held \in Accounts /\ NoBudget \in Accounts
      /\ admin[a].row \in Accounts /\ writes \in 0..MaxWrites
      /\ disturbed \in BOOLEAN /\ pooled \in BOOLEAN
    BY NoBudgetIsAccount DEF IInv, Typed, RowsTyped, WritesTyped
<1>2. ASSUME Rest, row' \in Accounts, held' \in Accounts, WritesTyped', UNCHANGED report
      PROVE  IInv'
  <2>1. RowsTyped'
    BY <1>2 DEF IInv, Typed, RowsTyped, Accounts, Landings, Begun
  <2> QED
    BY <1>2, <2>1, ReportsStand DEF IInv, Typed
<1>3. ASSUME NEW b \in Budgets, SetKeyBudget(a, b) PROVE IInv'
  <2>1. Rest /\ UNCHANGED held /\ UNCHANGED report
    BY <1>1, <1>3, BoundsAssumption DEF SetKeyBudget, Writing
  <2>2. b \in Budget \cup {None} /\ None \in Begun
    BY <1>1, BudgetsAssumption, BegunAreStarts
  <2>3. row' = [row EXCEPT !.budget = b] \/ row' = [budget |-> b, spent |-> 0, start |-> None]
    BY <1>3 DEF SetKeyBudget
  <2>4. row' \in Accounts
    BY <1>1, <2>2, <2>3 DEF Accounts
  <2>5. WritesTyped'
    BY <1>1, <1>3, <2>1, WriteChanges DEF SetKeyBudget, IInv, Typed
  <2> QED
    BY <1>1, <1>2, <2>1, <2>4, <2>5
<1>4. CASE OtherWrite(a) \/ GetAllKeys(a) \/ ReloadFails(a)
  <2>1. Rest /\ UNCHANGED row /\ UNCHANGED held /\ UNCHANGED report
    BY <1>1, <1>4, BoundsAssumption DEF OtherWrite, GetAllKeys, ReloadFails, Writing
  <2>2. \E pc \in {"idle", "reload", "read"}, read \in Accounts : Goes(a, pc, read)
    BY <1>1, <1>4 DEF OtherWrite, GetAllKeys, ReloadFails
  <2>3. WritesTyped'
    BY <2>1, <2>2, WriteChanges DEF IInv, Typed
  <2> QED
    BY <1>1, <1>2, <2>1, <2>3
<1>5. CASE Load(a)
  <2>1. /\ Rest /\ UNCHANGED row /\ UNCHANGED report /\ held' = admin[a].row
        /\ Goes(a, "idle", NoBudget)
    BY <1>1, <1>5 DEF Load, Writing
  <2>2. WritesTyped'
    BY <1>1, <2>1, WriteChanges DEF IInv, Typed
  <2> QED
    BY <1>1, <1>2, <2>1, <2>2
<1>6. CASE LeaveOut(a)
  <2>1. /\ Rest /\ UNCHANGED row /\ held' = NoBudget /\ Goes(a, "idle", NoBudget)
        /\ report' = [c \in Caller |-> [report[c] EXCEPT !.orphan = report[c].pc # "idle"]]
    BY <1>1, <1>6 DEF LeaveOut, Writing
  <2>2. \A c \in Caller :
            /\ report'[c] \in Reports
            /\ report'[c].start = report[c].start /\ report'[c].pc = report[c].pc
            /\ report'[c].request = report[c].request
            /\ report'[c].budget = report[c].budget /\ report'[c].resets = report[c].resets
    <3> SUFFICES ASSUME NEW c \in Caller
                 PROVE  /\ report'[c] \in Reports
                        /\ report'[c].start = report[c].start /\ report'[c].pc = report[c].pc
                        /\ report'[c].request = report[c].request
                        /\ report'[c].budget = report[c].budget
                        /\ report'[c].resets = report[c].resets
      OBVIOUS
    <3> DEFINE left == report[c].pc # "idle"
    <3>1. report[c] \in Reports
      BY DEF IInv, Typed, ReportsTyped
    <3>2. report'[c] = [report[c] EXCEPT !.orphan = left] /\ left \in BOOLEAN
      BY <2>1
    <3> HIDE DEF left
    <3> QED
      BY <3>1, <3>2 DEF Reports
  <2>3. ReportsTyped'
    BY <2>1, <2>2 DEF IInv, Typed, ReportsTyped, Begun
  <2>4. StampsArePast'
    BY <2>1, <2>2 DEF IInv, StampsArePast, StampedThen
  <2>5. WritesTyped'
    BY <1>1, <2>1, WriteChanges DEF IInv, Typed
  <2>6. RowsTyped'
    BY <1>1, <2>1 DEF IInv, Typed, RowsTyped, Accounts, Landings, Begun
  <2> QED
    BY <2>3, <2>4, <2>5, <2>6 DEF IInv, Typed
<1> QED
    BY <1>3, <1>4, <1>5, <1>6

-----------------------------------------------------------------------------
LEMMA TickKeepsIInv ==
    ASSUME IInv, Tick
    PROVE  IInv'
<1>1. /\ UNCHANGED <<row, recorded, held, pooled, report, admin, bounds, landed, disturbed>>
      /\ clock \in Instant /\ clock' = clock + 1 /\ clock' \in Instant
    BY MonthsAssumption DEF Tick, IInv, Typed, RowsTyped, Instant
<1>2. (Lifetime..clock) \subseteq (Lifetime..clock') /\ (0..clock) \subseteq (0..clock')
    BY <1>1, LifetimeAssumption DEF Instant
<1>3. Begun \subseteq Begun'
    BY <1>2 DEF Begun
<1>4. Accounts \subseteq Accounts' /\ Landings \subseteq Landings'
    BY <1>3 DEF Accounts, Landings
<1>5. RowsTyped'
    BY <1>1, <1>4 DEF IInv, Typed, RowsTyped, bounds
<1>6. ReportsTyped'
    BY <1>1, <1>3 DEF IInv, Typed, ReportsTyped
<1>7. WritesTyped'
  <2>1. [pc : {"idle", "reload", "read"}, row : Accounts]
            \subseteq [pc : {"idle", "reload", "read"}, row : Accounts']
    BY <1>4
  <2> QED
    BY <1>1, <2>1 DEF IInv, Typed, WritesTyped
<1>8. StampsArePast'
    BY <1>1, <1>2 DEF IInv, StampsArePast, StampedThen
<1> QED
    BY <1>5, <1>6, <1>7, <1>8 DEF IInv, Typed

LEMMA RestartKeepsIInv ==
    ASSUME IInv, Restart
    PROVE  IInv'
<1>1. /\ UNCHANGED <<clock, row, recorded, bounds, landed>> /\ held' = row
      /\ report' = [c \in Caller |-> NoReport] /\ admin' = [a \in Admin |-> NoWrite]
      /\ pooled' = TRUE /\ disturbed' = FALSE /\ clock \in Instant
    BY DEF Restart, IInv, Typed, RowsTyped
<1>2. NoReport.start \in Begun /\ NoBudget \in Accounts
    BY <1>1, IdleReport, BegunAreStarts, NoBudgetIsAccount
<1>3. RowsTyped'
    BY <1>1 DEF IInv, Typed, RowsTyped, Accounts, Landings, Begun, bounds
<1>4. ReportsTyped' /\ StampsArePast'
    BY <1>1, <1>2, IdleReport DEF ReportsTyped, StampsArePast, Begun
<1>5. WritesTyped'
    BY <1>1, <1>2 DEF WritesTyped, NoWrite, Accounts, Begun
<1> QED
    BY <1>3, <1>4, <1>5 DEF IInv, Typed

LEMMA IInvStep == IInv /\ [Next]_vars => IInv'
<1> SUFFICES ASSUME IInv, [Next]_vars PROVE IInv'
    OBVIOUS
<1>1. CASE UNCHANGED vars
  <2>1. RowsTyped'
    BY <1>1 DEF vars, bounds, IInv, Typed, RowsTyped, Accounts, Landings, Begun
  <2>2. ReportsTyped' /\ StampsArePast' /\ WritesTyped'
    BY <1>1, ReportsStand, WritesStand DEF vars, IInv, Typed
  <2> QED
    BY <2>1, <2>2 DEF IInv, Typed
<1>2. CASE Next
    BY <1>2, CheckKeepsIInv, StampKeepsIInv, CommitKeepsIInv, CommitFailsKeepsIInv,
       HoldSpentKeepsIInv, AdminKeepsIInv, TickKeepsIInv, RestartKeepsIInv DEF Next
<1> QED
    BY <1>1, <1>2

LEMMA IInvHolds == Spec => []IInv
BY IInvInit, IInvStep, PTL DEF Spec

(* Row, pool, reports and writes keep their types, and no total is of a    *)
(* period that has not begun, for any calendar and any number of callers   *)
(* and admins (periodStart, RecordSpend, ReloadKeys).                      *)
THEOREM TypeCorrect == Spec => []TypeOK
BY IInvHolds, TypedIsTypeOK, PTL DEF IInv

(* In any calendar whose months have every reset day, a report is told the *)
(* end of the very period it counts in: later reports count in that period *)
(* up to the reset it was told, and no longer (periodStart, nextReset).    *)
THEOREM ResetsKept == Spec => []ResetsAreKept
<1>1. IInv => ResetsAreKept
  <2> SUFFICES ASSUME IInv, NEW c \in Caller, report[c].start # None
               PROVE  PeriodStart(report[c].budget, clock) = report[c].start
                        <=> (report[c].resets = None \/ clock < report[c].resets)
    BY DEF ResetsAreKept
  <2> DEFINE b == report[c].budget
  <2>1. clock \in Instant /\ clock \in Nat /\ clock <= Horizon
    BY DEF IInv, Typed, RowsTyped, Instant
  <2>2. PICK t \in 0..clock : StampedThen(report[c], t)
    BY DEF IInv, StampsArePast
  <2>3. t \in Instant /\ t <= clock
    BY <2>1, MonthsAssumption DEF Instant
  <2>4. b \in Budget /\ b.day \in ResetDays \cup {None}
    BY <2>2 DEF StampedThen, Budget
  <2>5. CASE b.day = None
    BY <2>2, <2>5 DEF StampedThen, PeriodStart, ResetsAt
  <2>6. CASE b.day # None
    <3>1. /\ report[c].start = LastReset(b.day, t) /\ report[c].resets = NextReset(b.day, t)
          /\ PeriodStart(b, clock) = LastReset(b.day, clock)
      BY <2>2, <2>6 DEF StampedThen, PeriodStart, ResetsAt
    <3>2. /\ LastReset(b.day, clock) = LastReset(b.day, t) <=> clock < NextReset(b.day, t)
          /\ NextReset(b.day, t) \in Int
      BY <2>1, <2>3, <2>4, <2>6, PeriodRunsUntilReset
    <3> QED
      BY <3>1, <3>2, NoneAssumption
  <2> QED
    BY <2>5, <2>6
<1> QED
    BY <1>1, IInvHolds, PTL

-----------------------------------------------------------------------------
(* The requests counted in a period and a set of units.                    *)
In(start, units) == {r \in Request : landed[r] \in {start} \X units}

AllUnits == Unit \cup {None}

LEMMA CountedIsSum ==
    \A start, units : Counted(start, units) = SumFunctionOnSet(AmountOf, In(start, units))
BY DEF Counted, In, MapThenSumSet, SumFunctionOnSet, FoldFunctionOnSet

LEMMA CountedNextIsSum ==
    (\A start, units : Counted(start, units) = SumFunctionOnSet(AmountOf, In(start, units)))'
BY CountedIsSum, PTL

LEMMA CountedFacts ==
    ASSUME NEW start, NEW units, NEW some \in SUBSET units
    PROVE  /\ Counted(start, units) \in Nat
           /\ Counted(start, some) \in Nat /\ Counted(start, some) <= Counted(start, units)
<1> DEFINE T == In(start, units)
           U == In(start, some)
<1>1. U \in SUBSET T /\ T \subseteq Request
    BY DEF In
<1>2. IsFiniteSet(T) /\ IsFiniteSet(U) /\ \A r \in T : AmountOf[r] \in Nat
    BY <1>1, RequestAssumption, FS_Subset
<1>3. Counted(start, units) = SumFunctionOnSet(AmountOf, T)
    BY CountedIsSum
<1>4. Counted(start, some) = SumFunctionOnSet(AmountOf, U)
    BY CountedIsSum
<1> HIDE DEF T, U
<1>5. SumFunctionOnSet(AmountOf, T) \in Nat /\ SumFunctionOnSet(AmountOf, U) \in Nat
    BY <1>1, <1>2, SumType
<1> QED
    BY <1>1, <1>2, <1>3, <1>4, <1>5, SumOfPart

(* Only the first report of a request is counted.                          *)
LandedAreRecorded == \A r \in Request : landed[r] # None => r \in recorded

(* What a commit adds to what is counted in a period.                      *)
LEMMA CountsGrow ==
    ASSUME NEW r \in Request, landed[r] = None,
           \A q \in Request \ {r} : landed'[q] = landed[q],
           NEW start \in Int \cup {None}, NEW units \in SUBSET AllUnits
    PROVE  Counted(start, units)' = IF landed'[r] \in {start} \X units
                                    THEN Counted(start, units) + AmountOf[r]
                                    ELSE Counted(start, units)
<1> DEFINE T == In(start, units)
           V == In(start, units)'
<1>1. None \notin {start} \X units
    BY NoneAssumption DEF AllUnits
<1>2. V = IF landed'[r] \in {start} \X units THEN T \cup {r} ELSE T
  <2>1. \A s \in Request \ {r} : s \in V <=> s \in T
    BY DEF In
  <2>2. r \in V <=> landed'[r] \in {start} \X units
    BY DEF In
  <2>3. V \subseteq Request /\ T \subseteq Request /\ r \notin T
    BY <1>1 DEF In
  <2> HIDE DEF T, V
  <2> QED
    BY <2>1, <2>2, <2>3
<1>3. r \notin T
    BY <1>1 DEF In
<1>4. IsFiniteSet(T) /\ IsFiniteSet(T \cup {r}) /\ \A s \in T \cup {r} : AmountOf[s] \in Nat
  <2>1. T \subseteq Request /\ T \cup {r} \subseteq Request
    BY DEF In
  <2> HIDE DEF T
  <2> QED
    BY <2>1, RequestAssumption, FS_Subset
<1>5. SumFunctionOnSet(AmountOf, T \cup {r})
        = AmountOf[r] + SumFunctionOnSet(AmountOf, (T \cup {r}) \ {r})
  <2> HIDE DEF T
  <2> QED
    BY <1>4, SumTakesAny
<1>6. (T \cup {r}) \ {r} = T
    BY <1>3
<1>7. SumFunctionOnSet(AmountOf, T) \in Nat /\ AmountOf[r] \in Nat
  <2> HIDE DEF T
  <2> QED
    BY <1>4, SumType
<1>8. Counted(start, units) = SumFunctionOnSet(AmountOf, T)
    BY CountedIsSum
<1>9. Counted(start, units)' = SumFunctionOnSet(AmountOf, V)
    BY CountedNextIsSum
<1> HIDE DEF T, V
<1>10. CASE landed'[r] \in {start} \X units
  <2>1. V = T \cup {r}
    BY <1>2, <1>10
  <2>2. Counted(start, units)' = AmountOf[r] + Counted(start, units)
    BY <1>5, <1>6, <1>8, <1>9, <2>1
  <2> QED
    BY <1>7, <1>8, <1>10, <2>2
<1>11. CASE ~(landed'[r] \in {start} \X units)
    BY <1>2, <1>8, <1>9, <1>11
<1> QED
    BY <1>10, <1>11

LEMMA CountsStand ==
    ASSUME UNCHANGED landed
    PROVE  \A start, units : Counted(start, units)' = Counted(start, units)
<1> SUFFICES ASSUME NEW start, NEW units PROVE Counted(start, units)' = Counted(start, units)
    OBVIOUS
<1>1. In(start, units)' = In(start, units)
    BY DEF In
<1> QED
    BY <1>1, CountedIsSum, CountedNextIsSum

(***************************************************************************)
(* No total, wherever it is on its way, is more than the reports counted   *)
(* in its period; the row's is no more than those in its unit.             *)
(***************************************************************************)
Covered(spent, start) == spent <= Counted(start, AllUnits)

TotalsCovered ==
    /\ LandedAreRecorded
    /\ UnitsKeptApart
    /\ Covered(held.spent, held.start)
    /\ \A a \in Admin : Covered(admin[a].row.spent, admin[a].row.start)
    /\ \A c \in Caller : report[c].pc = "committed" => Covered(report[c].spent, report[c].start)

LEMMA RowIsCovered ==
    ASSUME IInv, TotalsCovered
    PROVE  Covered(row.spent, row.start) /\ Covered(0, row.start)
<1>1. row.spent \in Nat /\ UnitOrNone(row.budget) \in AllUnits
    BY DEF IInv, Typed, RowsTyped, Accounts, UnitOrNone, Budget, AllUnits
<1>2. /\ Counted(row.start, AllUnits) \in Nat
      /\ Counted(row.start, {UnitOrNone(row.budget)}) \in Nat
      /\ Counted(row.start, {UnitOrNone(row.budget)}) <= Counted(row.start, AllUnits)
    BY <1>1, CountedFacts
<1> QED
    BY <1>1, <1>2 DEF TotalsCovered, UnitsKeptApart, Covered

LEMMA NoneIsCovered ==
    /\ \A start : Covered(0, start)
    /\ Covered(NoBudget.spent, NoBudget.start) /\ Covered(NoWrite.row.spent, NoWrite.row.start)
<1>1. \A start : Counted(start, AllUnits) \in Nat
    BY CountedFacts
<1> QED
    BY <1>1 DEF Covered, NoBudget, NoWrite

LEMMA NoneIsCoveredNext == NoneIsCovered!1'
BY NoneIsCovered, PTL

LEMMA TotalsCoveredInit == Init => TotalsCovered
<1> SUFFICES ASSUME Init PROVE TotalsCovered
    OBVIOUS
<1>1. row.spent = 0 /\ held = row
    BY DEF Init
<1>2. UnitsKeptApart
  <2>1. Counted(row.start, {UnitOrNone(row.budget)}) \in Nat
    BY CountedFacts
  <2> QED
    BY <1>1, <2>1 DEF UnitsKeptApart
<1>3. \A a \in Admin : admin[a].row = NoBudget
    BY DEF Init, NoWrite
<1>4. \A c \in Caller : report[c].pc # "committed"
    BY IdleReport DEF Init
<1>5. LandedAreRecorded
    BY DEF Init, LandedAreRecorded
<1> QED
    BY <1>1, <1>2, <1>3, <1>4, <1>5, NoneIsCovered DEF TotalsCovered

(* A step that counts nothing anew and takes over what was covered.        *)
LEMMA NothingCounted ==
    ASSUME TotalsCovered, UNCHANGED landed, recorded \subseteq recorded',
           UnitsKeptApart', Covered(held'.spent, held'.start),
           \A a \in Admin : Covered(admin'[a].row.spent, admin'[a].row.start),
           \A c \in Caller : report'[c].pc = "committed" =>
                                Covered(report'[c].spent, report'[c].start)
    PROVE  TotalsCovered'
<1>1. \A spent, start : Covered(spent, start)' <=> Covered(spent, start)
    BY CountsStand DEF Covered
<1> QED
    BY <1>1 DEF TotalsCovered, LandedAreRecorded, Covered

(* What a commit does, with the total it computes.                         *)
Total(c) ==
    SpentIn(report[c].start) + IF Duplicate(report[c].request) THEN 0 ELSE AmountOf[report[c].request]

Counts(c) == report[c].start # None /\ ~Duplicate(report[c].request)

LEMMA CommitDoes ==
    ASSUME IInv, NEW c \in Caller, Commit(c)
    PROVE  /\ UNCHANGED <<held, admin, clock, pooled>>
           /\ recorded' = recorded \cup {report[c].request}
           /\ report[c].request \in Request /\ report[c].start \in Begun
           /\ row.spent \in Nat /\ SpentIn(report[c].start) \in Nat /\ Total(c) \in Nat
           /\ ~Counts(c) => row' = row /\ landed' = landed
           /\ Counts(c) =>
                /\ row'.budget = row.budget
                /\ row'.spent = Total(c) /\ row'.start = report[c].start
                /\ landed' = [landed EXCEPT ![report[c].request]
                                = <<report[c].start, UnitOrNone(row.budget)>>]
           /\ \A d \in Caller \ {c} : report'[d] = report[d]
           /\ report'[c].pc = "committed" =>
                /\ report[c].start # None
                /\ report'[c].start = report[c].start /\ report'[c].spent = Total(c)
                /\ report'[c].orphan = report[c].orphan
                /\ disturbed' = (disturbed \/ MeetsAnother(c))
           /\ report'[c].pc # "committed" => report[c].start = None \/ disturbed'
<1>1. /\ report[c].request \in Request /\ report[c].start \in Begun /\ row \in Accounts
      /\ report \in [Caller -> Reports] /\ report[c] \in Reports
    BY DEF Commit, Reporting, IInv, Typed, RowsTyped, ReportsTyped
<1>2. row.spent \in Nat /\ AmountOf[report[c].request] \in Nat
    BY <1>1, RequestAssumption DEF Accounts
<1>3. SpentIn(report[c].start) \in Nat /\ Total(c) \in Nat
    BY <1>2 DEF SpentIn, Total
<1>4. (IF Duplicate(report[c].request) THEN SpentIn(report[c].start)
       ELSE SpentIn(report[c].start) + AmountOf[report[c].request]) = Total(c)
    BY <1>3 DEF Total
<1> DEFINE new == [[report[c] EXCEPT !.pc = "committed"] EXCEPT !.spent = Total(c)]
<1>5. /\ UNCHANGED <<held, admin, clock, pooled>>
      /\ recorded' = recorded \cup {report[c].request}
    BY DEF Commit, Reporting
<1>6. /\ ~Counts(c) => row' = row /\ landed' = landed
      /\ Counts(c) =>
            /\ row' = [[row EXCEPT !.spent = Total(c)] EXCEPT !.start = report[c].start]
            /\ landed' = [landed EXCEPT ![report[c].request]
                            = <<report[c].start, UnitOrNone(row.budget)>>]
    BY <1>4 DEF Commit, Counts
<1>7. Counts(c) => row'.budget = row.budget /\ row'.spent = Total(c) /\ row'.start = report[c].start
    BY <1>1, <1>6 DEF Accounts
<1>8. \/ /\ report[c].start # None /\ report' = [report EXCEPT ![c] = new]
         /\ disturbed' = (disturbed \/ MeetsAnother(c))
      \/ /\ report' = [report EXCEPT ![c] = NoReport]
         /\ report[c].start = None \/ disturbed'
    BY <1>1, <1>4 DEF Commit
<1>9. /\ new.pc = "committed" /\ new.start = report[c].start /\ new.spent = Total(c)
      /\ new.orphan = report[c].orphan
    BY <1>1 DEF Reports
<1> HIDE DEF new
<1>10. \A d \in Caller \ {c} : report'[d] = report[d]
    BY <1>1, <1>8
<1>11. \/ /\ report'[c] = new /\ report[c].start # None
          /\ disturbed' = (disturbed \/ MeetsAnother(c))
       \/ report'[c].pc # "committed" /\ (report[c].start = None \/ disturbed')
    BY <1>1, <1>8, IdleReport
<1> QED
    BY <1>1, <1>2, <1>3, <1>5, <1>6, <1>7, <1>9, <1>10, <1>11

(* One more request is counted, in the unit the row is in.                 *)
LEMMA CountingCovers ==
    ASSUME IInv, TotalsCovered, UNCHANGED <<held, admin, clock>>,
           NEW r \in Request, NEW start \in Begun, NEW unit, NEW total \in Nat,
           unit = UnitOrNone(row.budget), total = SpentIn(start) + AmountOf[r],
           landed[r] = None, landed' = [landed EXCEPT ![r] = <<start, unit>>],
           recorded' = recorded \cup {r},
           row'.budget = row.budget, row'.spent = total, row'.start = start,
           \A d \in Caller : report'[d].pc = "committed" =>
                \/ report'[d] = report[d]
                \/ report'[d].start = start /\ report'[d].spent = total
    PROVE  TotalsCovered'
<1> DEFINE amount == AmountOf[r]
<1>1. /\ landed \in [Request -> Landings] /\ clock \in Instant /\ unit \in AllUnits
      /\ amount \in Nat /\ row.spent \in Nat
  <2>1. row.budget \in Budget \cup {None} /\ row.spent \in Nat
    BY DEF IInv, Typed, RowsTyped, Accounts
  <2> QED
    BY <2>1, RequestAssumption DEF UnitOrNone, Budget, AllUnits, IInv, Typed, RowsTyped
<1>2. /\ Counted(start, AllUnits) \in Nat /\ Counted(start, {unit}) \in Nat
      /\ Counted(start, {unit}) <= Counted(start, AllUnits)
    BY <1>1, CountedFacts
<1>3. SpentIn(start) \in Nat /\ SpentIn(start) <= Counted(start, {unit})
    BY <1>1, <1>2 DEF SpentIn, TotalsCovered, UnitsKeptApart
<1>4. \A s \in Begun, units \in SUBSET AllUnits :
            Counted(s, units)' = IF s = start /\ unit \in units
                                 THEN Counted(s, units) + amount ELSE Counted(s, units)
  <2> SUFFICES ASSUME NEW s \in Begun, NEW units \in SUBSET AllUnits
               PROVE  Counted(s, units)' = IF s = start /\ unit \in units
                                           THEN Counted(s, units) + amount ELSE Counted(s, units)
    OBVIOUS
  <2>1. landed'[r] = <<start, unit>> /\ \A q \in Request \ {r} : landed'[q] = landed[q]
    BY <1>1
  <2>2. s \in Int \cup {None}
    BY <1>1, BegunAreStarts, LifetimeAssumption DEF Begun
  <2>3. Counted(s, units)' = IF landed'[r] \in {s} \X units
                             THEN Counted(s, units) + amount ELSE Counted(s, units)
    <3>1. landed[r] = None /\ r \in Request
      OBVIOUS
    <3>2. \A q \in Request \ {r} : landed'[q] = landed[q]
      BY <2>1
    <3> QED
      BY <2>2, <3>1, <3>2, CountsGrow, SMTT(30)
  <2>4. landed'[r] \in {s} \X units <=> s = start /\ unit \in units
    BY <2>1
  <2> QED
    BY <2>3, <2>4
<1> HIDE DEF amount
<1>5. /\ Counted(start, {unit})' = Counted(start, {unit}) + amount
      /\ Counted(start, AllUnits)' = Counted(start, AllUnits) + amount
  <2>1. {unit} \in SUBSET AllUnits /\ AllUnits \in SUBSET AllUnits /\ unit \in {unit}
    BY <1>1
  <2> QED
    BY <1>1, <1>4, <2>1
<1>6. total = SpentIn(start) + amount
    BY DEF amount
<1>7. UnitsKeptApart'
  <2>1. total <= Counted(start, {unit})'
    BY <1>1, <1>2, <1>3, <1>5, <1>6
  <2>2. UnitOrNone(row.budget)' = unit
    BY DEF UnitOrNone
  <2> QED
    BY <2>1, <2>2 DEF UnitsKeptApart
<1>8. total <= Counted(start, AllUnits)'
    BY <1>1, <1>2, <1>3, <1>5, <1>6
<1>9. ASSUME NEW s \in Begun, NEW spent \in Nat, Covered(spent, s)
      PROVE  spent <= Counted(s, AllUnits)'
  <2>1. Counted(s, AllUnits) \in Nat
    BY CountedFacts
  <2>2. AllUnits \in SUBSET AllUnits /\ unit \in AllUnits
    BY <1>1
  <2> QED
    BY <1>1, <1>4, <1>9, <2>1, <2>2 DEF Covered
<1>10. /\ \A a \in Admin : admin[a].row.start \in Begun /\ admin[a].row.spent \in Nat
       /\ held.start \in Begun /\ held.spent \in Nat
       /\ \A d \in Caller : report[d].start \in Begun /\ report[d].spent \in Nat
    BY DEF IInv, Typed, RowsTyped, ReportsTyped, WritesTyped, Accounts, Reports
<1>11. LandedAreRecorded'
    BY <1>1 DEF TotalsCovered, LandedAreRecorded
<1>12. ASSUME NEW d \in Caller, report'[d].pc = "committed",
              NEW s, NEW n, report'[d].start = s, report'[d].spent = n
       PROVE  n <= Counted(s, AllUnits)'
  <2>1. CASE report'[d] = report[d]
    <3>1. Covered(n, s)
      BY <1>12, <2>1 DEF TotalsCovered
    <3>2. n \in Nat /\ s \in Begun
      BY <1>10, <1>12, <2>1
    <3> QED
      BY <1>9, <3>1, <3>2
  <2>2. CASE report'[d].start = start /\ report'[d].spent = total
    BY <1>8, <1>12, <2>2
  <2> QED
    BY <1>12, <2>1, <2>2
<1>13. ASSUME NEW a \in Admin
       PROVE  Covered(admin[a].row.spent, admin[a].row.start)'
  <2>1. admin'[a].row.start = admin[a].row.start /\ admin'[a].row.spent = admin[a].row.spent
    OBVIOUS
  <2>2. Covered(admin[a].row.spent, admin[a].row.start)
    BY DEF TotalsCovered
  <2>3. \A s \in Begun, n \in Nat : Covered(n, s) => n <= Counted(s, AllUnits)'
    BY <1>9
  <2> QED
    BY <1>10, <2>1, <2>2, <2>3 DEF Covered
<1>14. Covered(held.spent, held.start)'
  <2>1. Covered(held.spent, held.start) /\ held' = held
    BY DEF TotalsCovered
  <2>2. \A s \in Begun, n \in Nat : Covered(n, s) => n <= Counted(s, AllUnits)'
    BY <1>9
  <2> QED
    BY <1>10, <2>1, <2>2 DEF Covered
<1>15. ASSUME NEW d \in Caller, (report[d].pc = "committed")'
       PROVE  Covered(report[d].spent, report[d].start)'
    BY <1>12, <1>15 DEF Covered
<1> QED
    BY <1>7, <1>11, <1>13, <1>14, <1>15 DEF TotalsCovered

LEMMA CommitCovers ==
    ASSUME IInv, TotalsCovered, NEW c \in Caller, Commit(c)
    PROVE  TotalsCovered'
<1> DEFINE r == report[c].request
           start == report[c].start
           unit == UnitOrNone(row.budget)
           amount == AmountOf[r]
           total == Total(c)
<1>1. /\ UNCHANGED <<held, admin, clock>> /\ recorded' = recorded \cup {r}
      /\ r \in Request /\ start \in Begun /\ total \in Nat /\ SpentIn(start) \in Nat
      /\ \A d \in Caller \ {c} : report'[d] = report[d]
      /\ report'[c].pc = "committed" =>
            start # None /\ report'[c].start = start /\ report'[c].spent = total
    BY CommitDoes
<1>2. unit \in AllUnits /\ amount \in Nat
  <2>1. row.budget \in Budget \cup {None}
    BY DEF IInv, Typed, RowsTyped, Accounts
  <2> QED
    BY <1>1, <2>1, RequestAssumption DEF UnitOrNone, Budget, AllUnits
<1>3. /\ Counted(start, AllUnits) \in Nat /\ Counted(start, {unit}) \in Nat
      /\ Counted(start, {unit}) <= Counted(start, AllUnits)
    BY <1>2, CountedFacts
<1>4. SpentIn(start) <= Counted(start, {unit})
  <2>1. row.spent <= Counted(row.start, {unit})
    BY DEF TotalsCovered, UnitsKeptApart
  <2> HIDE DEF start, unit
  <2> QED
    BY <1>3, <2>1 DEF SpentIn
<1>5. CASE ~Counts(c)
  <2>1. row' = row /\ landed' = landed
    BY <1>5, CommitDoes
  <2>2. UnitsKeptApart'
    BY <2>1, CountsStand DEF TotalsCovered, UnitsKeptApart
  <2>3. start # None => total = SpentIn(start)
    BY <1>1, <1>5 DEF Total, Counts
  <2>4. ASSUME NEW d \in Caller, report'[d].pc = "committed"
        PROVE  Covered(report'[d].spent, report'[d].start)
    <3>1. CASE d # c
      BY <1>1, <2>4, <3>1 DEF TotalsCovered
    <3>2. CASE d = c
      <4> HIDE DEF start, unit, total
      <4> QED
        BY <1>1, <1>3, <1>4, <2>3, <2>4, <3>2 DEF Covered
    <3> QED
      BY <3>1, <3>2
  <2>5. Covered(held'.spent, held'.start) /\ recorded \subseteq recorded'
    BY <1>1 DEF TotalsCovered
  <2>6. \A a \in Admin : Covered(admin'[a].row.spent, admin'[a].row.start)
    BY <1>1 DEF TotalsCovered
  <2> QED
    BY <2>1, <2>2, <2>4, <2>5, <2>6, NothingCounted
<1>6. CASE Counts(c)
  <2>1. /\ row'.budget = row.budget /\ row'.spent = total /\ row'.start = start
        /\ landed' = [landed EXCEPT ![r] = <<start, unit>>]
    BY <1>6, CommitDoes
  <2>2. landed[r] = None
    BY <1>1, <1>6 DEF Counts, TotalsCovered, LandedAreRecorded, Duplicate
  <2>3. total = SpentIn(start) + AmountOf[r]
    BY <1>1, <1>6 DEF Total, Counts
  <2>4. \A d \in Caller : report'[d].pc = "committed" =>
            \/ report'[d] = report[d]
            \/ report'[d].start = start /\ report'[d].spent = total
    BY <1>1
  <2> HIDE DEF r, start, unit, amount, total
  <2> QED
    BY <1>1, <2>1, <2>2, <2>3, <2>4, CountingCovers DEF unit
<1> QED
    BY <1>5, <1>6

(* The row as it was, in the unit it was in, is still covered.             *)
LEMMA UnitsStand ==
    ASSUME TotalsCovered, UNCHANGED landed, row'.spent = row.spent, row'.start = row.start,
           UnitOrNone(row'.budget) = UnitOrNone(row.budget)
    PROVE  UnitsKeptApart'
BY CountsStand DEF TotalsCovered, UnitsKeptApart, UnitOrNone

(* The other steps of a report leave it with nothing on its way.           *)
LEMMA ReportsGo ==
    ASSUME IInv, NEW c \in Caller,
           \/ \E r \in Request : Check(c, r)
           \/ Stamp(c) \/ CommitFails(c) \/ HoldSpent(c)
    PROVE  \E new : report' = [report EXCEPT ![c] = new] /\ new.pc # "committed"
<1>1. CASE \E r \in Request : Check(c, r)
  <2>1. PICK r \in Request : Check(c, r)
    BY <1>1
  <2> DEFINE new == [NoReport EXCEPT !.pc = "checked", !.request = r, !.budget = held.budget]
  <2>2. report' = [report EXCEPT ![c] = new] /\ new.pc = "checked"
    BY <2>1 DEF Check, NoReport
  <2> QED
    BY <2>2
<1>2. CASE Stamp(c)
  <2> DEFINE b == report[c].budget
             new == [[[report[c] EXCEPT !.pc = "stamped"]
                        EXCEPT !.start = IF b = None THEN None ELSE PeriodStart(b, clock)]
                        EXCEPT !.resets = IF b = None THEN None ELSE ResetsAt(b, clock)]
  <2>1. report[c] \in Reports /\ report \in [Caller -> Reports]
    BY DEF IInv, Typed, ReportsTyped
  <2>2. report' = [report EXCEPT ![c] = new]
    BY <1>2, <2>1 DEF Stamp
  <2>3. new.pc = "stamped"
    BY <2>1 DEF Reports
  <2> QED
    BY <2>2, <2>3
<1>3. CASE CommitFails(c) \/ HoldSpent(c)
    BY <1>3, IdleReport DEF CommitFails, HoldSpent
<1> QED
    BY <1>1, <1>2, <1>3

LEMMA ReportsCover ==
    ASSUME IInv, TotalsCovered, NEW c \in Caller,
           \/ \E r \in Request : Check(c, r)
           \/ Stamp(c) \/ CommitFails(c) \/ HoldSpent(c)
    PROVE  TotalsCovered'
<1>1. UNCHANGED <<row, recorded, landed, admin>>
    BY DEF Check, Stamp, CommitFails, HoldSpent, Reporting
<1>2. \A d \in Caller : report'[d].pc = "committed" => report'[d] = report[d]
  <2>1. \E new : report' = [report EXCEPT ![c] = new] /\ new.pc # "committed"
    BY ReportsGo
  <2> QED
    BY <2>1 DEF IInv, Typed, ReportsTyped
<1>3. Covered(held'.spent, held'.start)
  <2>1. CASE HoldSpent(c)
    <3>1. \/ held' = held
          \/ held'.spent = report[c].spent /\ held'.start = report[c].start
      BY <2>1 DEF HoldSpent, IInv, Typed, RowsTyped, Accounts
    <3>2. report[c].pc = "committed"
      BY <2>1 DEF HoldSpent, Reporting
    <3> QED
      BY <3>1, <3>2 DEF TotalsCovered
  <2>2. CASE ~HoldSpent(c)
    BY <2>2 DEF TotalsCovered, Check, Stamp, CommitFails
  <2> QED
    BY <2>1, <2>2
<1>4. UnitsKeptApart'
    BY <1>1, UnitsStand
<1> QED
    BY <1>1, <1>2, <1>3, <1>4, NothingCounted DEF TotalsCovered

LEMMA AdminsCover ==
    ASSUME IInv, TotalsCovered, NEW a \in Admin,
           \/ \E b \in Budgets : SetKeyBudget(a, b)
           \/ OtherWrite(a) \/ GetAllKeys(a) \/ ReloadFails(a) \/ Load(a) \/ LeaveOut(a)
    PROVE  TotalsCovered'
<1>1. UNCHANGED <<recorded, landed>>
    BY DEF SetKeyBudget, OtherWrite, GetAllKeys, ReloadFails, Load, LeaveOut, Writing
<1>2. \A b \in Admin : \/ admin'[b] = admin[b] \/ admin'[b].row = NoBudget
                       \/ admin'[b].row = row
    BY DEF SetKeyBudget, OtherWrite, GetAllKeys, ReloadFails, Load, LeaveOut, Goes,
           IInv, Typed, WritesTyped
<1>3. \A b \in Admin : Covered(admin'[b].row.spent, admin'[b].row.start)
    BY <1>2, RowIsCovered, NoneIsCovered DEF TotalsCovered
<1>4. held' = held \/ held' = admin[a].row \/ held' = NoBudget
    BY DEF SetKeyBudget, OtherWrite, GetAllKeys, ReloadFails, Load, LeaveOut
<1>5. Covered(held'.spent, held'.start)
    BY <1>4, NoneIsCovered DEF TotalsCovered
<1>6. \A c \in Caller : report'[c].pc = report[c].pc /\ report'[c].spent = report[c].spent
                        /\ report'[c].start = report[c].start
  <2>1. CASE LeaveOut(a)
    BY <2>1 DEF LeaveOut, IInv, Typed, ReportsTyped, Reports
  <2>2. CASE ~LeaveOut(a)
    BY <2>2 DEF SetKeyBudget, OtherWrite, GetAllKeys, ReloadFails, Load
  <2> QED
    BY <2>1, <2>2
<1>7. UnitsKeptApart'
  <2>1. CASE \E b \in Budgets : SetKeyBudget(a, b)
    <3>1. PICK b \in Budgets : SetKeyBudget(a, b)
      BY <2>1
    <3>2. \/ /\ row'.spent = row.spent /\ row'.start = row.start
             /\ UnitOrNone(row'.budget) = UnitOrNone(row.budget)
          \/ row'.spent = 0
      BY <3>1 DEF SetKeyBudget, SameUnit, IInv, Typed, RowsTyped, Accounts
    <3>3. (\A start, units : 0 <= Counted(start, units))'
      <4>1. \A start, units : Counted(start, units) \in Nat
        BY CountedFacts
      <4> QED
        BY <1>1, <4>1, CountsStand
    <3> QED
      BY <1>1, <3>2, <3>3, UnitsStand DEF UnitsKeptApart
  <2>2. CASE ~\E b \in Budgets : SetKeyBudget(a, b)
    <3>1. row' = row
      BY <2>2 DEF OtherWrite, GetAllKeys, ReloadFails, Load, LeaveOut
    <3> QED
      BY <1>1, <3>1, UnitsStand
  <2> QED
    BY <2>1, <2>2
<1> QED
    BY <1>1, <1>3, <1>5, <1>6, <1>7, NothingCounted DEF TotalsCovered

LEMMA TotalsCoveredStep == IInv /\ TotalsCovered /\ [Next]_vars => TotalsCovered'
<1> SUFFICES ASSUME IInv, TotalsCovered, [Next]_vars PROVE TotalsCovered'
    OBVIOUS
<1>1. CASE Tick \/ UNCHANGED vars
  <2>1. UNCHANGED <<row, held, report, admin, recorded, landed>>
    BY <1>1 DEF Tick, vars
  <2> QED
    BY <2>1, UnitsStand, NothingCounted DEF TotalsCovered
<1>2. CASE Restart
  <2>1. /\ UNCHANGED <<row, recorded, landed>> /\ held' = row
        /\ \A a \in Admin : admin'[a] = NoWrite
        /\ \A c \in Caller : report'[c].pc # "committed"
    BY <1>2, IdleReport DEF Restart
  <2> QED
    BY <2>1, UnitsStand, NothingCounted, RowIsCovered, NoneIsCovered
<1>3. CASE \E c \in Caller : Commit(c)
    BY <1>3, CommitCovers
<1>4. CASE \E c \in Caller : \/ \E r \in Request : Check(c, r)
                             \/ Stamp(c) \/ CommitFails(c) \/ HoldSpent(c)
    BY <1>4, ReportsCover
<1>5. CASE \E a \in Admin : \/ \E b \in Budgets : SetKeyBudget(a, b)
                            \/ OtherWrite(a) \/ GetAllKeys(a) \/ ReloadFails(a)
                            \/ Load(a) \/ LeaveOut(a)
    BY <1>5, AdminsCover
<1> QED
    BY <1>1, <1>2, <1>3, <1>4, <1>5 DEF Next

(* However often a report is retried, whatever answers are lost and        *)
(* whichever reload lands when, neither the row nor the pool holds more    *)
(* for a period than its distinct reports add up to.                       *)
THEOREM RetriesCountOnce == Spec => []CountedOnce
<1>1. IInv /\ TotalsCovered => CountedOnce
    BY RowIsCovered DEF CountedOnce, TotalsCovered, Covered, AllUnits
<1> QED
    BY <1>1, IInvHolds, TotalsCoveredInit, TotalsCoveredStep, PTL DEF Spec

(* No total mixes units: what a budget counted in one is not in its total  *)
(* once it is in another.                                                  *)
THEOREM UnitsAreApart == Spec => []UnitsKeptApart
<1>1. TotalsCovered => UnitsKeptApart
    BY DEF TotalsCovered
<1> QED
    BY <1>1, IInvHolds, TotalsCoveredInit, TotalsCoveredStep, PTL DEF Spec

-----------------------------------------------------------------------------
(* The period one instant later is the same, or one that begins then.      *)
LEMMA PeriodsFollow ==
    ASSUME NEW t \in Instant, t + 1 \in Instant, NEW b \in Budget
    PROVE  PeriodStart(b, t + 1) = PeriodStart(b, t) \/ PeriodStart(b, t + 1) = t + 1
<1>1. t \in Int /\ t + 1 \in Int
    BY DEF Instant
<1>2. CASE b.day = None
    BY <1>2 DEF PeriodStart
<1>3. CASE b.day # None
  <2> DEFINE d == b.day
  <2>1. d \in ResetDays /\ d \in Nat
    BY <1>3, MonthsAssumption DEF Budget
  <2>2. PICK m \in Months : m + 1 \in Months /\ LastReset(d, t) = First[m] + d
                            /\ First[m] + d <= t /\ t < First[m + 1] + d
    BY <2>1, ResetsFrame
  <2>3. PICK n \in Months : n + 1 \in Months /\ LastReset(d, t + 1) = First[n] + d
                            /\ First[n] + d <= t + 1 /\ t + 1 < First[n + 1] + d
    BY <2>1, ResetsFrame
  <2>4. m \in Int /\ n \in Int /\ \A i \in Months : First[i] \in Int
    BY MonthsAssumption
  <2>5. \A i, j \in Months : i \in Int /\ j \in Int /\ (i <= j => First[i] <= First[j])
    BY MonthsAssumption, LengthAssumption
  <2>6. n < m => First[n + 1] <= First[m]
    BY <2>3, <2>4, <2>5
  <2>7. m < n => First[m + 1] <= First[n]
    BY <2>2, <2>4, <2>5
  <2>8. LastReset(d, t + 1) = LastReset(d, t) \/ LastReset(d, t + 1) = t + 1
    <3> HIDE DEF d
    <3>1. CASE m = n
      BY <2>2, <2>3, <3>1
    <3>2. CASE n < m
      BY <1>1, <2>1, <2>2, <2>3, <2>4, <2>6, <3>2
    <3>3. CASE m < n
      BY <1>1, <2>1, <2>2, <2>3, <2>4, <2>7, <3>3
    <3> QED
      BY <2>4, <3>1, <3>2, <3>3
  <2> QED
    BY <1>3, <2>8 DEF PeriodStart
<1> QED
    BY <1>2, <1>3

(***************************************************************************)
(* What the pool holds of the running period is what the row has, but for  *)
(* the reports that are on their way to it: none of them brings more than  *)
(* the row has, and while the pool has less one of them brings the rest.   *)
(* A report of another period is on its way only while the row has counted *)
(* nothing yet in the one now running.                                     *)
(***************************************************************************)
SpentAt(k, p) == IF k.start = p THEN k.spent ELSE 0

OnTheWay(c) == report[c].pc = "committed" /\ ~report[c].orphan

AgreeAt(p) ==
    /\ \A c \in Caller : OnTheWay(c) =>
            IF report[c].start = p THEN report[c].spent <= SpentAt(row, p)
                                   ELSE SpentAt(row, p) = 0
    /\ SpentAt(held, p) <= SpentAt(row, p)
    /\ SpentAt(held, p) # SpentAt(row, p) =>
            \E c \in Caller : /\ OnTheWay(c) /\ report[c].start = p
                              /\ report[c].spent = SpentAt(row, p)

Running == PeriodStart(row.budget, clock)

Agree ==
    pooled /\ ~disturbed =>
        held.budget = row.budget /\ (row.budget # None => AgreeAt(Running))

LEMMA AgreeTypes ==
    ASSUME IInv
    PROVE  /\ row.budget \in Budget \cup {None} /\ row.spent \in Nat /\ row.start \in Begun
           /\ held.budget \in Budget \cup {None} /\ held.spent \in Nat /\ held.start \in Begun
           /\ \A c \in Caller : report[c].spent \in Nat /\ report[c].start \in Begun
           /\ clock \in Instant
           /\ row.budget # None => Running \in Int /\ Running \in Begun
           /\ \A p : SpentAt(row, p) \in Nat /\ SpentAt(held, p) \in Nat
<1>1. row \in Accounts /\ held \in Accounts /\ clock \in Instant
    BY DEF IInv, Typed, RowsTyped
<1>2. \A c \in Caller : report[c].spent \in Nat /\ report[c].start \in Begun
    BY DEF IInv, Typed, ReportsTyped, Reports
<1>3. row.budget # None => Running \in Int /\ Running \in Begun
    BY <1>1, PeriodsAreTyped, LifetimeAssumption, MonthsAssumption
       DEF Accounts, Running, Begun, Instant
<1>4. row.spent \in Nat /\ held.spent \in Nat
    BY <1>1 DEF Accounts
<1> QED
    BY <1>1, <1>2, <1>3, <1>4 DEF Accounts, SpentAt

(* The pool has just taken over the row.                                   *)
LEMMA TakenOver ==
    ASSUME IInv', held' = row',
           \A c \in Caller : report'[c].pc = "committed" /\ ~report'[c].orphan =>
                report'[c].start = row'.start /\ report'[c].spent <= row'.spent
    PROVE  Agree'
<1>1. row'.spent \in Nat
    BY DEF IInv, Typed, RowsTyped, Accounts
<1> SUFFICES ASSUME NEW p PROVE AgreeAt(p)'
    BY DEF Agree, Running
<1> QED
    BY <1>1 DEF AgreeAt, SpentAt, OnTheWay

(* The steps that leave alone what Agree is about.                         *)
LEMMA AgreeStands ==
    ASSUME Agree, UNCHANGED <<clock, row, held>>, pooled' => pooled, ~disturbed' => ~disturbed,
           \A c \in Caller : OnTheWay(c)' <=> OnTheWay(c),
           \A c \in Caller : OnTheWay(c) =>
                report'[c].start = report[c].start /\ report'[c].spent = report[c].spent
    PROVE  Agree'
<1> SUFFICES ASSUME pooled, ~disturbed, row.budget # None
             PROVE  AgreeAt(Running)'
    BY DEF Agree, Running
<1>1. Running' = Running
    BY DEF Running
<1>2. AgreeAt(Running)
    BY DEF Agree
<1> SUFFICES ASSUME NEW p, p = Running PROVE AgreeAt(p)'
    BY <1>1
<1> QED
    BY <1>2 DEF AgreeAt, SpentAt

LEMMA CommitAgrees ==
    ASSUME IInv, Agree, NEW c \in Caller, Commit(c)
    PROVE  Agree'
<1> DEFINE start == report[c].start
<1>1. /\ UNCHANGED <<held, clock, pooled>> /\ row'.budget = row.budget
      /\ \A d \in Caller \ {c} : report'[d] = report[d]
    BY CommitDoes DEF Counts
<1> SUFFICES ASSUME pooled', ~disturbed'
             PROVE  held'.budget = row'.budget /\ (row'.budget # None => AgreeAt(Running)')
    BY DEF Agree
<1>2. Running' = Running
    BY <1>1 DEF Running
<1>3. ~disturbed /\ (report'[c].pc = "committed" \/ start = None)
    BY CommitDoes DEF Commit
<1>7. held.budget = row.budget /\ (row.budget # None => AgreeAt(Running))
    BY <1>1, <1>3 DEF Agree
<1> SUFFICES ASSUME row.budget # None, AgreeAt(Running) PROVE AgreeAt(Running)'
    BY <1>1, <1>7
<1>4. report[c].pc = "stamped"
    BY DEF Commit, Reporting
<1>5. CASE report'[c].pc # "committed"
  <2>1. row' = row
    BY <1>3, <1>5, CommitDoes DEF Counts
  <2>2. \A d \in Caller : /\ OnTheWay(d)' <=> OnTheWay(d)
                          /\ OnTheWay(d) => report'[d] = report[d]
    BY <1>1, <1>4, <1>5 DEF OnTheWay
  <2>3. ASSUME NEW q, q = Running, AgreeAt(q) PROVE AgreeAt(q)'
    BY <1>1, <2>1, <2>2, <2>3 DEF AgreeAt, SpentAt
  <2> QED
    BY <1>2, <2>3
<1>6. CASE report'[c].pc = "committed"
  <2>1. /\ start # None /\ report'[c].start = start /\ report'[c].spent = Total(c)
        /\ report'[c].orphan = report[c].orphan
        /\ ~MeetsAnother(c)
    BY <1>6, CommitDoes
  <2>2. /\ ~report[c].orphan /\ start = Running
        /\ \A d \in Caller : report[d].pc = "committed" => report[d].start = start
    BY <2>1 DEF MeetsAnother, Running
  <2>3. SpentIn(start) = SpentAt(row, Running) /\ SpentAt(row, Running) \in Nat
    BY <2>2, AgreeTypes DEF SpentIn, SpentAt
  <2>4. Total(c) \in Nat /\ Total(c) >= SpentAt(row, Running)
    <3>1. AmountOf[report[c].request] \in Nat
      BY CommitDoes, RequestAssumption
    <3> QED
      BY <2>3, <3>1, CommitDoes DEF Total
  <2>5. SpentAt(row', Running) = Total(c)
    <3>1. CASE Counts(c)
      BY <2>2, <3>1, CommitDoes DEF SpentAt
    <3>2. CASE ~Counts(c)
      <4>1. row' = row /\ Duplicate(report[c].request)
        BY <2>1, <3>2, CommitDoes DEF Counts
      <4> QED
        BY <2>3, <4>1 DEF Total
    <3> QED
      BY <3>1, <3>2
  <2>6. ASSUME NEW q, q = Running PROVE AgreeAt(q)'
    <3> DEFINE old == SpentAt(row, q)
               new == SpentAt(row', q)
    <3>1. /\ new = Total(c) /\ old \in Nat /\ new \in Nat /\ old <= new
          /\ SpentAt(held, q) \in Nat /\ SpentAt(held, q) <= old
          /\ report'[c].start = q /\ report'[c].spent = new
      BY <2>1, <2>2, <2>3, <2>4, <2>5, <2>6, AgreeTypes DEF AgreeAt
    <3> HIDE DEF old, new
    <3>2. ASSUME NEW d \in Caller, OnTheWay(d)'
          PROVE  report'[d].start = q /\ report'[d].spent <= new
      <4>1. CASE d = c
        BY <3>1, <4>1
      <4>2. CASE d # c
        <5>1. OnTheWay(d) /\ report'[d] = report[d] /\ report[d].start = q
          BY <1>1, <2>2, <2>6, <3>2, <4>2 DEF OnTheWay
        <5>2. report[d].spent <= old
          BY <2>6, <5>1 DEF AgreeAt, old
        <5> QED
          BY <3>1, <5>1, <5>2, AgreeTypes
      <4> QED
        BY <4>1, <4>2
    <3>3. OnTheWay(c)'
      BY <1>6, <2>1, <2>2 DEF OnTheWay
    <3>4. SpentAt(row, q)' = new /\ SpentAt(held, q)' = SpentAt(held, q)
      BY <1>1 DEF SpentAt, new
    <3>5. SpentAt(held, q) <= new
      BY <3>1
    <3> QED
      BY <3>1, <3>2, <3>3, <3>4, <3>5 DEF AgreeAt
  <2> QED
    BY <1>2, <2>6
<1> QED
    BY <1>5, <1>6

LEMMA HoldAgrees ==
    ASSUME IInv, Agree, NEW c \in Caller, HoldSpent(c)
    PROVE  Agree'
<1>1. /\ UNCHANGED <<clock, pooled, row, disturbed>> /\ report[c].pc = "committed"
      /\ report' = [report EXCEPT ![c] = NoReport]
    BY DEF HoldSpent, Reporting
<1>2. \A d \in Caller : /\ OnTheWay(d)' <=> d # c /\ OnTheWay(d)
                        /\ d # c => report'[d] = report[d]
    BY <1>1, IdleReport DEF OnTheWay, IInv, Typed, ReportsTyped
<1>3. held'.budget = held.budget
    BY DEF HoldSpent, IInv, Typed, RowsTyped, Accounts
<1> SUFFICES ASSUME pooled, ~disturbed, row.budget # None, AgreeAt(Running)
             PROVE  AgreeAt(Running)'
    BY <1>1, <1>3 DEF Agree
<1>4. Running' = Running
    BY <1>1 DEF Running
<1> SUFFICES ASSUME NEW p, p = Running PROVE AgreeAt(p)'
    BY <1>4
<1> DEFINE has == SpentAt(row, p)
           had == SpentAt(held, p)
           holds == SpentAt(held', p)
<1>5. /\ has \in Nat /\ had \in Nat /\ had <= has /\ report[c].spent \in Nat
      /\ held.spent \in Nat /\ p # None
    BY AgreeTypes, NoneAssumption DEF AgreeAt
<1>6. /\ OnTheWay(c) => IF report[c].start = p THEN report[c].spent <= has ELSE has = 0
      /\ held' = held \/ (held'.spent = report[c].spent /\ held'.start = report[c].start)
      /\ OnTheWay(c) /\ held' = held => Outdated(held, report[c].spent, report[c].start)
                                        \/ (held.spent = report[c].spent /\ held.start = report[c].start)
      /\ ~OnTheWay(c) => held' = held
      /\ held' # held => ~Outdated(held, report[c].spent, report[c].start)
    BY <1>1 DEF HoldSpent, OnTheWay, AgreeAt, IInv, Typed, RowsTyped, Accounts
<1>7. holds <= has /\ holds \in Nat
    BY <1>5, <1>6 DEF SpentAt
<1>8. holds # has => had # has
    BY <1>5, <1>6 DEF SpentAt, Outdated
<1>9. OnTheWay(c) /\ report[c].start = p /\ report[c].spent = has => holds = has
    BY <1>5, <1>6 DEF SpentAt, Outdated
<1>10. SpentAt(row, p)' = has /\ SpentAt(held, p)' = holds
    BY <1>1 DEF SpentAt
<1> HIDE DEF has, had, holds
<1>11. ASSUME NEW d \in Caller, OnTheWay(d)'
       PROVE  IF report'[d].start = p THEN report'[d].spent <= has ELSE has = 0
    BY <1>2, <1>11 DEF AgreeAt, has
<1>12. ASSUME holds # has
       PROVE  \E d \in Caller : OnTheWay(d)' /\ report'[d].start = p /\ report'[d].spent = has
  <2>1. PICK d \in Caller : OnTheWay(d) /\ report[d].start = p /\ report[d].spent = has
    BY <1>8, <1>12 DEF AgreeAt, has, had
  <2>2. d # c
    BY <1>9, <1>12, <2>1
  <2> QED
    BY <1>2, <2>1, <2>2
<1> QED
    BY <1>7, <1>10, <1>11, <1>12 DEF AgreeAt

LEMMA TickAgrees ==
    ASSUME IInv, Agree, Tick
    PROVE  Agree'
<1>1. /\ UNCHANGED <<row, held, pooled, report, disturbed>> /\ clock' = clock + 1
      /\ clock + 1 \in Instant
    BY MonthsAssumption, AgreeTypes DEF Tick, Instant
<1> SUFFICES ASSUME pooled, ~disturbed, row.budget # None, AgreeAt(Running)
             PROVE  AgreeAt(Running)'
    BY <1>1 DEF Agree
<1>2. Running' = Running \/ Running' = clock + 1
    BY <1>1, PeriodsFollow, AgreeTypes DEF Running
<1>3. CASE Running' = Running
  <2>1. ASSUME NEW p, p = Running PROVE AgreeAt(p)'
    BY <1>1, <2>1 DEF AgreeAt, SpentAt, OnTheWay
  <2> QED
    BY <1>3, <2>1
<1>4. CASE Running' = clock + 1
  <2>1. \A s \in Begun : s # clock + 1
    BY AgreeTypes, NoneAssumption, LifetimeAssumption DEF Begun, Instant
  <2>2. /\ row.start # clock + 1 /\ held.start # clock + 1
        /\ \A c \in Caller : report[c].start # clock + 1
    BY <2>1, AgreeTypes
  <2>3. ASSUME NEW p, p = clock + 1 PROVE AgreeAt(p)'
    BY <1>1, <2>2, <2>3 DEF AgreeAt, SpentAt, OnTheWay
  <2> QED
    BY <1>4, <2>3
<1> QED
    BY <1>2, <1>3, <1>4

LEMMA AgreeStep == IInv /\ Agree /\ [Next]_vars => Agree'
<1> SUFFICES ASSUME IInv, Agree, [Next]_vars PROVE Agree'
    OBVIOUS
<1>1. IInv'
    BY IInvStep
<1>2. CASE Tick
    BY <1>2, TickAgrees
<1>3. CASE UNCHANGED vars
    BY <1>3, AgreeStands DEF vars, OnTheWay
<1>4. CASE Restart
  <2>1. held' = row' /\ \A c \in Caller : report'[c].pc # "committed"
    BY <1>4, IdleReport DEF Restart
  <2> QED
    BY <1>1, <2>1, TakenOver
<1>5. ASSUME NEW c \in Caller, Commit(c) PROVE Agree'
    BY <1>5, CommitAgrees
<1>6. ASSUME NEW c \in Caller, HoldSpent(c) PROVE Agree'
    BY <1>6, HoldAgrees
<1>7. ASSUME NEW c \in Caller, (\E r \in Request : Check(c, r)) \/ Stamp(c) \/ CommitFails(c)
      PROVE  Agree'
  <2>1. UNCHANGED <<clock, row, held, pooled, disturbed>>
    BY <1>7 DEF Check, Stamp, CommitFails, Reporting
  <2>2. \A d \in Caller : d # c => report'[d] = report[d]
    BY <1>7 DEF Check, Stamp, CommitFails, IInv, Typed, ReportsTyped
  <2>3. report[c].pc # "committed"
    BY <1>7 DEF Check, Stamp, CommitFails, Reporting
  <2>4. report'[c].pc # "committed"
    BY <1>7, ReportsGo DEF IInv, Typed, ReportsTyped
  <2> QED
    BY <2>1, <2>2, <2>3, <2>4, AgreeStands DEF OnTheWay
<1>8. ASSUME NEW a \in Admin, NEW b \in Budgets, SetKeyBudget(a, b) PROVE Agree'
    BY <1>8 DEF SetKeyBudget, Agree
<1>9. ASSUME NEW a \in Admin, OtherWrite(a) \/ GetAllKeys(a) \/ ReloadFails(a) PROVE Agree'
  <2>1. UNCHANGED <<clock, row, held, pooled, disturbed, report>>
    BY <1>9 DEF OtherWrite, GetAllKeys, ReloadFails, Writing
  <2> QED
    BY <2>1, AgreeStands DEF OnTheWay
<1>10. ASSUME NEW a \in Admin, Load(a) PROVE Agree'
  <2> SUFFICES ASSUME ~disturbed' PROVE Agree'
    BY DEF Agree
  <2>1. held' = row' /\ report' = report
        /\ \A c \in Caller : report[c].pc = "committed" /\ ~report[c].orphan =>
                report[c].start = row.start /\ report[c].spent <= row.spent
        /\ row' = row
    BY <1>10 DEF Load
  <2> QED
    BY <1>1, <2>1, TakenOver
<1>11. ASSUME NEW a \in Admin, LeaveOut(a) PROVE Agree'
    BY <1>11 DEF LeaveOut, Agree
<1> QED
    BY <1>2, <1>3, <1>4, <1>5, <1>6, <1>7, <1>8, <1>9, <1>10, <1>11 DEF Next

(* With no report between its commit and its hold, the pool decides by the *)
(* budget and the spend of the row, in whatever order reports took the     *)
(* write lock, unless something met them halfway.                          *)
THEOREM HeldAgrees == Spec => []HeldIsTheRow
<1>1. Init => Agree
  <2> SUFFICES ASSUME Init PROVE Agree
    OBVIOUS
  <2>1. held = row /\ \A c \in Caller : report[c].pc # "committed"
    BY IdleReport DEF Init
  <2>2. row.spent \in Nat
    BY IInvInit, AgreeTypes
  <2> QED
    BY <2>1, <2>2 DEF Agree, AgreeAt, SpentAt, OnTheWay
<1>2. IInv /\ Agree => HeldIsTheRow
  <2> SUFFICES ASSUME IInv, Agree, pooled, ~disturbed,
                      \A c \in Caller : report[c].pc # "committed"
               PROVE  held.budget = row.budget /\ SpentNow(held) = SpentNow(row)
    BY DEF HeldIsTheRow
  <2> QED
    BY DEF Agree, AgreeAt, SpentAt, OnTheWay, SpentNow, Running
<1> QED
    BY <1>1, <1>2, IInvInit, IInvStep, AgreeStep, PTL DEF Spec
=============================================================================
