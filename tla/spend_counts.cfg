SPECIFICATION Spec
CONSTANTS
    r1 = r1
    r2 = r2
    r3 = r3
    usd = usd
    credits = credits
    Caller = {c1, c2}
    Admin = {a1}
    Request = {r1, r2, r3}
    AmountOf <- AmountsOf
    UnitOf <- UnitsOf
    Unit = {usd, credits}
    Budgets <- AnyBudget
    None = None
    Months <- ThreeMonths
    First <- MonthStarts
    ResetDays = {0, 1}
    Lifetime <- BeforeAll
    Horizon = 2
    MaxReports = 3
    MaxWrites = 2
SYMMETRY Symmetry
INVARIANTS
    TypeOK
    CountedOnce
    UnitsKeptApart
    HeldIsTheRow
    ResetsAreKept
CHECK_DEADLOCK FALSE
