SPECIFICATION Spec
CONSTANTS
    r1 = r1
    r2 = r2
    r3 = r3
    usd = usd
    credits = credits
    Caller = {c1, c2}
    Admin = {}
    Request = {r1, r2}
    AmountOf <- AmountsOf
    UnitOf <- UnitsOf
    Unit = {usd, credits}
    Budgets <- OnTheFirstOnly
    None = None
    Months <- ThreeMonths
    First <- MonthStarts
    ResetDays = {0, 1}
    Lifetime <- BeforeAll
    Horizon = 2
    MaxReports = 2
    MaxWrites = 0
PROPERTIES
    LateReportsLowerNothing
CHECK_DEADLOCK FALSE
