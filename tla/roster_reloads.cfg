SPECIFICATION Spec
CONSTANTS
    t1 = t1
    Admin = {a1, a2}
    Reporter = {r1, r2}
    Key = {k1, k2}
    Tier = {t1}
    Feature = {f1, f2}
    Secret = {s1, s2}
    None = None
    TierOf <- OneTier
    SecretsOf <- BothSecrets
    Opens = {s1}
    Untils = {1, 2}
    MaxWrites = 4
    MaxReports = 2
    MaxServes = 1
    MaxFaults = 1
SYMMETRY Symmetry
INVARIANTS
    TypeOK
    FreshReloadIsTheTables
    NoKeyIsTorn
    ReloadsKeepCounts
    BenchIsTheRow
CHECK_DEADLOCK FALSE
