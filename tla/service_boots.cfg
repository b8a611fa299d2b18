SPECIFICATION FairSpec
CONSTANTS
    p1 = p1
    p2 = p2
    f1 = f1
    f2 = f2
    Process = {p1, p2}
    File = {f1, f2}
    VersionOf <- Versions
    Shipped <- OldAndNew
    Key = {k1}
    None = None
    MaxReports = 1
    MaxFaults = 1
INVARIANTS
    TypeOK
    SchemaGrowsInOrder
    ServesMigrated
PROPERTIES
    StopKeepsBenches
    SpentIsBenched
CHECK_DEADLOCK FALSE
