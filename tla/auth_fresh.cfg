SPECIFICATION FairSpec
CONSTANTS
    Call = {c1, c2}
    Admin = {a1, a2}
    Consumer = {u1}
    Tier = {t1, t2}
    None = None
    MaxWrites = 3
INVARIANTS
    TypeOK
    FreshUnlessStraddled
PROPERTIES
    RevocationLands
CHECK_DEADLOCK FALSE
