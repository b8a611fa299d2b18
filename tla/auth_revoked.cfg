SPECIFICATION Spec
CONSTANTS
    Call = {c1, c2}
    Admin = {a1}
    Consumer = {u1}
    Tier = {t1}
    None = None
    MaxWrites = 3
INVARIANTS
    RevocationHolds
CHECK_DEADLOCK FALSE
