SPECIFICATION FairSpec
CONSTANTS
    k1 = k1
    k2 = k2
    Key = {k1, k2}
    Time = {t1, t2}
    None = None
    MaxEvents = 2
    LostReplies <- Mute
    LostCopies = FALSE
    Overrun = TRUE
    MaxCalls = 4
    MaxFaults = 2
INVARIANTS
    TypeOK
    NeverUndercounts
    RetriesMeetNoConflict
    NewestEventsKept
    OldestFirst
    StopsDrained
PROPERTIES
    KeepsTheLedger
    UsageLands
    EventsLand
CHECK_DEADLOCK FALSE
