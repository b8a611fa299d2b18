SPECIFICATION FairSpec
CONSTANTS
    k1 = k1
    k2 = k2
    Key = {k1}
    Time = {t1}
    None = None
    MaxEvents = 2
    LostReplies = {}
    LostCopies = TRUE
    Overrun = FALSE
    MaxCalls = 2
    MaxFaults = 1
PROPERTIES
    EventsLand
CHECK_DEADLOCK FALSE
