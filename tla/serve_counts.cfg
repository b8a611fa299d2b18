SPECIFICATION FairSpec
CONSTANTS
    k1 = k1
    k2 = k2
    f1 = f1
    t1 = t1
    Caller = {c1, c2}
    Key = {k1, k2}
    Feature = {f1}
    Tier = {t1}
    None = None
    Rank <- RankOf
    KeyTier <- OneTier
    Offers <- AllOffers
    RateLimit <- Plenty
    RateWindow <- WindowOfTwo
    UsageLimit <- OneForLife
    UsageWindow <- LifeAndWindow
    ExpiresAt <- Never
    Scopes <- AdminOnly
    Horizon = 1
    MaxDraws = 2
    MaxEvents = 1
    LostReplies = {}
    LostCopies = FALSE
    Overrun = TRUE
    MaxCalls = 4
    MaxFaults = 1
    MaxBoots = 1
INVARIANTS
    TypeOK
    GateIsAccountedFor
    LimitOutlivesCrashes
    StopForgetsNothing
    WindowsReachTheQueue
PROPERTIES
    CountsReachTheRow
CHECK_DEADLOCK FALSE
