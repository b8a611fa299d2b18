SPECIFICATION Spec
CONSTANTS
    k1 = k1
    k2 = k2
    f1 = f1
    t1 = t1
    Caller = {c1, c2}
    Key = {k1}
    Feature = {f1}
    Tier = {t1}
    None = None
    Rank <- RankOf
    KeyTier <- OneTier
    Offers <- AllOffers
    RateLimit <- Plenty
    RateWindow <- WindowOfTwo
    UsageLimit <- TwoDraws
    UsageWindow <- OneTickWindow
    ExpiresAt <- Never
    Scopes <- AdminOnly
    Horizon = 0
    MaxDraws = 2
    MaxEvents = 3
    LostReplies = {}
    LostCopies = FALSE
    Overrun = FALSE
    MaxCalls = 4
    MaxFaults = 0
    MaxBoots = 0
SYMMETRY Symmetry
INVARIANTS
    ServesLandInTheRow
CHECK_DEADLOCK FALSE
