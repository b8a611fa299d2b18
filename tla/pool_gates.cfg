SPECIFICATION Spec
CONSTANTS
    k1 = k1
    k2 = k2
    k3 = k3
    f1 = f1
    f2 = f2
    t1 = t1
    t2 = t2
    Caller = {a, b}
    Key = {k1, k2}
    Feature = {f1, f2}
    Tier = {t1, t2}
    None = None
    Pool = {k1, k2}
    Rank <- RankOf
    KeyTier <- TwoTiers
    Offers <- K2OffersBoth
    RateLimit <- OnePerWindow
    RateWindow <- WindowOfTwo
    UsageLimit <- GateLimits
    UsageWindow <- GateWindows
    ExpiresAt <- K2Expires
    Scopes <- AdminOnly
    Untils = {2}
    Horizon = 2
    MaxDraws = 3
SYMMETRY Symmetry
INVARIANTS
    TypeOK
    RateHolds
    UsageHolds
    DrawsOnlyUnbenched
    SkipsOnlyClosedKeys
CHECK_DEADLOCK FALSE
