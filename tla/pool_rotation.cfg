SPECIFICATION FairSpec
CONSTANTS
    k1 = k1
    k2 = k2
    k3 = k3
    f1 = f1
    f2 = f2
    t1 = t1
    t2 = t2
    Caller = {a, b}
    Key = {k1, k2, k3}
    Feature = {f1}
    Tier = {t1}
    None = None
    Pool = {k1, k2, k3}
    Rank <- RankOf
    KeyTier <- OneTier
    Offers <- AllOffers
    RateLimit <- TwoPerWindow
    RateWindow <- WindowOfTwo
    UsageLimit <- K3HasLimit
    UsageWindow <- Lifetime
    ExpiresAt <- NoLimit
    Scopes <- AdminOnly
    Untils = {}
    Horizon = 0
    MaxDraws = 7
INVARIANTS
    RotatesEvenly
PROPERTIES
    DrawAnswers
CHECK_DEADLOCK FALSE
