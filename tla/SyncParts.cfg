SPECIFICATION PartsSpec
CONSTANTS
    Peers = {p1, p2, p3}
    Helpful = {p1}
    Txs = {t1, t2}
    Views = {0, 1, 2}
    Ids = {1, 2}
    None = None
    Sources = {p1, p2}
    Targets <- MCTargets
    NoTarget = NoTarget
    Heads = {1, 2}
    MaxRequests = 3
    Blocks = {h1, h2}
    BeaconPeers = {p1, p2}
    Holders = {p1}
    BatchLimit = 2
    RetryLimit = 1
    Nobody = Nobody
    Seals = {s1, s2}
    TopHeight = 2
    JobLimit = 1
    BackwardLimit = 1
    NewsLimit = 3
    NoBlock = NoBlock
    h1 = h1
    h2 = h2
INVARIANTS SyncStateOK CorrelationExact QueueMirrorsClaims
PROPERTIES HeadOnlyRises FetchEnds EveryClaimServed FetchedInTheEnd
