SPECIFICATION PartsSpec
CONSTANTS
    Duties = {d1, d2}
    Payloads = {p1, p2}
    NoPayload = NoPayload
    Cuts = {"part", "bare"}
    Stops = {{"power"}}
    MaxRecords = 4
    WireMessages <- MCWireMessages
    Committees <- MCCommittees
    MaxHeight = 2
    Streams = {c1, c2}
    PeerOf <- MCPeerOf
    DataSlots = 2
    ControlSlots = 4
    Lifecycle = 3
    CacheSize = 2
    CacheBytes = 3
    SenderSize = 1
    Absent = Absent
    s1 = s1
    s2 = s2
    c1 = c1
    c2 = c2
    peer = peer
    N = 4
    Height = 20
    HeightModulus = 16
    MaxView = 2
    Blocks <- MCBlocks
    NoBlock = NoBlock
    First = First
    Other = Other
    Sent <- TwoViewsSent
    AntiMev = FALSE
    Helper = 1
    Lagging = 2
INVARIANTS MessageStateOK SignedIsDurable CachedIsDelivered PermitsLast ViewJustified RecoveryComplete
