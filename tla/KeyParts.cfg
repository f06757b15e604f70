SPECIFICATION PartsSpec
CONSTANTS
    Duties = {d1, d2}
    Payloads = {p1, p2}
    NoPayload = NoPayload
    Cuts = {}
    Stops = {{"kill"}, {"power"}}
    MaxRecords = 4
    ShareStart = 1
    RecoverStart = 3
    RecoverCheck = 4
    Target = 5
    MaxHeight = 5
    MaxFaults = 1
    RecoveryLimit = 2
    ConfirmDelay = 1
    Inputs = {0, 1}
    Unset = Unset
    Senders = {1}
    MaxRound = 2
    MaxBlocks = 5
    MaxForks = 1
    MaxTroubles = 1
    KeepsMessages = TRUE
    NoKeys = NoKeys
INVARIANTS KeyStateOK NoConflictingSignature PoolFitsHead SignerFitsHead ReplayExact
PROPERTIES SafeSignerSpec NotSentAgain 
CHECK_DEADLOCK FALSE
