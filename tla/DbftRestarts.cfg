SPECIFICATION Spec
CONSTANTS
    N = 4
    Height = 20
    HeightModulus = 16
    MaxView = 0
    Blocks <- OneViewBlocks
    NoBlock = NoBlock
    First = First
    Other = Other
    Faulty = {0}
    AntiMev = TRUE
    MaxCrashes = 1
INVARIANTS TypeOK OnePreparedPerView SealedAfterShares
PROPERTY FinalitySpec
CHECK_DEADLOCK FALSE
