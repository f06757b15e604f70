SPECIFICATION RecoverySpec
CONSTANTS
    N = 4
    Height = 20
    HeightModulus = 16
    MaxView = 2
    Blocks <- MCBlocks
    NoBlock = NoBlock
    First = First
    Other = Other
    Sent <- TwoHashesSent
    AntiMev = FALSE
    Helper = 1
    Lagging = 2
INVARIANT RecoveryExpands
