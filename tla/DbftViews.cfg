SPECIFICATION Spec
CONSTANTS
    N = 4
    Height = 20
    HeightModulus = 16
    MaxView = 1
    Blocks <- TwoBlocks
    NoBlock = NoBlock
    First = First
    Other = Other
    Faulty = {0}
    AntiMev = FALSE
    MaxCrashes = 0
INVARIANTS OneSealPerHeight Agreement
CHECK_DEADLOCK FALSE
