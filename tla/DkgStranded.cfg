SPECIFICATION DkgSpec
CONSTANTS
    ShareStart = 1
    RecoverStart = 3
    RecoverCheck = 4
    Target = 5
    MaxHeight = 5
    MaxFaults = 1
    RecoveryLimit = 2
    ConfirmDelay = 1
    Inputs = {0, 1}
    Unset = Unset
INVARIANT NothingStranded
CHECK_DEADLOCK FALSE
