SPECIFICATION PartsSpec
CONSTANTS
    MaxNumber = 1
    MaxView = 1
    Variants = {0, 1}
    N = 2
    Local = 1
    MaxNotes = 1
    MaxTokens = 2
    Nil = Nil
    Proposals = {1, 2}
    Committee = {1, 2, 3, 4}
    ShareQuorum = 2
    Self = 1
    Sound = {1, 2}
    Long = {4}
    MaxRetries = 2
    MaxFailures = 2
    MaxHead = 2
    Branches = {0, 1}
    Batch = 2
    Attempts = 2
    Interval = 2
    MaxCrashes = 1
    Nothing = Nothing
    Heights = {1, 2, 3}
    CachedKinds = {Preparation, Commit}
    Senders = {a, b}
    Sizes = {1, 3}
    MaxHeights = 2
    MaxBytes = 5
INVARIANTS NodeStateOK RoundOnStatus ImportsFinalOnce NothingLeftToImport DifficultyExact
PROPERTIES EvictsFromTop RoundKept StaysWatched WaitedOut HeadAdopted PrimaryRetries
PROPERTIES SharesSuffice HeadAdvertised
CHECK_DEADLOCK FALSE
