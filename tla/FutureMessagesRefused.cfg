SPECIFICATION FutureSpec
CONSTANTS
    Heights = {1, 2, 3}
    CachedKinds = {Preparation, Commit}
    Senders = {a, b}
    Sizes = {1, 3}
    MaxHeights = 2
    MaxBytes = 5
PROPERTY RefusedAtTop
