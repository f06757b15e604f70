SPECIFICATION ChainSpec
CONSTANTS
    Seals = {s1, s2}
    TopHeight = 2
    JobLimit = 1
    BackwardLimit = 1
    NewsLimit = 3
    NoBlock = NoBlock
PROPERTY CompetingNeverDisplaces
