SPECIFICATION FairSpec
CONSTANTS
    AnyName = AnyName
    Fail = Fail
    Rank <- MCRank
    Worlds <- MCWorlds
    Parallelism = 2
INVARIANTS
    TypeOK
    NothingLost
    NothingHidden
    WithinLimit
PROPERTIES
    ImplementsReadContract
    ReadReturns
