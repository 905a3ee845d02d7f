SPECIFICATION Spec
CONSTANTS
    AnyName = AnyName
    Fail = Fail
    Rank <- MCRank
    Worlds <- ManySchemas
    Parallelism = 2
INVARIANT EightReadsPerGroup
