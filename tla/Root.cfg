SPECIFICATION RootSpec
CONSTANTS
    AnyName = AnyName
    Fail = Fail
    Rank = Fail
    Inventories <- MCInventories
    Releases <- MCReleases
    Registries <- MCRegistries
INVARIANTS
    RootTypeOK
    ImportsMatchVariables
    ScopesPartition
    CompleteMeansWhole
    ImportsOnly
    RootIsRunnable
    AccessIsWhole
