SPECIFICATION FairSpec
CONSTANTS
    Outsider = Outsider
    Nobody = Nobody
    export = export
    scaffold = scaffold
    again = again
    Run = {export, scaffold, again}
    File = {1, 2, 3, 4}
    Names <- MCNames
INVARIANTS
    TypeOK
    SuccessIsComplete
    HalfWrittenIsExplained
    SomeRunSucceeds
PROPERTIES
    ImplementsClaims
    EveryRunEnds
