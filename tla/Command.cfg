SPECIFICATION FairSpec
CONSTANT Options <- MCOptions
INVARIANTS
    TypeOK
    ExitZeroIsUsable
    BlockedWritesNothing
    EventTellsTheOutcome
    JsonStderr
PROPERTY CommandExits
