SPECIFICATION Spec
CONSTANTS
    AnyName = AnyName
    Fail = Fail
    Rank = Fail
    Inventories <- MCMeeting
INVARIANT ImportsMatchVariables
