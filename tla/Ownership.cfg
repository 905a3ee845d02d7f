SPECIFICATION Spec
CONSTANTS
    w1 = w1
    w2 = w2
    w3 = w3
    Workspaces <- MCWorkspaces
    Designated = w1
    Shared = shared
    MaxChanges = 2
SYMMETRY Others
INVARIANT OneRoot
PROPERTY RightAtSomeMoment
