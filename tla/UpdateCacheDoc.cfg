SPECIFICATION Spec
CONSTANTS
    Runs = {r1, r2, r3}
    Installed = 1
    ValidFor = 2
    MaxClock = 2
    MaxRelease = 2
SYMMETRY Alike
INVARIANT ResultStays
