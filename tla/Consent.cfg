SPECIFICATION Spec
CONSTANTS
    Runs = {r1, r2}
    Savers = {s1, s2}
SYMMETRY Alike
INVARIANTS
    TypeOK
    EventAfterNotice
    OptOutHolds
PROPERTIES
    LateOptOutIsObeyed
    PreferenceSurvives
