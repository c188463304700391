SPECIFICATION Spec
CONSTANTS
    Keys = {a, b, c, x}
    Cursors = {i, j}
    NoKey = NoKey
    Threshold = 2
    MaxVersion = 3
    MaxLeaks = 1
SYMMETRY Symmetry
CHECK_DEADLOCK FALSE
INVARIANTS
    YieldsSound
    SnapshotIsCurrent
    RegistrationSound
PROPERTIES
    StopMeansComplete
    ErrorIsEarned
