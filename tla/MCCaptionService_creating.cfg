SPECIFICATION Spec
CONSTANTS
    j1 = j1
    j2 = j2
    k1 = k1
    k2 = k2
    JobId = {j1, j2}
    Key <- MCKey
    NoKey = NoKey
    Form <- CreatingForm
    Asks <- Always
    Cues = {"a", "b", "c"}
    Ahead = 0
    InitialStore <- EmptyStore
    MaxCalls = 4
SYMMETRY Symmetry
CHECK_DEADLOCK FALSE
INVARIANTS
    KeyUsedOnce
    TypeOK
