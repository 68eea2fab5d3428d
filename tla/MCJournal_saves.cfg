SPECIFICATION Spec
CONSTANTS
    j1 = j1
    j2 = j2
    k1 = k1
    k2 = k2
    d1 = d1
    d2 = d2
    JobId = {j1, j2}
    Key = {k1, k2}
    NoKey = NoKey
    Data = {d1, d2}
    Actor = {"ann"}
    Torn = Torn
    NoSave = NoSave
    MaxEvents = 3
SYMMETRY Symmetry
INVARIANTS
    ChainVerifies
    SavesAreWhole
    MemoryIsFile
PROPERTIES
    ImplementsAtomicStore
