SPECIFICATION Spec
CONSTANTS
    j1 = j1
    j2 = j2
    k1 = k1
    k2 = k2
    JobId = {j1}
    Key <- MCKey
    NoKey = NoKey
    Form <- DraftingForm
    Asks <- Always
    Cues = {"a", "b", "c"}
    Ahead = 0
    InitialStore <- DraftingStore
    MaxCalls = 4
CHECK_DEADLOCK FALSE
PROPERTIES
    ImportReplays
