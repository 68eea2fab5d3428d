SPECIFICATION Spec
CONSTANTS
    j1 = j1
    j2 = j2
    k1 = k1
    k2 = k2
    JobId = {j1}
    Key <- MCKey
    NoKey = NoKey
    Form <- WorkingForm
    Asks <- AsksInTurn
    Cues = {"a", "b", "c"}
    Ahead = 0
    InitialStore <- WorkingStore
    MaxCalls = 4
CHECK_DEADLOCK FALSE
INVARIANTS
    SameRequestSameAnswer
    CredentialVerifies
    OnlyTheCredentialVerifies
PROPERTIES
    NoUnprovenRework
    PatchKeepsOtherFields
    IssueReplays
