SPECIFICATION Spec
CONSTANTS
    Slack = 0
    ann = ann
    bob = bob
    cyd = cyd
    f1 = f1
    f2 = f2
    CueId = {1}
    Cue <- RoundsCue
    NoCue = NoCue
    Text <- MCText
    RuneCount <- MCRuneCount
    Blank = {"blank"}
    Printed <- MCPrinted
    RuleSet <- MCRuleSet
    GapThreshold <- MCGapThreshold
    RoundsAbove <- MCRoundsAbove
    Actor = {ann, bob, cyd}
    Anonymous = Anonymous
    NoActor = NoActor
    FindingId = {f1, f2}
    NoFinding = NoFinding
    Wording <- MCWording
    Normal <- MCNormal
    Category <- MCCategory
    NoApproval = NoApproval
    NoCredential = NoCredential
    Metadata <- RoundsMetadata
    EditBatch <- RoundsEditBatch
    Report <- RoundsReport
    MaxVersion = 12
CONSTRAINT Pace
SYMMETRY Symmetry
CHECK_DEADLOCK FALSE
INVARIANTS
    TypeOK
    SingleRework
    FrozenCandidate
    OneConclusionPerRound
    HistoryLinks
    ProofsInOrder
PROPERTIES
    SnapshotsImmutable
    ImplementsLifecycle
