SPECIFICATION Spec
CONSTANTS
    Slack = 0
    ann = ann
    bob = bob
    cyd = cyd
    f1 = f1
    f2 = f2
    CueId = {1, 2, 3}
    Cue <- TimelineCue
    NoCue = NoCue
    Text <- MCText
    RuneCount <- MCRuneCount
    Blank = {"blank"}
    Printed <- MCPrinted
    RuleSet <- MCRuleSet
    GapThreshold <- MCGapThreshold
    RoundsAbove <- MCRoundsAbove
    Actor = {ann, bob}
    Anonymous = Anonymous
    NoActor = NoActor
    FindingId = {}
    NoFinding = NoFinding
    Wording <- MCWording
    Normal <- MCNormal
    Category <- MCCategory
    NoApproval = NoApproval
    NoCredential = NoCredential
    Metadata <- TimelineMetadata
    EditBatch <- TimelineEditBatch
    Report <- RoundsReport
    MaxVersion = 5
CHECK_DEADLOCK FALSE
INVARIANT ReadingSpeedIssueIsTrue
