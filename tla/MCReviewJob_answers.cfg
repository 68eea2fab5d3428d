SPECIFICATION Spec
CONSTANTS
    Slack = 2
    ann = ann
    bob = bob
    cyd = cyd
    f1 = f1
    f2 = f2
    CueId = {1, 2}
    Cue <- AnswersCue
    NoCue = NoCue
    Text <- MCText
    RuneCount <- MCRuneCount
    Blank = {"blank"}
    Printed <- MCPrinted
    RuleSet <- MCRuleSet
    GapThreshold <- MCGapThreshold
    RoundsAbove <- MCRoundsAbove
    Actor = {ann, bob}
    Anonymous = Anonymous
    NoActor = NoActor
    FindingId = {f1, f2}
    NoFinding = NoFinding
    Wording <- MCWording
    Normal <- MCNormal
    Category <- MCCategory
    NoApproval = NoApproval
    NoCredential = NoCredential
    Metadata <- RoundsMetadata
    EditBatch <- AnswersEditBatch
    Report <- AnswersReport
    MaxVersion = 9
CONSTRAINT Pace
SYMMETRY Symmetry
CHECK_DEADLOCK FALSE
INVARIANTS
    AnswersAreInCandidate
    AnswersShowInDiff
