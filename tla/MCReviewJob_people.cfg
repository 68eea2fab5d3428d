SPECIFICATION Spec
CONSTANTS
    Slack = 0
    ann = ann
    bob = bob
    cyd = cyd
    f1 = f1
    f2 = f2
    CueId = {1}
    Cue <- PeopleCue
    NoCue = NoCue
    Text <- MCText
    RuneCount <- MCRuneCount
    Blank = {"blank"}
    Printed <- MCPrinted
    RuleSet <- MCRuleSet
    GapThreshold <- MCGapThreshold
    RoundsAbove <- MCRoundsAbove
    Actor = {ann, bob, cyd, Anonymous}
    Anonymous = Anonymous
    NoActor = NoActor
    FindingId = {f1, f2}
    NoFinding = NoFinding
    Wording <- MCWording
    Normal <- MCNormal
    Category <- MCCategory
    NoApproval = NoApproval
    NoCredential = NoCredential
    Metadata <- RoundsMetadata
    EditBatch <- PeopleEditBatch
    Report <- PeopleReport
    MaxVersion = 9
SYMMETRY Symmetry
CHECK_DEADLOCK FALSE
INVARIANTS
    DutySeparation
    NoOpenBlockingPastReview
    CredentialAttestsReviewedCandidate
    SummaryMatchesConclusions
