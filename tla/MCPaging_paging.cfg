SPECIFICATION Spec
CONSTANTS
    ann = ann
    bob = bob
    JobId = {1, 2}
    job = 1
    Actor = {ann}
    CueId = {1, 2}
    Found <- MCFound
    Limit = {1, 3}
    MaxPage = 2
    TimelineDefault = 2
    FindingsDefault = 2
    Any = Any
    NoWalk = NoWalk
    MaxEvents = 4
    MaxFindings = 4
CONSTRAINT OneWalk
INVARIANTS
    TypeOK
    TimelineWalkIsExact
    ChainCoversTheWalk
    NoFindingMissed
