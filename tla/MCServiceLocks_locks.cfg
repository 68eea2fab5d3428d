SPECIFICATION Spec
CONSTANTS
    r1 = r1
    r2 = r2
    r3 = r3
    Request = {r1, r2, r3}
    Form <- MCForm
    None = None
    MaxVersion = 2
INVARIANTS
    TypeOK
    OnlyFindingsOverrideAsking
    VerifiedWheneverFound
    DetailNeverLags
PROPERTIES
    ImplementsAtomicService
    EveryRequestAnswered
