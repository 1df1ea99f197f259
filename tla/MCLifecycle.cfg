SPECIFICATION FairSpec
CONSTANTS
    Requests = {r1, r2}
    Users = {u1, u2}
    MaxKeys = 2
INVARIANTS
    TypeOK
    StablePseudonyms
    SchemaIsComplete
    DrainedServerLosesNothing
PROPERTIES
    PepperIsKept
    SignalEndsTheProcess
