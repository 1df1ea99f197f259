SPECIFICATION FairSpec
CONSTANTS
    Tasks = {t1, t2}
    MAX_RETRIES = 1
    MaxKeys = 3
    NoTask = NoTask
INVARIANTS
    IInv
    AuthOnlyForRejectedKey
    BoundedEffort
PROPERTIES
    SessionSpec
    GivesUpAfterAllRetries
    EveryCheckReturns
