SPECIFICATION FairSpec
CONSTANTS
    Callers = {c1, c2, c3}
    Ids = {i1}
    TTL = 2
    NoCaller = NoCaller
    NoId = NoId
INVARIANTS
    SingleFlight
    LeaderWorksOnAMiss
    PositiveIsPersisted
    NoRetraction
PROPERTIES
    RegistrySpec
    EveryCallReturns
    NoPermanentFalseNegative
