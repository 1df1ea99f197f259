SPECIFICATION Spec
CONSTANTS
    Users = {u1, u2}
    Workers = {w1, w2}
    NoUser = NoUser
SYMMETRY Symmetry
INVARIANTS
    OneLookupPerUser
    WarnedAtMostOnce
    KnownIsBadged
    ShownIsAnswered
PROPERTIES
    WarningFitsItsChat
