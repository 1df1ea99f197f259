SPECIFICATION FairSpec
CONSTANTS
    Users = {u1}
    Workers = {w1}
    NoUser = NoUser
PROPERTIES
    WarnedInTheEnd
