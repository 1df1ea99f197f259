SPECIFICATION Spec
CONSTANTS
    Users = {u1, u2}
    Chats = {c1}
    NoUser = NoUser
    MaxTokens = 2
SYMMETRY Symmetry
INVARIANTS
    ResetTokenWasStored
