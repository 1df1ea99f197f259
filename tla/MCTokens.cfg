SPECIFICATION FairSpec
CONSTANTS
    Users = {u1, u2}
    Chats = {c1, c2}
    NoUser = NoUser
    MaxTokens = 2
INVARIANTS
    DeliveredTokenWasStored
PROPERTIES
    OnlyOwnResetRevokes
    ValidTokenIsSent
