SPECIFICATION ServiceSpec
CONSTANTS
    Users = {u1, u2}
    Chats = {c1, c2}
    NoUser = NoUser
    MaxTokens = 3
    Clients = {p1}
SYMMETRY Symmetry
INVARIANTS
    TokenDecides
