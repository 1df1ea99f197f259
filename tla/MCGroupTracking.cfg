SPECIFICATION Spec
CONSTANTS
    Chats = {c1, c2}
    Users = {u1}
    MarkTTL = 2
    NoChat = NoChat
SYMMETRY Symmetry
INVARIANTS
    DedupHidesOnlyTracked
    LeaverIsInactive
PROPERTIES
    NoChatIsSkipped
    RosterSpec
