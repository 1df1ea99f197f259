SPECIFICATION BotSpec
CONSTANTS
    Chats = {c1, c2}
    Files <- MCFiles
    Names = {"ayugram", "exteragram"}
    Normal <- MCNormal
    MaxRelease = 2
SYMMETRY Symmetry
INVARIANTS
    BotTypeOK
    DeliveryIsRecent
    UploadsAreKept
    QuestionsAreLookedUp
    GroupsAreLeftInPeace
