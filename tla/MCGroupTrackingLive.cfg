SPECIFICATION FairSpec
CONSTANTS
    Chats = {c1}
    Users = {u1}
    MarkTTL = 2
    NoChat = NoChat
PROPERTIES
    MemberIsTrackedInTheEnd
    AbandonedChatIsLeftAlone
