SPECIFICATION ChatSpec
CONSTANTS
    Chats = {x1, x2}
    Orders = {o1}
    ChatModels = {m1, m2}
    NoChat = NoChat
    DailyLimit = 2
    MaxDay = 1
    MaxUsed = 3
    MaxAuth = 3
PROPERTIES DeletionIsFinal
CHECK_DEADLOCK FALSE
