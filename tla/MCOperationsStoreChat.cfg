SPECIFICATION OperationsStoreChatSpec
CONSTANTS
    Sessions = {s1}
    Keys = {k1, k2}
    Tickets = {t1, t2}
    Clients = {c1, c2}
    None = None
    Actions = {"delete", "role"}
    ExecutionLease = 1
    Grace = 0
    TicketTTL = 2
    Retention = 1
    MaxClock = 2
    MaxVersion = 2
    Models = {m1, m2}
    Owners = {o1}
    NoOwner = NoOwner
    Guids = {t1, t2}
    NoGuid = NoGuid
    Callers = {x1}
    Lease = 1
    Window = 1
    TTL = 1
    MaxSkew = 0
    MaxSeq = 1
    MaxFlights = 2
    MaxTime = 2
    Chats = {x2}
    Orders = {x3}
    ChatModels = {m1, m2}
    NoChat = NoChat
    DailyLimit = 2
    MaxDay = 1
    MaxUsed = 3
    MaxAuth = 3
SYMMETRY Symmetry
INVARIANTS SettledTogether AnswersHold UnknownIsFindable WellFormed ToldAsStored
PROPERTIES NeverReopened Lifecycle LeaseHistory ModelHistory
CHECK_DEADLOCK FALSE
