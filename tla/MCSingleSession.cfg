SPECIFICATION Spec
CONSTANTS
    Models = {m1}
    Owners = {r1}
    NoOwner = NoOwner
    Guids <- Owners
    NoGuid = NoGuid
    Callers <- AllCallers
    Convergers = {v1}
    Cancellers = {c1}
    NoOne = NoOne
    NoReceipt = NoReceipt
    NoCall = NoCall
    Lease = 2
    Window = 2
    RenewEvery = 1
    TTL = 99
    MaxSkew = 0
    MaxSeq = 1
    MaxFlights = 4
    MaxTime = 5
    Horizon = 1
    MaxLost = 0
    MaxDelayed = 0
    MaxSessions = 1
    MaxCrashes = 0
    Deletes = FALSE
INVARIANTS
    ChargedNeverDead
CHECK_DEADLOCK FALSE
