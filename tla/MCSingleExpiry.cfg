SPECIFICATION Spec
CONSTANTS
    Models = {m1}
    Owners = {r1, r2}
    NoOwner = NoOwner
    Guids <- Owners
    NoGuid = NoGuid
    Callers <- AllCallers
    Convergers = {v1}
    Cancellers = {}
    NoOne = NoOne
    NoReceipt = NoReceipt
    NoCall = NoCall
    Lease = 2
    Window = 1
    RenewEvery = 9
    TTL = 2
    MaxSkew = 0
    MaxSeq = 1
    MaxFlights = 4
    MaxTime = 4
    Horizon = 2
    MaxLost = 0
    MaxDelayed = 0
    MaxSessions = 0
    MaxCrashes = 0
    Deletes = FALSE
INVARIANTS
    ChargedNeverDead
CHECK_DEADLOCK FALSE
