SPECIFICATION LiveSpec
CONSTANTS
    Models = {m1}
    Owners = {r1}
    NoOwner = NoOwner
    Guids <- Owners
    NoGuid = NoGuid
    Callers <- AllCallers
    Convergers = {v1}
    Cancellers = {c1}
    NoOne = NoOne
    NoReceipt = NoReceipt
    NoCall = NoCall
    Lease = 1
    Window = 1
    RenewEvery = 1
    TTL = 99
    MaxSkew = 0
    MaxSeq = 1
    MaxFlights = 4
    MaxTime = 3
    Horizon = 1
    MaxLost = 0
    MaxDelayed = 0
    MaxSessions = 0
    MaxCrashes = 1
    Deletes = FALSE
    g1 = g1
    g2 = g2
    g3 = g3
    k1 = k1
    k2 = k2
    Runs <- ThreeRuns
    Keys <- TwoKeys
    KeyOf <- SameTwice
    NoRun = NoRun
    Requests = {q1}
    KeysIn <- SparseBuckets
    MaxKeys = 2
INVARIANTS DrainSound ToldOnce
PROPERTIES EveryRecordSettles ShutdownReachesAll EveryRecordReached
CHECK_DEADLOCK FALSE
