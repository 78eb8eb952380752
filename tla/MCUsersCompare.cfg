SPECIFICATION UsersCompareSpec
CONSTANTS
    Users = {u1, u2}
    Calls = {q1, q2}
    Replicas = {p1, p2}
    Capabilities = {c}
    Effects = {"deny"}
    NoUser = NoUser
    MaxChanges = 3
    Models = {q1, q2}
    Owners = {r1}
    NoOwner = NoOwner
    Guids <- Models
    NoGuid = NoGuid
    NoReceipt = NoReceipt
    Lease = 2
    Window = 1
    MaxSeq = 2
    MaxTime = 4
    MaxLost = 1
SYMMETRY Symmetry
INVARIANTS OneRoot PolicyStands ErasedMeansErased ToldAgree ModelsToldTruly CancelHolds
PROPERTIES NoLostUpdate ComparePromise
CHECK_DEADLOCK FALSE
