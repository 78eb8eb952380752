SPECIFICATION UserSpec
CONSTANTS
    Users = {u1, u2, u3}
    Calls = {q1, q2}
    Replicas = {p1, p2}
    Capabilities = {c}
    Effects = {"deny"}
    NoUser = NoUser
    MaxChanges = 2
SYMMETRY Symmetry
INVARIANT AuthorityAgrees
CHECK_DEADLOCK FALSE
