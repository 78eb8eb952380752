SPECIFICATION PublicSpec
CONSTANTS
    Listed = {m1, m2}
    MaxPrice = 1
    Bodies = {"plain"}
    News = {n1}
    Questions = {f1}
    Posts = {q1}
    p1 = p1
    Monitors = {p1}
    NoAuthor = None
    StrikeLimit = 2
    MaxSnapshots = 2
    Budgets <- MCBudgets
PROPERTY DraftsStayDrafts
CHECK_DEADLOCK FALSE
