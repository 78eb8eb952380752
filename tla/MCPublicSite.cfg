SPECIFICATION SiteSpec
CONSTANTS
    Listed = {m1, m2}
    MaxPrice = 1
    Bodies = {"plain", "html"}
    News = {n1}
    Questions = {f1}
    Posts = {q1}
    p1 = p1
    p2 = p2
    Monitors = {p1, p2}
    NoAuthor = None
    StrikeLimit = 2
    MaxSnapshots = 3
    Budgets <- MCBudgets
    Workers = {m1, m2}
    LeaseTime = 2
    RetryDelay = 1
    MaxAttempts = 2
    Lag = 1
    MaxGeneration = 2
    MaxDate = 3
    MaxCycles = 2
    MaxDue = 1
SYMMETRY Symmetry
INVARIANTS AsReviewed PublishedOnce PairStands AckedStays HealthyIsServed
PROPERTY StrikesEarned
CHECK_DEADLOCK FALSE
