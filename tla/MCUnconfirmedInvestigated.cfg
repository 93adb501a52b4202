SPECIFICATION Spec
CONSTANTS
    c1 = c1
    c2 = c2
    t1 = t1
    w1 = w1
    Candidates = {c1, c2}
    Exact = {c1}
    Tasks = {t1}
    Workers = {w1}
    MaxAttempts = 3
    MaxBatches = 2
    MaxCalls = 2
    LegacyReview = FALSE
    Rollback = FALSE
PROPERTIES OnlyConfirmedInvestigated
CHECK_DEADLOCK FALSE
