SPECIFICATION FairSpec
CONSTANTS
    c1 = c1
    c2 = c2
    t1 = t1
    w1 = w1
    Candidates = {c1}
    Exact = {}
    Tasks = {t1}
    Workers = {w1}
    MaxAttempts = 2
    MaxBatches = 2
    MaxCalls = 2
    LegacyReview = TRUE
    Rollback = TRUE
INVARIANTS CancelledHasNoOpenBatch
PROPERTIES EndedStands BatchOutcomeStands BatchesSettle
CHECK_DEADLOCK FALSE
