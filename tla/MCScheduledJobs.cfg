SPECIFICATION FairSpec
CONSTANTS
    a = a
    b = b
    c = c
    d1 = d1
    w1 = w1
    w2 = w2
    Schedules = {a, b}
    Malformed = {b}
    Schedulers = {d1}
    Workers = {w1, w2}
    BatchSize = 1
    MaxAttempts = 2
    DailyLimit = 1
    MaxRevision = 1
    MaxPeriod = 1
    MaxDisturbances = 1
INVARIANTS PaidOnce OutcomeIsTrue
PROPERTIES OutcomeStands JobsSettle PeriodsAreEnqueued
CHECK_DEADLOCK FALSE
