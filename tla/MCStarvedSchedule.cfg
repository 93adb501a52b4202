SPECIFICATION FairSpec
CONSTANTS
    a = a
    b = b
    c = c
    d1 = d1
    w1 = w1
    w2 = w2
    Schedules = {a, b}
    Malformed = {}
    Schedulers = {d1}
    Workers = {}
    BatchSize = 1
    MaxAttempts = 2
    DailyLimit = 1
    MaxRevision = 2
    MaxPeriod = 1
    MaxDisturbances = 0
PROPERTIES PeriodsAreEnqueued
CHECK_DEADLOCK FALSE
