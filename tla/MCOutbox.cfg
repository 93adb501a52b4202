SPECIFICATION Spec
CONSTANTS
    e1 = e1  e2 = e2  w1 = w1  w2 = w2
    NoWorker = NoWorker  NoEvent = NoEvent
    Events = {e1, e2}
    Notifications = {}
    KindOf <- ActionAndDisplay
    Deliverers = {w1, w2}
    MaxAttempts <- MoreForActions
    BatchSize = 2
    MaxReplays = 1
    Rollback = TRUE
SYMMETRY WorkerSymmetry
INVARIANTS PublishedWasConsumed
PROPERTIES HistoryStands
