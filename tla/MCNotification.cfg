SPECIFICATION FairSpec
CONSTANTS
    e1 = e1  e2 = e2  w1 = w1  w2 = w2
    NoWorker = NoWorker  NoEvent = NoEvent
    Events = {e1}
    Notifications = {e1}
    KindOf <- OneNotification
    Deliverers = {w1, w2}
    MaxAttempts <- TwoAttempts
    BatchSize = 1
    MaxReplays = 1
    Rollback = FALSE
INVARIANTS SentOnce ReceiptsAreTrue ConsumedIsSettled
PROPERTIES ProjectionsAdvance EventsSettle
