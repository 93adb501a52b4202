SPECIFICATION FairSpec
CONSTANTS
    None = None
    Requests <- ThreeRequests
    Kinds = {"supported", "synthetic", "unfounded", "empty", "failed"}
    MaxToolCalls = 3
    MaxParallel = 2
    MaxRounds = 1
    MaxCrashes = 2
    MaxLag = 2
INVARIANTS TypeOK BudgetHolds AnswerUsesResults CompletedIsCovered ExitReasonIsTrue
PROPERTIES AnsweredIsNotRepeated RunEnds
CHECK_DEADLOCK FALSE
