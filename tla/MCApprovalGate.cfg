SPECIFICATION Spec
CONSTANTS
    a1 = a1  a2 = a2  a3 = a3
    N = 2
    Bound = {1}
    Streams = {a1, a2, a3}
    First = a1
    MaxCrashes = 1
    MaxAttempts = 2
SYMMETRY ResumerSymmetry
INVARIANTS ActsOnce ReportIsTrue PublishedIsTrue OneActionAtATime
PROPERTIES EndedStartsNothing
CHECK_DEADLOCK FALSE
