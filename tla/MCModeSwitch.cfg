SPECIFICATION Spec
CONSTANTS
    r1 = r1  r2 = r2  s1 = s1  s2 = s2  w1 = w1  w2 = w2  p1 = p1  p2 = p2
    Nobody = Nobody  NoRun = NoRun
    Runs = {r1}
    Sessions = {s1}
    SessionOf <- OneSession
    RuntimeOf <- AllHarness
    Workers = {w1, w2}
    Streams = {p1, p2}
    Outcomes = {"COMPLETED", "FAILED"}
    MaxRecoveries = 1
    InitialMode = "worker"
    MaxSwitches = 2
    MaxToken = 3
    MaxCheckpoints = 2
    Rollback = FALSE
SYMMETRY ProcSymmetry
INVARIANTS OneActivePermit PausedIsRecoverable
PROPERTIES DbSpec RefinesOwnership FencedForever
