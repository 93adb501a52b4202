SPECIFICATION FairSpec
CONSTANTS
    r1 = r1  r2 = r2  s1 = s1  s2 = s2  w1 = w1  w2 = w2  p1 = p1  p2 = p2
    Nobody = Nobody  NoRun = NoRun
    Runs = {r1, r2}
    Sessions = {s1}
    SessionOf <- OneSession
    RuntimeOf <- OneOfEach
    Workers = {w1}
    Streams = {p1}
    Outcomes = {"COMPLETED", "FAILED"}
    MaxRecoveries = 1
    InitialMode = "worker"
    MaxSwitches = 0
    MaxToken = 3
    MaxCheckpoints = 1
    Rollback = TRUE
INVARIANTS OneLiveRunPerSession ClosedTogether
PROPERTIES RunSettles TerminalIsFinal
