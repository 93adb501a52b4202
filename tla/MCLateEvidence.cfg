SPECIFICATION Spec
CONSTANTS
    a1 = a1  p1 = p1  p2 = p2  c1 = c1  c2 = c2  d1 = d1  d2 = d2
    Assessments = {a1}
    Payloads = {p1, p2}
    Collectors = {c1, c2}
    Consumers = {d1}
    MaxFence = 2
    MaxAttempts = 2
INVARIANTS CompensatedIsGone
CHECK_DEADLOCK FALSE
