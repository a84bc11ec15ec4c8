CONSTANTS
    c1 = c1  c2 = c2
    w1 = w1  w2 = w2
    j1 = j1  j2 = j2  j3 = j3  j4 = j4
    p1 = p1  p2 = p2  p3 = p3
    NoJob = NoJob
    Owner = c1
    Client = {c1, c2}
    Worker = {w1, w2}
    Job = {j1, j2, j3, j4, p1, p2, p3}
    PersistentJob = {p1, p2, p3}
    Recycled = {}
    JobPriority <- Priorities
    Scenarios <- FullScenario
    Attrs <- NoAttrs
    Faults = {}
    MaxAge = 0
    IdModulus = 8
SPECIFICATION Spec
PROPERTY ScheduledWhenAvailable
CHECK_DEADLOCK FALSE
