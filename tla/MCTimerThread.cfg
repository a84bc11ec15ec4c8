CONSTANTS
    c1 = c1  c2 = c2  j1 = j1  j2 = j2  p1 = p1
    worker = worker
    Client = {c1, c2}
    Job = {j1, j2, p1}
    PersistentJob = {p1}
    TimerUser = {j1}
    Owner = c1
    WorkerId = worker
    Timeouts = {0, 1}
    PoolThreads = 2
    Faults = {"event", "node", "pool"}
    MaxTime = 2
    MaxEvents = 3
SPECIFICATION FairSpec
INVARIANTS TypeOK ArgumentConserved NoMissedEvent IdNamesItsEvent
PROPERTIES EventLeaves ShutdownReturns
CHECK_DEADLOCK FALSE
