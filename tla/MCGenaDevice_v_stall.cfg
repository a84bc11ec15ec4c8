CONSTANTS
    s1 = s1  s2 = s2
    Sid = {s1, s2}
    Timeouts <- FiniteOrNot
    MaxSubscriptionTimeOut <- NoLimit
    EQMaxLen = 1
    EQMaxAge = 0
    KeyMax = 1
    MaxEvents = 5
    Scenarios <- RefusingOne
SPECIFICATION Spec
INVARIANTS EveryHeadOnTheWay
CHECK_DEADLOCK FALSE
