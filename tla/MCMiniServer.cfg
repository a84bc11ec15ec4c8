SPECIFICATION FairSpec
CONSTANTS
    Faults = {"sock", "refuse", "late", "select", "recv", "ssdp", "stopSock"}
    MaxConns = 3
    MaxStarts = 2
INVARIANTS TypeOK FinishReleasesAll ArrayHasOneOwner
PROPERTY StopEnds
CHECK_DEADLOCK FALSE
