CONSTANTS
    t1 = t1  t2 = t2
    Nobody = Nobody
    Thread = {t1, t2}
    NUM_HANDLE = 3
    Bounds <- SmallBounds
    Faults = {"schedule", "pool"}
SPECIFICATION FairSpec
INVARIANTS TypeOK RenewalUnderWay InitialEventKept NoSilentLoss
PROPERTY CallReturns
CHECK_DEADLOCK FALSE
