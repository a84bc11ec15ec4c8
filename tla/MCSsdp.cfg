CONSTANTS
    t1 = t1  t2 = t2
    Thread = {t1, t2}
    Worker = {t2}
    NUM_HANDLE = 3
    Family = {"V4", "V6"}
    Faults = {"schedule", "pool"}
    MaxRegs = 3
    MaxWork = 3
    MaxTotal = 4
SPECIFICATION FairSpec
INVARIANTS TypeOK AdvertisementKept SearchToldOnce MessageReachesAll FinishCleansUp
PROPERTY FinishEnds
