CONSTANTS
    t1 = t1  t2 = t2
    Nobody = Nobody
    Thread = {t1, t2}
    NUM_HANDLE = 3
    Bounds <- OneSubscription
    Faults = {}
SPECIFICATION FairSpec
PROPERTY InvalidHandleReturned
CHECK_DEADLOCK FALSE
