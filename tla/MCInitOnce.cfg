SPECIFICATION FairSpec
CONSTANTS
    Threads = {t1, t2, t3}
    Nobody = Nobody
    MaxCalls = 2
    MaxFailures = 2
INVARIANTS
    InitTypeOK
    SuccessMeansReady
    OneInitializer
PROPERTY
    EveryCallReturns
CHECK_DEADLOCK FALSE
