SPECIFICATION FairSpec
CONSTANTS
    Threads = {t1}
    NoThread = NoThread
    MayFailInit = FALSE
    MayFailTun = FALSE
PROPERTIES
    StopReturns
CHECK_DEADLOCK FALSE
