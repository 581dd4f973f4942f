SPECIFICATION FairSpec
CONSTANTS
    Threads = {t1}
    NoThread = NoThread
    MayFailInit = TRUE
    MayFailTun = FALSE
PROPERTIES
    EveryRunEndsOnlyIfAsked
CHECK_DEADLOCK FALSE
