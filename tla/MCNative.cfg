SPECIFICATION FairSpec
CONSTANTS
    Threads = {t1, t2, t3}
    NoThread = NoThread
    MayFailInit = TRUE
    MayFailTun = TRUE
INVARIANTS
    OneWorker
    StoppedMeansGone
PROPERTIES
    RunEndsOnlyIfAsked
    ImplementsEngineSpec
    ArmedStopReturns
    FiniEnds
CHECK_DEADLOCK FALSE
