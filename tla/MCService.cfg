SPECIFICATION Spec
CONSTANTS
    MaxCalls = 3
    MaxInstances = 3
    MaxCrashes = 1
    Events = {"dialog", "external", "revoke", "callback", "engineEnds", "failures"}
INVARIANTS
    DownMeansReleased
    OnIsBacked
    EngineOnOpenTun
    OneSession
    NothingLost
CHECK_DEADLOCK FALSE
