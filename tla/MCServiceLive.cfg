SPECIFICATION FairSpec
CONSTANTS
    MaxCalls = 4
    MaxInstances = 3
    MaxCrashes = 1
    Events = {"callback", "late", "engineEnds", "failures"}
INVARIANT DownMeansReleased
PROPERTIES
    StartingResolves
CHECK_DEADLOCK FALSE
