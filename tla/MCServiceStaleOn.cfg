SPECIFICATION Spec
CONSTANTS
    MaxCalls = 2
    MaxInstances = 2
    MaxCrashes = 0
    Events = {"callback", "late"}
INVARIANTS
    OnIsBacked
CHECK_DEADLOCK FALSE
