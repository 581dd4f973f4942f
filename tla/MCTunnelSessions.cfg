SPECIFICATION FairSessionsSpec
CONSTANTS
    Sessions = {s1, s2}
    TcpSessions = {s1}
    MaxSessions = 2
INVARIANTS
    SessionsInv
PROPERTIES
    EndingEnds
    StopEndsTasks
CHECK_DEADLOCK FALSE
