SPECIFICATION FairSpec
CONSTANTS
    c1 = c1
    c2 = c2
    Conns <- MCConns
    Asks <- MCAsks
INVARIANTS
    RelayInv
    RelayedIsReleased
PROPERTIES
    OneEndsBothEnd
    CloseEndsThreads
CHECK_DEADLOCK FALSE
