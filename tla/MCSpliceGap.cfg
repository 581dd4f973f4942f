SPECIFICATION SpliceSpec
CONSTANTS
    RingSize = 3
    RcvWindow = 1
    ServerBytes = 5
    ClientBytes = 1
INVARIANT RefusedIsNotSkipped
CHECK_DEADLOCK FALSE
