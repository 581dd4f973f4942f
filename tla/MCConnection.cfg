SPECIFICATION MCSpec
CONSTANTS
    Threads = {t1, t2, t3}
    MayFailInit = TRUE
    MayFailTun = TRUE
    RingSize = 3
    RcvWindow = 2
    ServerBytes = 4
    ClientBytes = 2
    PoolSize = 2
    Batch = 2
    ClientDatagrams = 5
    SocketRoom = 2
    Users = {"secret", "guess"}
    Secret = "secret"
    NoUser = "nobody"
    Dests = {"d1", "d2"}
    Bound = "bound"
    Payload <- MCPayload
    Tasks = {"a", "b", "c"}
    Nobody = "none"
    Priority <- MCPriority
    MaxRuntime = 1
    Servers = {"v"}
    MaxDatagrams = 3
    NoAddress = "none"
    Hellos <- MCHellos
    Capacity = 9
    NoName = 0
INVARIANTS
    WritesAreSafe
    SpliceInv
    StreamIsWhole
    UdpInv
    SplicedAsAsked
    SchedulerInv
    UdpaInv
    HelloInv
PROPERTIES
    FullRingIsRead
    SessionEnds
    HandshakeSettles
    NobodyStarves
    ControlEndsAssociation
    HelloIsRead
CHECK_DEADLOCK TRUE
