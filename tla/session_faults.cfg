SPECIFICATION Spec
CONSTANTS
    acc = acc
    w1 = w1
    w2 = w2
    u1 = u1
    g1 = g1
    Acceptor = acc
    MaxSession = 1
    Workers <- OneWorker
    Users <- OneUser
    UdpThreads = {}
    Calls <- FaultCalls
    Faults = {"tableFull", "firstRecvFails", "postFails"}
    MaxPacket = 1
    MaxAlloc = 2
    MaxQueue = 1
    MaxPost = 1
    MaxJobs = 0
    MaxLeak = 1
CHECK_DEADLOCK FALSE
INVARIANTS TypeOK RefAccounting
