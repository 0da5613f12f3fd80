SPECIFICATION Spec
CONSTANTS
    acc = acc
    w1 = w1
    w2 = w2
    u1 = u1
    g1 = g1
    Acceptor = acc
    MaxSession = 1
    Workers <- TwoWorkers
    Users <- OneUser
    UdpThreads = {}
    Calls <- SendCalls
    Faults = {"postFails"}
    MaxPacket = 1
    MaxAlloc = 1
    MaxQueue = 2
    MaxPost = 2
    MaxJobs = 0
    MaxLeak = 0
CHECK_DEADLOCK FALSE
SYMMETRY WorkerSymmetry
INVARIANTS OneSender LastSendIsAwaited
