SPECIFICATION FairSpec
CONSTANTS
    acc = acc
    w1 = w1
    w2 = w2
    u1 = u1
    g1 = g1
    Acceptor = acc
    MaxSession = 1
    Workers <- TwoWorkers
    Users <- OneUser
    UdpThreads = {}
    Calls <- PlainSend
    Faults = {}
    MaxPacket = 1
    MaxAlloc = 1
    MaxQueue = 1
    MaxPost = 1
    MaxJobs = 0
    MaxLeak = 0
CHECK_DEADLOCK FALSE
PROPERTY QueuedPacketIsSent
