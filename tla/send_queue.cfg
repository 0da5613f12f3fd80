SPECIFICATION FairSpec
CONSTANTS
    p1 = p1
    p2 = p2
    c1 = c1
    c2 = c2
    NULL = NULL
    Threads <- AllThreads
    Crews <- BothCrews
    Nodes = {n1, n2, n3, n4}
    StampMod = 32
INVARIANTS TypeOK NothingLost FreedNodeIsGone
PROPERTIES IsFifo CallsReturn
