SPECIFICATION Spec
CONSTANTS
    acc = acc
    w1 = w1
    w2 = w2
    NULL = NULL
    Threads <- AllThreads
    Setups <- AllSetups
    MaxSession = 3
    MaxBuckets = 6
    MaxSize = 2
    StampMod = 16
CHECK_DEADLOCK FALSE
SYMMETRY WorkerSymmetry
INVARIANTS TypeOK IndexOnce ObjectsApart BucketsAccounted
PROPERTY IsStack
