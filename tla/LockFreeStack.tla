---------------------------- MODULE LockFreeStack ----------------------------
(***************************************************************************)
(* LockFreeStack (LockFreeStack.h), access by access, on the memory pool   *)
(* its nodes come from: emptyIndexStack, the free indexes of the session   *)
(* table.  AcceptThread pops an index for a new connection, a worker       *)
(* pushes it back when the content has let the session go (CNetServer.cpp  *)
(* 872, 986).                                                              *)
(***************************************************************************)
EXTENDS MemoryPool

CONSTANTS
    MaxSession,    \* maxSession, the indexes
    Setups         \* who may push and who may pop, the objects of a bucket,
                   \* and the bound on the indexes popped

Index == 1 .. MaxSession

ASSUME StackAssumption ==
    /\ MaxSession \in Nat
    /\ \A s \in Setups :
           /\ s.pushers \cup s.poppers \subseteq Threads
           /\ s.bucketSize \in 1 .. MaxSize
           /\ MaxSession <= MaxBuckets * s.bucketSize
           /\ s.poppers # {} /\ s.maxPops \in Nat
           /\ s.maxPops + Cardinality(s.poppers) < StampMod

VARIABLES
    setup,
    next, data,     \* the fields of a node
    top, nodeCount,
    pc,
    tempTop,
    newTop,         \* the node in newTop
    index,          \* data in push, *pData in pop
    held            \* indexes with the accept thread or a session

nodes == <<next, data>>
outside == <<held, setup>>
stackLocals == <<tempTop, newTop, index>>
vars == <<poolVars, nodes, top, nodeCount, pc, stackLocals, outside>>

\* The node a call works on is the object it got from the pool, or frees.
node == object

Pointer(n, s) == [node |-> n, stamp |-> s]
Nowhere == Pointer(NULL, 0)

Goto(t, from, to) == pc[t] = from /\ pc' = [pc EXCEPT ![t] = to]
Forget(t) == /\ tempTop' = [tempTop EXCEPT ![t] = Nowhere]
             /\ newTop' = [newTop EXCEPT ![t] = NULL]

\* Start pushed all indexes: the node of the i-th one, and the last bucket.
StartNode(i) == <<((i - 1) \div BucketSize) + 1,
                  ((i - 1) % BucketSize) + 1>>
StartBucket == IF MaxSession = 0 THEN 0 ELSE StartNode(MaxSession)[1]

Init ==
    /\ setup \in Setups
    /\ BucketSize = setup.bucketSize
    /\ freeNodePtr = Unseen
    /\ blockNext = [b \in Bucket |-> NULL]
    /\ fresh = {b \in Bucket : b > StartBucket}
    /\ allocCount = [b \in Bucket |->
           Cardinality({i \in Index : StartNode(i)[1] = b})]
    /\ useCount = [b \in Bucket |-> IF b \in fresh THEN 0 ELSE BucketSize]
    /\ tls = [t \in Threads |-> NULL]
    /\ poolPc = [t \in Threads |-> "out"]
    /\ tempFreeNode = [t \in Threads |-> Unseen]
    /\ newNext = [t \in Threads |-> NULL]
    /\ bucket = [t \in Threads |-> NULL]
    /\ object = [t \in Threads |-> NULL]
    /\ next = [n \in Object |-> IF \E i \in Index \ {1} : n = StartNode(i)
                                THEN StartNode(CHOOSE i \in Index :
                                                   n = StartNode(i + 1))
                                ELSE NULL]
    /\ data = [n \in Object |-> IF \E i \in Index : n = StartNode(i)
                                THEN CHOOSE i \in Index : n = StartNode(i)
                                ELSE 0]
    /\ top = Pointer(IF MaxSession = 0 THEN NULL ELSE StartNode(MaxSession), 0)
    /\ nodeCount = MaxSession
    /\ pc = [t \in Threads |-> "idle"]
    /\ tempTop = [t \in Threads |-> Nowhere]
    /\ newTop = [t \in Threads |-> NULL]
    /\ index = [t \in Threads |-> 0]
    /\ held = {}

-----------------------------------------------------------------------------
(* push *)

Push(t) ==
    /\ t \in setup.pushers
    /\ Goto(t, "idle", "p.data")
    /\ CallAlloc(t)
    /\ \E i \in held : /\ held' = held \ {i}
                       /\ index' = [index EXCEPT ![t] = i]
    /\ UNCHANGED <<nodes, top, nodeCount, tempTop, newTop, setup>>

PushData(t) ==
    /\ poolPc[t] = "out"
    /\ Goto(t, "p.data", "p.top")
    /\ data' = [data EXCEPT ![node[t]] = index[t]]
    /\ UNCHANGED <<poolVars, next, top, nodeCount, stackLocals, outside>>

PushTop(t) ==
    /\ Goto(t, "p.top", "p.next")
    /\ tempTop' = [tempTop EXCEPT ![t] = top]
    /\ UNCHANGED <<poolVars, nodes, top, nodeCount, newTop, index, outside>>

PushNext(t) ==
    /\ Goto(t, "p.next", "p.cas")
    /\ next' = [next EXCEPT ![node[t]] = tempTop[t].node]
    /\ UNCHANGED <<poolVars, data, top, nodeCount, stackLocals, outside>>

\* The stamp stays as it is.
PushCas(t) ==
    /\ top = tempTop[t]
    /\ Goto(t, "p.cas", "p.count")
    /\ top' = Pointer(node[t], tempTop[t].stamp)
    /\ object' = [object EXCEPT ![t] = NULL]
    /\ UNCHANGED <<shared, counts, tls, poolPc, poolLocals, nodes, nodeCount,
                   stackLocals, outside>>

PushCasLost(t) ==
    /\ top # tempTop[t]
    /\ Goto(t, "p.cas", "p.top")
    /\ UNCHANGED <<poolVars, nodes, top, nodeCount, stackLocals, outside>>

PushCount(t) ==
    /\ Goto(t, "p.count", "idle")
    /\ nodeCount' = nodeCount + 1
    /\ Forget(t)
    /\ UNCHANGED <<poolVars, nodes, top, index, outside>>

-----------------------------------------------------------------------------
(* pop *)

Pop(t) ==
    /\ t \in setup.poppers
    /\ top.stamp < setup.maxPops
    /\ Goto(t, "idle", IF nodeCount <= 0 THEN "q.false" ELSE "q.reserve")
    /\ UNCHANGED <<poolVars, nodes, top, nodeCount, stackLocals, outside>>

PopFalse(t) ==
    /\ Goto(t, "q.false", "idle")
    /\ UNCHANGED <<poolVars, nodes, top, nodeCount, stackLocals, outside>>

PopReserve(t) ==
    /\ Goto(t, "q.reserve", "q.top")
    /\ nodeCount' = nodeCount - 1
    /\ UNCHANGED <<poolVars, nodes, top, stackLocals, outside>>

PopTop(t) ==
    /\ Goto(t, "q.top", IF top.node = NULL THEN "q.undo" ELSE "q.next")
    /\ tempTop' = [tempTop EXCEPT ![t] = top]
    /\ UNCHANGED <<poolVars, nodes, top, nodeCount, newTop, index, outside>>

\* A slip: what the pop reserved is not given back.
PopUndoNot(t) ==
    /\ Goto(t, "q.undo", "idle")
    /\ Forget(t)
    /\ UNCHANGED <<poolVars, nodes, top, nodeCount, index, outside>>

PopUndo(t) ==
    /\ Goto(t, "q.undo", "idle")
    /\ nodeCount' = nodeCount + 1
    /\ Forget(t)
    /\ UNCHANGED <<poolVars, nodes, top, index, outside>>

PopNext(t) ==
    /\ Goto(t, "q.next", "q.cas")
    /\ newTop' = [newTop EXCEPT ![t] = next[tempTop[t].node]]
    /\ UNCHANGED <<poolVars, nodes, top, nodeCount, tempTop, index, outside>>

\* A slip: the top is compared without its stamp.
PopCasUnstamped(t) ==
    /\ top.node = tempTop[t].node
    /\ Goto(t, "q.cas", "q.data")
    /\ top' = Pointer(newTop[t], (top.stamp + 1) % StampMod)
    /\ object' = [object EXCEPT ![t] = tempTop[t].node]
    /\ UNCHANGED <<shared, counts, tls, poolPc, poolLocals, nodes, nodeCount,
                   stackLocals, outside>>

PopCas(t) ==
    /\ top = tempTop[t]
    /\ Goto(t, "q.cas", "q.data")
    /\ top' = Pointer(newTop[t], (tempTop[t].stamp + 1) % StampMod)
    /\ object' = [object EXCEPT ![t] = tempTop[t].node]
    /\ UNCHANGED <<shared, counts, tls, poolPc, poolLocals, nodes, nodeCount,
                   stackLocals, outside>>

PopCasLost(t) ==
    /\ top # tempTop[t]
    /\ Goto(t, "q.cas", "q.top")
    /\ UNCHANGED <<poolVars, nodes, top, nodeCount, stackLocals, outside>>

PopData(t) ==
    /\ Goto(t, "q.data", "q.free")
    /\ index' = [index EXCEPT ![t] = data[node[t]]]
    /\ Forget(t)
    /\ CallFree(t)
    /\ UNCHANGED <<nodes, top, nodeCount, outside>>

PopReturn(t) ==
    /\ poolPc[t] = "out"
    /\ Goto(t, "q.free", "idle")
    /\ held' = held \cup {index[t]}
    /\ UNCHANGED <<poolVars, nodes, top, nodeCount, stackLocals, setup>>

-----------------------------------------------------------------------------
InPool(t) == /\ PoolStep(t)
             /\ UNCHANGED <<nodes, top, nodeCount, pc, stackLocals, outside>>

PushStep(t) ==
    \/ PushData(t) \/ PushTop(t) \/ PushNext(t) \/ PushCas(t)
    \/ PushCasLost(t) \/ PushCount(t)

PopStep(t) ==
    \/ PopFalse(t) \/ PopReserve(t) \/ PopTop(t) \/ PopUndo(t) \/ PopNext(t)
    \/ PopCas(t) \/ PopCasLost(t) \/ PopData(t) \/ PopReturn(t)

Next == \E t \in Threads :
            Push(t) \/ Pop(t) \/ PushStep(t) \/ PopStep(t) \/ InPool(t)

Spec == Init /\ [][Next]_vars

-----------------------------------------------------------------------------
(* Properties *)

ControlPoint == {"idle", "p.data", "p.top", "p.next", "p.cas", "p.count",
                 "q.false", "q.reserve", "q.top", "q.undo", "q.next",
                 "q.cas", "q.data", "q.free"}

\* Every variable has the type of the field or local it stands for.
TypeOK ==
    LET Nodes == Object \cup {NULL}
        Tops == [node : Nodes, stamp : 0 .. StampMod - 1]
    IN
    /\ PoolTypeOK
    /\ setup \in Setups
    /\ next \in [Object -> Nodes]
    /\ data \in [Object -> 0 .. MaxSession]
    /\ top \in Tops
    /\ nodeCount \in Int /\ nodeCount > -Cardinality(setup.poppers)
    /\ pc \in [Threads -> ControlPoint]
    /\ tempTop \in [Threads -> Tops]
    /\ newTop \in [Threads -> Nodes]
    /\ index \in [Threads -> 0 .. MaxSession]
    /\ held \subseteq Index

\* The elements of a list from the top on, and NULL after the last: there
\* are at most MaxSession nodes, and the buckets the heap has memory for.
NodeChain ==
    LET at[k \in 0 .. MaxSession] ==
            IF k = 0 THEN top.node
            ELSE IF at[k - 1] = NULL THEN NULL ELSE next[at[k - 1]]
    IN  at
BlockChain ==
    LET at[k \in 0 .. MaxBuckets] ==
            IF k = 0 THEN freeNodePtr.block
            ELSE IF at[k - 1] = NULL THEN NULL ELSE blockNext[at[k - 1]]
    IN  at

OnStack == {NodeChain[k] : k \in 0 .. MaxSession} \ {NULL}
FreeBuckets == {BlockChain[k] : k \in 0 .. MaxBuckets} \ {NULL}
Carried == {t \in Threads : node[t] # NULL}
InUse == OnStack \cup {node[t] : t \in Carried}

At(points) == {t \in Threads : pc[t] \in points}
InPoolAt(points, b) ==
    {t \in Threads : poolPc[t] \in points /\ bucket[t] = b}

\* An index is in one place: on the stack, with the accept thread or a
\* session, or in the hands of a call.  An index that two pops return would
\* give one slot to two connections, a lost one shrinks the table.
IndexOnce ==
    LET stack == OnStack IN
    \A i \in Index :
        Cardinality({n \in stack : data[n] = i})
        + (IF i \in held THEN 1 ELSE 0)
        + Cardinality({t \in At({"p.data", "p.top", "p.next", "p.cas",
                                 "q.free"}) : index[t] = i})
        + Cardinality({t \in At({"q.data"}) : data[node[t]] = i}) = 1

\* An object of the pool has one user: it is on the stack, once, or with one
\* call, and no bucket in use is in the pool's list.
ObjectsApart ==
    LET stack == OnStack IN
    /\ NodeChain[MaxSession] = NULL
    /\ \A t \in Carried : /\ node[t] \notin stack
                          /\ \A u \in Carried \ {t} : node[u] # node[t]

\* A bucket is in one place: not made yet, in the shared list, on its way
\* from or to it with one thread, or lent to a thread; and then useCount
\* counts its objects that are in use or still to be allocated, and one
\* thread allocates from it as long as there are some.
BucketsAccounted ==
    LET free == FreeBuckets
        used == InUse
    IN
    /\ BlockChain[MaxBuckets] = NULL
    /\ \A b \in Bucket :
        LET moving == InPoolAt({"a.fill", "f.top", "f.link", "f.cas"}, b)
            owners == {t \in Threads : tls[t] = b}
            ofBucket == {n \in used : n[1] = b}
        IN
        IF b \in fresh \cup free \/ moving # {}
        THEN /\ Cardinality(moving) + (IF b \in fresh THEN 1 ELSE 0)
                + (IF b \in free THEN 1 ELSE 0) = 1
             /\ owners = {} /\ ofBucket = {}
        ELSE /\ useCount[b] = BucketSize - allocCount[b]
                              + Cardinality(ofBucket)
             /\ useCount[b] > 0
             /\ b # StartBucket =>
                    Cardinality(owners) = (IF allocCount[b] < BucketSize
                                           THEN 1 ELSE 0)

Stack ==
    LET length == Cardinality({k \in 0 .. MaxSession : NodeChain[k] # NULL})
    IN  [k \in 1 .. length |-> data[NodeChain[k - 1]]]

\* What a thread at a control point is doing, for its caller.
Doing ==
    [p \in ControlPoint |->
        CASE p \in {"p.data", "p.top", "p.next", "p.cas"} -> "push"
          [] p = "p.count" -> "pushed"
          [] p \in {"q.top", "q.next", "q.cas"} -> "pop"
          [] p \in {"q.data", "q.free"} -> "popped"
          [] p = "q.undo" -> "failing"
          [] p = "q.false" -> "false"
          [] p \in {"idle", "q.reserve"} -> "idle"]

Atomic == INSTANCE AtomicStack WITH
              Items <- 0 .. MaxSession,
              stack <- Stack,
              call <- [t \in Threads |-> Doing[pc[t]]],
              item <- [t \in Threads |-> IF pc[t] = "q.data"
                                         THEN data[node[t]] ELSE index[t]]

\* The list is a stack: every push and pop takes effect at once, and a pop
\* answers FALSE (to AcceptThread: the table is full) only when the indexes
\* on the stack are all accounted for by calls that are running.
IsStack == Atomic!Spec
=============================================================================
