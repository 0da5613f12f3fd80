------------------------------ MODULE MemoryPool ------------------------------
(***************************************************************************)
(* The memory pools (MemoryPoolBucket.h).  CMemoryPoolBucket gives every   *)
(* thread a bucket of objects of its own to allocate from, without any     *)
(* lock; the objects may be freed by other threads, and the last one freed *)
(* returns the bucket to CMemoryPool, the list of free buckets the threads *)
(* share, whose top carries a stamp in its upper 16 bits.                  *)
(*                                                                         *)
(* A user of the pool starts a call with CallAlloc or CallFree, lets the   *)
(* steps of this module run and finds the object of mAlloc in object.  The *)
(* counters getUseSize and _capacity are statistics, and left out.         *)
(***************************************************************************)
EXTENDS Integers, FiniteSets, Sequences

CONSTANTS
    Threads,
    NULL,
    MaxBuckets,    \* bound: buckets the heap has memory for
    MaxSize,       \* bound: objects of a bucket
    StampMod       \* bound: a stamp is a short, and wraps at 2^16

Bucket == 1 .. MaxBuckets
Object == Bucket \X (1 .. MaxSize)

ASSUME PoolAssumption ==
    /\ IsFiniteSet(Threads)
    /\ NULL \notin Bucket \cup Object
    /\ MaxBuckets \in Nat /\ MaxSize \in Nat /\ StampMod \in Nat \ {0}

VARIABLES
    BucketSize,     \* POOL_BUCKET_SIZE (1000), which never changes
    freeNodePtr,    \* _freeNodePtr of shared_Pool
    blockNext,      \* Block.next
    fresh,          \* memory not allocated with new yet
    allocCount, useCount,
    tls,            \* the value of TLS_MemoryPoolIndex in each thread
    (* what a thread is doing in the pool *)
    poolPc,
    tempFreeNode,
    newNext,        \* the block in newFreeNode
    bucket,         \* pBucket
    object          \* outParam of mAlloc, inParam of mFree

shared == <<BucketSize, freeNodePtr, blockNext, fresh>>
counts == <<allocCount, useCount>>
poolLocals == <<tempFreeNode, newNext, bucket>>
poolVars == <<shared, counts, tls, poolPc, poolLocals, object>>

Stamped(b, s) == [block |-> b, stamp |-> s]
Unseen == Stamped(NULL, 0)

Step(t, from, to) == poolPc[t] = from /\ poolPc' = [poolPc EXCEPT ![t] = to]

\* The call is over, and its locals are forgotten.
Done(t) == /\ poolPc' = [poolPc EXCEPT ![t] = "out"]
           /\ tempFreeNode' = [tempFreeNode EXCEPT ![t] = Unseen]
           /\ newNext' = [newNext EXCEPT ![t] = NULL]
           /\ bucket' = [bucket EXCEPT ![t] = NULL]

-----------------------------------------------------------------------------
(* CMemoryPoolBucket::mAlloc and borrowBucket *)

CallAlloc(t) ==
    /\ Step(t, "out", IF tls[t] = NULL THEN "a.top" ELSE "a.take")
    /\ UNCHANGED <<shared, counts, tls, poolLocals, object>>

\* CMemoryPool::mAlloc.
AllocTop(t) ==
    /\ tempFreeNode' = [tempFreeNode EXCEPT ![t] = freeNodePtr]
    /\ Step(t, "a.top", IF freeNodePtr.block = NULL THEN "a.new" ELSE "a.next")
    /\ UNCHANGED <<shared, counts, tls, newNext, bucket, object>>

AllocNew(t) ==
    /\ Step(t, "a.new", "a.fill")
    /\ \E b \in fresh : /\ \A c \in fresh : b <= c
                        /\ fresh' = fresh \ {b}
                        /\ bucket' = [bucket EXCEPT ![t] = b]
    /\ UNCHANGED <<BucketSize, freeNodePtr, blockNext, counts, tls,
                   tempFreeNode, newNext, object>>

AllocNext(t) ==
    /\ Step(t, "a.next", "a.cas")
    /\ newNext' = [newNext EXCEPT ![t] = blockNext[tempFreeNode[t].block]]
    /\ UNCHANGED <<shared, counts, tls, tempFreeNode, bucket, object>>

\* A slip: the top is compared without its stamp.
AllocCasUnstamped(t) ==
    /\ freeNodePtr.block = tempFreeNode[t].block
    /\ Step(t, "a.cas", "a.fill")
    /\ freeNodePtr' = Stamped(newNext[t], freeNodePtr.stamp)
    /\ bucket' = [bucket EXCEPT ![t] = tempFreeNode[t].block]
    /\ UNCHANGED <<BucketSize, blockNext, fresh, counts, tls, tempFreeNode,
                   newNext, object>>

AllocCas(t) ==
    /\ freeNodePtr = tempFreeNode[t]
    /\ Step(t, "a.cas", "a.fill")
    /\ freeNodePtr' = Stamped(newNext[t],
                              (tempFreeNode[t].stamp + 1) % StampMod)
    /\ bucket' = [bucket EXCEPT ![t] = tempFreeNode[t].block]
    /\ UNCHANGED <<BucketSize, blockNext, fresh, counts, tls, tempFreeNode,
                   newNext, object>>

AllocCasLost(t) ==
    /\ freeNodePtr # tempFreeNode[t]
    /\ Step(t, "a.cas", "a.top")
    /\ UNCHANGED <<shared, counts, tls, poolLocals, object>>

\* A slip: the count of the bucket's last life is kept.
BorrowBucketUncounted(t) ==
    /\ Step(t, "a.fill", "a.take")
    /\ allocCount' = [allocCount EXCEPT ![bucket[t]] = 0]
    /\ tls' = [tls EXCEPT ![t] = bucket[t]]
    /\ UNCHANGED <<shared, useCount, poolLocals, object>>

\* The rest of borrowBucket.
BorrowBucket(t) ==
    /\ Step(t, "a.fill", "a.take")
    /\ allocCount' = [allocCount EXCEPT ![bucket[t]] = 0]
    /\ useCount' = [useCount EXCEPT ![bucket[t]] = BucketSize]
    /\ tls' = [tls EXCEPT ![t] = bucket[t]]
    /\ UNCHANGED <<shared, poolLocals, object>>

\* A slip: a bucket is dropped one object late.
TakeObjectLate(t) ==
    LET b == tls[t] IN
    /\ poolPc[t] = "a.take"
    /\ object' = [object EXCEPT ![t] = <<b, (allocCount[b] % BucketSize) + 1>>]
    /\ allocCount' = [allocCount EXCEPT ![b] = @ + 1]
    /\ tls' = [tls EXCEPT ![t] = IF allocCount[b] = BucketSize THEN NULL
                                                             ELSE b]
    /\ Done(t)
    /\ UNCHANGED <<shared, useCount>>

\* The thread's own bucket: nobody else reads its allocCount.
TakeObject(t) ==
    LET b == tls[t] IN
    /\ poolPc[t] = "a.take"
    /\ object' = [object EXCEPT ![t] = <<b, allocCount[b] + 1>>]
    /\ allocCount' = [allocCount EXCEPT ![b] = @ + 1]
    /\ tls' = [tls EXCEPT ![t] = IF allocCount'[b] = BucketSize THEN NULL
                                                              ELSE b]
    /\ Done(t)
    /\ UNCHANGED <<shared, useCount>>

-----------------------------------------------------------------------------
(* CMemoryPoolBucket::mFree *)

CallFree(t) ==
    /\ Step(t, "out", "f.count")
    /\ UNCHANGED <<shared, counts, tls, poolLocals, object>>

FreeCount(t) ==
    LET b == object[t][1]
        last == useCount[b] = 1
    IN
    /\ Step(t, "f.count", IF last THEN "f.top" ELSE "out")
    /\ useCount' = [useCount EXCEPT ![b] = @ - 1]
    /\ bucket' = [bucket EXCEPT ![t] = IF last THEN b ELSE NULL]
    /\ object' = [object EXCEPT ![t] = NULL]
    /\ UNCHANGED <<shared, allocCount, tls, tempFreeNode, newNext>>

\* CMemoryPool::mFree.
FreeTop(t) ==
    /\ Step(t, "f.top", "f.link")
    /\ tempFreeNode' = [tempFreeNode EXCEPT ![t] = freeNodePtr]
    /\ UNCHANGED <<shared, counts, tls, newNext, bucket, object>>

FreeLink(t) ==
    /\ Step(t, "f.link", "f.cas")
    /\ blockNext' = [blockNext EXCEPT ![bucket[t]] = tempFreeNode[t].block]
    /\ UNCHANGED <<BucketSize, freeNodePtr, fresh, counts, tls, poolLocals,
                   object>>

FreeCas(t) ==
    /\ poolPc[t] = "f.cas"
    /\ freeNodePtr = tempFreeNode[t]
    /\ freeNodePtr' = Stamped(bucket[t], tempFreeNode[t].stamp)
    /\ Done(t)
    /\ UNCHANGED <<BucketSize, blockNext, fresh, counts, tls, object>>

FreeCasLost(t) ==
    /\ freeNodePtr # tempFreeNode[t]
    /\ Step(t, "f.cas", "f.top")
    /\ UNCHANGED <<shared, counts, tls, poolLocals, object>>

-----------------------------------------------------------------------------
PoolStep(t) ==
    \/ AllocTop(t) \/ AllocNew(t) \/ AllocNext(t) \/ AllocCas(t)
    \/ AllocCasLost(t) \/ BorrowBucket(t) \/ TakeObject(t)
    \/ FreeCount(t) \/ FreeTop(t) \/ FreeLink(t) \/ FreeCas(t)
    \/ FreeCasLost(t)

-----------------------------------------------------------------------------
PoolPoint == {"out", "a.top", "a.new", "a.next", "a.cas", "a.fill", "a.take",
              "f.count", "f.top", "f.link", "f.cas"}

\* Every variable of the pool has its type; allocCount and useCount stay
\* within the objects of a bucket.
PoolTypeOK ==
    LET OrNull(S) == S \cup {NULL}
        Tops == [block : OrNull(Bucket), stamp : 0 .. StampMod - 1]
    IN
    /\ BucketSize \in 1 .. MaxSize
    /\ freeNodePtr \in Tops
    /\ blockNext \in [Bucket -> OrNull(Bucket)]
    /\ fresh \subseteq Bucket
    /\ allocCount \in [Bucket -> 0 .. BucketSize]
    /\ useCount \in [Bucket -> 0 .. BucketSize]
    /\ tls \in [Threads -> OrNull(Bucket)]
    /\ poolPc \in [Threads -> PoolPoint]
    /\ tempFreeNode \in [Threads -> Tops]
    /\ newNext \in [Threads -> OrNull(Bucket)]
    /\ bucket \in [Threads -> OrNull(Bucket)]
    /\ object \in [Threads -> OrNull(Object)]
=============================================================================
