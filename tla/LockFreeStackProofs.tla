------------------------ MODULE LockFreeStackProofs ------------------------
(***************************************************************************)
(* Proofs about the lock-free stack on its memory pool, for every number   *)
(* of threads, indexes and buckets and every size of a bucket: an index is *)
(* in one place, objects and buckets are not shared, and the list is an    *)
(* atomic stack.                                                           *)
(***************************************************************************)
EXTENDS LockFreeStack, FiniteSetTheorems, TLAPS

-----------------------------------------------------------------------------
(* The inductive invariant.  It speaks of two lists: q, the nodes of the   *)
(* stack from the top on, and r, the free buckets.                         *)

On(q, x) == \E i \in 1 .. Len(q) : q[i] = x

\* The list that begins with first and goes on with link is q.
Linked(q, S, first, link) ==
    /\ q \in Seq(S)
    /\ first = IF Len(q) = 0 THEN NULL ELSE q[1]
    /\ \A i \in 1 .. Len(q) :
           link[q[i]] = IF i = Len(q) THEN NULL ELSE q[i + 1]
    /\ \A i, j \in 1 .. Len(q) : q[i] = q[j] => i = j

Lists(q, r) == /\ Linked(q, Object, top.node, next)
               /\ Linked(r, Bucket, freeNodePtr.block, blockNext)

Allocating == {"a.top", "a.new", "a.next", "a.cas"}
Filling == Allocating \cup {"a.fill", "a.take"}
Returning == {"f.top", "f.link", "f.cas"}
Pushing == {"p.data", "p.top", "p.next", "p.cas"}
Popping == {"q.top", "q.next", "q.cas"}
Reserved == {"q.reserve"}
Taking == Reserved \cup Popping
Took == {"q.data", "q.free"}
Owing == {"p.count", "q.undo"} \cup Popping

\* What a thread has follows from where it is.
PoolLocal(t) ==
    /\ poolPc[t] \in Filling => pc[t] = "p.data"
    /\ poolPc[t] \in {"f.count"} \cup Returning => pc[t] = "q.free"
    /\ poolPc[t] = "a.take" => tls[t] # NULL
    /\ poolPc[t] \in Allocating \cup {"a.fill"} => tls[t] = NULL
    /\ poolPc[t] \in {"a.fill"} \cup Returning => bucket[t] # NULL
    /\ poolPc[t] \in {"a.next", "a.cas"} => tempFreeNode[t].block # NULL
    /\ poolPc[t] = "f.cas" => blockNext[bucket[t]] = tempFreeNode[t].block
StackLocal(t) ==
    /\ object[t] # NULL <=> \/ pc[t] = "p.data" /\ poolPc[t] = "out"
                            \/ pc[t] \in {"p.top", "p.next", "p.cas", "q.data"}
                            \/ pc[t] = "q.free" /\ poolPc[t] = "f.count"
    /\ pc[t] \in {"q.next", "q.cas"} => tempTop[t].node # NULL
    /\ pc[t] = "p.cas" => next[object[t]] = tempTop[t].node
    /\ pc[t] \in {"p.top", "p.next", "p.cas"} => data[object[t]] = index[t]
    /\ pc[t] \in Taking => t \in setup.poppers
Locals == \A t \in Threads : PoolLocal(t) /\ StackLocal(t)

\* A top that was read keeps its stamp only while nobody takes its element:
\* it is still on the list then, with the same element after it.
StaleTop(q, t) ==
    pc[t] \in {"q.next", "q.cas"} =>
        /\ tempTop[t].stamp <= top.stamp
        /\ tempTop[t].stamp = top.stamp =>
              /\ On(q, tempTop[t].node)
              /\ pc[t] = "q.cas" => newTop[t] = next[tempTop[t].node]
StaleBlock(r, t) ==
    poolPc[t] \in {"a.next", "a.cas"} =>
        /\ tempFreeNode[t].stamp <= freeNodePtr.stamp
        /\ tempFreeNode[t].stamp = freeNodePtr.stamp =>
              /\ On(r, tempFreeNode[t].block)
              /\ poolPc[t] = "a.cas"
                    => newNext[t] = blockNext[tempFreeNode[t].block]
Stale(q, r) == \A t \in Threads : StaleTop(q, t) /\ StaleBlock(r, t)

PcIn(S) == {t \in Threads : pc[t] \in S}
PoolPcIn(S) == {t \in Threads : poolPc[t] \in S}

\* Pops raise the stamp of the stack's top, allocations that of the pool's,
\* and an index is pushed once for each time it was popped.
Stamps ==
    /\ top.stamp + Cardinality(PcIn(Taking))
         <= setup.maxPops + Cardinality(setup.poppers)
    /\ freeNodePtr.stamp + Cardinality(held)
         + Cardinality(PoolPcIn(Allocating))
         + Cardinality(PcIn(Took)) <= top.stamp

\* nodeCount is behind a push and ahead of a pop.
Counts(q) ==
    /\ nodeCount + Cardinality(PcIn(Owing))
         = Len(q)
    /\ nodeCount - Cardinality(PcIn(Reserved))
         > -Cardinality(setup.poppers)

\* An index that is not on the stack or held is in a call.
Calling == Pushing \cup {"q.data", "q.free"}
Carries(t) == IF pc[t] = "q.data" THEN data[object[t]] ELSE index[t]

\* Where an index may be, and that each is in one place.
IndexApart(q) ==
    /\ \A k \in 1 .. Len(q) : data[q[k]] \in Index /\ data[q[k]] \notin held
    /\ \A k, l \in 1 .. Len(q) : data[q[k]] = data[q[l]] => k = l
    /\ \A t \in PcIn(Calling) :
           /\ Carries(t) \in Index /\ Carries(t) \notin held
           /\ \A k \in 1 .. Len(q) : data[q[k]] # Carries(t)
           /\ \A u \in PcIn(Calling) : Carries(u) = Carries(t) => u = t
IndexSomewhere(q) ==
    \A i \in Index : \/ i \in held
                     \/ \E k \in 1 .. Len(q) : data[q[k]] = i
                     \/ \E t \in PcIn(Calling) : Carries(t) = i

\* A node is on the stack or with one thread.
NodesApart(q) ==
    \A t \in Threads : object[t] # NULL =>
        /\ ~ On(q, object[t])
        /\ \A u \in Threads : object[u] = object[t] => u = t

\* Where a bucket is when it is not lent, and that it is in one place.
Moves(t, b) == poolPc[t] \in {"a.fill"} \cup Returning /\ bucket[t] = b
BucketsApart(r) ==
    /\ \A b \in Bucket : On(r, b) => b \notin fresh
    /\ \A t \in Threads, b \in Bucket : Moves(t, b) =>
           /\ b \notin fresh /\ ~ On(r, b)
           /\ \A u \in Threads : Moves(u, b) => u = t
Away(r, b) == b \in fresh \/ On(r, b) \/ \E t \in Threads : Moves(t, b)

Used(q, n) == On(q, n) \/ \E t \in Threads : object[t] = n
UsedOf(q, b) == {n \in Object : n[1] = b /\ Used(q, n)}

Lent(q, b) ==
    /\ useCount[b] = BucketSize - allocCount[b] + Cardinality(UsedOf(q, b))
    /\ useCount[b] > 0
    /\ b # StartBucket /\ allocCount[b] < BucketSize
          => \E t \in Threads : tls[t] = b
Owned(q, b) ==
    \A t \in Threads : tls[t] = b =>
        /\ allocCount[b] < BucketSize
        /\ \A u \in Threads : tls[u] = b => u = t
        /\ \A n \in UsedOf(q, b) : n[2] <= allocCount[b]
BucketOK(q, r, b) ==
    /\ Away(r, b) => /\ UsedOf(q, b) = {}
                     /\ \A t \in Threads : tls[t] # b
    /\ ~ Away(r, b) => Lent(q, b)
    /\ Owned(q, b)
BucketsOK(q, r) == \A b \in Bucket : BucketOK(q, r, b)

StackInv(q, r) ==
    /\ TypeOK /\ Locals /\ Lists(q, r) /\ Stale(q, r)
    /\ Stamps /\ Counts(q)
    /\ IndexApart(q) /\ IndexSomewhere(q) /\ NodesApart(q)
    /\ BucketsApart(r) /\ BucketsOK(q, r)
Inv == \E q \in Seq(Object), r \in Seq(Bucket) : StackInv(q, r)
-----------------------------------------------------------------------------
(* Lists. *)

LEMMA LinkedKeep ==
    ASSUME NEW S, NEW q, NEW first, NEW link, NEW link2,
           Linked(q, S, first, link),
           \A i \in 1 .. Len(q) : link2[q[i]] = link[q[i]]
    PROVE  Linked(q, S, first, link2)
BY DEF Linked

LEMMA LinkedPush ==
    ASSUME NEW S, NEW q, NEW first, NEW link, NEW n \in S, NEW p \in Seq(S),
           Linked(q, S, first, link), ~ On(q, n), link[n] = first,
           Len(p) = Len(q) + 1, p[1] = n,
           \A i \in 1 .. Len(q) : p[i + 1] = q[i]
    PROVE  /\ Linked(p, S, n, link)
           /\ \A x : On(p, x) <=> (x = n \/ On(q, x))
<1>1. q \in Seq(S) /\ Len(q) \in Nat
    BY DEF Linked
<1>2. p \in Seq(S) /\ Len(p) = Len(q) + 1
    OBVIOUS
<1>3. p[1] = n /\ \A i \in 1 .. Len(q) : p[i + 1] = q[i]
    OBVIOUS
<1>4. \A i \in 1 .. Len(p) : i = 1 \/ (i - 1 \in 1 .. Len(q) /\ p[i] = q[i - 1])
    BY <1>1, <1>2, <1>3
<1>5. \A i \in 1 .. Len(p) :
         link[p[i]] = IF i = Len(p) THEN NULL ELSE p[i + 1]
  <2> SUFFICES ASSUME NEW i \in 1 .. Len(p)
               PROVE  link[p[i]] = IF i = Len(p) THEN NULL ELSE p[i + 1]
      OBVIOUS
  <2>1. CASE i = 1
    <3>1. link[p[i]] = IF Len(q) = 0 THEN NULL ELSE q[1]
        BY <1>3, <2>1 DEF Linked
    <3>2. Len(q) > 0 => p[2] = q[1]
        BY <1>1, <1>3
    <3> QED
        BY <1>1, <1>2, <2>1, <3>1, <3>2
  <2>2. CASE i # 1
    <3>1. i - 1 \in 1 .. Len(q) /\ p[i] = q[i - 1]
        BY <1>4, <2>2
    <3>2. link[q[i - 1]] = IF i - 1 = Len(q) THEN NULL ELSE q[i]
        BY <3>1 DEF Linked
    <3>3. i - 1 # Len(q) => i \in 1 .. Len(q) /\ p[i + 1] = q[i]
        BY <1>1, <1>3, <3>1
    <3> QED
        BY <1>1, <1>2, <3>1, <3>2, <3>3
  <2> QED
      BY <2>1, <2>2
<1>6. \A i, j \in 1 .. Len(p) : p[i] = p[j] => i = j
  <2> SUFFICES ASSUME NEW i \in 1 .. Len(p), NEW j \in 1 .. Len(p),
                      p[i] = p[j]
               PROVE  i = j
      OBVIOUS
  <2>1. \A k \in 1 .. Len(q) : q[k] # n
      BY DEF On
  <2>2. CASE i = 1 /\ j # 1
      BY <1>3, <1>4, <2>1, <2>2
  <2>3. CASE i # 1 /\ j = 1
      BY <1>3, <1>4, <2>1, <2>3
  <2>4. CASE i # 1 /\ j # 1
    <3>1. i - 1 \in 1 .. Len(q) /\ j - 1 \in 1 .. Len(q)
          /\ q[i - 1] = q[j - 1]
        BY <1>4, <2>4
    <3>2. i - 1 = j - 1
        BY <3>1 DEF Linked
    <3> QED
        BY <3>2
  <2> QED
      BY <2>2, <2>3, <2>4
<1>7. \A x : On(p, x) <=> (x = n \/ On(q, x))
  <2> TAKE x
  <2>1. On(p, x) => x = n \/ On(q, x)
      BY <1>3, <1>4 DEF On
  <2>2. x = n => On(p, x)
      BY <1>1, <1>2, <1>3 DEF On
  <2>3. On(q, x) => On(p, x)
    <3> SUFFICES ASSUME NEW i \in 1 .. Len(q), q[i] = x PROVE On(p, x)
        BY DEF On
    <3>1. i + 1 \in 1 .. Len(p) /\ p[i + 1] = x
        BY <1>1, <1>2, <1>3
    <3> QED
        BY <3>1 DEF On
  <2> QED
      BY <2>1, <2>2, <2>3
<1>8. n = IF Len(p) = 0 THEN NULL ELSE p[1]
    BY <1>1, <1>2, <1>3
<1> QED
    BY <1>1, <1>2, <1>3, <1>5, <1>6, <1>7, <1>8 DEF Linked

LEMMA LinkedPop ==
    ASSUME NEW S, NULL \notin S, NEW q, NEW first, NEW link, NEW p,
           Linked(q, S, first, link), p \in Seq(S),
           Len(q) = Len(p) + 1, \A i \in 1 .. Len(p) : p[i] = q[i + 1]
    PROVE  /\ Linked(p, S, link[first], link)
           /\ first = q[1] /\ first \in S
           /\ Len(p) \in Nat
           /\ ~ On(p, first)
           /\ \A x : On(q, x) <=> (x = first \/ On(p, x))
<1>1. q \in Seq(S) /\ Len(q) \in Nat
    BY DEF Linked
<1>2. Len(q) > 0
    BY <1>1
<1>3. first = q[1] /\ first \in S
    BY <1>1, <1>2 DEF Linked
<1>4. p \in Seq(S) /\ Len(q) = Len(p) + 1 /\ Len(p) \in Nat
    BY <1>1, <1>2
<1>5. \A i \in 1 .. Len(p) : p[i] = q[i + 1]
    OBVIOUS
<1>6. link[first] = IF Len(p) = 0 THEN NULL ELSE p[1]
  <2>0. 1 \in 1 .. Len(q) /\ link[q[1]] = link[first]
      BY <1>1, <1>2, <1>3
  <2>1. link[first] = IF Len(q) = 1 THEN NULL ELSE q[2]
    <3>1. link[q[1]] = IF 1 = Len(q) THEN NULL ELSE q[1 + 1]
        BY <2>0 DEF Linked
    <3> QED
        BY <2>0, <3>1
  <2>2. Len(p) # 0 => p[1] = q[2]
      BY <1>4, <1>5
  <2> QED
      BY <1>4, <2>1, <2>2
<1>7. \A i \in 1 .. Len(p) :
         link[p[i]] = IF i = Len(p) THEN NULL ELSE p[i + 1]
  <2> SUFFICES ASSUME NEW i \in 1 .. Len(p)
               PROVE  link[p[i]] = IF i = Len(p) THEN NULL ELSE p[i + 1]
      OBVIOUS
  <2>1. p[i] = q[i + 1] /\ i + 1 \in 1 .. Len(q)
      BY <1>4, <1>5
  <2>2. link[q[i + 1]] = IF i + 1 = Len(q) THEN NULL ELSE q[(i + 1) + 1]
      BY <2>1 DEF Linked
  <2>3. i + 1 = Len(q) <=> i = Len(p)
      BY <1>4
  <2>4. CASE i = Len(p)
    <3>1. link[q[i + 1]] = NULL
        BY <2>2, <2>3, <2>4
    <3> QED
        BY <2>1, <2>4, <3>1
  <2>5. CASE i # Len(p)
    <3>1. i + 1 \in 1 .. Len(p)
        BY <1>4, <2>5
    <3>2. p[i + 1] = q[(i + 1) + 1]
        BY <1>5, <3>1
    <3> QED
        BY <2>1, <2>2, <2>3, <2>5, <3>2
  <2> QED
      BY <2>4, <2>5
<1>8. \A i, j \in 1 .. Len(p) : p[i] = p[j] => i = j
  <2> SUFFICES ASSUME NEW i \in 1 .. Len(p), NEW j \in 1 .. Len(p),
                      p[i] = p[j]
               PROVE  i = j
      OBVIOUS
  <2>1. /\ q[i + 1] = q[j + 1]
        /\ i + 1 \in 1 .. Len(q) /\ j + 1 \in 1 .. Len(q)
      BY <1>4, <1>5
  <2>2. i + 1 = j + 1
      BY <2>1 DEF Linked
  <2> QED
      BY <2>2
<1>9. ~ On(p, first)
  <2> SUFFICES ASSUME NEW i \in 1 .. Len(p), p[i] = first PROVE FALSE
      BY DEF On
  <2>1. /\ q[i + 1] = q[1] /\ i + 1 \in 1 .. Len(q) /\ 1 \in 1 .. Len(q)
      BY <1>3, <1>4, <1>5
  <2>2. i + 1 = 1
      BY <2>1 DEF Linked
  <2> QED
      BY <2>2
<1>10. \A x : On(q, x) <=> (x = first \/ On(p, x))
  <2> TAKE x
  <2>1. On(p, x) => On(q, x)
    <3> SUFFICES ASSUME NEW i \in 1 .. Len(p), p[i] = x PROVE On(q, x)
        BY DEF On
    <3>1. i + 1 \in 1 .. Len(q) /\ q[i + 1] = x
        BY <1>4, <1>5
    <3> QED
        BY <3>1 DEF On
  <2>2. x = first => On(q, x)
      BY <1>1, <1>2, <1>3 DEF On
  <2>3. On(q, x) => x = first \/ On(p, x)
    <3> SUFFICES ASSUME NEW i \in 1 .. Len(q), q[i] = x, x # first
                 PROVE  On(p, x)
        BY DEF On
    <3>1. i # 1
        BY <1>3
    <3>2. i - 1 \in 1 .. Len(p) /\ p[i - 1] = q[(i - 1) + 1]
        BY <1>4, <1>5, <3>1
    <3>3. p[i - 1] = x
        BY <3>2
    <3> QED
        BY <3>2, <3>3 DEF On
  <2> QED
      BY <2>1, <2>2, <2>3
<1> QED
    BY <1>3, <1>4, <1>5, <1>6, <1>7, <1>8, <1>9, <1>10 DEF Linked

\* p is q with n before it.
Added(q, S, n, p) ==
    /\ p \in Seq(S) /\ Len(p) = Len(q) + 1 /\ p[1] = n
    /\ \A i \in 1 .. Len(q) : p[i + 1] = q[i]

LEMMA Onto ==
    ASSUME NEW S, NEW q \in Seq(S), NEW n \in S
    PROVE  \E p : Added(q, S, n, p)
<1>1. /\ <<n>> \o q \in Seq(S) /\ Len(<<n>> \o q) = Len(q) + 1
      /\ (<<n>> \o q)[1] = n
      /\ \A i \in 1 .. Len(q) : (<<n>> \o q)[i + 1] = q[i]
    OBVIOUS
<1>2. Added(q, S, n, <<n>> \o q)
    BY <1>1 DEF Added
<1> QED
    BY <1>2

LEMMA Rest ==
    ASSUME NEW S, NEW q \in Seq(S), Len(q) # 0
    PROVE  \E p \in Seq(S) : /\ p = Tail(q) /\ Len(q) = Len(p) + 1
                              /\ \A i \in 1 .. Len(p) : p[i] = q[i + 1]
<1>1. Len(q) \in Nat /\ Tail(q) \in Seq(S) /\ Len(q) = Len(Tail(q)) + 1
    OBVIOUS
<1>2. \A i \in 1 .. Len(Tail(q)) : Tail(q)[i] = q[i + 1]
    BY <1>1
<1> QED
    BY <1>1, <1>2

\* A list that is not empty has its first element.
LEMMA LinkedFirst ==
    ASSUME NEW S, NULL \notin S, NEW q, NEW first, NEW link,
           Linked(q, S, first, link)
    PROVE  /\ first = NULL <=> Len(q) = 0
           /\ first # NULL => On(q, first)
           /\ \A x : On(q, x) => x \in S
<1>1. q \in Seq(S) /\ Len(q) \in Nat
    BY DEF Linked
<1>2. Len(q) # 0 => 1 \in 1 .. Len(q) /\ q[1] \in S /\ first = q[1]
    BY <1>1 DEF Linked
<1>3. Len(q) = 0 => first = NULL
    BY DEF Linked
<1>4. Len(q) # 0 => On(q, first)
    BY <1>2 DEF On
<1>5. \A x : On(q, x) => x \in S
    BY <1>1 DEF On
<1> QED
    BY <1>2, <1>3, <1>4, <1>5

-----------------------------------------------------------------------------
(* Cardinalities. *)

One(b) == IF b THEN 1 ELSE 0

\* The threads at some points, when one thread moves.
LEMMA CountMoves ==
    ASSUME NEW f, NEW g, NEW t \in Threads, NEW S,
           \A u \in Threads \ {t} : g[u] = f[u]
    PROVE  LET A == {u \in Threads : f[u] \in S}
               B == {u \in Threads : g[u] \in S}
           IN  /\ Cardinality(A) \in Nat /\ Cardinality(B) \in Nat
               /\ Cardinality(B) + One(f[t] \in S)
                    = Cardinality(A) + One(g[t] \in S)
<1> DEFINE A == {u \in Threads : f[u] \in S}
           B == {u \in Threads : g[u] \in S}
<1>1. IsFiniteSet(Threads) /\ A \in SUBSET Threads /\ B \in SUBSET Threads
    BY PoolAssumption
<1>2. IsFiniteSet(A) /\ IsFiniteSet(B)
    BY <1>1, FS_Subset
<1>3. A \ {t} = B \ {t}
    OBVIOUS
<1>4. (t \in A <=> f[t] \in S) /\ (t \in B <=> g[t] \in S)
    OBVIOUS
<1> HIDE DEF A, B
<1>5. /\ Cardinality(A) \in Nat
      /\ Cardinality(A \ {t}) =
             IF t \in A THEN Cardinality(A) - 1 ELSE Cardinality(A)
    BY <1>2, FS_RemoveElement, FS_CardinalityType
<1>6. /\ Cardinality(B) \in Nat
      /\ Cardinality(B \ {t}) =
             IF t \in B THEN Cardinality(B) - 1 ELSE Cardinality(B)
    BY <1>2, FS_RemoveElement, FS_CardinalityType
<1>7. Cardinality(B) + One(t \in A) = Cardinality(A) + One(t \in B)
    BY <1>3, <1>5, <1>6 DEF One
<1>8. One(t \in A) = One(f[t] \in S) /\ One(t \in B) = One(g[t] \in S)
    BY <1>4 DEF One
<1> QED
    BY <1>5, <1>6, <1>7, <1>8 DEF A, B

LEMMA PcMoves ==
    ASSUME NEW t \in Threads, pc \in [Threads -> ControlPoint], NEW S,
           NEW x, pc' = [pc EXCEPT ![t] = x]
    PROVE  /\ Cardinality(PcIn(S)) \in Nat /\ Cardinality(PcIn(S)') \in Nat
           /\ Cardinality(PcIn(S)') + One(pc[t] \in S)
                = Cardinality(PcIn(S)) + One(x \in S)
<1>1. pc'[t] = x /\ \A u \in Threads \ {t} : pc'[u] = pc[u]
    OBVIOUS
<1>2. PcIn(S) = {u \in Threads : pc[u] \in S}
    BY DEF PcIn
<1>3. PcIn(S)' = {u \in Threads : pc'[u] \in S}
    BY DEF PcIn
<1> QED
    BY <1>1, <1>2, <1>3, CountMoves

LEMMA PoolPcMoves ==
    ASSUME NEW t \in Threads, poolPc \in [Threads -> PoolPoint], NEW S,
           NEW x, poolPc' = [poolPc EXCEPT ![t] = x]
    PROVE  /\ Cardinality(PoolPcIn(S)) \in Nat
           /\ Cardinality(PoolPcIn(S)') \in Nat
           /\ Cardinality(PoolPcIn(S)') + One(poolPc[t] \in S)
                = Cardinality(PoolPcIn(S)) + One(x \in S)
<1>1. poolPc'[t] = x /\ \A u \in Threads \ {t} : poolPc'[u] = poolPc[u]
    OBVIOUS
<1>2. PoolPcIn(S) = {u \in Threads : poolPc[u] \in S}
    BY DEF PoolPcIn
<1>3. PoolPcIn(S)' = {u \in Threads : poolPc'[u] \in S}
    BY DEF PoolPcIn
<1> QED
    BY <1>1, <1>2, <1>3, CountMoves

LEMMA CountsAre ==
    ASSUME NEW S
    PROVE  /\ IsFiniteSet(PcIn(S)) /\ Cardinality(PcIn(S)) \in Nat
           /\ IsFiniteSet(PoolPcIn(S)) /\ Cardinality(PoolPcIn(S)) \in Nat
<1>1. PcIn(S) \in SUBSET Threads /\ PoolPcIn(S) \in SUBSET Threads
      /\ IsFiniteSet(Threads)
    BY PoolAssumption DEF PcIn, PoolPcIn
<1> QED
    BY <1>1, FS_Subset, FS_CardinalityType

LEMMA ObjectsFinite == IsFiniteSet(Object) /\ IsFiniteSet(Bucket)
<1>1. IsFiniteSet(Bucket) /\ IsFiniteSet(1 .. MaxSize)
    BY PoolAssumption, FS_Interval DEF Bucket
<1> QED
    BY <1>1, FS_Product DEF Object

LEMMA NullApart == NULL \notin Object /\ NULL \notin Bucket
BY PoolAssumption

-----------------------------------------------------------------------------
(* Types. *)

NodeTops == [node : Object \cup {NULL}, stamp : 0 .. StampMod - 1]
BlockTops == [block : Bucket \cup {NULL}, stamp : 0 .. StampMod - 1]

StackTypes ==
    /\ setup \in Setups
    /\ next \in [Object -> Object \cup {NULL}]
    /\ data \in [Object -> 0 .. MaxSession]
    /\ top \in NodeTops
    /\ nodeCount \in Int /\ nodeCount > -Cardinality(setup.poppers)
    /\ pc \in [Threads -> ControlPoint]
    /\ tempTop \in [Threads -> NodeTops]
    /\ newTop \in [Threads -> Object \cup {NULL}]
    /\ index \in [Threads -> 0 .. MaxSession]
    /\ held \subseteq Index
PoolShared ==
    /\ BucketSize \in 1 .. MaxSize
    /\ freeNodePtr \in BlockTops
    /\ blockNext \in [Bucket -> Bucket \cup {NULL}]
    /\ fresh \subseteq Bucket
PoolCounts ==
    /\ allocCount \in [Bucket -> 0 .. BucketSize]
    /\ useCount \in [Bucket -> 0 .. BucketSize]
PoolThreads ==
    /\ tls \in [Threads -> Bucket \cup {NULL}]
    /\ poolPc \in [Threads -> PoolPoint]
    /\ tempFreeNode \in [Threads -> BlockTops]
    /\ newNext \in [Threads -> Bucket \cup {NULL}]
    /\ bucket \in [Threads -> Bucket \cup {NULL}]
    /\ object \in [Threads -> Object \cup {NULL}]

LEMMA TypeParts == TypeOK <=> /\ StackTypes /\ PoolShared
                              /\ PoolCounts /\ PoolThreads
BY DEF TypeOK, PoolTypeOK, StackTypes, PoolShared, PoolCounts, PoolThreads,
       NodeTops, BlockTops

LEMMA TypePartsNext ==
    (StackTypes' /\ PoolShared' /\ PoolCounts' /\ PoolThreads') => TypeOK'
BY TypeParts, PTL

LEMMA Numbers ==
    /\ MaxBuckets \in Nat /\ MaxSize \in Nat /\ MaxSession \in Nat
    /\ StampMod \in Nat /\ StampMod > 0
BY PoolAssumption, StackAssumption

\* The bounds of the run, and who may pop.
LEMMA SetupFacts ==
    ASSUME StackTypes
    PROVE  /\ IsFiniteSet(setup.poppers) /\ setup.poppers \subseteq Threads
           /\ Cardinality(setup.poppers) \in Nat
           /\ setup.maxPops \in Nat
           /\ setup.maxPops + Cardinality(setup.poppers) < StampMod
<1>1. setup \in Setups
    BY DEF StackTypes
<1>2. /\ setup.poppers \subseteq Threads /\ setup.maxPops \in Nat
      /\ setup.maxPops + Cardinality(setup.poppers) < StampMod
    BY <1>1, StackAssumption
<1>3. IsFiniteSet(setup.poppers) /\ Cardinality(setup.poppers) \in Nat
    BY <1>2, PoolAssumption, FS_Subset, FS_CardinalityType
<1> QED
    BY <1>2, <1>3

\* The parts of the types that concern one thread.
LEMMA ThreadTypes ==
    ASSUME TypeOK, NEW t \in Threads
    PROVE  /\ pc[t] \in ControlPoint /\ poolPc[t] \in PoolPoint
           /\ tempTop[t] \in NodeTops /\ newTop[t] \in Object \cup {NULL}
           /\ index[t] \in 0 .. MaxSession
           /\ tls[t] \in Bucket \cup {NULL}
           /\ tempFreeNode[t] \in BlockTops
           /\ newNext[t] \in Bucket \cup {NULL}
           /\ bucket[t] \in Bucket \cup {NULL}
           /\ object[t] \in Object \cup {NULL}
BY TypeParts DEF StackTypes, PoolThreads

LEMMA Local ==
    ASSUME NEW q, NEW r, StackInv(q, r), NEW t \in Threads
    PROVE  /\ TypeOK /\ PoolLocal(t) /\ StackLocal(t)
           /\ StaleTop(q, t) /\ StaleBlock(r, t)
BY DEF StackInv, Locals, Stale

\* An object in a thread's hands or on the stack is of a bucket that is lent,
\* and counted there.
LEMMA UsedCounted ==
    ASSUME NEW q, NEW r, StackInv(q, r), NEW n \in Object, Used(q, n)
    PROVE  /\ n[1] \in Bucket /\ ~ Away(r, n[1]) /\ Lent(q, n[1])
           /\ useCount[n[1]] \in Nat /\ useCount[n[1]] > 0
<1>1. n[1] \in Bucket
    BY DEF Object
<1>2. n \in UsedOf(q, n[1])
    BY DEF UsedOf
<1>3. BucketOK(q, r, n[1])
    BY <1>1 DEF StackInv, BucketsOK
<1>4. ~ Away(r, n[1]) /\ Lent(q, n[1])
    BY <1>2, <1>3 DEF BucketOK
<1>5. useCount[n[1]] > 0
    BY <1>4 DEF Lent
<1>6. useCount[n[1]] \in Nat
    BY <1>1, TypeParts, Numbers DEF StackInv, PoolCounts, PoolShared
<1> QED
    BY <1>1, <1>4, <1>5, <1>6

LEMMA HeldObject ==
    ASSUME NEW q, NEW r, StackInv(q, r), NEW t \in Threads, object[t] # NULL
    PROVE  object[t] \in Object /\ Used(q, object[t])
BY Local, ThreadTypes DEF Used

LEMMA PoolTypes ==
    ASSUME NEW q, NEW r, StackInv(q, r), NEW t \in Threads, PoolStep(t)
    PROVE  PoolShared' /\ PoolCounts' /\ PoolThreads'
<1>1. /\ TypeOK /\ PoolShared /\ PoolCounts /\ PoolThreads
      /\ PoolLocal(t) /\ StackLocal(t)
    BY Local, TypeParts
<1>2. /\ tls[t] \in Bucket \cup {NULL} /\ tempFreeNode[t] \in BlockTops
      /\ newNext[t] \in Bucket \cup {NULL} /\ bucket[t] \in Bucket \cup {NULL}
      /\ object[t] \in Object \cup {NULL}
    BY <1>1, ThreadTypes
<1>3. \A b, s : b \in Bucket \cup {NULL} /\ s \in 0 .. StampMod - 1
               => Stamped(b, s) \in BlockTops
    BY DEF Stamped, BlockTops
<1>4. /\ tempFreeNode[t].block \in Bucket \cup {NULL}
      /\ tempFreeNode[t].stamp \in 0 .. StampMod - 1
    BY <1>2 DEF BlockTops
<1>5. Unseen \in BlockTops
    BY <1>3, Numbers DEF Unseen
<1>6. ASSUME Done(t)
      PROVE  /\ poolPc' \in [Threads -> PoolPoint]
             /\ tempFreeNode' \in [Threads -> BlockTops]
             /\ newNext' \in [Threads -> Bucket \cup {NULL}]
             /\ bucket' \in [Threads -> Bucket \cup {NULL}]
    BY <1>1, <1>5, <1>6 DEF Done, PoolThreads, PoolPoint
<1>7. CASE AllocTop(t)
    BY <1>1, <1>7 DEF AllocTop, Step, shared, counts, PoolShared, PoolCounts,
       PoolThreads, PoolPoint
<1>8. CASE AllocNew(t)
  <2>1. PICK b \in fresh : /\ fresh' = fresh \ {b}
                           /\ bucket' = [bucket EXCEPT ![t] = b]
      BY <1>8 DEF AllocNew
  <2>2. b \in Bucket
      BY <1>1, <2>1 DEF PoolShared
  <2> QED
      BY <1>1, <1>8, <2>1, <2>2 DEF AllocNew, Step, counts, PoolShared,
         PoolCounts, PoolThreads, PoolPoint
<1>9. CASE AllocNext(t)
  <2>1. tempFreeNode[t].block \in Bucket
      BY <1>1, <1>4, <1>9 DEF AllocNext, Step, PoolLocal
  <2>2. blockNext[tempFreeNode[t].block] \in Bucket \cup {NULL}
      BY <1>1, <2>1 DEF PoolShared
  <2> QED
      BY <1>1, <1>9, <2>2 DEF AllocNext, Step, shared, counts, PoolShared,
         PoolCounts, PoolThreads, PoolPoint
<1>10. CASE AllocCas(t)
  <2>1. (tempFreeNode[t].stamp + 1) % StampMod \in 0 .. StampMod - 1
      BY <1>4, Numbers
  <2>2. freeNodePtr' \in BlockTops
      BY <1>2, <1>3, <1>10, <2>1 DEF AllocCas
  <2> QED
      BY <1>1, <1>4, <1>10, <2>2 DEF AllocCas, Step, counts, PoolShared,
         PoolCounts, PoolThreads, PoolPoint
<1>11. CASE AllocCasLost(t)
    BY <1>1, <1>11 DEF AllocCasLost, Step, shared, counts, poolLocals,
       PoolShared, PoolCounts, PoolThreads, PoolPoint
<1>12. CASE BorrowBucket(t)
  <2>1. bucket[t] \in Bucket
      BY <1>1, <1>2, <1>12 DEF BorrowBucket, Step, PoolLocal
  <2>2. BucketSize' = BucketSize /\ BucketSize \in 1 .. MaxSize
      BY <1>1, <1>12 DEF BorrowBucket, shared, PoolShared
  <2>3. PoolCounts'
      BY <1>1, <1>12, <2>1, <2>2, Numbers DEF BorrowBucket, PoolCounts
  <2>4. PoolShared'
      BY <1>1, <1>12 DEF BorrowBucket, shared, PoolShared
  <2> QED
      BY <1>1, <1>12, <2>1, <2>3, <2>4 DEF BorrowBucket, Step, poolLocals,
         PoolThreads, PoolPoint
<1>13. CASE TakeObject(t)
  <2> DEFINE b == tls[t]
  <2>1. b \in Bucket
      BY <1>1, <1>2, <1>13 DEF TakeObject, PoolLocal
  <2>2. /\ BucketSize' = BucketSize /\ BucketSize \in 1 .. MaxSize
        /\ PoolShared' /\ useCount' = useCount
      BY <1>1, <1>13 DEF TakeObject, shared, PoolShared
  <2>3. Owned(q, b)
      BY <2>1 DEF StackInv, BucketsOK, BucketOK
  <2>4. allocCount[b] < BucketSize /\ allocCount[b] \in 0 .. BucketSize
      BY <1>1, <2>1, <2>3 DEF Owned, PoolCounts
  <2>5. allocCount[b] + 1 \in 0 .. BucketSize
        /\ allocCount[b] + 1 \in 1 .. MaxSize
      BY <2>2, <2>4, Numbers
  <2>6. <<b, allocCount[b] + 1>> \in Object
      BY <2>1, <2>5 DEF Object
  <2>7. /\ object' = [object EXCEPT ![t] = <<b, allocCount[b] + 1>>]
        /\ allocCount' = [allocCount EXCEPT ![b] = allocCount[b] + 1]
        /\ tls' = [tls EXCEPT ![t] = IF allocCount'[b] = BucketSize THEN NULL
                                                                    ELSE b]
        /\ Done(t)
      BY <1>13 DEF TakeObject
  <2> HIDE DEF b
  <2>8. PoolCounts'
      BY <1>1, <2>1, <2>2, <2>5, <2>7 DEF PoolCounts
  <2>9. tls' \in [Threads -> Bucket \cup {NULL}]
      BY <1>1, <2>1, <2>7 DEF PoolThreads
  <2>10. object' \in [Threads -> Object \cup {NULL}]
      BY <1>1, <2>6, <2>7 DEF PoolThreads
  <2> QED
      BY <1>6, <2>2, <2>7, <2>8, <2>9, <2>10 DEF PoolThreads
<1>14. CASE FreeCount(t)
  <2> DEFINE b == object[t][1]
  <2>1. object[t] # NULL
      BY <1>1, <1>14 DEF FreeCount, Step, PoolLocal, StackLocal
  <2>2. /\ b \in Bucket /\ useCount[b] \in Nat /\ useCount[b] > 0
      BY <2>1, HeldObject, UsedCounted
  <2>3. useCount[b] - 1 \in 0 .. BucketSize
      BY <1>1, <2>2, Numbers DEF PoolCounts, PoolShared
  <2>4. /\ \E p \in {"f.top", "out"} : Step(t, "f.count", p)
        /\ useCount' = [useCount EXCEPT ![b] = useCount[b] - 1]
        /\ \E x \in {b, NULL} : bucket' = [bucket EXCEPT ![t] = x]
        /\ object' = [object EXCEPT ![t] = NULL]
        /\ UNCHANGED <<shared, allocCount, tls, tempFreeNode, newNext>>
      BY <1>14 DEF FreeCount
  <2> HIDE DEF b
  <2>5. PoolShared' /\ BucketSize' = BucketSize /\ allocCount' = allocCount
      BY <1>1, <2>4 DEF shared, PoolShared
  <2>6. PoolCounts'
      BY <1>1, <2>2, <2>3, <2>4, <2>5 DEF PoolCounts
  <2>7. poolPc' \in [Threads -> PoolPoint]
      BY <1>1, <2>4 DEF Step, PoolThreads, PoolPoint
  <2>8. bucket' \in [Threads -> Bucket \cup {NULL}]
      BY <1>1, <2>2, <2>4 DEF PoolThreads
  <2> QED
      BY <1>1, <2>4, <2>5, <2>6, <2>7, <2>8 DEF PoolThreads
<1>15. CASE FreeTop(t)
    BY <1>1, <1>15 DEF FreeTop, Step, shared, counts, PoolShared, PoolCounts,
       PoolThreads, PoolPoint
<1>16. CASE FreeLink(t)
    BY <1>1, <1>4, <1>16 DEF FreeLink, Step, counts, poolLocals, PoolShared,
       PoolCounts, PoolThreads, PoolPoint
<1>17. CASE FreeCas(t)
  <2>1. freeNodePtr' \in BlockTops
      BY <1>2, <1>3, <1>4, <1>17 DEF FreeCas
  <2>2. PoolShared' /\ PoolCounts'
      BY <1>1, <1>17, <2>1 DEF FreeCas, counts, PoolShared, PoolCounts
  <2>3. Done(t) /\ tls' = tls /\ object' = object
      BY <1>17 DEF FreeCas
  <2> QED
      BY <1>1, <1>6, <2>2, <2>3 DEF PoolThreads
<1>18. CASE FreeCasLost(t)
    BY <1>1, <1>18 DEF FreeCasLost, Step, shared, counts, poolLocals,
       PoolShared, PoolCounts, PoolThreads, PoolPoint
<1> QED
    BY <1>7, <1>8, <1>9, <1>10, <1>11, <1>12, <1>13, <1>14, <1>15, <1>16,
       <1>17, <1>18 DEF PoolStep

\* A call of the pool, and the steps that leave the pool alone.
LEMMA CallTypes ==
    ASSUME PoolShared, PoolCounts, PoolThreads, NEW t \in Threads,
           CallAlloc(t) \/ CallFree(t)
    PROVE  PoolShared' /\ PoolCounts' /\ PoolThreads'
<1>1. PoolShared' /\ PoolCounts'
    BY DEF CallAlloc, CallFree, shared, counts, PoolShared, PoolCounts
<1>2. poolPc' \in [Threads -> PoolPoint]
    BY DEF CallAlloc, CallFree, Step, PoolThreads, PoolPoint
<1> QED
    BY <1>1, <1>2 DEF CallAlloc, CallFree, poolLocals, PoolThreads

LEMMA SamePool ==
    ASSUME PoolShared, PoolCounts, PoolThreads, UNCHANGED poolVars
    PROVE  PoolShared' /\ PoolCounts' /\ PoolThreads'
<1>1. PoolShared' /\ PoolCounts'
    BY DEF poolVars, shared, counts, PoolShared, PoolCounts
<1> QED
    BY <1>1 DEF poolVars, poolLocals, PoolThreads

LEMMA StackStepTypes ==
    ASSUME NEW q, NEW r, StackInv(q, r), NEW t \in Threads,
           Push(t) \/ Pop(t) \/ PushStep(t) \/ PopStep(t)
    PROVE  TypeOK'
<1>1. /\ TypeOK /\ StackTypes /\ PoolShared /\ PoolCounts /\ PoolThreads
      /\ PoolLocal(t) /\ StackLocal(t)
    BY Local, TypeParts
<1>2. /\ tempTop[t] \in NodeTops /\ newTop[t] \in Object \cup {NULL}
      /\ index[t] \in 0 .. MaxSession /\ object[t] \in Object \cup {NULL}
      /\ pc[t] \in ControlPoint
    BY <1>1, ThreadTypes
<1>3. \A n, s : n \in Object \cup {NULL} /\ s \in 0 .. StampMod - 1
               => Pointer(n, s) \in NodeTops
    BY DEF Pointer, NodeTops
<1>4. /\ tempTop[t].node \in Object \cup {NULL}
      /\ tempTop[t].stamp \in 0 .. StampMod - 1
      /\ top \in NodeTops
    BY <1>1, <1>2 DEF NodeTops, StackTypes
<1>5. Nowhere \in NodeTops
    BY <1>3, Numbers DEF Nowhere
<1>6. ASSUME NEW a, NEW b \in ControlPoint, Goto(t, a, b)
      PROVE  pc' \in [Threads -> ControlPoint]
    BY <1>1, <1>6 DEF Goto, StackTypes
<1>7. /\ {"idle", "p.data", "p.top", "p.next", "p.cas", "p.count",
          "q.false", "q.reserve", "q.top", "q.undo", "q.next",
          "q.cas", "q.data", "q.free"} \subseteq ControlPoint
    BY DEF ControlPoint
<1>8. Forget(t) => /\ tempTop' \in [Threads -> NodeTops]
                   /\ newTop' \in [Threads -> Object \cup {NULL}]
    BY <1>1, <1>5 DEF Forget, StackTypes
<1>9. UNCHANGED poolVars => PoolShared' /\ PoolCounts' /\ PoolThreads'
    BY <1>1, SamePool
<1>10. StackTypes' /\ PoolShared' /\ PoolCounts' /\ PoolThreads' => TypeOK'
    BY TypePartsNext
<1> USE <1>7
<1>11. CASE Push(t)
  <2>1. PoolShared' /\ PoolCounts' /\ PoolThreads'
      BY <1>1, <1>11, CallTypes DEF Push
  <2>2. PICK i \in held : held' = held \ {i} /\ index' = [index EXCEPT ![t] = i]
      BY <1>11 DEF Push
  <2>3. i \in 0 .. MaxSession /\ held' \subseteq Index
      BY <1>1, <2>2, Numbers DEF StackTypes, Index
  <2>4. pc' \in [Threads -> ControlPoint]
      BY <1>6, <1>11 DEF Push
  <2>5. StackTypes'
      BY <1>1, <1>11, <2>2, <2>3, <2>4 DEF Push, nodes, StackTypes
  <2> QED
      BY <1>10, <2>1, <2>5
<1>12. CASE Pop(t)
  <2>1. pc' \in [Threads -> ControlPoint]
      BY <1>6, <1>12 DEF Pop
  <2> QED
      BY <1>1, <1>9, <1>10, <1>12, <2>1 DEF Pop, nodes, stackLocals, outside,
         StackTypes
<1>13. CASE PushData(t)
  <2>1. pc' \in [Threads -> ControlPoint]
      BY <1>6, <1>13 DEF PushData
  <2>2. data' \in [Object -> 0 .. MaxSession]
      BY <1>1, <1>2, <1>13 DEF PushData, StackTypes
  <2> QED
      BY <1>1, <1>9, <1>10, <1>13, <2>1, <2>2 DEF PushData, stackLocals,
         outside, StackTypes
<1>14. CASE PushTop(t)
  <2>1. pc' \in [Threads -> ControlPoint]
      BY <1>6, <1>14 DEF PushTop
  <2> QED
      BY <1>1, <1>4, <1>9, <1>10, <1>14, <2>1 DEF PushTop, nodes,
         outside, StackTypes
<1>15. CASE PushNext(t)
  <2>1. pc' \in [Threads -> ControlPoint]
      BY <1>6, <1>15 DEF PushNext
  <2>2. next' \in [Object -> Object \cup {NULL}]
      BY <1>1, <1>4, <1>15 DEF PushNext, StackTypes
  <2> QED
      BY <1>1, <1>9, <1>10, <1>15, <2>1, <2>2 DEF PushNext, stackLocals,
         outside, StackTypes
<1>16. CASE PushCas(t)
  <2>1. pc' \in [Threads -> ControlPoint]
      BY <1>6, <1>16 DEF PushCas
  <2>2. top' \in NodeTops
      BY <1>2, <1>3, <1>4, <1>16 DEF PushCas, node
  <2>3. PoolShared' /\ PoolCounts'
      BY <1>1, <1>16 DEF PushCas, shared, counts, PoolShared, PoolCounts
  <2>4. PoolThreads'
      BY <1>1, <1>16 DEF PushCas, poolLocals, PoolThreads
  <2> QED
      BY <1>1, <1>10, <1>16, <2>1, <2>2, <2>3, <2>4 DEF PushCas, nodes,
         stackLocals, outside, StackTypes
<1>17. CASE PushCasLost(t)
  <2>1. pc' \in [Threads -> ControlPoint]
      BY <1>6, <1>17 DEF PushCasLost
  <2> QED
      BY <1>1, <1>9, <1>10, <1>17, <2>1 DEF PushCasLost, nodes, stackLocals,
         outside, StackTypes
<1>18. CASE PushCount(t)
  <2>1. pc' \in [Threads -> ControlPoint]
      BY <1>6, <1>18 DEF PushCount
  <2>2. nodeCount' \in Int /\ nodeCount' > nodeCount
      BY <1>1, <1>18 DEF PushCount, StackTypes
  <2>3. nodeCount' > -Cardinality(setup.poppers)
      BY <1>1, <2>2, SetupFacts DEF StackTypes
  <2> QED
      BY <1>1, <1>8, <1>9, <1>10, <1>18, <2>1, <2>2, <2>3 DEF PushCount, nodes,
         outside, StackTypes
<1>19. CASE PopFalse(t)
  <2>1. pc' \in [Threads -> ControlPoint]
      BY <1>6, <1>19 DEF PopFalse
  <2> QED
      BY <1>1, <1>9, <1>10, <1>19, <2>1 DEF PopFalse, nodes, stackLocals,
         outside, StackTypes
<1>20. CASE PopReserve(t)
  <2>1. pc' \in [Threads -> ControlPoint]
      BY <1>6, <1>20 DEF PopReserve
  <2>2. /\ nodeCount - Cardinality(PcIn(Reserved))
             > -Cardinality(setup.poppers)
      BY DEF StackInv, Counts
  <2>3. t \in PcIn(Reserved)
      BY <1>20 DEF PopReserve, Goto, PcIn, Reserved
  <2>4. /\ Cardinality(PcIn(Reserved)) \in Nat
        /\ Cardinality(PcIn(Reserved)) # 0
      BY <2>3, CountsAre, FS_EmptySet
  <2>5. nodeCount' \in Int /\ nodeCount' = nodeCount - 1
      BY <1>1, <1>20 DEF PopReserve, StackTypes
  <2>6. nodeCount' > -Cardinality(setup.poppers)
      BY <1>1, <2>2, <2>4, <2>5, SetupFacts DEF StackTypes
  <2> QED
      BY <1>1, <1>9, <1>10, <1>20, <2>1, <2>5, <2>6 DEF PopReserve, nodes,
         stackLocals, outside, StackTypes
<1>21. CASE PopTop(t)
  <2>1. pc' \in [Threads -> ControlPoint]
      BY <1>6, <1>21 DEF PopTop
  <2> QED
      BY <1>1, <1>4, <1>9, <1>10, <1>21, <2>1 DEF PopTop, nodes,
         outside, StackTypes
<1>22. CASE PopUndo(t)
  <2>1. pc' \in [Threads -> ControlPoint]
      BY <1>6, <1>22 DEF PopUndo
  <2>2. nodeCount' \in Int /\ nodeCount' > nodeCount
      BY <1>1, <1>22 DEF PopUndo, StackTypes
  <2>3. nodeCount' > -Cardinality(setup.poppers)
      BY <1>1, <2>2, SetupFacts DEF StackTypes
  <2> QED
      BY <1>1, <1>8, <1>9, <1>10, <1>22, <2>1, <2>2, <2>3 DEF PopUndo, nodes,
         outside, StackTypes
<1>23. CASE PopNext(t)
  <2>1. pc' \in [Threads -> ControlPoint]
      BY <1>6, <1>23 DEF PopNext
  <2>2. tempTop[t].node \in Object
      BY <1>1, <1>4, <1>23 DEF PopNext, Goto, StackLocal
  <2>3. next[tempTop[t].node] \in Object \cup {NULL}
      BY <1>1, <2>2 DEF StackTypes
  <2> QED
      BY <1>1, <1>9, <1>10, <1>23, <2>1, <2>3 DEF PopNext, nodes,
         outside, StackTypes
<1>24. CASE PopCas(t)
  <2>1. pc' \in [Threads -> ControlPoint]
      BY <1>6, <1>24 DEF PopCas
  <2>2. (tempTop[t].stamp + 1) % StampMod \in 0 .. StampMod - 1
      BY <1>4, Numbers
  <2>3. top' \in NodeTops
      BY <1>2, <1>3, <1>24, <2>2 DEF PopCas
  <2>4. PoolShared' /\ PoolCounts'
      BY <1>1, <1>24 DEF PopCas, shared, counts, PoolShared, PoolCounts
  <2>5. PoolThreads'
      BY <1>1, <1>4, <1>24 DEF PopCas, poolLocals, PoolThreads
  <2> QED
      BY <1>1, <1>10, <1>24, <2>1, <2>3, <2>4, <2>5 DEF PopCas, nodes,
         stackLocals, outside, StackTypes
<1>25. CASE PopCasLost(t)
  <2>1. pc' \in [Threads -> ControlPoint]
      BY <1>6, <1>25 DEF PopCasLost
  <2> QED
      BY <1>1, <1>9, <1>10, <1>25, <2>1 DEF PopCasLost, nodes, stackLocals,
         outside, StackTypes
<1>26. CASE PopData(t)
  <2>1. pc' \in [Threads -> ControlPoint]
      BY <1>6, <1>26 DEF PopData
  <2>2. object[t] \in Object
      BY <1>1, <1>2, <1>26 DEF PopData, Goto, StackLocal
  <2>3. index' \in [Threads -> 0 .. MaxSession]
      BY <1>1, <1>26, <2>2 DEF PopData, node, StackTypes
  <2>4. PoolShared' /\ PoolCounts' /\ PoolThreads'
      BY <1>1, <1>26, CallTypes DEF PopData
  <2> QED
      BY <1>1, <1>8, <1>10, <1>26, <2>1, <2>3, <2>4 DEF PopData, nodes,
         outside, StackTypes
<1>27. CASE PopReturn(t)
  <2>1. pc' \in [Threads -> ControlPoint]
      BY <1>6, <1>27 DEF PopReturn
  <2>2. t \in PcIn(Calling) /\ Carries(t) = index[t]
      BY <1>27 DEF PopReturn, Goto, PcIn, Calling, Carries
  <2>3. index[t] \in Index
      BY <2>2 DEF StackInv, IndexApart
  <2> QED
      BY <1>1, <1>9, <1>10, <1>27, <2>1, <2>3 DEF PopReturn, nodes,
         stackLocals, StackTypes
<1> QED
    BY <1>11, <1>12, <1>13, <1>14, <1>15, <1>16, <1>17, <1>18, <1>19, <1>20,
       <1>21, <1>22, <1>23, <1>24, <1>25, <1>26, <1>27 DEF PushStep, PopStep

LEMMA NextTypes ==
    ASSUME NEW q, NEW r, StackInv(q, r), [Next]_vars
    PROVE  TypeOK'
<1>1. /\ TypeOK /\ StackTypes /\ PoolShared /\ PoolCounts /\ PoolThreads
    BY TypeParts DEF StackInv
<1>2. ASSUME NEW t \in Threads, InPool(t) PROVE TypeOK'
  <2>1. PoolShared' /\ PoolCounts' /\ PoolThreads'
      BY <1>2, PoolTypes DEF InPool
  <2>2. StackTypes'
      BY <1>1, <1>2 DEF InPool, nodes, stackLocals, outside, StackTypes
  <2> QED
      BY <2>1, <2>2, TypePartsNext
<1>3. CASE UNCHANGED vars
  <2>1. PoolShared' /\ PoolCounts' /\ PoolThreads'
      BY <1>1, <1>3, SamePool DEF vars
  <2>2. StackTypes'
      BY <1>1, <1>3 DEF vars, nodes, stackLocals, outside, StackTypes
  <2> QED
      BY <2>1, <2>2, TypePartsNext
<1> QED
    BY <1>2, <1>3, StackStepTypes DEF Next

-----------------------------------------------------------------------------
(* What a step changes. *)

Act(t) == Push(t) \/ Pop(t) \/ PushStep(t) \/ PopStep(t) \/ InPool(t)

\* The locals of the other threads stay, as do the constants of a run.
Elsewhere(t) ==
    /\ BucketSize' = BucketSize /\ setup' = setup
    /\ \A u \in Threads \ {t} :
          /\ pc'[u] = pc[u] /\ tempTop'[u] = tempTop[u]
          /\ newTop'[u] = newTop[u] /\ index'[u] = index[u]
          /\ poolPc'[u] = poolPc[u] /\ tempFreeNode'[u] = tempFreeNode[u]
          /\ newNext'[u] = newNext[u] /\ bucket'[u] = bucket[u]
          /\ object'[u] = object[u] /\ tls'[u] = tls[u]

\* A field is written by one thread, of the element it holds.
Writes(t) ==
    /\ \A b \in Bucket : \/ blockNext'[b] = blockNext[b]
                         \/ FreeLink(t) /\ b = bucket[t]
    /\ \A n \in Object : /\ next'[n] = next[n] \/ (PushNext(t) /\ n = object[t])
                         /\ data'[n] = data[n] \/ (PushData(t) /\ n = object[t])

\* The steps that change what the threads share.
Changes(t) ==
    /\ top' = top \/ PushCas(t) \/ PopCas(t)
    /\ held' = held \/ Push(t) \/ PopReturn(t)
    /\ object' = object \/ PushCas(t) \/ PopCas(t)
         \/ (InPool(t) /\ (TakeObject(t) \/ FreeCount(t)))
    /\ freeNodePtr' = freeNodePtr
         \/ (InPool(t) /\ (AllocCas(t) \/ FreeCas(t)))
    /\ fresh' = fresh \/ (InPool(t) /\ AllocNew(t))
    /\ allocCount' = allocCount
         \/ (InPool(t) /\ (BorrowBucket(t) \/ TakeObject(t)))
    /\ useCount' = useCount
         \/ (InPool(t) /\ (BorrowBucket(t) \/ FreeCount(t)))
    /\ tls' = tls \/ (InPool(t) /\ (BorrowBucket(t) \/ TakeObject(t)))

LEMMA PoolSteps ==
    ASSUME PoolShared, PoolThreads, NEW t \in Threads, InPool(t)
    PROVE  Elsewhere(t) /\ Writes(t) /\ Changes(t)
<1>1. /\ UNCHANGED <<next, data, top, nodeCount, pc, tempTop, newTop, index,
                     held, setup>>
      /\ PoolStep(t)
    BY DEF InPool, nodes, stackLocals, outside
<1>2. Done(t) => \A u \in Threads \ {t} :
          /\ poolPc'[u] = poolPc[u] /\ tempFreeNode'[u] = tempFreeNode[u]
          /\ newNext'[u] = newNext[u] /\ bucket'[u] = bucket[u]
    BY DEF Done, PoolThreads
<1>3. CASE AllocTop(t)
  <2>1. Elsewhere(t)
      BY <1>1, <1>2, <1>3 DEF AllocTop, Elsewhere, PoolThreads, Step,
         shared, counts,
         poolLocals
  <2>3. Writes(t)
      BY <1>1, <1>3 DEF AllocTop, Writes, shared
  <2>4. Changes(t)
      BY <1>1, <1>3 DEF AllocTop, Changes, shared, counts
  <2> QED
      BY <2>1, <2>3, <2>4
<1>4. CASE AllocNew(t)
  <2>1. Elsewhere(t)
      BY <1>1, <1>2, <1>4 DEF AllocNew, Elsewhere, PoolThreads, Step,
         shared, counts,
         poolLocals
  <2>3. Writes(t)
      BY <1>1, <1>4 DEF AllocNew, Writes, shared
  <2>4. Changes(t)
      BY <1>1, <1>4 DEF AllocNew, Changes, shared, counts
  <2> QED
      BY <2>1, <2>3, <2>4
<1>5. CASE AllocNext(t)
  <2>1. Elsewhere(t)
      BY <1>1, <1>2, <1>5 DEF AllocNext, Elsewhere, PoolThreads, Step,
         shared, counts,
         poolLocals
  <2>3. Writes(t)
      BY <1>1, <1>5 DEF AllocNext, Writes, shared
  <2>4. Changes(t)
      BY <1>1, <1>5 DEF AllocNext, Changes, shared, counts
  <2> QED
      BY <2>1, <2>3, <2>4
<1>6. CASE AllocCas(t)
  <2>1. Elsewhere(t)
      BY <1>1, <1>2, <1>6 DEF AllocCas, Elsewhere, PoolThreads, Step,
         shared, counts,
         poolLocals
  <2>3. Writes(t)
      BY <1>1, <1>6 DEF AllocCas, Writes, shared
  <2>4. Changes(t)
      BY <1>1, <1>6 DEF AllocCas, Changes, shared, counts
  <2> QED
      BY <2>1, <2>3, <2>4
<1>7. CASE AllocCasLost(t)
  <2>1. Elsewhere(t)
      BY <1>1, <1>2, <1>7 DEF AllocCasLost, Elsewhere, PoolThreads, Step,
         shared, counts,
         poolLocals
  <2>3. Writes(t)
      BY <1>1, <1>7 DEF AllocCasLost, Writes, shared
  <2>4. Changes(t)
      BY <1>1, <1>7 DEF AllocCasLost, Changes, shared, counts
  <2> QED
      BY <2>1, <2>3, <2>4
<1>8. CASE BorrowBucket(t)
  <2>1. Elsewhere(t)
      BY <1>1, <1>2, <1>8 DEF BorrowBucket, Elsewhere, PoolThreads, Step,
         shared, counts,
         poolLocals
  <2>3. Writes(t)
      BY <1>1, <1>8 DEF BorrowBucket, Writes, shared
  <2>4. Changes(t)
      BY <1>1, <1>8 DEF BorrowBucket, Changes, shared, counts
  <2> QED
      BY <2>1, <2>3, <2>4
<1>9. CASE TakeObject(t)
  <2>1. Elsewhere(t)
      BY <1>1, <1>2, <1>9 DEF TakeObject, Elsewhere, PoolThreads, Step,
         shared, counts,
         poolLocals
  <2>3. Writes(t)
      BY <1>1, <1>9 DEF TakeObject, Writes, shared
  <2>4. Changes(t)
      BY <1>1, <1>9 DEF TakeObject, Changes, shared, counts
  <2> QED
      BY <2>1, <2>3, <2>4
<1>10. CASE FreeCount(t)
  <2>1. Elsewhere(t)
      BY <1>1, <1>2, <1>10 DEF FreeCount, Elsewhere, PoolThreads, Step,
         shared, counts,
         poolLocals
  <2>3. Writes(t)
      BY <1>1, <1>10 DEF FreeCount, Writes, shared
  <2>4. Changes(t)
      BY <1>1, <1>10 DEF FreeCount, Changes, shared, counts
  <2> QED
      BY <2>1, <2>3, <2>4
<1>11. CASE FreeTop(t)
  <2>1. Elsewhere(t)
      BY <1>1, <1>2, <1>11 DEF FreeTop, Elsewhere, PoolThreads, Step,
         shared, counts,
         poolLocals
  <2>3. Writes(t)
      BY <1>1, <1>11 DEF FreeTop, Writes, shared
  <2>4. Changes(t)
      BY <1>1, <1>11 DEF FreeTop, Changes, shared, counts
  <2> QED
      BY <2>1, <2>3, <2>4
<1>12. CASE FreeLink(t)
  <2>1. Elsewhere(t)
      BY <1>1, <1>2, <1>12 DEF FreeLink, Elsewhere, PoolThreads, Step,
         shared, counts,
         poolLocals
  <2>2. \A b \in Bucket : b # bucket[t] => blockNext'[b] = blockNext[b]
      BY <1>12 DEF FreeLink, PoolShared
  <2>3. Writes(t)
      BY <1>1, <1>12, <2>2 DEF Writes
  <2>4. Changes(t)
      BY <1>1, <1>12 DEF FreeLink, Changes, shared, counts
  <2> QED
      BY <2>1, <2>3, <2>4
<1>13. CASE FreeCas(t)
  <2>1. Elsewhere(t)
      BY <1>1, <1>2, <1>13 DEF FreeCas, Elsewhere, PoolThreads, Step,
         shared, counts,
         poolLocals
  <2>3. Writes(t)
      BY <1>1, <1>13 DEF FreeCas, Writes, shared
  <2>4. Changes(t)
      BY <1>1, <1>13 DEF FreeCas, Changes, shared, counts
  <2> QED
      BY <2>1, <2>3, <2>4
<1>14. CASE FreeCasLost(t)
  <2>1. Elsewhere(t)
      BY <1>1, <1>2, <1>14 DEF FreeCasLost, Elsewhere, PoolThreads, Step,
         shared, counts,
         poolLocals
  <2>3. Writes(t)
      BY <1>1, <1>14 DEF FreeCasLost, Writes, shared
  <2>4. Changes(t)
      BY <1>1, <1>14 DEF FreeCasLost, Changes, shared, counts
  <2> QED
      BY <2>1, <2>3, <2>4
<1> QED
    BY <1>1, <1>3, <1>4, <1>5, <1>6, <1>7, <1>8, <1>9, <1>10, <1>11, <1>12,
       <1>13, <1>14 DEF PoolStep

LEMMA StackSteps ==
    ASSUME PoolShared, PoolThreads, StackTypes, NEW t \in Threads,
           Push(t) \/ Pop(t) \/ PushStep(t) \/ PopStep(t)
    PROVE  Elsewhere(t) /\ Writes(t) /\ Changes(t)
<1>1. UNCHANGED poolVars =>
          UNCHANGED <<BucketSize, freeNodePtr, blockNext, fresh, allocCount,
                      useCount, tls, poolPc, tempFreeNode, newNext, bucket,
                      object>>
    BY DEF poolVars, shared, counts, poolLocals
<1>2. CallAlloc(t) \/ CallFree(t) =>
        /\ UNCHANGED <<BucketSize, freeNodePtr, blockNext, fresh, allocCount,
                       useCount, tls, tempFreeNode, newNext, bucket, object>>
        /\ \A u \in Threads \ {t} : poolPc'[u] = poolPc[u]
    BY DEF CallAlloc, CallFree, Step, PoolThreads, shared, counts, poolLocals
<1>3. Forget(t) => \A u \in Threads \ {t} :
          tempTop'[u] = tempTop[u] /\ newTop'[u] = newTop[u]
    BY DEF Forget, StackTypes
<1>4. (\E a, b : Goto(t, a, b)) => \A u \in Threads \ {t} : pc'[u] = pc[u]
    BY DEF Goto, StackTypes
<1>5. CASE Push(t)
  <2>0. \A u \in Threads \ {t} : pc'[u] = pc[u]
      BY <1>4, <1>5 DEF Push
  <2>1. Elsewhere(t)
      BY <1>1, <1>2, <1>3, <1>5, <2>0 DEF Push, Elsewhere, StackTypes,
         PoolThreads,
         stackLocals, outside, shared, counts, poolLocals
  <2>3. Writes(t)
      BY <1>1, <1>2, <1>5 DEF Push, Writes, nodes, shared
  <2>4. Changes(t)
      BY <1>1, <1>2, <1>5 DEF Push, Changes, shared, counts, outside
  <2> QED
      BY <2>1, <2>3, <2>4
<1>6. CASE Pop(t)
  <2>0. \A u \in Threads \ {t} : pc'[u] = pc[u]
      BY <1>4, <1>6 DEF Pop
  <2>1. Elsewhere(t)
      BY <1>1, <1>2, <1>3, <1>6, <2>0 DEF Pop, Elsewhere, StackTypes,
         PoolThreads,
         stackLocals, outside, shared, counts, poolLocals
  <2>3. Writes(t)
      BY <1>1, <1>2, <1>6 DEF Pop, Writes, nodes, shared
  <2>4. Changes(t)
      BY <1>1, <1>2, <1>6 DEF Pop, Changes, shared, counts, outside
  <2> QED
      BY <2>1, <2>3, <2>4
<1>7. CASE PushData(t)
  <2>0. \A u \in Threads \ {t} : pc'[u] = pc[u]
      BY <1>4, <1>7 DEF PushData
  <2>1. Elsewhere(t)
      BY <1>1, <1>2, <1>3, <1>7, <2>0 DEF PushData, Elsewhere, StackTypes,
         PoolThreads,
         stackLocals, outside, shared, counts, poolLocals
  <2>2. \A n \in Object : n # object[t] => data'[n] = data[n]
      BY <1>7 DEF PushData, node, StackTypes
  <2>3. Writes(t)
      BY <1>1, <1>7, <2>2 DEF PushData, Writes
  <2>4. Changes(t)
      BY <1>1, <1>2, <1>7 DEF PushData, Changes, shared, counts, outside
  <2> QED
      BY <2>1, <2>3, <2>4
<1>8. CASE PushTop(t)
  <2>0. \A u \in Threads \ {t} : pc'[u] = pc[u]
      BY <1>4, <1>8 DEF PushTop
  <2>1. Elsewhere(t)
      BY <1>1, <1>2, <1>3, <1>8, <2>0 DEF PushTop, Elsewhere, StackTypes,
         PoolThreads,
         stackLocals, outside, shared, counts, poolLocals
  <2>3. Writes(t)
      BY <1>1, <1>2, <1>8 DEF PushTop, Writes, nodes, shared
  <2>4. Changes(t)
      BY <1>1, <1>2, <1>8 DEF PushTop, Changes, shared, counts, outside
  <2> QED
      BY <2>1, <2>3, <2>4
<1>9. CASE PushNext(t)
  <2>0. \A u \in Threads \ {t} : pc'[u] = pc[u]
      BY <1>4, <1>9 DEF PushNext
  <2>1. Elsewhere(t)
      BY <1>1, <1>2, <1>3, <1>9, <2>0 DEF PushNext, Elsewhere, StackTypes,
         PoolThreads,
         stackLocals, outside, shared, counts, poolLocals
  <2>2. \A n \in Object : n # object[t] => next'[n] = next[n]
      BY <1>9 DEF PushNext, node, StackTypes
  <2>3. Writes(t)
      BY <1>1, <1>9, <2>2 DEF PushNext, Writes
  <2>4. Changes(t)
      BY <1>1, <1>2, <1>9 DEF PushNext, Changes, shared, counts, outside
  <2> QED
      BY <2>1, <2>3, <2>4
<1>10. CASE PushCas(t)
  <2>0. \A u \in Threads \ {t} : pc'[u] = pc[u]
      BY <1>4, <1>10 DEF PushCas
  <2>1. Elsewhere(t)
      BY <1>1, <1>2, <1>3, <1>10, <2>0 DEF PushCas, Elsewhere, StackTypes,
         PoolThreads,
         stackLocals, outside, shared, counts, poolLocals
  <2>3. Writes(t)
      BY <1>1, <1>2, <1>10 DEF PushCas, Writes, nodes, shared
  <2>4. Changes(t)
      BY <1>1, <1>2, <1>10 DEF PushCas, Changes, shared, counts, outside
  <2> QED
      BY <2>1, <2>3, <2>4
<1>11. CASE PushCasLost(t)
  <2>0. \A u \in Threads \ {t} : pc'[u] = pc[u]
      BY <1>4, <1>11 DEF PushCasLost
  <2>1. Elsewhere(t)
      BY <1>1, <1>2, <1>3, <1>11, <2>0 DEF PushCasLost, Elsewhere,
         StackTypes, PoolThreads,
         stackLocals, outside, shared, counts, poolLocals
  <2>3. Writes(t)
      BY <1>1, <1>2, <1>11 DEF PushCasLost, Writes, nodes, shared
  <2>4. Changes(t)
      BY <1>1, <1>2, <1>11 DEF PushCasLost, Changes, shared, counts, outside
  <2> QED
      BY <2>1, <2>3, <2>4
<1>12. CASE PushCount(t)
  <2>0. \A u \in Threads \ {t} : pc'[u] = pc[u]
      BY <1>4, <1>12 DEF PushCount
  <2>1. Elsewhere(t)
      BY <1>1, <1>2, <1>3, <1>12, <2>0 DEF PushCount, Elsewhere,
         StackTypes, PoolThreads,
         stackLocals, outside, shared, counts, poolLocals
  <2>3. Writes(t)
      BY <1>1, <1>2, <1>12 DEF PushCount, Writes, nodes, shared
  <2>4. Changes(t)
      BY <1>1, <1>2, <1>12 DEF PushCount, Changes, shared, counts, outside
  <2> QED
      BY <2>1, <2>3, <2>4
<1>13. CASE PopFalse(t)
  <2>0. \A u \in Threads \ {t} : pc'[u] = pc[u]
      BY <1>4, <1>13 DEF PopFalse
  <2>1. Elsewhere(t)
      BY <1>1, <1>2, <1>3, <1>13, <2>0 DEF PopFalse, Elsewhere, StackTypes,
         PoolThreads,
         stackLocals, outside, shared, counts, poolLocals
  <2>3. Writes(t)
      BY <1>1, <1>2, <1>13 DEF PopFalse, Writes, nodes, shared
  <2>4. Changes(t)
      BY <1>1, <1>2, <1>13 DEF PopFalse, Changes, shared, counts, outside
  <2> QED
      BY <2>1, <2>3, <2>4
<1>14. CASE PopReserve(t)
  <2>0. \A u \in Threads \ {t} : pc'[u] = pc[u]
      BY <1>4, <1>14 DEF PopReserve
  <2>1. Elsewhere(t)
      BY <1>1, <1>2, <1>3, <1>14, <2>0 DEF PopReserve, Elsewhere,
         StackTypes, PoolThreads,
         stackLocals, outside, shared, counts, poolLocals
  <2>3. Writes(t)
      BY <1>1, <1>2, <1>14 DEF PopReserve, Writes, nodes, shared
  <2>4. Changes(t)
      BY <1>1, <1>2, <1>14 DEF PopReserve, Changes, shared, counts, outside
  <2> QED
      BY <2>1, <2>3, <2>4
<1>15. CASE PopTop(t)
  <2>0. \A u \in Threads \ {t} : pc'[u] = pc[u]
      BY <1>4, <1>15 DEF PopTop
  <2>1. Elsewhere(t)
      BY <1>1, <1>2, <1>3, <1>15, <2>0 DEF PopTop, Elsewhere, StackTypes,
         PoolThreads,
         stackLocals, outside, shared, counts, poolLocals
  <2>3. Writes(t)
      BY <1>1, <1>2, <1>15 DEF PopTop, Writes, nodes, shared
  <2>4. Changes(t)
      BY <1>1, <1>2, <1>15 DEF PopTop, Changes, shared, counts, outside
  <2> QED
      BY <2>1, <2>3, <2>4
<1>16. CASE PopUndo(t)
  <2>0. \A u \in Threads \ {t} : pc'[u] = pc[u]
      BY <1>4, <1>16 DEF PopUndo
  <2>1. Elsewhere(t)
      BY <1>1, <1>2, <1>3, <1>16, <2>0 DEF PopUndo, Elsewhere, StackTypes,
         PoolThreads,
         stackLocals, outside, shared, counts, poolLocals
  <2>3. Writes(t)
      BY <1>1, <1>2, <1>16 DEF PopUndo, Writes, nodes, shared
  <2>4. Changes(t)
      BY <1>1, <1>2, <1>16 DEF PopUndo, Changes, shared, counts, outside
  <2> QED
      BY <2>1, <2>3, <2>4
<1>17. CASE PopNext(t)
  <2>0. \A u \in Threads \ {t} : pc'[u] = pc[u]
      BY <1>4, <1>17 DEF PopNext
  <2>1. Elsewhere(t)
      BY <1>1, <1>2, <1>3, <1>17, <2>0 DEF PopNext, Elsewhere, StackTypes,
         PoolThreads,
         stackLocals, outside, shared, counts, poolLocals
  <2>3. Writes(t)
      BY <1>1, <1>2, <1>17 DEF PopNext, Writes, nodes, shared
  <2>4. Changes(t)
      BY <1>1, <1>2, <1>17 DEF PopNext, Changes, shared, counts, outside
  <2> QED
      BY <2>1, <2>3, <2>4
<1>18. CASE PopCas(t)
  <2>0. \A u \in Threads \ {t} : pc'[u] = pc[u]
      BY <1>4, <1>18 DEF PopCas
  <2>1. Elsewhere(t)
      BY <1>1, <1>2, <1>3, <1>18, <2>0 DEF PopCas, Elsewhere, StackTypes,
         PoolThreads,
         stackLocals, outside, shared, counts, poolLocals
  <2>3. Writes(t)
      BY <1>1, <1>2, <1>18 DEF PopCas, Writes, nodes, shared
  <2>4. Changes(t)
      BY <1>1, <1>2, <1>18 DEF PopCas, Changes, shared, counts, outside
  <2> QED
      BY <2>1, <2>3, <2>4
<1>19. CASE PopCasLost(t)
  <2>0. \A u \in Threads \ {t} : pc'[u] = pc[u]
      BY <1>4, <1>19 DEF PopCasLost
  <2>1. Elsewhere(t)
      BY <1>1, <1>2, <1>3, <1>19, <2>0 DEF PopCasLost, Elsewhere,
         StackTypes, PoolThreads,
         stackLocals, outside, shared, counts, poolLocals
  <2>3. Writes(t)
      BY <1>1, <1>2, <1>19 DEF PopCasLost, Writes, nodes, shared
  <2>4. Changes(t)
      BY <1>1, <1>2, <1>19 DEF PopCasLost, Changes, shared, counts, outside
  <2> QED
      BY <2>1, <2>3, <2>4
<1>20. CASE PopData(t)
  <2>0. \A u \in Threads \ {t} : pc'[u] = pc[u]
      BY <1>4, <1>20 DEF PopData
  <2>1. Elsewhere(t)
      BY <1>1, <1>2, <1>3, <1>20, <2>0 DEF PopData, Elsewhere, StackTypes,
         PoolThreads,
         stackLocals, outside, shared, counts, poolLocals
  <2>3. Writes(t)
      BY <1>1, <1>2, <1>20 DEF PopData, Writes, nodes, shared
  <2>4. Changes(t)
      BY <1>1, <1>2, <1>20 DEF PopData, Changes, shared, counts, outside
  <2> QED
      BY <2>1, <2>3, <2>4
<1>21. CASE PopReturn(t)
  <2>0. \A u \in Threads \ {t} : pc'[u] = pc[u]
      BY <1>4, <1>21 DEF PopReturn
  <2>1. Elsewhere(t)
      BY <1>1, <1>2, <1>3, <1>21, <2>0 DEF PopReturn, Elsewhere,
         StackTypes, PoolThreads,
         stackLocals, outside, shared, counts, poolLocals
  <2>3. Writes(t)
      BY <1>1, <1>2, <1>21 DEF PopReturn, Writes, nodes, shared
  <2>4. Changes(t)
      BY <1>1, <1>2, <1>21 DEF PopReturn, Changes, shared, counts, outside
  <2> QED
      BY <2>1, <2>3, <2>4
<1> QED
    BY <1>5, <1>6, <1>7, <1>8, <1>9, <1>10, <1>11, <1>12, <1>13, <1>14,
       <1>15, <1>16, <1>17, <1>18, <1>19, <1>20, <1>21 DEF PushStep,
       PopStep

LEMMA ActSteps ==
    ASSUME NEW q, NEW r, StackInv(q, r), NEW t \in Threads, Act(t)
    PROVE  Elsewhere(t) /\ Writes(t) /\ Changes(t)
<1>1. StackTypes /\ PoolShared /\ PoolThreads
    BY TypeParts DEF StackInv
<1> QED
    BY <1>1, PoolSteps, StackSteps DEF Act

-----------------------------------------------------------------------------
(* Locals. *)

LEMMA OtherLocals ==
    ASSUME NEW q, NEW r, StackInv(q, r), NEW t \in Threads, Act(t),
           NEW u \in Threads \ {t}
    PROVE  PoolLocal(u)' /\ StackLocal(u)'
<1>1. Elsewhere(t) /\ Writes(t) /\ PoolLocal(u) /\ StackLocal(u) /\ TypeOK
    BY ActSteps, Local
<1>2. poolPc[u] = "f.cas" => blockNext'[bucket[u]] = blockNext[bucket[u]]
  <2> SUFFICES ASSUME poolPc[u] = "f.cas"
               PROVE  blockNext'[bucket[u]] = blockNext[bucket[u]]
      OBVIOUS
  <2>1. bucket[u] \in Bucket
      BY <1>1, ThreadTypes DEF PoolLocal, Returning
  <2>2. Moves(u, bucket[u])
      BY DEF Moves, Returning
  <2>3. Moves(t, bucket[u]) => FALSE
      BY <2>1, <2>2 DEF StackInv, BucketsApart
  <2>4. FreeLink(t) /\ bucket[u] = bucket[t] => Moves(t, bucket[u])
      BY DEF FreeLink, Step, Moves, Returning
  <2> QED
      BY <1>1, <2>1, <2>3, <2>4 DEF Writes
<1>3. object[u] # NULL => object[u] \in Object /\ object[t] # object[u]
    BY <1>1, ThreadTypes DEF StackInv, NodesApart
<1>4. object[u] # NULL => /\ next'[object[u]] = next[object[u]]
                          /\ data'[object[u]] = data[object[u]]
    BY <1>1, <1>3 DEF Writes
<1>5. PoolLocal(u)'
    BY <1>1, <1>2 DEF Elsewhere, PoolLocal
<1>6. pc[u] \in {"p.top", "p.next", "p.cas"} => object[u] # NULL
    BY <1>1 DEF StackLocal
<1>7. StackLocal(u)'
    BY <1>1, <1>4, <1>6 DEF Elsewhere, StackLocal
<1> QED
    BY <1>5, <1>7

LEMMA TakeFacts ==
    ASSUME NEW q, NEW r, StackInv(q, r), NEW t \in Threads, TakeObject(t)
    PROVE  LET b == tls[t]
               k == allocCount[b] + 1
           IN  /\ b \in Bucket /\ k \in 1 .. BucketSize
               /\ BucketSize' = BucketSize /\ <<b, k>> \in Object
               /\ object' = [object EXCEPT ![t] = <<b, k>>]
               /\ object'[t] = <<b, k>>
               /\ allocCount' = [allocCount EXCEPT ![b] = k]
               /\ allocCount'[b] = k
               /\ tls' = [tls EXCEPT ![t] = IF k = BucketSize THEN NULL ELSE b]
               /\ poolPc'[t] = "out" /\ poolPc[t] = "a.take"
<1> DEFINE b == tls[t]
           k == allocCount[b] + 1
<1>1. PoolShared /\ PoolCounts /\ PoolThreads /\ PoolLocal(t)
    BY Local, TypeParts
<1>2. b \in Bucket
    BY <1>1 DEF TakeObject, PoolLocal, PoolThreads
<1>3. Owned(q, b)
    BY <1>2 DEF StackInv, BucketsOK, BucketOK
<1>4. allocCount[b] < BucketSize /\ allocCount[b] \in 0 .. BucketSize
    BY <1>1, <1>2, <1>3 DEF Owned, PoolCounts
<1>5. k \in 1 .. BucketSize /\ k \in 1 .. MaxSize
    BY <1>1, <1>4, Numbers DEF PoolShared
<1>6. <<b, k>> \in Object
    BY <1>2, <1>5 DEF Object
<1>7. /\ object' = [object EXCEPT ![t] = <<b, k>>]
      /\ allocCount' = [allocCount EXCEPT ![b] = k]
      /\ tls' = [tls EXCEPT ![t] = IF allocCount'[b] = BucketSize THEN NULL
                                                                ELSE b]
      /\ Done(t) /\ UNCHANGED shared /\ poolPc[t] = "a.take"
    BY DEF TakeObject
<1> HIDE DEF b, k
<1>8. allocCount'[b] = k /\ object'[t] = <<b, k>>
    BY <1>1, <1>2, <1>7 DEF PoolCounts, PoolThreads
<1>9. BucketSize' = BucketSize /\ poolPc'[t] = "out"
    BY <1>1, <1>7 DEF shared, Done, PoolThreads
<1> QED
    BY <1>2, <1>5, <1>6, <1>7, <1>8, <1>9 DEF b, k

LEMMA PoolStepLocals ==
    ASSUME NEW q, NEW r, StackInv(q, r), NEW t \in Threads, InPool(t)
    PROVE  PoolLocal(t)' /\ StackLocal(t)'
<1>0. TypeOK /\ PoolLocal(t) /\ StackLocal(t)
    BY Local
<1>1. PoolThreads /\ PoolShared /\ PoolLocal(t) /\ StackLocal(t)
    BY <1>0, TypeParts
<1>2. UNCHANGED <<next, data, pc, tempTop, index, setup>> /\ PoolStep(t)
    BY DEF InPool, nodes, stackLocals, outside
<1>3. /\ bucket[t] \in Bucket \cup {NULL} /\ object[t] \in Object \cup {NULL}
      /\ tls[t] \in Bucket \cup {NULL} /\ pc[t] \in ControlPoint
    BY <1>0, ThreadTypes
<1>4. NULL \notin Bucket /\ NULL \notin Object
    BY NullApart
<1>5. Done(t) => /\ poolPc'[t] = "out"
    BY <1>1 DEF Done, PoolThreads
<1>6. CASE AllocTop(t)
  <2>2. PoolLocal(t)'
      BY <1>1, <1>2, <1>3, <1>4, <1>5, <1>6 DEF AllocTop, Step, PoolThreads,
         PoolShared, shared, counts, poolLocals, PoolLocal, Allocating,
         Filling, Returning
  <2>3. StackLocal(t)'
      BY <1>1, <1>2, <1>3, <1>4, <1>5, <1>6 DEF AllocTop, Step, PoolThreads,
         poolLocals, PoolLocal, StackLocal, Allocating, Filling, Returning,
         Popping, Taking, Reserved
  <2> QED
      BY <2>2, <2>3
<1>7. CASE AllocNew(t)
  <2>2. PoolLocal(t)'
      BY <1>1, <1>2, <1>3, <1>4, <1>5, <1>7 DEF AllocNew, Step, PoolThreads,
         PoolShared, shared, counts, poolLocals, PoolLocal, Allocating,
         Filling, Returning
  <2>3. StackLocal(t)'
      BY <1>1, <1>2, <1>3, <1>4, <1>5, <1>7 DEF AllocNew, Step, PoolThreads,
         poolLocals, PoolLocal, StackLocal, Allocating, Filling, Returning,
         Popping, Taking, Reserved
  <2> QED
      BY <2>2, <2>3
<1>8. CASE AllocNext(t)
  <2>2. PoolLocal(t)'
      BY <1>1, <1>2, <1>3, <1>4, <1>5, <1>8 DEF AllocNext, Step, PoolThreads,
         PoolShared, shared, counts, poolLocals, PoolLocal, Allocating,
         Filling, Returning
  <2>3. StackLocal(t)'
      BY <1>1, <1>2, <1>3, <1>4, <1>5, <1>8 DEF AllocNext, Step, PoolThreads,
         poolLocals, PoolLocal, StackLocal, Allocating, Filling, Returning,
         Popping, Taking, Reserved
  <2> QED
      BY <2>2, <2>3
<1>9. CASE AllocCas(t)
  <2>2. PoolLocal(t)'
      BY <1>1, <1>2, <1>3, <1>4, <1>5, <1>9 DEF AllocCas, Step, PoolThreads,
         PoolShared, shared, counts, poolLocals, PoolLocal, Allocating,
         Filling, Returning
  <2>3. StackLocal(t)'
      BY <1>1, <1>2, <1>3, <1>4, <1>5, <1>9 DEF AllocCas, Step, PoolThreads,
         poolLocals, PoolLocal, StackLocal, Allocating, Filling, Returning,
         Popping, Taking, Reserved
  <2> QED
      BY <2>2, <2>3
<1>10. CASE AllocCasLost(t)
  <2>2. PoolLocal(t)'
      BY <1>1, <1>2, <1>3, <1>4, <1>5, <1>10 DEF AllocCasLost, Step,
         PoolThreads, PoolShared, shared, counts, poolLocals, PoolLocal,
         Allocating, Filling, Returning
  <2>3. StackLocal(t)'
      BY <1>1, <1>2, <1>3, <1>4, <1>5, <1>10 DEF AllocCasLost, Step,
         PoolThreads, poolLocals, PoolLocal, StackLocal, Allocating, Filling,
         Returning, Popping, Taking, Reserved
  <2> QED
      BY <2>2, <2>3
<1>11. CASE BorrowBucket(t)
  <2>2. PoolLocal(t)'
      BY <1>1, <1>2, <1>3, <1>4, <1>5, <1>11 DEF BorrowBucket, Step,
         PoolThreads, PoolShared, shared, counts, poolLocals, PoolLocal,
         Allocating, Filling, Returning
  <2>3. StackLocal(t)'
      BY <1>1, <1>2, <1>3, <1>4, <1>5, <1>11 DEF BorrowBucket, Step,
         PoolThreads, poolLocals, PoolLocal, StackLocal, Allocating, Filling,
         Returning, Popping, Taking, Reserved
  <2> QED
      BY <2>2, <2>3
<1>12. CASE TakeObject(t)
  <2>1. /\ poolPc'[t] = "out" /\ poolPc[t] = "a.take"
        /\ object'[t] \in Object /\ object'[t] # NULL
      BY <1>4, <1>12, TakeFacts
  <2>2. pc[t] = "p.data"
      BY <1>1, <2>1 DEF PoolLocal, Filling
  <2>3. PoolLocal(t)'
      BY <2>1 DEF PoolLocal, Allocating, Filling, Returning
  <2>4. StackLocal(t)'
      BY <1>1, <1>2, <2>1, <2>2 DEF StackLocal, Popping, Taking, Reserved
  <2> QED
      BY <2>3, <2>4
<1>13. CASE FreeCount(t)
  <2>1. poolPc[t] = "f.count" /\ pc[t] = "q.free"
      BY <1>1, <1>13 DEF FreeCount, Step, PoolLocal
  <2>2. object[t] # NULL
      BY <1>1, <2>1 DEF StackLocal
  <2>3. object[t][1] \in Bucket
      BY <1>3, <2>2 DEF Object
  <2>4. /\ poolPc'[t] = "out" \/ (poolPc'[t] = "f.top" /\ bucket'[t] # NULL)
        /\ object'[t] = NULL
      BY <1>1, <1>4, <1>13, <2>3 DEF FreeCount, Step, PoolThreads
  <2>5. PoolLocal(t)'
      BY <1>2, <2>1, <2>4 DEF PoolLocal, Allocating, Filling, Returning
  <2>6. StackLocal(t)'
      BY <1>1, <1>2, <2>1, <2>4 DEF StackLocal, Popping, Taking, Reserved
  <2> QED
      BY <2>5, <2>6
<1>14. CASE FreeTop(t)
  <2>2. PoolLocal(t)'
      BY <1>1, <1>2, <1>3, <1>4, <1>5, <1>14 DEF FreeTop, Step, PoolThreads,
         PoolShared, shared, counts, poolLocals, PoolLocal, Allocating,
         Filling, Returning
  <2>3. StackLocal(t)'
      BY <1>1, <1>2, <1>3, <1>4, <1>5, <1>14 DEF FreeTop, Step, PoolThreads,
         poolLocals, PoolLocal, StackLocal, Allocating, Filling, Returning,
         Popping, Taking, Reserved
  <2> QED
      BY <2>2, <2>3
<1>15. CASE FreeLink(t)
  <2>2. PoolLocal(t)'
      BY <1>1, <1>2, <1>3, <1>4, <1>5, <1>15 DEF FreeLink, Step, PoolThreads,
         PoolShared, shared, counts, poolLocals, PoolLocal, Allocating,
         Filling, Returning
  <2>3. StackLocal(t)'
      BY <1>1, <1>2, <1>3, <1>4, <1>5, <1>15 DEF FreeLink, Step, PoolThreads,
         poolLocals, PoolLocal, StackLocal, Allocating, Filling, Returning,
         Popping, Taking, Reserved
  <2> QED
      BY <2>2, <2>3
<1>16. CASE FreeCas(t)
  <2>2. PoolLocal(t)'
      BY <1>1, <1>2, <1>3, <1>4, <1>5, <1>16 DEF FreeCas, Step, PoolThreads,
         PoolShared, shared, counts, poolLocals, PoolLocal, Allocating,
         Filling, Returning
  <2>3. StackLocal(t)'
      BY <1>1, <1>2, <1>3, <1>4, <1>5, <1>16 DEF FreeCas, Step, PoolThreads,
         poolLocals, PoolLocal, StackLocal, Allocating, Filling, Returning,
         Popping, Taking, Reserved
  <2> QED
      BY <2>2, <2>3
<1>17. CASE FreeCasLost(t)
  <2>2. PoolLocal(t)'
      BY <1>1, <1>2, <1>3, <1>4, <1>5, <1>17 DEF FreeCasLost, Step,
         PoolThreads, PoolShared, shared, counts, poolLocals, PoolLocal,
         Allocating, Filling, Returning
  <2>3. StackLocal(t)'
      BY <1>1, <1>2, <1>3, <1>4, <1>5, <1>17 DEF FreeCasLost, Step,
         PoolThreads, poolLocals, PoolLocal, StackLocal, Allocating, Filling,
         Returning, Popping, Taking, Reserved
  <2> QED
      BY <2>2, <2>3
<1> QED
    BY <1>2, <1>6, <1>7, <1>8, <1>9, <1>10, <1>11, <1>12, <1>13, <1>14, <1>15,
       <1>16, <1>17 DEF PoolStep

LEMMA StackStepLocals ==
    ASSUME TypeOK, NEW t \in Threads, PoolLocal(t), StackLocal(t),
           Push(t) \/ Pop(t) \/ PushStep(t) \/ PopStep(t)
    PROVE  PoolLocal(t)' /\ StackLocal(t)'
<1>1. PoolThreads /\ PoolShared /\ StackTypes
    BY TypeParts
<1>2. /\ object[t] \in Object \cup {NULL} /\ index[t] \in 0 .. MaxSession
      /\ tempTop[t] \in NodeTops /\ pc[t] \in ControlPoint
      /\ poolPc[t] \in PoolPoint
    BY ThreadTypes
<1>3. NULL \notin Bucket /\ NULL \notin Object
    BY NullApart
<1>4. UNCHANGED poolVars =>
          UNCHANGED <<blockNext, tls, poolPc, tempFreeNode, bucket, object>>
    BY DEF poolVars, shared, counts, poolLocals
<1>5. Forget(t) => tempTop'[t] = Nowhere
    BY <1>1 DEF Forget, StackTypes
<1>6. CASE Push(t)
  <2>1. PoolLocal(t)'
      BY <1>1, <1>2, <1>4, <1>6 DEF Push, Goto, CallAlloc, Step, StackTypes,
         PoolThreads, shared, counts, poolLocals, PoolLocal, StackLocal,
         Allocating, Filling, Returning
  <2>2. StackLocal(t)'
      BY <1>1, <1>2, <1>3, <1>4, <1>5, <1>6 DEF Push, Goto, CallAlloc, Step,
         node, nodes, stackLocals, outside, StackTypes, PoolThreads, shared,
         counts, poolLocals, PoolLocal, StackLocal, Popping, Taking, Reserved
  <2> QED
      BY <2>1, <2>2
<1>7. CASE Pop(t)
  <2>1. PoolLocal(t)'
      BY <1>1, <1>2, <1>4, <1>7 DEF Pop, Goto, StackTypes, PoolThreads,
         shared, counts, poolLocals, PoolLocal, StackLocal, Allocating,
         Filling, Returning
  <2>2. StackLocal(t)'
      BY <1>1, <1>2, <1>3, <1>4, <1>5, <1>7 DEF Pop, Goto, node, nodes,
         stackLocals, outside, StackTypes, PoolThreads, shared, counts,
         poolLocals, PoolLocal, StackLocal, Popping, Taking, Reserved
  <2> QED
      BY <2>1, <2>2
<1>8. CASE PushData(t)
  <2>1. PoolLocal(t)'
      BY <1>1, <1>2, <1>4, <1>8 DEF PushData, Goto, StackTypes, PoolThreads,
         shared, counts, poolLocals, PoolLocal, StackLocal, Allocating,
         Filling, Returning
  <2>2. StackLocal(t)'
      BY <1>1, <1>2, <1>3, <1>4, <1>5, <1>8 DEF PushData, Goto, node, nodes,
         stackLocals, outside, StackTypes, PoolThreads, shared, counts,
         poolLocals, PoolLocal, StackLocal, Popping, Taking, Reserved
  <2> QED
      BY <2>1, <2>2
<1>9. CASE PushTop(t)
  <2>1. PoolLocal(t)'
      BY <1>1, <1>2, <1>4, <1>9 DEF PushTop, Goto, StackTypes, PoolThreads,
         shared, counts, poolLocals, PoolLocal, StackLocal, Allocating,
         Filling, Returning
  <2>2. StackLocal(t)'
      BY <1>1, <1>2, <1>3, <1>4, <1>5, <1>9 DEF PushTop, Goto, node, nodes,
         stackLocals, outside, StackTypes, PoolThreads, shared, counts,
         poolLocals, PoolLocal, StackLocal, Popping, Taking, Reserved
  <2> QED
      BY <2>1, <2>2
<1>10. CASE PushNext(t)
  <2>1. PoolLocal(t)'
      BY <1>1, <1>2, <1>4, <1>10 DEF PushNext, Goto, StackTypes, PoolThreads,
         shared, counts, poolLocals, PoolLocal, StackLocal, Allocating,
         Filling, Returning
  <2>2. StackLocal(t)'
      BY <1>1, <1>2, <1>3, <1>4, <1>5, <1>10 DEF PushNext, Goto, node, nodes,
         stackLocals, outside, StackTypes, PoolThreads, shared, counts,
         poolLocals, PoolLocal, StackLocal, Popping, Taking, Reserved
  <2> QED
      BY <2>1, <2>2
<1>11. CASE PushCas(t)
  <2>1. PoolLocal(t)'
      BY <1>1, <1>2, <1>4, <1>11 DEF PushCas, Goto, StackTypes, PoolThreads,
         shared, counts, poolLocals, PoolLocal, StackLocal, Allocating,
         Filling, Returning
  <2>2. StackLocal(t)'
      BY <1>1, <1>2, <1>3, <1>4, <1>5, <1>11 DEF PushCas, Goto, node, nodes,
         stackLocals, outside, StackTypes, PoolThreads, shared, counts,
         poolLocals, PoolLocal, StackLocal, Popping, Taking, Reserved
  <2> QED
      BY <2>1, <2>2
<1>12. CASE PushCasLost(t)
  <2>1. PoolLocal(t)'
      BY <1>1, <1>2, <1>4, <1>12 DEF PushCasLost, Goto, StackTypes,
         PoolThreads, shared, counts, poolLocals, PoolLocal, StackLocal,
         Allocating, Filling, Returning
  <2>2. StackLocal(t)'
      BY <1>1, <1>2, <1>3, <1>4, <1>5, <1>12 DEF PushCasLost, Goto, node,
         nodes, stackLocals, outside, StackTypes, PoolThreads, shared, counts,
         poolLocals, PoolLocal, StackLocal, Popping, Taking, Reserved
  <2> QED
      BY <2>1, <2>2
<1>13. CASE PushCount(t)
  <2>1. PoolLocal(t)'
      BY <1>1, <1>2, <1>4, <1>13 DEF PushCount, Goto, StackTypes, PoolThreads,
         shared, counts, poolLocals, PoolLocal, StackLocal, Allocating,
         Filling, Returning
  <2>2. StackLocal(t)'
      BY <1>1, <1>2, <1>3, <1>4, <1>5, <1>13 DEF PushCount, Goto, node, nodes,
         stackLocals, outside, StackTypes, PoolThreads, shared, counts,
         poolLocals, PoolLocal, StackLocal, Popping, Taking, Reserved
  <2> QED
      BY <2>1, <2>2
<1>14. CASE PopFalse(t)
  <2>1. PoolLocal(t)'
      BY <1>1, <1>2, <1>4, <1>14 DEF PopFalse, Goto, StackTypes, PoolThreads,
         shared, counts, poolLocals, PoolLocal, StackLocal, Allocating,
         Filling, Returning
  <2>2. StackLocal(t)'
      BY <1>1, <1>2, <1>3, <1>4, <1>5, <1>14 DEF PopFalse, Goto, node, nodes,
         stackLocals, outside, StackTypes, PoolThreads, shared, counts,
         poolLocals, PoolLocal, StackLocal, Popping, Taking, Reserved
  <2> QED
      BY <2>1, <2>2
<1>15. CASE PopReserve(t)
  <2>1. PoolLocal(t)'
      BY <1>1, <1>2, <1>4, <1>15 DEF PopReserve, Goto, StackTypes,
         PoolThreads, shared, counts, poolLocals, PoolLocal, StackLocal,
         Allocating, Filling, Returning
  <2>2. StackLocal(t)'
      BY <1>1, <1>2, <1>3, <1>4, <1>5, <1>15 DEF PopReserve, Goto, node,
         nodes, stackLocals, outside, StackTypes, PoolThreads, shared, counts,
         poolLocals, PoolLocal, StackLocal, Popping, Taking, Reserved
  <2> QED
      BY <2>1, <2>2
<1>16. CASE PopTop(t)
  <2>1. PoolLocal(t)'
      BY <1>1, <1>2, <1>4, <1>16 DEF PopTop, Goto, StackTypes, PoolThreads,
         shared, counts, poolLocals, PoolLocal, StackLocal, Allocating,
         Filling, Returning
  <2>2. StackLocal(t)'
      BY <1>1, <1>2, <1>3, <1>4, <1>5, <1>16 DEF PopTop, Goto, node, nodes,
         stackLocals, outside, StackTypes, PoolThreads, shared, counts,
         poolLocals, PoolLocal, StackLocal, Popping, Taking, Reserved
  <2> QED
      BY <2>1, <2>2
<1>17. CASE PopUndo(t)
  <2>1. PoolLocal(t)'
      BY <1>1, <1>2, <1>4, <1>17 DEF PopUndo, Goto, StackTypes, PoolThreads,
         shared, counts, poolLocals, PoolLocal, StackLocal, Allocating,
         Filling, Returning
  <2>2. StackLocal(t)'
      BY <1>1, <1>2, <1>3, <1>4, <1>5, <1>17 DEF PopUndo, Goto, node, nodes,
         stackLocals, outside, StackTypes, PoolThreads, shared, counts,
         poolLocals, PoolLocal, StackLocal, Popping, Taking, Reserved
  <2> QED
      BY <2>1, <2>2
<1>18. CASE PopNext(t)
  <2>1. PoolLocal(t)'
      BY <1>1, <1>2, <1>4, <1>18 DEF PopNext, Goto, StackTypes, PoolThreads,
         shared, counts, poolLocals, PoolLocal, StackLocal, Allocating,
         Filling, Returning
  <2>2. StackLocal(t)'
      BY <1>1, <1>2, <1>3, <1>4, <1>5, <1>18 DEF PopNext, Goto, node, nodes,
         stackLocals, outside, StackTypes, PoolThreads, shared, counts,
         poolLocals, PoolLocal, StackLocal, Popping, Taking, Reserved
  <2> QED
      BY <2>1, <2>2
<1>19. CASE PopCas(t)
  <2>1. PoolLocal(t)'
      BY <1>1, <1>2, <1>4, <1>19 DEF PopCas, Goto, StackTypes, PoolThreads,
         shared, counts, poolLocals, PoolLocal, StackLocal, Allocating,
         Filling, Returning
  <2>2. StackLocal(t)'
      BY <1>1, <1>2, <1>3, <1>4, <1>5, <1>19 DEF PopCas, Goto, node, nodes,
         stackLocals, outside, StackTypes, PoolThreads, shared, counts,
         poolLocals, PoolLocal, StackLocal, Popping, Taking, Reserved
  <2> QED
      BY <2>1, <2>2
<1>20. CASE PopCasLost(t)
  <2>1. PoolLocal(t)'
      BY <1>1, <1>2, <1>4, <1>20 DEF PopCasLost, Goto, StackTypes,
         PoolThreads, shared, counts, poolLocals, PoolLocal, StackLocal,
         Allocating, Filling, Returning
  <2>2. StackLocal(t)'
      BY <1>1, <1>2, <1>3, <1>4, <1>5, <1>20 DEF PopCasLost, Goto, node,
         nodes, stackLocals, outside, StackTypes, PoolThreads, shared, counts,
         poolLocals, PoolLocal, StackLocal, Popping, Taking, Reserved
  <2> QED
      BY <2>1, <2>2
<1>21. CASE PopData(t)
  <2>1. PoolLocal(t)'
      BY <1>1, <1>2, <1>4, <1>21 DEF PopData, Goto, CallFree, Step,
         StackTypes, PoolThreads, shared, counts, poolLocals, PoolLocal,
         StackLocal, Allocating, Filling, Returning
  <2>2. StackLocal(t)'
      BY <1>1, <1>2, <1>3, <1>4, <1>5, <1>21 DEF PopData, Goto, CallFree,
         Step, node, nodes, stackLocals, outside, StackTypes, PoolThreads,
         shared, counts, poolLocals, PoolLocal, StackLocal, Popping, Taking,
         Reserved
  <2> QED
      BY <2>1, <2>2
<1>22. CASE PopReturn(t)
  <2>1. PoolLocal(t)'
      BY <1>1, <1>2, <1>4, <1>22 DEF PopReturn, Goto, StackTypes, PoolThreads,
         shared, counts, poolLocals, PoolLocal, StackLocal, Allocating,
         Filling, Returning
  <2>2. StackLocal(t)'
      BY <1>1, <1>2, <1>3, <1>4, <1>5, <1>22 DEF PopReturn, Goto, node, nodes,
         stackLocals, outside, StackTypes, PoolThreads, shared, counts,
         poolLocals, PoolLocal, StackLocal, Popping, Taking, Reserved
  <2> QED
      BY <2>1, <2>2
<1> QED
    BY <1>6, <1>7, <1>8, <1>9, <1>10, <1>11, <1>12, <1>13, <1>14, <1>15,
       <1>16, <1>17, <1>18, <1>19, <1>20, <1>21, <1>22 DEF PushStep, PopStep

LEMMA NextLocals ==
    ASSUME NEW q, NEW r, StackInv(q, r), NEW t \in Threads, Act(t)
    PROVE  Locals'
<1>1. PoolLocal(t)' /\ StackLocal(t)'
  <2>1. TypeOK /\ PoolLocal(t) /\ StackLocal(t)
      BY Local
  <2> QED
      BY <2>1, PoolStepLocals, StackStepLocals DEF Act
<1>2. \A u \in Threads \ {t} : PoolLocal(u)' /\ StackLocal(u)'
    BY OtherLocals
<1> QED
    BY <1>1, <1>2 DEF Locals

-----------------------------------------------------------------------------
(* The four swaps that change a list, and the stamps. *)

LEMMA TopTypes ==
    ASSUME TypeOK, NEW t \in Threads
    PROVE  /\ top.node \in Object \cup {NULL} /\ top.stamp \in Nat
           /\ top.stamp < StampMod
           /\ tempTop[t].node \in Object \cup {NULL} /\ tempTop[t].stamp \in Nat
           /\ freeNodePtr.block \in Bucket \cup {NULL}
           /\ freeNodePtr.stamp \in Nat /\ freeNodePtr.stamp < StampMod
           /\ tempFreeNode[t].block \in Bucket \cup {NULL}
           /\ tempFreeNode[t].stamp \in Nat
<1>1. top \in NodeTops /\ tempTop[t] \in NodeTops
      /\ freeNodePtr \in BlockTops /\ tempFreeNode[t] \in BlockTops
    BY TypeParts, ThreadTypes DEF StackTypes, PoolShared
<1> QED
    BY <1>1, Numbers DEF NodeTops, BlockTops

LEMMA Finite ==
    ASSUME TypeOK
    PROVE  IsFiniteSet(held) /\ Cardinality(held) \in Nat
<1>1. held \in SUBSET (1 .. MaxSession) /\ IsFiniteSet(1 .. MaxSession)
    BY TypeParts, Numbers, FS_Interval DEF StackTypes, Index
<1> QED
    BY <1>1, FS_Subset, FS_CardinalityType

\* A thread at a point is one of those counted there.
LEMMA OneThere ==
    ASSUME NEW t \in Threads, NEW S
    PROVE  /\ pc[t] \in S => Cardinality(PcIn(S)) >= 1
           /\ poolPc[t] \in S => Cardinality(PoolPcIn(S)) >= 1
<1>1. pc[t] \in S => PcIn(S) # {}
    BY DEF PcIn
<1>2. poolPc[t] \in S => PoolPcIn(S) # {}
    BY DEF PoolPcIn
<1> QED
    BY <1>1, <1>2, CountsAre, FS_EmptySet

LEMMA PopFacts ==
    ASSUME NEW q, NEW r, StackInv(q, r), NEW t \in Threads, PopCas(t)
    PROVE  /\ top.node \in Object /\ On(q, top.node)
           /\ top'.node = next[top.node] /\ top'.stamp = top.stamp + 1
           /\ object' = [object EXCEPT ![t] = top.node]
           /\ object'[t] = top.node /\ object[t] = NULL
           /\ pc[t] = "q.cas" /\ pc' = [pc EXCEPT ![t] = "q.data"]
           /\ pc'[t] = "q.data"
<1>1. /\ TypeOK /\ StackLocal(t) /\ StaleTop(q, t)
    BY Local
<1>2. /\ top = tempTop[t] /\ pc[t] = "q.cas"
      /\ pc' = [pc EXCEPT ![t] = "q.data"]
      /\ top' = Pointer(newTop[t], (tempTop[t].stamp + 1) % StampMod)
      /\ object' = [object EXCEPT ![t] = tempTop[t].node]
    BY DEF PopCas, Goto
<1>3. /\ On(q, tempTop[t].node) /\ newTop[t] = next[tempTop[t].node]
      /\ tempTop[t].node # NULL /\ object[t] = NULL
    BY <1>1, <1>2 DEF StaleTop, StackLocal
<1>4. top.stamp + 1 < StampMod
  <2>1. pc[t] \in Taking
      BY <1>2 DEF Popping, Taking
  <2>2. Cardinality(PcIn(Taking)) >= 1
        /\ Cardinality(PcIn(Taking)) \in Nat
      BY <2>1, OneThere, CountsAre
  <2>3. top.stamp + Cardinality(PcIn(Taking))
         <= setup.maxPops + Cardinality(setup.poppers)
      BY DEF StackInv, Stamps
  <2>4. /\ setup.maxPops + Cardinality(setup.poppers) < StampMod
        /\ setup.maxPops \in Nat /\ Cardinality(setup.poppers) \in Nat
        /\ top.stamp \in Nat
      BY <1>1, SetupFacts, TypeParts, TopTypes
  <2> QED
      BY <2>2, <2>3, <2>4, Numbers
<1>5. (top.stamp + 1) % StampMod = top.stamp + 1
    BY <1>1, <1>4, TopTypes, Numbers
<1>6. top'.node = next[top.node] /\ top'.stamp = top.stamp + 1
    BY <1>2, <1>3, <1>5 DEF Pointer
<1>7. object'[t] = top.node /\ pc'[t] = "q.data"
    BY <1>1, <1>2, TypeParts DEF StackTypes, PoolThreads
<1> QED
    BY <1>1, <1>2, <1>3, <1>6, <1>7, TopTypes

LEMMA PushFacts ==
    ASSUME NEW q, NEW r, StackInv(q, r), NEW t \in Threads, PushCas(t)
    PROVE  /\ object[t] \in Object /\ ~ On(q, object[t])
           /\ next[object[t]] = top.node /\ data[object[t]] = index[t]
           /\ top'.node = object[t] /\ top'.stamp = top.stamp
           /\ object' = [object EXCEPT ![t] = NULL] /\ object'[t] = NULL
           /\ pc[t] = "p.cas" /\ pc' = [pc EXCEPT ![t] = "p.count"]
           /\ pc'[t] = "p.count"
<1>1. /\ TypeOK /\ StackLocal(t)
    BY Local
<1>2. /\ top = tempTop[t] /\ pc[t] = "p.cas"
      /\ pc' = [pc EXCEPT ![t] = "p.count"]
      /\ top' = Pointer(object[t], tempTop[t].stamp)
      /\ object' = [object EXCEPT ![t] = NULL]
    BY DEF PushCas, Goto, node
<1>3. /\ object[t] # NULL /\ next[object[t]] = tempTop[t].node
      /\ data[object[t]] = index[t]
    BY <1>1, <1>2 DEF StackLocal
<1>4. object[t] \in Object /\ ~ On(q, object[t])
    BY <1>1, <1>3, ThreadTypes DEF StackInv, NodesApart
<1>5. top'.node = object[t] /\ top'.stamp = top.stamp
    BY <1>2 DEF Pointer
<1>6. object'[t] = NULL /\ pc'[t] = "p.count"
    BY <1>1, <1>2, TypeParts DEF StackTypes, PoolThreads
<1> QED
    BY <1>2, <1>3, <1>4, <1>5, <1>6

LEMMA AllocFacts ==
    ASSUME NEW q, NEW r, StackInv(q, r), NEW t \in Threads, AllocCas(t)
    PROVE  LET b == freeNodePtr.block IN
           /\ b \in Bucket /\ On(r, b)
           /\ freeNodePtr'.block = blockNext[b]
           /\ freeNodePtr'.stamp = freeNodePtr.stamp + 1
           /\ bucket' = [bucket EXCEPT ![t] = b] /\ bucket'[t] = b
           /\ poolPc[t] = "a.cas" /\ poolPc' = [poolPc EXCEPT ![t] = "a.fill"]
           /\ poolPc'[t] = "a.fill"
<1>1. /\ TypeOK /\ PoolLocal(t) /\ StaleBlock(r, t)
    BY Local
<1>2. /\ freeNodePtr = tempFreeNode[t] /\ poolPc[t] = "a.cas"
      /\ poolPc' = [poolPc EXCEPT ![t] = "a.fill"]
      /\ freeNodePtr' = Stamped(newNext[t],
                                (tempFreeNode[t].stamp + 1) % StampMod)
      /\ bucket' = [bucket EXCEPT ![t] = tempFreeNode[t].block]
    BY DEF AllocCas, Step
<1>3. /\ On(r, tempFreeNode[t].block)
      /\ newNext[t] = blockNext[tempFreeNode[t].block]
      /\ tempFreeNode[t].block # NULL
    BY <1>1, <1>2 DEF StaleBlock, PoolLocal
<1>4. freeNodePtr.stamp + 1 < StampMod
  <2>1. poolPc[t] \in Allocating
      BY <1>2 DEF Allocating
  <2>2. /\ Cardinality(PoolPcIn(Allocating)) >= 1
        /\ Cardinality(PoolPcIn(Allocating)) \in Nat
        /\ Cardinality(PcIn(Took)) \in Nat
        /\ Cardinality(held) \in Nat
      BY <1>1, <2>1, OneThere, CountsAre, Finite
  <2>3. freeNodePtr.stamp + Cardinality(held)
         + Cardinality(PoolPcIn(Allocating))
         + Cardinality(PcIn(Took)) <= top.stamp
      BY DEF StackInv, Stamps
  <2>4. /\ freeNodePtr.stamp \in Nat /\ top.stamp \in Nat
        /\ top.stamp < StampMod
      BY <1>1, TopTypes
  <2> QED
      BY <2>2, <2>3, <2>4, Numbers
<1>5. (freeNodePtr.stamp + 1) % StampMod = freeNodePtr.stamp + 1
    BY <1>1, <1>4, TopTypes, Numbers
<1>6. /\ freeNodePtr'.block = blockNext[freeNodePtr.block]
      /\ freeNodePtr'.stamp = freeNodePtr.stamp + 1
    BY <1>2, <1>3, <1>5 DEF Stamped
<1>7. bucket'[t] = freeNodePtr.block /\ poolPc'[t] = "a.fill"
    BY <1>1, <1>2, TypeParts DEF PoolThreads
<1> QED
    BY <1>1, <1>2, <1>3, <1>6, <1>7, TopTypes

LEMMA ReturnFacts ==
    ASSUME NEW q, NEW r, StackInv(q, r), NEW t \in Threads, FreeCas(t)
    PROVE  LET b == bucket[t] IN
           /\ b \in Bucket /\ ~ On(r, b) /\ Moves(t, b)
           /\ blockNext[b] = freeNodePtr.block
           /\ freeNodePtr'.block = b
           /\ freeNodePtr'.stamp = freeNodePtr.stamp
           /\ poolPc[t] = "f.cas" /\ poolPc' = [poolPc EXCEPT ![t] = "out"]
           /\ poolPc'[t] = "out"
<1>1. /\ TypeOK /\ PoolLocal(t)
    BY Local
<1>2. /\ freeNodePtr = tempFreeNode[t] /\ poolPc[t] = "f.cas"
      /\ poolPc' = [poolPc EXCEPT ![t] = "out"]
      /\ freeNodePtr' = Stamped(bucket[t], tempFreeNode[t].stamp)
    BY DEF FreeCas, Done
<1>3. /\ blockNext[bucket[t]] = tempFreeNode[t].block /\ bucket[t] # NULL
    BY <1>1, <1>2 DEF PoolLocal, Returning
<1>4. bucket[t] \in Bucket
    BY <1>1, <1>3, ThreadTypes
<1>5. Moves(t, bucket[t])
    BY <1>2 DEF Moves, Returning
<1>6. ~ On(r, bucket[t])
    BY <1>4, <1>5 DEF StackInv, BucketsApart
<1>7. /\ freeNodePtr'.block = bucket[t]
      /\ freeNodePtr'.stamp = freeNodePtr.stamp
    BY <1>2 DEF Stamped
<1>8. poolPc'[t] = "out"
    BY <1>1, <1>2, TypeParts DEF PoolThreads
<1> QED
    BY <1>2, <1>3, <1>4, <1>5, <1>6, <1>7, <1>8

-----------------------------------------------------------------------------
(* Where the threads are. *)

\* The steps that move a thread into or out of the sets of points.
PcSteps(t) ==
    /\ \/ pc'[t] \in Took <=> pc[t] \in Took
       \/ PopCas(t) \/ PopReturn(t)
    /\ (pc'[t] \in Taking => pc[t] \in Taking) \/ Pop(t)
    /\ \/ pc'[t] \in Calling <=> pc[t] \in Calling
       \/ Push(t) \/ PushCas(t) \/ PopCas(t) \/ PopReturn(t)
    /\ \/ pc'[t] \in Owing <=> pc[t] \in Owing
       \/ PushCas(t) \/ PushCount(t) \/ PopReserve(t) \/ PopUndo(t) \/ PopCas(t)
    /\ \/ pc'[t] \in Reserved <=> pc[t] \in Reserved
       \/ Pop(t) \/ PopReserve(t)
    /\ nodeCount' = nodeCount \/ PushCount(t) \/ PopReserve(t) \/ PopUndo(t)
    /\ (poolPc'[t] \in Allocating => poolPc[t] \in Allocating) \/ Push(t)

LEMMA PoolPcSteps ==
    ASSUME PoolThreads, NEW t \in Threads, InPool(t)
    PROVE  PcSteps(t)
<1>1. pc'[t] = pc[t] /\ nodeCount' = nodeCount /\ PoolStep(t)
    BY DEF InPool
<1>2. poolPc'[t] \in Allocating => poolPc[t] \in Allocating
  <2>1. CASE AllocTop(t)
      BY <2>1 DEF AllocTop, Step, PoolThreads, Allocating
  <2>2. CASE AllocNew(t)
      BY <2>2 DEF AllocNew, Step, PoolThreads, Allocating
  <2>3. CASE AllocNext(t)
      BY <2>3 DEF AllocNext, Step, PoolThreads, Allocating
  <2>4. CASE AllocCas(t)
      BY <2>4 DEF AllocCas, Step, PoolThreads, Allocating
  <2>5. CASE AllocCasLost(t)
      BY <2>5 DEF AllocCasLost, Step, PoolThreads, Allocating
  <2>6. CASE BorrowBucket(t)
      BY <2>6 DEF BorrowBucket, Step, PoolThreads, Allocating
  <2>7. CASE TakeObject(t)
      BY <2>7 DEF TakeObject, Done, PoolThreads, Allocating
  <2>8. CASE FreeCount(t)
      BY <2>8 DEF FreeCount, Step, PoolThreads, Allocating
  <2>9. CASE FreeTop(t)
      BY <2>9 DEF FreeTop, Step, PoolThreads, Allocating
  <2>10. CASE FreeLink(t)
      BY <2>10 DEF FreeLink, Step, PoolThreads, Allocating
  <2>11. CASE FreeCas(t)
      BY <2>11 DEF FreeCas, Done, PoolThreads, Allocating
  <2>12. CASE FreeCasLost(t)
      BY <2>12 DEF FreeCasLost, Step, PoolThreads, Allocating
  <2> QED
      BY <1>1, <2>1, <2>2, <2>3, <2>4, <2>5, <2>6, <2>7, <2>8, <2>9, <2>10,
         <2>11, <2>12 DEF PoolStep
<1> QED
    BY <1>1, <1>2 DEF PcSteps

LEMMA StackPcSteps ==
    ASSUME PoolThreads, StackTypes, NEW t \in Threads,
           Push(t) \/ Pop(t) \/ PushStep(t) \/ PopStep(t)
    PROVE  PcSteps(t)
<1>1. UNCHANGED poolVars => poolPc'[t] = poolPc[t]
    BY DEF poolVars
<1>2. \A a, b : Goto(t, a, b) => pc[t] = a /\ pc'[t] = b
    BY DEF Goto, StackTypes
<1>3. CASE Push(t)
  <2>1. pc[t] = "idle" /\ pc'[t] = "p.data" /\ nodeCount' = nodeCount
      BY <1>2, <1>3 DEF Push
  <2> QED
      BY <1>3, <2>1 DEF PcSteps, Took, Taking, Calling, Owing, Reserved,
         Popping, Pushing, Allocating
<1>4. CASE Pop(t)
    BY <1>1, <1>2, <1>4 DEF Pop, PcSteps, Took, Taking, Calling, Owing,
       Reserved, Popping, Pushing, Allocating
<1>5. CASE PushData(t)
    BY <1>1, <1>2, <1>5 DEF PushData, PcSteps, Took, Taking, Calling, Owing,
       Reserved, Popping, Pushing, Allocating
<1>6. CASE PushTop(t)
    BY <1>1, <1>2, <1>6 DEF PushTop, PcSteps, Took, Taking, Calling, Owing,
       Reserved, Popping, Pushing, Allocating
<1>7. CASE PushNext(t)
    BY <1>1, <1>2, <1>7 DEF PushNext, PcSteps, Took, Taking, Calling, Owing,
       Reserved, Popping, Pushing, Allocating
<1>8. CASE PushCas(t)
    BY <1>1, <1>2, <1>8 DEF PushCas, PcSteps, Took, Taking, Calling, Owing,
       Reserved, Popping, Pushing, Allocating
<1>9. CASE PushCasLost(t)
    BY <1>1, <1>2, <1>9 DEF PushCasLost, PcSteps, Took, Taking, Calling,
       Owing, Reserved, Popping, Pushing, Allocating
<1>10. CASE PushCount(t)
    BY <1>1, <1>2, <1>10 DEF PushCount, PcSteps, Took, Taking, Calling, Owing,
       Reserved, Popping, Pushing, Allocating
<1>11. CASE PopFalse(t)
    BY <1>1, <1>2, <1>11 DEF PopFalse, PcSteps, Took, Taking, Calling, Owing,
       Reserved, Popping, Pushing, Allocating
<1>12. CASE PopReserve(t)
    BY <1>1, <1>2, <1>12 DEF PopReserve, PcSteps, Took, Taking, Calling,
       Owing, Reserved, Popping, Pushing, Allocating
<1>13. CASE PopTop(t)
    BY <1>1, <1>2, <1>13 DEF PopTop, PcSteps, Took, Taking, Calling, Owing,
       Reserved, Popping, Pushing, Allocating
<1>14. CASE PopUndo(t)
    BY <1>1, <1>2, <1>14 DEF PopUndo, PcSteps, Took, Taking, Calling, Owing,
       Reserved, Popping, Pushing, Allocating
<1>15. CASE PopNext(t)
    BY <1>1, <1>2, <1>15 DEF PopNext, PcSteps, Took, Taking, Calling, Owing,
       Reserved, Popping, Pushing, Allocating
<1>16. CASE PopCas(t)
    BY <1>1, <1>2, <1>16 DEF PopCas, PcSteps, Took, Taking, Calling, Owing,
       Reserved, Popping, Pushing, Allocating
<1>17. CASE PopCasLost(t)
    BY <1>1, <1>2, <1>17 DEF PopCasLost, PcSteps, Took, Taking, Calling,
       Owing, Reserved, Popping, Pushing, Allocating
<1>18. CASE PopData(t)
    BY <1>1, <1>2, <1>18 DEF PopData, CallFree, Step, PoolThreads, PcSteps,
       Took, Taking, Calling, Owing, Reserved, Popping, Pushing, Allocating
<1>19. CASE PopReturn(t)
    BY <1>1, <1>2, <1>19 DEF PopReturn, PcSteps, Took, Taking, Calling, Owing,
       Reserved, Popping, Pushing, Allocating
<1> QED
    BY <1>3, <1>4, <1>5, <1>6, <1>7, <1>8, <1>9, <1>10, <1>11, <1>12, <1>13,
       <1>14, <1>15, <1>16, <1>17, <1>18, <1>19 DEF PushStep, PopStep

LEMMA ActPcSteps ==
    ASSUME NEW q, NEW r, StackInv(q, r), NEW t \in Threads, Act(t)
    PROVE  PcSteps(t)
<1>1. StackTypes /\ PoolThreads
    BY TypeParts DEF StackInv
<1> QED
    BY <1>1, PoolPcSteps, StackPcSteps DEF Act

LEMMA SamePcIn ==
    ASSUME NEW t \in Threads, Elsewhere(t), NEW S
    PROVE  /\ (pc'[t] \in S <=> pc[t] \in S) => PcIn(S)' = PcIn(S)
           /\ (pc'[t] \in S => pc[t] \in S) => PcIn(S)' \subseteq PcIn(S)
           /\ (poolPc'[t] \in S => poolPc[t] \in S)
                 => PoolPcIn(S)' \subseteq PoolPcIn(S)
BY DEF Elsewhere, PcIn, PoolPcIn

LEMMA FewerPcIn ==
    ASSUME NEW t \in Threads, Elsewhere(t), NEW S
    PROVE  /\ Cardinality(PcIn(S)) \in Nat /\ Cardinality(PcIn(S)') \in Nat
           /\ Cardinality(PoolPcIn(S)) \in Nat
           /\ Cardinality(PoolPcIn(S)') \in Nat
           /\ (pc'[t] \in S <=> pc[t] \in S)
                 => Cardinality(PcIn(S)') = Cardinality(PcIn(S))
           /\ (pc'[t] \in S => pc[t] \in S)
                 => Cardinality(PcIn(S)') <= Cardinality(PcIn(S))
           /\ (poolPc'[t] \in S => poolPc[t] \in S)
                 => Cardinality(PoolPcIn(S)') <= Cardinality(PoolPcIn(S))
<1>1. /\ IsFiniteSet(PcIn(S)) /\ IsFiniteSet(PoolPcIn(S))
      /\ Cardinality(PcIn(S)) \in Nat /\ Cardinality(PoolPcIn(S)) \in Nat
    BY CountsAre
<1>2. /\ PcIn(S)' \subseteq Threads /\ PoolPcIn(S)' \subseteq Threads
      /\ IsFiniteSet(Threads)
    BY PoolAssumption DEF PcIn, PoolPcIn
<1>3. Cardinality(PcIn(S)') \in Nat /\ Cardinality(PoolPcIn(S)') \in Nat
    BY <1>2, FS_Subset, FS_CardinalityType
<1>4. /\ PcIn(S)' \subseteq PcIn(S)
            => Cardinality(PcIn(S)') <= Cardinality(PcIn(S))
      /\ PoolPcIn(S)' \subseteq PoolPcIn(S)
            => Cardinality(PoolPcIn(S)') <= Cardinality(PoolPcIn(S))
    BY <1>1, FS_Subset
<1> QED
    BY <1>1, <1>3, <1>4, SamePcIn

LEMMA NextStamps ==
    ASSUME NEW q, NEW r, StackInv(q, r), NEW t \in Threads, Act(t)
    PROVE  Stamps'
<1>1. /\ TypeOK /\ StackTypes /\ PoolThreads /\ StackLocal(t)
      /\ Elsewhere(t) /\ Changes(t) /\ PcSteps(t)
    BY Local, TypeParts, ActSteps, ActPcSteps
<1> DEFINE c1 == Cardinality(PcIn(Taking))
           c2 == Cardinality(PcIn(Took))
           c3 == Cardinality(PoolPcIn(Allocating))
           c4 == Cardinality(held)
           n1 == Cardinality(PcIn(Taking)')
           n2 == Cardinality(PcIn(Took)')
           n3 == Cardinality(PoolPcIn(Allocating)')
           n4 == Cardinality(held')
           max == setup.maxPops + Cardinality(setup.poppers)
<1>2. /\ c1 \in Nat /\ c2 \in Nat /\ c3 \in Nat /\ c4 \in Nat
      /\ n1 \in Nat /\ n2 \in Nat /\ n3 \in Nat
    BY <1>1, FewerPcIn, Finite
<1>3. top.stamp + c1 <= max /\ freeNodePtr.stamp + c4 + c3 + c2 <= top.stamp
    BY DEF StackInv, Stamps
<1>4. /\ top.stamp \in Nat /\ freeNodePtr.stamp \in Nat
      /\ setup.maxPops \in Nat /\ Cardinality(setup.poppers) \in Nat
    BY <1>1, TopTypes, SetupFacts
<1>5. setup' = setup
    BY <1>1 DEF Elsewhere
<1>6. /\ n1 <= c1 \/ Pop(t)
      /\ n2 = c2 \/ PopCas(t) \/ PopReturn(t)
      /\ n3 <= c3 \/ Push(t)
    BY <1>1, FewerPcIn DEF PcSteps
<1> SUFFICES /\ top'.stamp + n1 <= max
             /\ freeNodePtr'.stamp + n4 + n3 + n2 <= top'.stamp
    BY <1>5 DEF Stamps
<1>7. CASE PopCas(t)
  <2>1. top'.stamp = top.stamp + 1
      BY <1>7, PopFacts
  <2>2. pc' = [pc EXCEPT ![t] = "q.data"] /\ pc[t] = "q.cas"
        /\ UNCHANGED <<freeNodePtr, held, poolPc>>
      BY <1>7 DEF PopCas, Goto, shared, outside
  <2>3. /\ pc[t] \in Taking /\ "q.data" \notin Taking
        /\ pc[t] \notin Took /\ "q.data" \in Took
      BY <2>2 DEF Taking, Took, Reserved, Popping
  <2>4. n1 + 1 = c1 /\ n2 = c2 + 1
    <3>1. /\ n1 + One(pc[t] \in Taking) = c1 + One("q.data" \in Taking)
          /\ n2 + One(pc[t] \in Took) = c2 + One("q.data" \in Took)
        BY <1>1, <2>2, PcMoves DEF StackTypes
    <3> QED
        BY <1>2, <2>3, <3>1 DEF One
  <2>5. n3 = c3 /\ n4 = c4
      BY <2>2 DEF PoolPcIn
  <2> QED
      BY <1>2, <1>3, <1>4, <2>1, <2>2, <2>4, <2>5
<1>8. CASE Push(t)
  <2>1. pc' = [pc EXCEPT ![t] = "p.data"] /\ pc[t] = "idle"
        /\ UNCHANGED <<freeNodePtr, top>>
      BY <1>8 DEF Push, Goto, CallAlloc, shared
  <2>2. PICK i \in held : held' = held \ {i}
      BY <1>8 DEF Push
  <2>3. n4 + 1 = c4
    <3>1. IsFiniteSet(held) /\ i \in held
        BY <1>1, <2>2, Finite
    <3>2. Cardinality(held \ {i}) = Cardinality(held) - 1
        BY <3>1, FS_RemoveElement
    <3> QED
        BY <1>2, <2>2, <3>2
  <2>4. n3 <= c3 + 1
    <3>1. PICK x : poolPc' = [poolPc EXCEPT ![t] = x]
        BY <1>8 DEF Push, CallAlloc, Step
    <3>2. n3 + One(poolPc[t] \in Allocating) = c3 + One(x \in Allocating)
        BY <1>1, <3>1, PoolPcMoves DEF PoolThreads
    <3> QED
        BY <1>2, <3>2 DEF One
  <2>5. n1 <= c1 /\ n2 = c2
    <3>1. pc'[t] = "p.data"
        BY <1>1, <2>1 DEF StackTypes
    <3>2. (pc'[t] \in Taking => pc[t] \in Taking)
          /\ (pc'[t] \in Took <=> pc[t] \in Took)
        BY <2>1, <3>1 DEF Taking, Took, Reserved, Popping
    <3> QED
        BY <1>1, <3>2, FewerPcIn
  <2> QED
    <3>1. n4 \in Nat
        BY <1>2, <2>3, <2>2, Finite, <1>1, FS_RemoveElement, FS_CardinalityType
    <3> QED
        BY <1>2, <1>3, <1>4, <2>1, <2>3, <2>4, <2>5, <3>1
<1>9. CASE PopReturn(t)
  <2>1. pc' = [pc EXCEPT ![t] = "idle"] /\ pc[t] = "q.free"
        /\ UNCHANGED <<freeNodePtr, top, poolPc>> /\ held' = held \cup {index[t]}
      BY <1>9 DEF PopReturn, Goto, poolVars, shared
  <2>2. n4 <= c4 + 1 /\ n4 \in Nat
    <3>1. IsFiniteSet(held)
        BY <1>1, Finite
    <3>2. IsFiniteSet(held') /\ Cardinality(held') =
             IF index[t] \in held THEN Cardinality(held) ELSE Cardinality(held) + 1
        BY <2>1, <3>1, FS_AddElement
    <3> QED
        BY <1>2, <3>2
  <2>3. /\ "idle" \notin Taking /\ pc[t] \notin Taking
        /\ pc[t] \in Took /\ "idle" \notin Took
      BY <2>1 DEF Taking, Took, Reserved, Popping
  <2>4. n1 = c1 /\ n2 + 1 = c2
    <3>1. /\ n1 + One(pc[t] \in Taking) = c1 + One("idle" \in Taking)
          /\ n2 + One(pc[t] \in Took) = c2 + One("idle" \in Took)
        BY <1>1, <2>1, PcMoves DEF StackTypes
    <3> QED
        BY <1>2, <2>3, <3>1 DEF One
  <2>5. n3 = c3
      BY <2>1 DEF PoolPcIn
  <2> QED
      BY <1>2, <1>3, <1>4, <2>1, <2>2, <2>4, <2>5
<1>10. CASE AllocCas(t) /\ InPool(t)
  <2>1. /\ freeNodePtr'.stamp = freeNodePtr.stamp + 1
        /\ poolPc' = [poolPc EXCEPT ![t] = "a.fill"] /\ poolPc[t] = "a.cas"
      BY <1>10, AllocFacts
  <2>2. UNCHANGED <<top, held, pc>>
      BY <1>10 DEF InPool, outside
  <2>3. n1 = c1 /\ n2 = c2 /\ n4 = c4
      BY <2>2 DEF PcIn
  <2>4. poolPc[t] \in Allocating /\ "a.fill" \notin Allocating
      BY <2>1 DEF Allocating
  <2>5. n3 + 1 = c3
    <3>1. n3 + One(poolPc[t] \in Allocating)
            = c3 + One("a.fill" \in Allocating)
        BY <1>1, <2>1, PoolPcMoves DEF PoolThreads
    <3> QED
        BY <1>2, <2>4, <3>1 DEF One
  <2> QED
      BY <1>2, <1>3, <1>4, <2>1, <2>2, <2>3, <2>5
<1>11. CASE Pop(t)
  <2>1. UNCHANGED <<top, freeNodePtr, held, poolPc>> /\ top.stamp < setup.maxPops
        /\ t \in setup.poppers
      BY <1>11 DEF Pop, poolVars, shared, outside
  <2>2. n1 <= Cardinality(setup.poppers)
    <3>1. \A u \in PcIn(Taking)' : u \in setup.poppers
      <4> SUFFICES ASSUME NEW u \in Threads, pc'[u] \in Taking
                   PROVE  u \in setup.poppers
          BY DEF PcIn
      <4>1. CASE u = t
          BY <2>1, <4>1
      <4>2. CASE u # t
        <5>1. pc[u] \in Taking
            BY <1>1, <4>2 DEF Elsewhere
        <5> QED
            BY <5>1, Local DEF StackLocal
      <4> QED
          BY <4>1, <4>2
    <3>2. PcIn(Taking)' \in SUBSET setup.poppers
        BY <3>1
    <3> QED
        BY <1>1, <3>2, SetupFacts, FS_Subset
  <2>3. n2 = c2 /\ n3 <= c3 /\ n4 = c4
    <3>1. pc[t] = "idle" /\ pc'[t] \in {"q.false", "q.reserve"}
        BY <1>1, <1>11 DEF Pop, Goto, StackTypes
    <3>2. pc'[t] \in Took <=> pc[t] \in Took
        BY <3>1 DEF Took
    <3>3. n2 = c2
        BY <1>1, <3>2, FewerPcIn
    <3> QED
        BY <1>2, <2>1, <3>3 DEF PoolPcIn
  <2> QED
      BY <1>2, <1>3, <1>4, <2>1, <2>2, <2>3
<1>12. CASE /\ ~ PopCas(t) /\ ~ Push(t) /\ ~ PopReturn(t) /\ ~ Pop(t)
            /\ ~ (AllocCas(t) /\ InPool(t))
  <2>1. top'.stamp = top.stamp
      BY <1>1, <1>12, PushFacts DEF Changes
  <2>2. freeNodePtr'.stamp = freeNodePtr.stamp
      BY <1>1, <1>12, ReturnFacts DEF Changes
  <2>3. n4 = c4
      BY <1>1, <1>12 DEF Changes
  <2> QED
      BY <1>2, <1>3, <1>4, <1>6, <1>12, <2>1, <2>2, <2>3
<1> QED
    BY <1>7, <1>8, <1>9, <1>10, <1>11, <1>12

-----------------------------------------------------------------------------
(* nodeCount. *)

LEMMA GotoCounts ==
    ASSUME TypeOK, NEW t \in Threads, NEW a, NEW b, Goto(t, a, b), NEW S
    PROVE  /\ Cardinality(PcIn(S)) \in Nat /\ Cardinality(PcIn(S)') \in Nat
           /\ Cardinality(PcIn(S)') + One(a \in S)
                = Cardinality(PcIn(S)) + One(b \in S)
<1>1. pc \in [Threads -> ControlPoint] /\ pc[t] = a
      /\ pc' = [pc EXCEPT ![t] = b]
    BY TypeParts DEF StackTypes, Goto
<1> QED
    BY <1>1, PcMoves

LEMMA CountsFacts ==
    ASSUME NEW q, NEW r, StackInv(q, r)
    PROVE  /\ Len(q) \in Nat /\ nodeCount \in Int
           /\ nodeCount + Cardinality(PcIn(Owing)) = Len(q)
           /\ nodeCount - Cardinality(PcIn(Reserved))
                > -Cardinality(setup.poppers)
           /\ Cardinality(setup.poppers) \in Nat
<1>1. q \in Seq(Object)
    BY DEF StackInv, Lists, Linked
<1>2. StackTypes
    BY TypeParts DEF StackInv
<1> QED
    BY <1>1, <1>2, SetupFacts DEF StackInv, Counts, StackTypes

LEMMA NextCounts ==
    ASSUME NEW q, NEW r, StackInv(q, r), NEW t \in Threads, Act(t),
           ~ PushCas(t), ~ PopCas(t)
    PROVE  Counts(q)'
<1>1. /\ TypeOK /\ Elsewhere(t) /\ PcSteps(t)
    BY Local, ActSteps, ActPcSteps
<1> DEFINE c == Cardinality(PcIn(Owing))
           d == Cardinality(PcIn(Owing)')
           m == Cardinality(PcIn(Reserved))
           n == Cardinality(PcIn(Reserved)')
           P == Cardinality(setup.poppers)
<1>2. /\ Len(q) \in Nat /\ nodeCount \in Int /\ P \in Nat
      /\ c \in Nat /\ d \in Nat /\ m \in Nat /\ n \in Nat
      /\ nodeCount + c = Len(q) /\ nodeCount - m > -P
    BY <1>1, CountsFacts, FewerPcIn
<1>3. setup' = setup
    BY <1>1 DEF Elsewhere
<1> SUFFICES nodeCount' + d = Len(q) /\ nodeCount' - n > -P
    BY <1>3 DEF Counts
<1>4. ASSUME NEW a, NEW b, Goto(t, a, b)
      PROVE  /\ d + One(a \in Owing) = c + One(b \in Owing)
             /\ n + One(a \in Reserved) = m + One(b \in Reserved)
    BY <1>1, <1>4, GotoCounts
<1>5. CASE PushCount(t)
  <2>1. Goto(t, "p.count", "idle") /\ nodeCount' = nodeCount + 1
      BY <1>5 DEF PushCount
  <2>2. /\ d + One("p.count" \in Owing) = c + One("idle" \in Owing)
        /\ n + One("p.count" \in Reserved) = m + One("idle" \in Reserved)
      BY <1>4, <2>1
  <2>3. d + 1 = c /\ n = m
      BY <1>2, <2>2 DEF One, Owing, Reserved, Popping
  <2> QED
      BY <1>2, <2>1, <2>3
<1>6. CASE PopReserve(t)
  <2>1. Goto(t, "q.reserve", "q.top") /\ nodeCount' = nodeCount - 1
      BY <1>6 DEF PopReserve
  <2>2. /\ d + One("q.reserve" \in Owing) = c + One("q.top" \in Owing)
        /\ n + One("q.reserve" \in Reserved) = m + One("q.top" \in Reserved)
      BY <1>4, <2>1
  <2>3. d = c + 1 /\ n + 1 = m
      BY <1>2, <2>2 DEF One, Owing, Reserved, Popping
  <2> QED
      BY <1>2, <2>1, <2>3
<1>7. CASE PopUndo(t)
  <2>1. Goto(t, "q.undo", "idle") /\ nodeCount' = nodeCount + 1
      BY <1>7 DEF PopUndo
  <2>2. /\ d + One("q.undo" \in Owing) = c + One("idle" \in Owing)
        /\ n + One("q.undo" \in Reserved) = m + One("idle" \in Reserved)
      BY <1>4, <2>1
  <2>3. d + 1 = c /\ n = m
      BY <1>2, <2>2 DEF One, Owing, Reserved, Popping
  <2> QED
      BY <1>2, <2>1, <2>3
<1>8. CASE Pop(t)
  <2>1. nodeCount' = nodeCount /\ pc[t] = "idle"
        /\ pc'[t] = IF nodeCount <= 0 THEN "q.false" ELSE "q.reserve"
      BY <1>1, <1>8, TypeParts DEF Pop, Goto, StackTypes
  <2>2. d = c
    <3>1. pc'[t] \in Owing <=> pc[t] \in Owing
        BY <2>1 DEF Owing, Popping
    <3> QED
        BY <1>1, <3>1, FewerPcIn
  <2>3. CASE nodeCount <= 0
    <3>1. pc'[t] \in Reserved <=> pc[t] \in Reserved
        BY <2>1, <2>3 DEF Reserved
    <3>2. n = m
        BY <1>1, <3>1, FewerPcIn
    <3> QED
        BY <1>2, <2>1, <2>2, <3>2
  <2>4. CASE nodeCount > 0
    <3>1. \A u \in PcIn(Reserved)' : u \in setup.poppers
      <4>1. Locals'
          BY NextLocals
      <4>2. \A u \in Threads : pc'[u] \in Reserved => u \in setup'.poppers
          BY <4>1 DEF Locals, StackLocal, Taking
      <4> QED
          BY <1>3, <4>2 DEF PcIn
    <3>2. PcIn(Reserved)' \in SUBSET setup.poppers
        BY <3>1
    <3>3. n <= P
        BY <1>1, <3>2, TypeParts, SetupFacts, FS_Subset
    <3> QED
        BY <1>2, <2>1, <2>2, <2>4, <3>3
  <2> QED
      BY <1>2, <2>3, <2>4
<1>9. CASE ~ PushCount(t) /\ ~ PopReserve(t) /\ ~ PopUndo(t) /\ ~ Pop(t)
  <2>1. d = c /\ n = m
      BY <1>1, <1>9, FewerPcIn DEF PcSteps
  <2>2. nodeCount' = nodeCount
      BY <1>1, <1>9 DEF PcSteps
  <2> QED
      BY <1>2, <2>1, <2>2
<1> QED
    BY <1>5, <1>6, <1>7, <1>8, <1>9

LEMMA PushCounts ==
    ASSUME NEW q, NEW r, StackInv(q, r), NEW t \in Threads, PushCas(t),
           NEW p, Len(p) = Len(q) + 1
    PROVE  Counts(p)'
<1>1. TypeOK /\ Goto(t, "p.cas", "p.count") /\ UNCHANGED <<nodeCount, setup>>
    BY Local DEF PushCas, outside
<1> DEFINE c == Cardinality(PcIn(Owing))
           d == Cardinality(PcIn(Owing)')
           m == Cardinality(PcIn(Reserved))
           n == Cardinality(PcIn(Reserved)')
<1>2. /\ d + One("p.cas" \in Owing) = c + One("p.count" \in Owing)
      /\ n + One("p.cas" \in Reserved) = m + One("p.count" \in Reserved)
      /\ c \in Nat /\ d \in Nat /\ m \in Nat /\ n \in Nat
    BY <1>1, GotoCounts
<1>3. d = c + 1 /\ n = m
    BY <1>2 DEF One, Owing, Reserved, Popping
<1>4. nodeCount' + d = Len(p) /\ nodeCount' - n > -Cardinality(setup'.poppers)
    BY <1>1, <1>2, <1>3, CountsFacts
<1> QED
    BY <1>4 DEF Counts

LEMMA PopCounts ==
    ASSUME NEW q, NEW r, StackInv(q, r), NEW t \in Threads, PopCas(t),
           NEW p, Len(p) \in Nat, Len(q) = Len(p) + 1
    PROVE  Counts(p)'
<1>1. TypeOK /\ Goto(t, "q.cas", "q.data") /\ UNCHANGED <<nodeCount, setup>>
    BY Local DEF PopCas, outside
<1> DEFINE c == Cardinality(PcIn(Owing))
           d == Cardinality(PcIn(Owing)')
           m == Cardinality(PcIn(Reserved))
           n == Cardinality(PcIn(Reserved)')
<1>2. /\ d + One("q.cas" \in Owing) = c + One("q.data" \in Owing)
      /\ n + One("q.cas" \in Reserved) = m + One("q.data" \in Reserved)
      /\ c \in Nat /\ d \in Nat /\ m \in Nat /\ n \in Nat
    BY <1>1, GotoCounts
<1>3. d + 1 = c /\ n = m
    BY <1>2 DEF One, Owing, Reserved, Popping
<1>4. nodeCount' + d = Len(p) /\ nodeCount' - n > -Cardinality(setup'.poppers)
    BY <1>1, <1>2, <1>3, CountsFacts
<1> QED
    BY <1>4 DEF Counts


-----------------------------------------------------------------------------
(* The lists after a step: a push or a pop changes that of the nodes, the  *)
(* return or the allocation of a bucket that of the buckets.               *)

NodeStep(t, q, p) ==
    \/ PushCas(t) /\ Added(q, Object, object[t], p)
    \/ /\ PopCas(t) /\ p \in Seq(Object) /\ Len(q) = Len(p) + 1
       /\ \A i \in 1 .. Len(p) : p[i] = q[i + 1]
    \/ ~ PushCas(t) /\ ~ PopCas(t) /\ p = q
Returns(t) == InPool(t) /\ FreeCas(t)
Fetches(t) == InPool(t) /\ AllocCas(t)
BlockStep(t, r, s) ==
    \/ Returns(t) /\ Added(r, Bucket, bucket[t], s)
    \/ /\ Fetches(t) /\ s \in Seq(Bucket) /\ Len(r) = Len(s) + 1
       /\ \A i \in 1 .. Len(s) : s[i] = r[i + 1]
    \/ ~ Returns(t) /\ ~ Fetches(t) /\ s = r

LEMMA PushList ==
    ASSUME NEW q, NEW r, StackInv(q, r), NEW t \in Threads, PushCas(t),
           NEW p, Added(q, Object, object[t], p)
    PROVE  /\ Linked(p, Object, top'.node, next') /\ p \in Seq(Object)
           /\ Len(q) \in Nat /\ Len(p) = Len(q) + 1 /\ p[1] = object[t]
           /\ \A i \in 1 .. Len(q) : p[i + 1] = q[i]
           /\ \A x : On(p, x) <=> (x = object[t] \/ On(q, x))
<1>1. /\ object[t] \in Object /\ ~ On(q, object[t])
      /\ next[object[t]] = top.node /\ top'.node = object[t]
    BY PushFacts
<1>2. Linked(q, Object, top.node, next) /\ next' = next
    BY DEF StackInv, Lists, PushCas, nodes
<1>3. /\ p \in Seq(Object) /\ Len(q) \in Nat /\ Len(p) = Len(q) + 1
      /\ p[1] = object[t] /\ \A i \in 1 .. Len(q) : p[i + 1] = q[i]
    BY <1>2 DEF Added, Linked
<1>4. /\ Linked(p, Object, object[t], next)
      /\ \A x : On(p, x) <=> (x = object[t] \/ On(q, x))
    BY <1>1, <1>2, <1>3, LinkedPush
<1> QED
    BY <1>1, <1>2, <1>3, <1>4

LEMMA PopList ==
    ASSUME NEW q, NEW r, StackInv(q, r), NEW t \in Threads, PopCas(t),
           NEW p \in Seq(Object), Len(q) = Len(p) + 1,
           \A i \in 1 .. Len(p) : p[i] = q[i + 1]
    PROVE  /\ Linked(p, Object, top'.node, next')
           /\ Len(p) \in Nat /\ q[1] = top.node /\ ~ On(p, top.node)
           /\ \A x : On(q, x) <=> (x = top.node \/ On(p, x))
<1>1. top'.node = next[top.node]
    BY PopFacts
<1>2. Linked(q, Object, top.node, next) /\ next' = next /\ NULL \notin Object
    BY NullApart DEF StackInv, Lists, PopCas, nodes
<1> HIDE DEF PopCas
<1>3. /\ Linked(p, Object, next[top.node], next)
      /\ top.node = q[1] /\ Len(p) \in Nat /\ ~ On(p, top.node)
      /\ \A x : On(q, x) <=> (x = top.node \/ On(p, x))
    BY <1>2, LinkedPop
<1> QED
    BY <1>1, <1>2, <1>3

LEMMA ReturnList ==
    ASSUME NEW q, NEW r, StackInv(q, r), NEW t \in Threads, FreeCas(t),
           NEW s, Added(r, Bucket, bucket[t], s)
    PROVE  /\ Linked(s, Bucket, freeNodePtr'.block, blockNext')
           /\ s \in Seq(Bucket)
           /\ \A x : On(s, x) <=> (x = bucket[t] \/ On(r, x))
<1>1. /\ bucket[t] \in Bucket /\ ~ On(r, bucket[t])
      /\ blockNext[bucket[t]] = freeNodePtr.block
      /\ freeNodePtr'.block = bucket[t]
    BY ReturnFacts
<1>2. Linked(r, Bucket, freeNodePtr.block, blockNext)
      /\ blockNext' = blockNext
    BY DEF StackInv, Lists, FreeCas
<1>3. /\ s \in Seq(Bucket) /\ Len(s) = Len(r) + 1
      /\ s[1] = bucket[t] /\ \A i \in 1 .. Len(r) : s[i + 1] = r[i]
    BY <1>2 DEF Added
<1>4. /\ Linked(s, Bucket, bucket[t], blockNext)
      /\ \A x : On(s, x) <=> (x = bucket[t] \/ On(r, x))
    BY <1>1, <1>2, <1>3, LinkedPush
<1> QED
    BY <1>1, <1>2, <1>3, <1>4

LEMMA FetchList ==
    ASSUME NEW q, NEW r, StackInv(q, r), NEW t \in Threads, AllocCas(t),
           NEW s \in Seq(Bucket), Len(r) = Len(s) + 1,
           \A i \in 1 .. Len(s) : s[i] = r[i + 1]
    PROVE  /\ Linked(s, Bucket, freeNodePtr'.block, blockNext')
           /\ ~ On(s, freeNodePtr.block)
           /\ \A x : On(r, x) <=> (x = freeNodePtr.block \/ On(s, x))
<1>1. freeNodePtr'.block = blockNext[freeNodePtr.block]
    BY AllocFacts
<1>2. Linked(r, Bucket, freeNodePtr.block, blockNext)
      /\ blockNext' = blockNext /\ NULL \notin Bucket
    BY NullApart DEF StackInv, Lists, AllocCas
<1>3. /\ Linked(s, Bucket, blockNext[freeNodePtr.block], blockNext)
      /\ ~ On(s, freeNodePtr.block)
      /\ \A x : On(r, x) <=> (x = freeNodePtr.block \/ On(s, x))
    BY <1>2, LinkedPop
<1> QED
    BY <1>1, <1>2, <1>3

LEMMA SameNodes ==
    ASSUME NEW q, NEW r, StackInv(q, r), NEW t \in Threads, Act(t),
           ~ PushCas(t), ~ PopCas(t)
    PROVE  top' = top /\ Linked(q, Object, top'.node, next')
<1>1. Writes(t) /\ Changes(t) /\ StackLocal(t)
    BY ActSteps, Local
<1>2. top' = top
    BY <1>1 DEF Changes
<1>3. Linked(q, Object, top.node, next) /\ q \in Seq(Object)
    BY DEF StackInv, Lists, Linked
<1>4. \A i \in 1 .. Len(q) : next'[q[i]] = next[q[i]]
  <2> SUFFICES ASSUME NEW i \in 1 .. Len(q), next'[q[i]] # next[q[i]]
               PROVE  FALSE
      OBVIOUS
  <2>1. q[i] \in Object /\ On(q, q[i])
      BY <1>3 DEF On
  <2>2. PushNext(t) /\ q[i] = object[t]
      BY <1>1, <2>1 DEF Writes
  <2>3. object[t] # NULL
      BY <1>1, <2>2 DEF PushNext, Goto, StackLocal
  <2> QED
      BY <2>1, <2>2, <2>3 DEF StackInv, NodesApart
<1> QED
    BY <1>2, <1>3, <1>4, LinkedKeep

LEMMA SameBlocks ==
    ASSUME NEW q, NEW r, StackInv(q, r), NEW t \in Threads, Act(t),
           ~ Returns(t), ~ Fetches(t)
    PROVE  /\ freeNodePtr' = freeNodePtr
           /\ Linked(r, Bucket, freeNodePtr'.block, blockNext')
<1>1. Writes(t) /\ Changes(t) /\ PoolLocal(t)
    BY ActSteps, Local
<1>2. freeNodePtr' = freeNodePtr
    BY <1>1 DEF Changes, Returns, Fetches
<1>3. Linked(r, Bucket, freeNodePtr.block, blockNext) /\ r \in Seq(Bucket)
    BY DEF StackInv, Lists, Linked
<1>4. \A i \in 1 .. Len(r) : blockNext'[r[i]] = blockNext[r[i]]
  <2> SUFFICES ASSUME NEW i \in 1 .. Len(r), blockNext'[r[i]] # blockNext[r[i]]
               PROVE  FALSE
      OBVIOUS
  <2>1. r[i] \in Bucket /\ On(r, r[i])
      BY <1>3 DEF On
  <2>2. FreeLink(t) /\ r[i] = bucket[t]
      BY <1>1, <2>1 DEF Writes
  <2>3. Moves(t, r[i])
      BY <2>2 DEF FreeLink, Step, Moves, Returning
  <2> QED
      BY <2>1, <2>3 DEF StackInv, BucketsApart
<1> QED
    BY <1>2, <1>3, <1>4, LinkedKeep

\* A step has its list, which is a list again.
LEMMA NodeStepIs ==
    ASSUME NEW q, NEW r, StackInv(q, r), NEW t \in Threads
    PROVE  \E p \in Seq(Object) : NodeStep(t, q, p)
<1>1. q \in Seq(Object) /\ Linked(q, Object, top.node, next)
    BY DEF StackInv, Lists, Linked
<1>2. CASE PushCas(t)
  <2>1. object[t] \in Object
      BY <1>2, PushFacts
  <2>2. PICK p : Added(q, Object, object[t], p)
      BY <1>1, <2>1, Onto
  <2>3. p \in Seq(Object)
      BY <2>2 DEF Added
  <2> QED
      BY <1>2, <2>2, <2>3 DEF NodeStep
<1>3. CASE PopCas(t)
  <2>1. top.node \in Object
      BY <1>3, PopFacts
  <2>2. Len(q) # 0
      BY <1>1, <2>1, NullApart, LinkedFirst
  <2>3. PICK p \in Seq(Object) :
            /\ Len(q) = Len(p) + 1
            /\ \A i \in 1 .. Len(p) : p[i] = q[i + 1]
      BY <1>1, <2>2, Rest
  <2> QED
      BY <1>3, <2>3 DEF NodeStep
<1> QED
    BY <1>1, <1>2, <1>3 DEF NodeStep

LEMMA BlockStepIs ==
    ASSUME NEW q, NEW r, StackInv(q, r), NEW t \in Threads
    PROVE  \E s \in Seq(Bucket) : BlockStep(t, r, s)
<1>1. r \in Seq(Bucket) /\ Linked(r, Bucket, freeNodePtr.block, blockNext)
    BY DEF StackInv, Lists, Linked
<1>2. CASE Returns(t)
  <2>1. bucket[t] \in Bucket
      BY <1>2, ReturnFacts DEF Returns
  <2>2. PICK s : Added(r, Bucket, bucket[t], s)
      BY <1>1, <2>1, Onto
  <2>3. s \in Seq(Bucket)
      BY <2>2 DEF Added
  <2> QED
      BY <1>2, <2>2, <2>3 DEF BlockStep
<1>3. CASE Fetches(t)
  <2>1. freeNodePtr.block \in Bucket
      BY <1>3, AllocFacts DEF Fetches
  <2>2. Len(r) # 0
      BY <1>1, <2>1, NullApart, LinkedFirst
  <2>3. PICK s \in Seq(Bucket) :
            /\ Len(r) = Len(s) + 1
            /\ \A i \in 1 .. Len(s) : s[i] = r[i + 1]
      BY <1>1, <2>2, Rest
  <2> QED
      BY <1>3, <2>3 DEF BlockStep
<1> QED
    BY <1>1, <1>2, <1>3 DEF BlockStep

LEMMA NextLists ==
    ASSUME NEW q, NEW r, StackInv(q, r), NEW t \in Threads, Act(t),
           NEW p, NodeStep(t, q, p), NEW s, BlockStep(t, r, s)
    PROVE  Lists(p, s)'
<1>1. Linked(p, Object, top'.node, next')
    BY PushList, PopList, SameNodes DEF NodeStep
<1>2. Linked(s, Bucket, freeNodePtr'.block, blockNext')
    BY ReturnList, FetchList, SameBlocks DEF BlockStep, Returns, Fetches
<1>3. Lists(p, s)' <=> /\ Linked(p, Object, top'.node, next')
                       /\ Linked(s, Bucket, freeNodePtr'.block, blockNext')
    BY DEF Lists, Linked
<1> QED
    BY <1>1, <1>2, <1>3

LEMMA StepCounts ==
    ASSUME NEW q, NEW r, StackInv(q, r), NEW t \in Threads, Act(t),
           NEW p, NodeStep(t, q, p)
    PROVE  Counts(p)'
<1>1. CASE PushCas(t) /\ Added(q, Object, object[t], p)
  <2>1. Len(p) = Len(q) + 1
      BY <1>1, PushList
  <2> QED
      BY <1>1, <2>1, PushCounts
<1>2. CASE /\ PopCas(t) /\ p \in Seq(Object) /\ Len(q) = Len(p) + 1
           /\ \A i \in 1 .. Len(p) : p[i] = q[i + 1]
  <2>1. Len(p) \in Nat
      BY <1>2
  <2> QED
      BY <1>2, <2>1, PopCounts
<1>3. CASE ~ PushCas(t) /\ ~ PopCas(t) /\ p = q
    BY <1>3, NextCounts
<1> QED
    BY <1>1, <1>2, <1>3 DEF NodeStep

-----------------------------------------------------------------------------
(* What a thread remembers. *)

KeepsTop(t) == /\ pc'[t] = pc[t] /\ tempTop'[t] = tempTop[t]
               /\ newTop'[t] = newTop[t]
KeepsBlock(t) == /\ poolPc'[t] = poolPc[t] /\ tempFreeNode'[t] = tempFreeNode[t]
                 /\ newNext'[t] = newNext[t]
KeepsBucket(t) == \A b : Moves(t, b)' <=> Moves(t, b)

\* The steps after which a thread remembers another thing.
Reads(t) ==
    /\ pc'[t] \in {"q.next", "q.cas"} => PopTop(t) \/ PopNext(t) \/ KeepsTop(t)
    /\ poolPc'[t] \in {"a.next", "a.cas"}
         => AllocTop(t) \/ AllocNext(t) \/ KeepsBlock(t)
    /\ \/ KeepsBucket(t)
       \/ InPool(t) /\ \/ AllocNew(t) \/ AllocCas(t) \/ BorrowBucket(t)
                        \/ FreeCount(t) \/ FreeCas(t)
    /\ index'[t] = index[t] \/ Push(t) \/ PopData(t)
    /\ (pc'[t] = "q.data" <=> pc[t] = "q.data") \/ PopCas(t) \/ PopData(t)

LEMMA PoolReads ==
    ASSUME PoolThreads, NEW t \in Threads, InPool(t)
    PROVE  Reads(t)
<1>1. KeepsTop(t) /\ pc'[t] = pc[t] /\ index'[t] = index[t] /\ PoolStep(t)
    BY DEF InPool, KeepsTop, stackLocals
<1> SUFFICES
        /\ poolPc'[t] \in {"a.next", "a.cas"}
             => AllocTop(t) \/ AllocNext(t) \/ KeepsBlock(t)
        /\ \/ KeepsBucket(t)
           \/ AllocNew(t) \/ AllocCas(t) \/ BorrowBucket(t) \/ FreeCount(t)
           \/ FreeCas(t)
    BY <1>1 DEF Reads
<1>2. CASE AllocTop(t)
  <2>2. KeepsBucket(t)
      BY <1>2 DEF AllocTop, Step, PoolThreads, KeepsBucket, Moves,
         Returning
  <2> QED
      BY <1>2, <2>2
<1>3. CASE AllocNew(t)
  <2>1. poolPc'[t] \notin {"a.next", "a.cas"}
      BY <1>3 DEF AllocNew, Step, PoolThreads
  <2> QED
      BY <1>3, <2>1
<1>4. CASE AllocNext(t)
  <2>2. KeepsBucket(t)
      BY <1>4 DEF AllocNext, Step, PoolThreads, KeepsBucket, Moves,
         Returning
  <2> QED
      BY <1>4, <2>2
<1>5. CASE AllocCas(t)
  <2>1. poolPc'[t] \notin {"a.next", "a.cas"}
      BY <1>5 DEF AllocCas, Step, PoolThreads
  <2> QED
      BY <1>5, <2>1
<1>6. CASE AllocCasLost(t)
  <2>1. poolPc'[t] \notin {"a.next", "a.cas"}
      BY <1>6 DEF AllocCasLost, Step, PoolThreads
  <2>2. KeepsBucket(t)
      BY <1>6 DEF AllocCasLost, Step, PoolThreads, KeepsBucket, Moves,
         Returning
  <2> QED
      BY <1>6, <2>1, <2>2
<1>7. CASE BorrowBucket(t)
  <2>1. poolPc'[t] \notin {"a.next", "a.cas"}
      BY <1>7 DEF BorrowBucket, Step, PoolThreads
  <2> QED
      BY <1>7, <2>1
<1>8. CASE TakeObject(t)
  <2>1. poolPc'[t] \notin {"a.next", "a.cas"}
      BY <1>8 DEF TakeObject, Done, PoolThreads
  <2>2. KeepsBucket(t)
      BY <1>8 DEF TakeObject, Done, PoolThreads, KeepsBucket, Moves,
         Returning
  <2> QED
      BY <1>8, <2>1, <2>2
<1>9. CASE FreeCount(t)
  <2>1. poolPc'[t] \notin {"a.next", "a.cas"}
      BY <1>9 DEF FreeCount, Step, PoolThreads
  <2> QED
      BY <1>9, <2>1
<1>10. CASE FreeTop(t)
  <2>1. poolPc'[t] \notin {"a.next", "a.cas"}
      BY <1>10 DEF FreeTop, Step, PoolThreads
  <2>2. KeepsBucket(t)
      BY <1>10 DEF FreeTop, Step, PoolThreads, KeepsBucket, Moves,
         Returning
  <2> QED
      BY <1>10, <2>1, <2>2
<1>11. CASE FreeLink(t)
  <2>1. poolPc'[t] \notin {"a.next", "a.cas"}
      BY <1>11 DEF FreeLink, Step, PoolThreads
  <2>2. KeepsBucket(t)
      BY <1>11 DEF FreeLink, Step, PoolThreads, KeepsBucket, Moves,
         Returning, poolLocals
  <2> QED
      BY <1>11, <2>1, <2>2
<1>12. CASE FreeCas(t)
  <2>1. poolPc'[t] \notin {"a.next", "a.cas"}
      BY <1>12 DEF FreeCas, Done, PoolThreads
  <2> QED
      BY <1>12, <2>1
<1>13. CASE FreeCasLost(t)
  <2>1. poolPc'[t] \notin {"a.next", "a.cas"}
      BY <1>13 DEF FreeCasLost, Step, PoolThreads
  <2>2. KeepsBucket(t)
      BY <1>13 DEF FreeCasLost, Step, PoolThreads, KeepsBucket, Moves,
         Returning, poolLocals
  <2> QED
      BY <1>13, <2>1, <2>2
<1> QED
    BY <1>1, <1>2, <1>3, <1>4, <1>5, <1>6, <1>7, <1>8, <1>9, <1>10, <1>11,
       <1>12, <1>13 DEF PoolStep

LEMMA StackReads ==
    ASSUME PoolThreads, StackTypes, NEW t \in Threads,
           Push(t) \/ Pop(t) \/ PushStep(t) \/ PopStep(t)
    PROVE  Reads(t)
<1>1. UNCHANGED poolVars => KeepsBlock(t) /\ KeepsBucket(t)
    BY DEF poolVars, poolLocals, KeepsBlock, KeepsBucket, Moves
<1>2. \A a, b : Goto(t, a, b) => pc[t] = a /\ pc'[t] = b
    BY DEF Goto, StackTypes
<1>3. CallAlloc(t) => /\ poolPc'[t] \notin {"a.next", "a.cas"}
                      /\ KeepsBucket(t)
    BY DEF CallAlloc, Step, PoolThreads, poolLocals, KeepsBucket, Moves, Returning
<1>4. CallFree(t) => /\ poolPc'[t] \notin {"a.next", "a.cas"}
                     /\ KeepsBucket(t)
    BY DEF CallFree, Step, PoolThreads, poolLocals, KeepsBucket, Moves, Returning
<1>5. CASE Push(t)
  <2>1. /\ KeepsBucket(t)
        /\ poolPc'[t] \in {"a.next", "a.cas"} => KeepsBlock(t)
      BY <1>3, <1>5 DEF Push
  <2>2. pc'[t] \in {"q.next", "q.cas"} => PopTop(t) \/ PopNext(t)
      BY <1>2, <1>5 DEF Push
  <2>3. pc'[t] = "p.data" /\ pc[t] = "idle"
      BY <1>2, <1>5 DEF Push
  <2> QED
      BY <1>5, <2>1, <2>2, <2>3 DEF Reads
<1>6. CASE Pop(t)
  <2>1. /\ KeepsBucket(t)
        /\ poolPc'[t] \in {"a.next", "a.cas"} => KeepsBlock(t)
      BY <1>1, <1>6 DEF Pop
  <2>2. pc'[t] \in {"q.next", "q.cas"} => PopTop(t) \/ PopNext(t)
      BY <1>2, <1>6 DEF Pop
  <2>3. /\ index' = index
        /\ pc'[t] = "q.data" <=> pc[t] = "q.data"
      BY <1>2, <1>6 DEF Pop, stackLocals
  <2> QED
      BY <2>1, <2>2, <2>3 DEF Reads
<1>7. CASE PushData(t)
  <2>1. /\ KeepsBucket(t)
        /\ poolPc'[t] \in {"a.next", "a.cas"} => KeepsBlock(t)
      BY <1>1, <1>7 DEF PushData
  <2>2. pc'[t] \in {"q.next", "q.cas"} => PopTop(t) \/ PopNext(t)
      BY <1>2, <1>7 DEF PushData
  <2>3. /\ index' = index
        /\ pc'[t] = "q.data" <=> pc[t] = "q.data"
      BY <1>2, <1>7 DEF PushData, stackLocals
  <2> QED
      BY <2>1, <2>2, <2>3 DEF Reads
<1>8. CASE PushTop(t)
  <2>1. /\ KeepsBucket(t)
        /\ poolPc'[t] \in {"a.next", "a.cas"} => KeepsBlock(t)
      BY <1>1, <1>8 DEF PushTop
  <2>2. pc'[t] \in {"q.next", "q.cas"} => PopTop(t) \/ PopNext(t)
      BY <1>2, <1>8 DEF PushTop
  <2>3. /\ index' = index
        /\ pc'[t] = "q.data" <=> pc[t] = "q.data"
      BY <1>2, <1>8 DEF PushTop, stackLocals
  <2> QED
      BY <2>1, <2>2, <2>3 DEF Reads
<1>9. CASE PushNext(t)
  <2>1. /\ KeepsBucket(t)
        /\ poolPc'[t] \in {"a.next", "a.cas"} => KeepsBlock(t)
      BY <1>1, <1>9 DEF PushNext
  <2>2. pc'[t] \in {"q.next", "q.cas"} => PopTop(t) \/ PopNext(t)
      BY <1>2, <1>9 DEF PushNext
  <2>3. /\ index' = index
        /\ pc'[t] = "q.data" <=> pc[t] = "q.data"
      BY <1>2, <1>9 DEF PushNext, stackLocals
  <2> QED
      BY <2>1, <2>2, <2>3 DEF Reads
<1>10. CASE PushCas(t)
  <2>1. /\ KeepsBucket(t)
        /\ poolPc'[t] \in {"a.next", "a.cas"} => KeepsBlock(t)
      BY <1>10 DEF PushCas, poolLocals, KeepsBucket, KeepsBlock, Moves
  <2>2. pc'[t] \in {"q.next", "q.cas"} => PopTop(t) \/ PopNext(t)
      BY <1>2, <1>10 DEF PushCas
  <2>3. /\ index' = index
        /\ pc'[t] = "q.data" <=> pc[t] = "q.data"
      BY <1>2, <1>10 DEF PushCas, stackLocals
  <2> QED
      BY <2>1, <2>2, <2>3 DEF Reads
<1>11. CASE PushCasLost(t)
  <2>1. /\ KeepsBucket(t)
        /\ poolPc'[t] \in {"a.next", "a.cas"} => KeepsBlock(t)
      BY <1>1, <1>11 DEF PushCasLost
  <2>2. pc'[t] \in {"q.next", "q.cas"} => PopTop(t) \/ PopNext(t)
      BY <1>2, <1>11 DEF PushCasLost
  <2>3. /\ index' = index
        /\ pc'[t] = "q.data" <=> pc[t] = "q.data"
      BY <1>2, <1>11 DEF PushCasLost, stackLocals
  <2> QED
      BY <2>1, <2>2, <2>3 DEF Reads
<1>12. CASE PushCount(t)
  <2>1. /\ KeepsBucket(t)
        /\ poolPc'[t] \in {"a.next", "a.cas"} => KeepsBlock(t)
      BY <1>1, <1>12 DEF PushCount
  <2>2. pc'[t] \in {"q.next", "q.cas"} => PopTop(t) \/ PopNext(t)
      BY <1>2, <1>12 DEF PushCount
  <2>3. /\ index' = index
        /\ pc'[t] = "q.data" <=> pc[t] = "q.data"
      BY <1>2, <1>12 DEF PushCount, stackLocals
  <2> QED
      BY <2>1, <2>2, <2>3 DEF Reads
<1>13. CASE PopFalse(t)
  <2>1. /\ KeepsBucket(t)
        /\ poolPc'[t] \in {"a.next", "a.cas"} => KeepsBlock(t)
      BY <1>1, <1>13 DEF PopFalse
  <2>2. pc'[t] \in {"q.next", "q.cas"} => PopTop(t) \/ PopNext(t)
      BY <1>2, <1>13 DEF PopFalse
  <2>3. /\ index' = index
        /\ pc'[t] = "q.data" <=> pc[t] = "q.data"
      BY <1>2, <1>13 DEF PopFalse, stackLocals
  <2> QED
      BY <2>1, <2>2, <2>3 DEF Reads
<1>14. CASE PopReserve(t)
  <2>1. /\ KeepsBucket(t)
        /\ poolPc'[t] \in {"a.next", "a.cas"} => KeepsBlock(t)
      BY <1>1, <1>14 DEF PopReserve
  <2>2. pc'[t] \in {"q.next", "q.cas"} => PopTop(t) \/ PopNext(t)
      BY <1>2, <1>14 DEF PopReserve
  <2>3. /\ index' = index
        /\ pc'[t] = "q.data" <=> pc[t] = "q.data"
      BY <1>2, <1>14 DEF PopReserve, stackLocals
  <2> QED
      BY <2>1, <2>2, <2>3 DEF Reads
<1>15. CASE PopTop(t)
  <2>1. /\ KeepsBucket(t)
        /\ poolPc'[t] \in {"a.next", "a.cas"} => KeepsBlock(t)
      BY <1>1, <1>15 DEF PopTop
  <2>2. pc'[t] \in {"q.next", "q.cas"} => PopTop(t) \/ PopNext(t)
      BY <1>15
  <2>3. /\ index' = index
        /\ pc'[t] = "q.data" <=> pc[t] = "q.data"
      BY <1>2, <1>15 DEF PopTop, stackLocals
  <2> QED
      BY <2>1, <2>2, <2>3 DEF Reads
<1>16. CASE PopUndo(t)
  <2>1. /\ KeepsBucket(t)
        /\ poolPc'[t] \in {"a.next", "a.cas"} => KeepsBlock(t)
      BY <1>1, <1>16 DEF PopUndo
  <2>2. pc'[t] \in {"q.next", "q.cas"} => PopTop(t) \/ PopNext(t)
      BY <1>2, <1>16 DEF PopUndo
  <2>3. /\ index' = index
        /\ pc'[t] = "q.data" <=> pc[t] = "q.data"
      BY <1>2, <1>16 DEF PopUndo, stackLocals
  <2> QED
      BY <2>1, <2>2, <2>3 DEF Reads
<1>17. CASE PopNext(t)
  <2>1. /\ KeepsBucket(t)
        /\ poolPc'[t] \in {"a.next", "a.cas"} => KeepsBlock(t)
      BY <1>1, <1>17 DEF PopNext
  <2>2. pc'[t] \in {"q.next", "q.cas"} => PopTop(t) \/ PopNext(t)
      BY <1>17
  <2>3. /\ index' = index
        /\ pc'[t] = "q.data" <=> pc[t] = "q.data"
      BY <1>2, <1>17 DEF PopNext, stackLocals
  <2> QED
      BY <2>1, <2>2, <2>3 DEF Reads
<1>18. CASE PopCas(t)
  <2>1. /\ KeepsBucket(t)
        /\ poolPc'[t] \in {"a.next", "a.cas"} => KeepsBlock(t)
      BY <1>18 DEF PopCas, poolLocals, KeepsBucket, KeepsBlock, Moves
  <2>2. pc'[t] \in {"q.next", "q.cas"} => PopTop(t) \/ PopNext(t)
      BY <1>2, <1>18 DEF PopCas
  <2>3. index' = index
      BY <1>18 DEF PopCas, stackLocals
  <2> QED
      BY <1>18, <2>1, <2>2, <2>3 DEF Reads
<1>19. CASE PopCasLost(t)
  <2>1. /\ KeepsBucket(t)
        /\ poolPc'[t] \in {"a.next", "a.cas"} => KeepsBlock(t)
      BY <1>1, <1>19 DEF PopCasLost
  <2>2. pc'[t] \in {"q.next", "q.cas"} => PopTop(t) \/ PopNext(t)
      BY <1>2, <1>19 DEF PopCasLost
  <2>3. /\ index' = index
        /\ pc'[t] = "q.data" <=> pc[t] = "q.data"
      BY <1>2, <1>19 DEF PopCasLost, stackLocals
  <2> QED
      BY <2>1, <2>2, <2>3 DEF Reads
<1>20. CASE PopData(t)
  <2>1. /\ KeepsBucket(t)
        /\ poolPc'[t] \in {"a.next", "a.cas"} => KeepsBlock(t)
      BY <1>4, <1>20 DEF PopData
  <2>2. pc'[t] \in {"q.next", "q.cas"} => PopTop(t) \/ PopNext(t)
      BY <1>2, <1>20 DEF PopData
  <2> QED
      BY <1>20, <1>2, <2>1, <2>2 DEF Reads, PopData
<1>21. CASE PopReturn(t)
  <2>1. /\ KeepsBucket(t)
        /\ poolPc'[t] \in {"a.next", "a.cas"} => KeepsBlock(t)
      BY <1>1, <1>21 DEF PopReturn
  <2>2. pc'[t] \in {"q.next", "q.cas"} => PopTop(t) \/ PopNext(t)
      BY <1>2, <1>21 DEF PopReturn
  <2>3. /\ index' = index
        /\ pc'[t] = "q.data" <=> pc[t] = "q.data"
      BY <1>2, <1>21 DEF PopReturn, stackLocals
  <2> QED
      BY <2>1, <2>2, <2>3 DEF Reads
<1> QED
    BY <1>5, <1>6, <1>7, <1>8, <1>9, <1>10, <1>11, <1>12, <1>13, <1>14,
       <1>15, <1>16, <1>17, <1>18, <1>19, <1>20, <1>21 DEF PushStep,
       PopStep

LEMMA ActReads ==
    ASSUME NEW q, NEW r, StackInv(q, r), NEW t \in Threads, Act(t)
    PROVE  Reads(t)
<1>1. StackTypes /\ PoolThreads
    BY TypeParts DEF StackInv
<1> QED
    BY <1>1, PoolReads, StackReads DEF Act

\* What is read of a list stays, until it is taken off.
LEMMA NodesRead ==
    ASSUME NEW q, NEW r, StackInv(q, r), NEW t \in Threads, Act(t),
           NEW p, NodeStep(t, q, p), NEW x, On(q, x)
    PROVE  /\ next'[x] = next[x]
           /\ top.stamp \in Nat /\ top'.stamp \in Nat
           /\ top.stamp <= top'.stamp
           /\ top'.stamp = top.stamp => On(p, x)
<1>1. top.stamp \in Nat /\ TypeOK
    BY Local, TopTypes
<1>2. x \in Object
    BY NullApart, LinkedFirst DEF StackInv, Lists
<1>3. CASE PushCas(t)
  <2>0. ~ PopCas(t)
      BY <1>3, PopFacts, PushFacts
  <2>1. Added(q, Object, object[t], p)
      BY <1>3, <2>0 DEF NodeStep
  <2>2. next' = next
      BY <1>3 DEF PushCas, nodes
  <2>3. On(p, x)
      BY <1>3, <2>1, PushList
  <2>4. top'.stamp = top.stamp
      BY <1>3, PushFacts
  <2> QED
      BY <1>1, <2>2, <2>3, <2>4
<1>4. CASE PopCas(t)
  <2>1. top'.stamp = top.stamp + 1 /\ next' = next
      BY <1>4, PopFacts DEF PopCas, nodes
  <2> QED
      BY <1>1, <2>1
<1>5. CASE ~ PushCas(t) /\ ~ PopCas(t)
  <2>1. p = q /\ top' = top
      BY <1>5, SameNodes DEF NodeStep
  <2>2. next'[x] # next[x] => FALSE
    <3> SUFFICES ASSUME next'[x] # next[x] PROVE FALSE
        OBVIOUS
    <3>1. Writes(t) /\ StackLocal(t)
        BY ActSteps, Local
    <3>2. PushNext(t) /\ x = object[t]
        BY <1>2, <3>1 DEF Writes
    <3>3. object[t] # NULL
        BY <3>1, <3>2 DEF PushNext, Goto, StackLocal
    <3> QED
        BY <3>2, <3>3 DEF StackInv, NodesApart
  <2> QED
      BY <1>1, <2>1, <2>2
<1> QED
    BY <1>3, <1>4, <1>5

LEMMA BlocksRead ==
    ASSUME NEW q, NEW r, StackInv(q, r), NEW t \in Threads, Act(t),
           NEW s, BlockStep(t, r, s), NEW x, On(r, x)
    PROVE  /\ blockNext'[x] = blockNext[x]
           /\ freeNodePtr.stamp \in Nat /\ freeNodePtr'.stamp \in Nat
           /\ freeNodePtr.stamp <= freeNodePtr'.stamp
           /\ freeNodePtr'.stamp = freeNodePtr.stamp => On(s, x)
<1>1. freeNodePtr.stamp \in Nat /\ TypeOK
    BY Local, TopTypes
<1>2. x \in Bucket
    BY NullApart, LinkedFirst DEF StackInv, Lists
<1>3. CASE Returns(t)
  <2>0. FreeCas(t) /\ ~ AllocCas(t)
      BY <1>3, ReturnFacts, AllocFacts DEF Returns
  <2>1. Added(r, Bucket, bucket[t], s)
      BY <1>3, <2>0 DEF BlockStep, Fetches
  <2>2. blockNext' = blockNext
      BY <2>0 DEF FreeCas
  <2>3. On(s, x)
      BY <2>0, <2>1, ReturnList
  <2>4. freeNodePtr'.stamp = freeNodePtr.stamp
      BY <2>0, ReturnFacts
  <2> QED
      BY <1>1, <2>2, <2>3, <2>4
<1>4. CASE Fetches(t)
  <2>1. freeNodePtr'.stamp = freeNodePtr.stamp + 1 /\ blockNext' = blockNext
      BY <1>4, AllocFacts DEF Fetches, AllocCas
  <2> QED
      BY <1>1, <2>1
<1>5. CASE ~ Returns(t) /\ ~ Fetches(t)
  <2>1. s = r /\ freeNodePtr' = freeNodePtr
      BY <1>5, SameBlocks DEF BlockStep
  <2>2. blockNext'[x] # blockNext[x] => FALSE
    <3> SUFFICES ASSUME blockNext'[x] # blockNext[x] PROVE FALSE
        OBVIOUS
    <3>1. Writes(t)
        BY ActSteps
    <3>2. FreeLink(t) /\ x = bucket[t]
        BY <1>2, <3>1 DEF Writes
    <3>3. Moves(t, x)
        BY <3>2 DEF FreeLink, Step, Moves, Returning
    <3> QED
        BY <1>2, <3>3 DEF StackInv, BucketsApart
  <2> QED
      BY <1>1, <2>1, <2>2
<1> QED
    BY <1>3, <1>4, <1>5

LEMMA KeptTops ==
    ASSUME NEW q, NEW r, StackInv(q, r), NEW t \in Threads, Act(t),
           NEW p, NodeStep(t, q, p), NEW u \in Threads, KeepsTop(u)
    PROVE  StaleTop(p, u)'
<1>1. TypeOK /\ StaleTop(q, u) /\ top.stamp \in Nat /\ tempTop[u].stamp \in Nat
    BY Local, TopTypes
<1>2. top'.stamp \in Nat /\ top.stamp <= top'.stamp
    BY <1>1, PushFacts, PopFacts, SameNodes
<1> SUFFICES ASSUME pc[u] \in {"q.next", "q.cas"}
             PROVE  /\ tempTop[u].stamp <= top'.stamp
                    /\ tempTop[u].stamp = top'.stamp =>
                         /\ On(p, tempTop[u].node)
                         /\ pc[u] = "q.cas" =>
                                newTop[u] = next'[tempTop[u].node]
    BY DEF StaleTop, KeepsTop, On
<1>3. /\ tempTop[u].stamp <= top.stamp
      /\ tempTop[u].stamp = top.stamp =>
            /\ On(q, tempTop[u].node)
            /\ pc[u] = "q.cas" => newTop[u] = next[tempTop[u].node]
    BY <1>1 DEF StaleTop
<1>4. tempTop[u].stamp <= top'.stamp
    BY <1>1, <1>2, <1>3
<1>5. ASSUME tempTop[u].stamp = top'.stamp
      PROVE  /\ On(p, tempTop[u].node)
             /\ pc[u] = "q.cas" => newTop[u] = next'[tempTop[u].node]
  <2>1. tempTop[u].stamp = top.stamp /\ top'.stamp = top.stamp
      BY <1>1, <1>2, <1>3, <1>5
  <2>2. On(q, tempTop[u].node)
      BY <1>3, <2>1
  <2>3. /\ On(p, tempTop[u].node)
        /\ next'[tempTop[u].node] = next[tempTop[u].node]
      BY <2>1, <2>2, NodesRead
  <2> QED
      BY <1>3, <2>1, <2>3
<1> QED
    BY <1>4, <1>5

LEMMA KeptBlocks ==
    ASSUME NEW q, NEW r, StackInv(q, r), NEW t \in Threads, Act(t),
           NEW s, BlockStep(t, r, s), NEW u \in Threads, KeepsBlock(u)
    PROVE  StaleBlock(s, u)'
<1>1. /\ TypeOK /\ StaleBlock(r, u) /\ freeNodePtr.stamp \in Nat
      /\ tempFreeNode[u].stamp \in Nat
    BY Local, TopTypes
<1>2. freeNodePtr'.stamp \in Nat /\ freeNodePtr.stamp <= freeNodePtr'.stamp
    BY <1>1, ReturnFacts, AllocFacts, SameBlocks DEF Returns, Fetches
<1> SUFFICES ASSUME poolPc[u] \in {"a.next", "a.cas"}
             PROVE  /\ tempFreeNode[u].stamp <= freeNodePtr'.stamp
                    /\ tempFreeNode[u].stamp = freeNodePtr'.stamp =>
                         /\ On(s, tempFreeNode[u].block)
                         /\ poolPc[u] = "a.cas" => newNext[u]
                                = blockNext'[tempFreeNode[u].block]
    BY DEF StaleBlock, KeepsBlock, On
<1>3. /\ tempFreeNode[u].stamp <= freeNodePtr.stamp
      /\ tempFreeNode[u].stamp = freeNodePtr.stamp =>
            /\ On(r, tempFreeNode[u].block)
            /\ poolPc[u] = "a.cas"
                  => newNext[u] = blockNext[tempFreeNode[u].block]
    BY <1>1 DEF StaleBlock
<1>4. tempFreeNode[u].stamp <= freeNodePtr'.stamp
    BY <1>1, <1>2, <1>3
<1>5. ASSUME tempFreeNode[u].stamp = freeNodePtr'.stamp
      PROVE  /\ On(s, tempFreeNode[u].block)
             /\ poolPc[u] = "a.cas"
                   => newNext[u] = blockNext'[tempFreeNode[u].block]
  <2>1. tempFreeNode[u].stamp = freeNodePtr.stamp
        /\ freeNodePtr'.stamp = freeNodePtr.stamp
      BY <1>1, <1>2, <1>3, <1>5
  <2>2. On(r, tempFreeNode[u].block)
      BY <1>3, <2>1
  <2>3. /\ On(s, tempFreeNode[u].block)
        /\ blockNext'[tempFreeNode[u].block] = blockNext[tempFreeNode[u].block]
      BY <2>1, <2>2, BlocksRead
  <2> QED
      BY <1>3, <2>1, <2>3
<1> QED
    BY <1>4, <1>5

LEMMA NextStale ==
    ASSUME NEW q, NEW r, StackInv(q, r), NEW t \in Threads, Act(t),
           NEW p, NodeStep(t, q, p), NEW s, BlockStep(t, r, s)
    PROVE  Stale(p, s)'
<1>1. /\ TypeOK /\ Elsewhere(t) /\ Reads(t) /\ PoolLocal(t) /\ StackLocal(t)
      /\ StaleTop(q, t) /\ StaleBlock(r, t)
      /\ StackTypes /\ PoolThreads
    BY Local, ActSteps, ActReads, TypeParts
<1>2. \A u \in Threads \ {t} : KeepsTop(u) /\ KeepsBlock(u)
    BY <1>1 DEF Elsewhere, KeepsTop, KeepsBlock
<1>3. \A u \in Threads \ {t} : StaleTop(p, u)' /\ StaleBlock(s, u)'
    BY <1>2, KeptTops, KeptBlocks
<1>4. StaleTop(p, t)'
  <2>1. CASE PopTop(t)
    <3>1. /\ pc[t] = "q.top" /\ tempTop'[t] = top /\ top' = top
          /\ pc'[t] = (IF top.node = NULL THEN "q.undo" ELSE "q.next")
        BY <1>1, <2>1 DEF PopTop, Goto, StackTypes
    <3>2. p = q
        BY <3>1, PushFacts, PopFacts DEF NodeStep
    <3>3. top.node # NULL => On(q, top.node)
        BY NullApart, LinkedFirst DEF StackInv, Lists
    <3>4. top.stamp \in Nat
        BY <1>1, TopTypes
    <3> QED
        BY <3>1, <3>2, <3>3, <3>4 DEF StaleTop, On
  <2>2. CASE PopNext(t)
    <3>1. /\ pc[t] = "q.next" /\ tempTop' = tempTop /\ top' = top
          /\ next' = next /\ pc'[t] = "q.cas"
          /\ newTop'[t] = next[tempTop[t].node]
        BY <1>1, <2>2 DEF PopNext, Goto, StackTypes, nodes
    <3>2. p = q
        BY <3>1, PushFacts, PopFacts DEF NodeStep
    <3>3. /\ tempTop[t].stamp <= top.stamp
          /\ tempTop[t].stamp = top.stamp => On(q, tempTop[t].node)
        BY <1>1, <3>1 DEF StaleTop
    <3> QED
        BY <3>1, <3>2, <3>3 DEF StaleTop, On
  <2>3. CASE pc'[t] \notin {"q.next", "q.cas"}
      BY <2>3 DEF StaleTop
  <2>4. CASE KeepsTop(t)
      BY <2>4, KeptTops
  <2> QED
      BY <1>1, <2>1, <2>2, <2>3, <2>4 DEF Reads
<1>5. StaleBlock(s, t)'
  <2>1. CASE AllocTop(t)
    <3>1. /\ poolPc[t] = "a.top" /\ tempFreeNode'[t] = freeNodePtr
          /\ freeNodePtr' = freeNodePtr
          /\ poolPc'[t] = (IF freeNodePtr.block = NULL THEN "a.new"
                                                       ELSE "a.next")
        BY <1>1, <2>1 DEF AllocTop, Step, PoolThreads, shared
    <3>2. s = r
        BY <3>1, AllocFacts, ReturnFacts DEF BlockStep, Returns, Fetches
    <3>3. freeNodePtr.block # NULL => On(r, freeNodePtr.block)
        BY NullApart, LinkedFirst DEF StackInv, Lists
    <3>4. freeNodePtr.stamp \in Nat
        BY <1>1, TopTypes
    <3> QED
        BY <3>1, <3>2, <3>3, <3>4 DEF StaleBlock, On
  <2>2. CASE AllocNext(t)
    <3>1. /\ poolPc[t] = "a.next" /\ tempFreeNode' = tempFreeNode
          /\ freeNodePtr' = freeNodePtr /\ blockNext' = blockNext
          /\ poolPc'[t] = "a.cas"
          /\ newNext'[t] = blockNext[tempFreeNode[t].block]
        BY <1>1, <2>2 DEF AllocNext, Step, PoolThreads, shared
    <3>2. s = r
        BY <3>1, AllocFacts, ReturnFacts DEF BlockStep, Returns, Fetches
    <3>3. /\ tempFreeNode[t].stamp <= freeNodePtr.stamp
          /\ tempFreeNode[t].stamp = freeNodePtr.stamp
                => On(r, tempFreeNode[t].block)
        BY <1>1, <3>1 DEF StaleBlock
    <3> QED
        BY <3>1, <3>2, <3>3 DEF StaleBlock, On
  <2>3. CASE poolPc'[t] \notin {"a.next", "a.cas"}
      BY <2>3 DEF StaleBlock
  <2>4. CASE KeepsBlock(t)
      BY <2>4, KeptBlocks
  <2> QED
      BY <1>1, <2>1, <2>2, <2>3, <2>4 DEF Reads
<1> QED
    BY <1>3, <1>4, <1>5 DEF Stale

-----------------------------------------------------------------------------
(* Nodes and indexes stay apart. *)

LEMMA WhichNodeStep ==
    ASSUME NEW q, NEW r, StackInv(q, r), NEW t \in Threads,
           NEW p, NodeStep(t, q, p)
    PROVE  /\ PushCas(t) => Added(q, Object, object[t], p) /\ ~ PopCas(t)
           /\ PopCas(t) => /\ p \in Seq(Object) /\ Len(q) = Len(p) + 1
                           /\ \A i \in 1 .. Len(p) : p[i] = q[i + 1]
           /\ ~ PushCas(t) /\ ~ PopCas(t) => p = q
<1>1. PushCas(t) => ~ PopCas(t)
    BY PushFacts, PopFacts
<1> QED
    BY <1>1 DEF NodeStep

LEMMA WhichBlockStep ==
    ASSUME NEW q, NEW r, StackInv(q, r), NEW t \in Threads,
           NEW s, BlockStep(t, r, s)
    PROVE  /\ Returns(t) => Added(r, Bucket, bucket[t], s) /\ ~ Fetches(t)
           /\ Fetches(t) => /\ s \in Seq(Bucket) /\ Len(r) = Len(s) + 1
                            /\ \A i \in 1 .. Len(s) : s[i] = r[i + 1]
           /\ ~ Returns(t) /\ ~ Fetches(t) => s = r
<1>1. Returns(t) => ~ Fetches(t)
    BY ReturnFacts, AllocFacts DEF Returns, Fetches
<1> QED
    BY <1>1 DEF BlockStep

\* What is on the list of the nodes after a step.
LEMMA NodesOn ==
    ASSUME NEW q, NEW r, StackInv(q, r), NEW t \in Threads,
           NEW p, NodeStep(t, q, p), NEW x
    PROVE  /\ PushCas(t) => (On(p, x) <=> (x = object[t] \/ On(q, x)))
           /\ PopCas(t) => (On(p, x) <=> (x # top.node /\ On(q, x)))
           /\ ~ PushCas(t) /\ ~ PopCas(t) => p = q
<1>1. CASE PushCas(t)
  <2>1. Added(q, Object, object[t], p) /\ ~ PopCas(t)
      BY <1>1, WhichNodeStep
  <2>2. On(p, x) <=> (x = object[t] \/ On(q, x))
      BY <1>1, <2>1, PushList
  <2> QED
      BY <1>1, <2>1, <2>2
<1>2. CASE PopCas(t)
  <2>1. /\ p \in Seq(Object) /\ Len(q) = Len(p) + 1
        /\ \A i \in 1 .. Len(p) : p[i] = q[i + 1]
      BY <1>2, WhichNodeStep
  <2>2. /\ On(q, x) <=> (x = top.node \/ On(p, x))
        /\ ~ On(p, top.node)
      BY <1>2, <2>1, PopList
  <2>3. ~ PushCas(t)
      BY <1>2, WhichNodeStep
  <2> QED
      BY <1>2, <2>2, <2>3
<1> QED
    BY <1>1, <1>2, WhichNodeStep

\* What TakeObject takes is in nobody's use.
LEMMA TakeUnused ==
    ASSUME NEW q, NEW r, StackInv(q, r), NEW t \in Threads, TakeObject(t)
    PROVE  /\ ~ Used(q, object'[t]) /\ object'[t] \in Object
           /\ object[t] = NULL /\ \A u \in Threads \ {t} : object'[u] = object[u]
<1> DEFINE b == tls[t]
           k == allocCount[b] + 1
<1>1. /\ b \in Bucket /\ k \in 1 .. BucketSize /\ <<b, k>> \in Object
      /\ object'[t] = <<b, k>> /\ object' = [object EXCEPT ![t] = <<b, k>>]
      /\ poolPc[t] = "a.take"
    BY TakeFacts
<1>2. Owned(q, b) /\ TypeOK /\ PoolLocal(t) /\ StackLocal(t)
    BY <1>1, Local DEF StackInv, BucketsOK, BucketOK
<1>3. \A n \in UsedOf(q, b) : n[2] <= allocCount[b]
    BY <1>2 DEF Owned
<1>4. allocCount[b] \in Nat /\ PoolThreads
  <2>1. PoolCounts /\ PoolThreads /\ PoolShared
      BY <1>2, TypeParts
  <2> QED
      BY <1>1, <2>1, Numbers DEF PoolCounts, PoolShared
<1>5. ~ Used(q, <<b, k>>)
  <2>1. <<b, k>>[1] = b /\ <<b, k>>[2] = allocCount[b] + 1
      OBVIOUS
  <2> HIDE DEF b, k
  <2>2. Used(q, <<b, k>>) => <<b, k>> \in UsedOf(q, b)
      BY <1>1, <2>1 DEF UsedOf
  <2>3. ~ (allocCount[b] + 1 <= allocCount[b])
      BY <1>4
  <2> QED
      BY <1>3, <2>1, <2>2, <2>3
<1>6. object[t] = NULL
    BY <1>1, <1>2 DEF PoolLocal, StackLocal, Filling
<1> HIDE DEF b, k
<1>7. \A u \in Threads \ {t} : object'[u] = object[u]
    BY <1>1, <1>4 DEF PoolThreads
<1> QED
    BY <1>1, <1>5, <1>6, <1>7

LEMMA NextNodesApart ==
    ASSUME NEW q, NEW r, StackInv(q, r), NEW t \in Threads, Act(t),
           NEW p, NodeStep(t, q, p)
    PROVE  NodesApart(p)'
<1>1. /\ TypeOK /\ Elsewhere(t) /\ Changes(t) /\ NodesApart(q)
    BY Local, ActSteps DEF StackInv
<1>2. \A u \in Threads \ {t} : object'[u] = object[u]
    BY <1>1 DEF Elsewhere
<1> SUFFICES ASSUME NEW u \in Threads, object'[u] # NULL
             PROVE  /\ ~ On(p, object'[u])
                    /\ \A v \in Threads : object'[v] = object'[u] => v = u
    BY DEF NodesApart, On
<1>3. \A v \in Threads : object[v] # NULL =>
        /\ ~ On(q, object[v])
        /\ \A w \in Threads : object[w] = object[v] => w = v
    BY <1>1 DEF NodesApart
<1>4. CASE PushCas(t)
  <2>1. object'[t] = NULL /\ object[t] # NULL
      BY <1>4, PushFacts, NullApart
  <2>2. On(p, object'[u]) <=> (object'[u] = object[t] \/ On(q, object'[u]))
      BY <1>4, NodesOn
  <2> QED
      BY <1>2, <1>3, <2>1, <2>2
<1>5. CASE PopCas(t)
  <2>1. object'[t] = top.node /\ On(q, top.node) /\ top.node # NULL
      BY <1>5, PopFacts, NullApart
  <2>2. On(p, object'[u]) <=> (object'[u] # top.node /\ On(q, object'[u]))
      BY <1>5, NodesOn
  <2> QED
      BY <1>2, <1>3, <2>1, <2>2
<1>6. CASE ~ PushCas(t) /\ ~ PopCas(t) /\ InPool(t) /\ TakeObject(t)
  <2>1. p = q
      BY <1>6, NodesOn
  <2>2. ~ Used(q, object'[t]) /\ object[t] = NULL
      BY <1>6, TakeUnused
  <2>3. /\ ~ On(q, object'[t])
        /\ \A v \in Threads : object[v] # object'[t]
      BY <2>2 DEF Used
  <2> QED
      BY <1>2, <1>3, <2>1, <2>3
<1>7. CASE ~ PushCas(t) /\ ~ PopCas(t) /\ InPool(t) /\ FreeCount(t)
  <2>1. p = q
      BY <1>7, NodesOn
  <2>2. object'[t] = NULL
    <3>1. PoolThreads
        BY <1>1, TypeParts
    <3> QED
        BY <1>7, <3>1 DEF FreeCount, PoolThreads
  <2> QED
      BY <1>2, <1>3, <2>1, <2>2
<1>8. CASE ~ PushCas(t) /\ ~ PopCas(t) /\ object' = object
  <2>1. p = q
      BY <1>8, NodesOn
  <2> QED
      BY <1>3, <1>8, <2>1
<1> QED
    BY <1>1, <1>4, <1>5, <1>6, <1>7, <1>8 DEF Changes

\* Only the node of a push that is not on the list yet is written.
LEMMA DataKept ==
    ASSUME NEW q, NEW r, StackInv(q, r), NEW t \in Threads, Act(t)
    PROVE  /\ \A k \in 1 .. Len(q) : data'[q[k]] = data[q[k]]
           /\ \A u \in Threads : pc[u] = "q.data" =>
                 /\ object[u] # NULL
                 /\ data'[object[u]] = data[object[u]]
<1>1. /\ Writes(t) /\ NodesApart(q) /\ StackLocal(t) /\ TypeOK
    BY ActSteps, Local DEF StackInv
<1>2. PushData(t) => pc[t] = "p.data" /\ object[t] # NULL
    BY <1>1 DEF PushData, Goto, StackLocal
<1>3. \A k \in 1 .. Len(q) : data'[q[k]] = data[q[k]]
  <2> SUFFICES ASSUME NEW k \in 1 .. Len(q), data'[q[k]] # data[q[k]]
               PROVE  FALSE
      OBVIOUS
  <2>1. q[k] \in Object /\ On(q, q[k])
    <3>1. q \in Seq(Object)
        BY DEF StackInv, Lists, Linked
    <3> QED
        BY <3>1 DEF On
  <2>2. PushData(t) /\ q[k] = object[t]
      BY <1>1, <2>1 DEF Writes
  <2> QED
      BY <1>1, <1>2, <2>1, <2>2 DEF NodesApart
<1>4. ASSUME NEW u \in Threads, pc[u] = "q.data"
      PROVE  object[u] # NULL /\ data'[object[u]] = data[object[u]]
  <2>1. StackLocal(u)
      BY Local
  <2>2. object[u] # NULL
      BY <1>4, <2>1 DEF StackLocal
  <2>3. object[u] \in Object
      BY <1>1, <2>2, ThreadTypes
  <2>4. ~ (PushData(t) /\ object[u] = object[t])
      BY <1>1, <1>2, <1>4, <2>2 DEF NodesApart
  <2> QED
      BY <1>1, <2>2, <2>3, <2>4 DEF Writes
<1> QED
    BY <1>3, <1>4

Hands(t) == Push(t) \/ PushCas(t) \/ PopCas(t) \/ PopReturn(t)

\* A call carries its index along.
LEMMA CarriesOn ==
    ASSUME NEW q, NEW r, StackInv(q, r), NEW t \in Threads, Act(t),
           NEW u \in Threads, pc[u] \in Calling, u # t \/ ~ Hands(t)
    PROVE  pc'[u] \in Calling /\ Carries(u)' = Carries(u)
<1>1. /\ TypeOK /\ StackTypes /\ Elsewhere(t) /\ Changes(t) /\ Reads(t)
      /\ PcSteps(t)
    BY Local, ActSteps, ActReads, ActPcSteps, TypeParts
<1>2. pc[u] = "q.data" => data'[object[u]] = data[object[u]]
    BY DataKept
<1>3. CASE u # t
  <2>1. pc'[u] = pc[u] /\ index'[u] = index[u] /\ object'[u] = object[u]
      BY <1>1, <1>3 DEF Elsewhere
  <2> QED
      BY <1>2, <2>1 DEF Carries
<1>4. CASE u = t /\ PopData(t)
  <2>1. /\ pc[t] = "q.data" /\ pc'[t] = "q.free"
        /\ index'[t] = data[object[t]]
      BY <1>1, <1>4 DEF PopData, Goto, StackTypes, node
  <2> QED
      BY <1>4, <2>1 DEF Carries, Calling
<1>5. CASE u = t /\ ~ Hands(t) /\ ~ PopData(t)
  <2>1. /\ pc'[t] \in Calling /\ index'[t] = index[t]
        /\ pc'[t] = "q.data" <=> pc[t] = "q.data"
      BY <1>1, <1>5 DEF Hands, PcSteps, Reads
  <2>2. pc[t] = "q.data" => object'[t] = object[t]
    <3> SUFFICES ASSUME pc[t] = "q.data", object'[t] # object[t] PROVE FALSE
        OBVIOUS
    <3>1. InPool(t) /\ (TakeObject(t) \/ FreeCount(t))
        BY <1>1, <1>5 DEF Changes, Hands
    <3>2. poolPc[t] \in {"a.take", "f.count"}
        BY <3>1 DEF TakeObject, FreeCount, Step
    <3>3. PoolLocal(t)
        BY Local
    <3> QED
        BY <3>2, <3>3 DEF PoolLocal, Filling
  <2> QED
      BY <1>2, <1>5, <2>1, <2>2 DEF Carries
<1> QED
    BY <1>3, <1>4, <1>5

\* A thread that did not call is called by nobody.
LEMMA CallsOn ==
    ASSUME NEW q, NEW r, StackInv(q, r), NEW t \in Threads, Act(t),
           NEW u \in Threads, u # t \/ ~ Hands(t)
    PROVE  pc'[u] \in Calling <=> pc[u] \in Calling
<1>1. Elsewhere(t) /\ PcSteps(t)
    BY ActSteps, ActPcSteps
<1> QED
    BY <1>1 DEF Elsewhere, PcSteps, Hands

-----------------------------------------------------------------------------
(* An index is in one place. *)

LEMMA PushIndexes ==
    ASSUME NEW q, NEW r, StackInv(q, r), NEW t \in Threads, Act(t),
           PushCas(t), NEW p, NodeStep(t, q, p)
    PROVE  IndexApart(p)' /\ IndexSomewhere(p)'
<1>1. IndexApart(q) /\ IndexSomewhere(q)
    BY DEF StackInv
<1>2. data' = data /\ held' = held
    BY DEF PushCas, nodes, outside
<1>3. /\ Len(q) \in Nat /\ Len(p) = Len(q) + 1 /\ p[1] = object[t]
      /\ \A i \in 1 .. Len(q) : p[i + 1] = q[i]
  <2>1. Added(q, Object, object[t], p)
      BY WhichNodeStep
  <2> QED
      BY <2>1, PushList
<1>4. \A k \in 1 .. Len(p) : \/ k = 1 /\ p[k] = object[t]
                             \/ k - 1 \in 1 .. Len(q) /\ p[k] = q[k - 1]
  <2> TAKE k \in 1 .. Len(p)
  <2>1. CASE k = 1
      BY <1>3, <2>1
  <2>2. CASE k # 1
    <3>1. k - 1 \in 1 .. Len(q)
        BY <1>3, <2>2
    <3>2. p[(k - 1) + 1] = q[k - 1]
        BY <1>3, <3>1
    <3> QED
        BY <3>1, <3>2
  <2> QED
      BY <2>1, <2>2
<1>5. /\ pc[t] \in Calling /\ pc'[t] \notin Calling
      /\ Carries(t) = data[object[t]]
  <2>1. pc[t] = "p.cas" /\ pc'[t] = "p.count" /\ data[object[t]] = index[t]
      BY PushFacts
  <2> QED
      BY <2>1 DEF Calling, Pushing, Carries
<1>6. \A u \in Threads \ {t} :
          /\ pc'[u] \in Calling <=> pc[u] \in Calling
          /\ pc[u] \in Calling => Carries(u)' = Carries(u)
    BY CallsOn, CarriesOn
<1> DEFINE c == data[object[t]]
<1>7. /\ c \in Index /\ c \notin held
      /\ \A k \in 1 .. Len(q) : data[q[k]] # c
      /\ \A u \in Threads : pc[u] \in Calling /\ Carries(u) = c => u = t
    BY <1>1, <1>5 DEF IndexApart, PcIn
<1>8. /\ \A k \in 1 .. Len(q) : data[q[k]] \in Index /\ data[q[k]] \notin held
      /\ \A k, l \in 1 .. Len(q) : data[q[k]] = data[q[l]] => k = l
      /\ \A u \in Threads : pc[u] \in Calling =>
           /\ Carries(u) \in Index /\ Carries(u) \notin held
           /\ \A k \in 1 .. Len(q) : data[q[k]] # Carries(u)
           /\ \A v \in Threads : pc[v] \in Calling =>
                 (Carries(v) = Carries(u) => v = u)
    BY <1>1 DEF IndexApart, PcIn
<1>9. \A k \in 1 .. Len(p) : data[p[k]] \in Index /\ data[p[k]] \notin held
    BY <1>4, <1>7, <1>8
<1>10. \A k, l \in 1 .. Len(p) : data[p[k]] = data[p[l]] => k = l
  <2> SUFFICES ASSUME NEW k \in 1 .. Len(p), NEW l \in 1 .. Len(p),
                      data[p[k]] = data[p[l]]
               PROVE  k = l
      OBVIOUS
  <2>1. CASE k = 1 \/ l = 1
      BY <1>4, <1>7, <2>1
  <2>2. CASE k # 1 /\ l # 1
    <3>1. /\ k - 1 \in 1 .. Len(q) /\ l - 1 \in 1 .. Len(q)
          /\ data[q[k - 1]] = data[q[l - 1]]
        BY <1>4, <2>2
    <3>2. k - 1 = l - 1
        BY <1>8, <3>1
    <3> QED
        BY <3>2
  <2> QED
      BY <2>1, <2>2
<1>11. \A u \in Threads : pc'[u] \in Calling =>
           /\ Carries(u)' \in Index /\ Carries(u)' \notin held
           /\ \A k \in 1 .. Len(p) : data[p[k]] # Carries(u)'
           /\ \A v \in Threads : pc'[v] \in Calling =>
                 (Carries(v)' = Carries(u)' => v = u)
  <2> SUFFICES ASSUME NEW u \in Threads, pc'[u] \in Calling
               PROVE  /\ Carries(u)' \in Index /\ Carries(u)' \notin held
                      /\ \A k \in 1 .. Len(p) : data[p[k]] # Carries(u)'
                      /\ \A v \in Threads : pc'[v] \in Calling =>
                            (Carries(v)' = Carries(u)' => v = u)
      OBVIOUS
  <2>1. u # t /\ pc[u] \in Calling /\ Carries(u)' = Carries(u)
      BY <1>5, <1>6
  <2>2. \A k \in 1 .. Len(p) : data[p[k]] # Carries(u)'
      BY <1>4, <1>7, <1>8, <2>1
  <2>3. \A v \in Threads : pc'[v] \in Calling =>
            (Carries(v)' = Carries(u)' => v = u)
      BY <1>5, <1>6, <1>8, <2>1
  <2> QED
      BY <1>8, <2>1, <2>2, <2>3
<1>12. IndexApart(p)'
    BY <1>2, <1>9, <1>10, <1>11 DEF IndexApart, PcIn
<1>13. ASSUME NEW i \in Index
       PROVE  \/ i \in held \/ \E k \in 1 .. Len(p) : data[p[k]] = i
              \/ \E u \in Threads : pc'[u] \in Calling /\ Carries(u)' = i
  <2>1. CASE \E k \in 1 .. Len(q) : data[q[k]] = i
    <3>1. PICK k \in 1 .. Len(q) : data[q[k]] = i
        BY <2>1
    <3>2. k + 1 \in 1 .. Len(p) /\ p[k + 1] = q[k]
        BY <1>3
    <3> QED
        BY <3>1, <3>2
  <2>2. CASE \E u \in Threads : pc[u] \in Calling /\ Carries(u) = i
    <3>1. PICK u \in Threads : pc[u] \in Calling /\ Carries(u) = i
        BY <2>2
    <3>2. CASE u = t
      <4>1. 1 \in 1 .. Len(p) /\ data[p[1]] = i
          BY <1>3, <1>5, <3>1, <3>2
      <4> QED
          BY <4>1
    <3>3. CASE u # t
        BY <1>6, <3>1, <3>3
    <3> QED
        BY <3>2, <3>3
  <2> QED
      BY <1>1, <2>1, <2>2 DEF IndexSomewhere, PcIn
<1>14. IndexSomewhere(p)'
    BY <1>2, <1>13 DEF IndexSomewhere, PcIn
<1> QED
    BY <1>12, <1>14

LEMMA PopIndexes ==
    ASSUME NEW q, NEW r, StackInv(q, r), NEW t \in Threads, Act(t),
           PopCas(t), NEW p, NodeStep(t, q, p)
    PROVE  IndexApart(p)' /\ IndexSomewhere(p)'
<1>1. IndexApart(q) /\ IndexSomewhere(q)
    BY DEF StackInv
<1>2. data' = data /\ held' = held
    BY DEF PopCas, nodes, outside
<1>3. /\ Len(p) \in Nat /\ Len(q) = Len(p) + 1 /\ q[1] = top.node
      /\ \A i \in 1 .. Len(p) : p[i] = q[i + 1]
  <2>1. /\ p \in Seq(Object) /\ Len(q) = Len(p) + 1
        /\ \A i \in 1 .. Len(p) : p[i] = q[i + 1]
      BY WhichNodeStep
  <2> QED
      BY <2>1, PopList
<1>4. \A k \in 1 .. Len(p) : k + 1 \in 1 .. Len(q) /\ p[k] = q[k + 1]
    BY <1>3
<1>5. \A k \in 1 .. Len(q) : k = 1 \/ (k - 1 \in 1 .. Len(p)
                                         /\ p[k - 1] = q[k])
  <2> TAKE k \in 1 .. Len(q)
  <2>1. CASE k # 1
    <3>1. k - 1 \in 1 .. Len(p)
        BY <1>3, <2>1
    <3>2. p[k - 1] = q[(k - 1) + 1]
        BY <1>3, <3>1
    <3> QED
        BY <3>1, <3>2
  <2> QED
      BY <2>1
<1> DEFINE c == data[top.node]
<1>6. /\ pc[t] \notin Calling /\ pc'[t] \in Calling /\ Carries(t)' = c
  <2>1. /\ pc[t] = "q.cas" /\ pc'[t] = "q.data" /\ object'[t] = top.node
      BY PopFacts
  <2> QED
      BY <1>2, <2>1 DEF Calling, Pushing, Carries
<1>7. \A u \in Threads \ {t} :
          /\ pc'[u] \in Calling <=> pc[u] \in Calling
          /\ pc[u] \in Calling => Carries(u)' = Carries(u)
    BY CallsOn, CarriesOn
<1>8. /\ \A k \in 1 .. Len(q) : data[q[k]] \in Index /\ data[q[k]] \notin held
      /\ \A k, l \in 1 .. Len(q) : data[q[k]] = data[q[l]] => k = l
      /\ \A u \in Threads : pc[u] \in Calling =>
           /\ Carries(u) \in Index /\ Carries(u) \notin held
           /\ \A k \in 1 .. Len(q) : data[q[k]] # Carries(u)
           /\ \A v \in Threads : pc[v] \in Calling =>
                 (Carries(v) = Carries(u) => v = u)
    BY <1>1 DEF IndexApart, PcIn
<1>9. /\ c \in Index /\ c \notin held
      /\ \A k \in 1 .. Len(p) : data[p[k]] # c
      /\ \A u \in Threads : pc[u] \in Calling => Carries(u) # c
  <2>1. 1 \in 1 .. Len(q) /\ data[q[1]] = c
      BY <1>3
  <2>2. \A k \in 1 .. Len(p) : data[p[k]] # c
    <3> SUFFICES ASSUME NEW k \in 1 .. Len(p), data[p[k]] = c PROVE FALSE
        OBVIOUS
    <3>1. k + 1 \in 1 .. Len(q) /\ data[q[k + 1]] = data[q[1]]
        BY <1>4, <2>1
    <3>2. k + 1 = 1
        BY <1>8, <2>1, <3>1
    <3> QED
        BY <3>2
  <2> QED
      BY <1>8, <2>1, <2>2
<1>10. \A k \in 1 .. Len(p) : data[p[k]] \in Index /\ data[p[k]] \notin held
    BY <1>4, <1>8
<1>11. \A k, l \in 1 .. Len(p) : data[p[k]] = data[p[l]] => k = l
  <2> SUFFICES ASSUME NEW k \in 1 .. Len(p), NEW l \in 1 .. Len(p),
                      data[p[k]] = data[p[l]]
               PROVE  k = l
      OBVIOUS
  <2>1. /\ k + 1 \in 1 .. Len(q) /\ l + 1 \in 1 .. Len(q)
        /\ data[q[k + 1]] = data[q[l + 1]]
      BY <1>4
  <2>2. k + 1 = l + 1
      BY <1>8, <2>1
  <2> QED
      BY <2>2
<1>12. \A u \in Threads : pc'[u] \in Calling =>
           /\ Carries(u)' \in Index /\ Carries(u)' \notin held
           /\ \A k \in 1 .. Len(p) : data[p[k]] # Carries(u)'
           /\ \A v \in Threads : pc'[v] \in Calling =>
                 (Carries(v)' = Carries(u)' => v = u)
  <2> SUFFICES ASSUME NEW u \in Threads, pc'[u] \in Calling
               PROVE  /\ Carries(u)' \in Index /\ Carries(u)' \notin held
                      /\ \A k \in 1 .. Len(p) : data[p[k]] # Carries(u)'
                      /\ \A v \in Threads : pc'[v] \in Calling =>
                            (Carries(v)' = Carries(u)' => v = u)
      OBVIOUS
  <2>1. CASE u = t
      BY <1>6, <1>7, <1>9, <2>1
  <2>2. CASE u # t
    <3>1. pc[u] \in Calling /\ Carries(u)' = Carries(u)
        BY <1>7, <2>2
    <3>2. \A k \in 1 .. Len(p) : data[p[k]] # Carries(u)'
        BY <1>4, <1>8, <3>1
    <3>3. \A v \in Threads : pc'[v] \in Calling =>
              (Carries(v)' = Carries(u)' => v = u)
        BY <1>6, <1>7, <1>8, <1>9, <3>1
    <3> QED
        BY <1>8, <3>1, <3>2, <3>3
  <2> QED
      BY <2>1, <2>2
<1>13. IndexApart(p)'
    BY <1>2, <1>10, <1>11, <1>12 DEF IndexApart, PcIn
<1>14. ASSUME NEW i \in Index
       PROVE  \/ i \in held \/ \E k \in 1 .. Len(p) : data[p[k]] = i
              \/ \E u \in Threads : pc'[u] \in Calling /\ Carries(u)' = i
  <2>1. CASE \E k \in 1 .. Len(q) : data[q[k]] = i
    <3>1. PICK k \in 1 .. Len(q) : data[q[k]] = i
        BY <2>1
    <3>2. CASE k = 1
        BY <1>3, <1>6, <3>1, <3>2
    <3>3. CASE k # 1
        BY <1>5, <3>1, <3>3
    <3> QED
        BY <3>2, <3>3
  <2>2. CASE \E u \in Threads : pc[u] \in Calling /\ Carries(u) = i
      BY <1>6, <1>7, <2>2
  <2> QED
      BY <1>1, <2>1, <2>2 DEF IndexSomewhere, PcIn
<1>15. IndexSomewhere(p)'
    BY <1>2, <1>14 DEF IndexSomewhere, PcIn
<1> QED
    BY <1>13, <1>15

LEMMA OtherIndexes ==
    ASSUME NEW q, NEW r, StackInv(q, r), NEW t \in Threads, Act(t),
           ~ PushCas(t), ~ PopCas(t)
    PROVE  IndexApart(q)' /\ IndexSomewhere(q)'
<1>1. /\ TypeOK /\ StackTypes /\ IndexApart(q) /\ IndexSomewhere(q)
      /\ Changes(t)
    BY Local, TypeParts, ActSteps DEF StackInv
<1>2. \A k \in 1 .. Len(q) : data'[q[k]] = data[q[k]]
    BY DataKept
<1>3. /\ \A k \in 1 .. Len(q) : data[q[k]] \in Index /\ data[q[k]] \notin held
      /\ \A k, l \in 1 .. Len(q) : data[q[k]] = data[q[l]] => k = l
      /\ \A u \in Threads : pc[u] \in Calling =>
           /\ Carries(u) \in Index /\ Carries(u) \notin held
           /\ \A k \in 1 .. Len(q) : data[q[k]] # Carries(u)
           /\ \A v \in Threads : pc[v] \in Calling =>
                 (Carries(v) = Carries(u) => v = u)
    BY <1>1 DEF IndexApart, PcIn
<1>4. \A i \in Index :
          \/ i \in held \/ \E k \in 1 .. Len(q) : data[q[k]] = i
          \/ \E u \in Threads : pc[u] \in Calling /\ Carries(u) = i
    BY <1>1 DEF IndexSomewhere, PcIn
<1>5. \A u \in Threads : u # t \/ ~ Hands(t) =>
          /\ pc'[u] \in Calling <=> pc[u] \in Calling
          /\ pc[u] \in Calling => Carries(u)' = Carries(u)
    BY CallsOn, CarriesOn
<1> SUFFICES
      /\ \A k \in 1 .. Len(q) : data[q[k]] \notin held'
      /\ \A u \in Threads : pc'[u] \in Calling =>
           /\ Carries(u)' \in Index /\ Carries(u)' \notin held'
           /\ \A k \in 1 .. Len(q) : data[q[k]] # Carries(u)'
           /\ \A v \in Threads : pc'[v] \in Calling =>
                 (Carries(v)' = Carries(u)' => v = u)
      /\ \A i \in Index :
           \/ i \in held' \/ \E k \in 1 .. Len(q) : data[q[k]] = i
           \/ \E u \in Threads : pc'[u] \in Calling /\ Carries(u)' = i
  <2>1. IndexApart(q)' <=>
          /\ \A k \in 1 .. Len(q) :
                data'[q[k]] \in Index /\ data'[q[k]] \notin held'
          /\ \A k, l \in 1 .. Len(q) : data'[q[k]] = data'[q[l]] => k = l
          /\ \A u \in Threads : pc'[u] \in Calling =>
               /\ Carries(u)' \in Index /\ Carries(u)' \notin held'
               /\ \A k \in 1 .. Len(q) : data'[q[k]] # Carries(u)'
               /\ \A v \in Threads : pc'[v] \in Calling =>
                     (Carries(v)' = Carries(u)' => v = u)
      BY DEF IndexApart, PcIn
  <2>2. IndexSomewhere(q)' <=> \A i \in Index :
           \/ i \in held' \/ \E k \in 1 .. Len(q) : data'[q[k]] = i
           \/ \E u \in Threads : pc'[u] \in Calling /\ Carries(u)' = i
      BY DEF IndexSomewhere, PcIn
  <2> QED
      BY <1>2, <1>3, <2>1, <2>2
<1>6. CASE Push(t)
  <2>1. PICK i \in held : held' = held \ {i}
                          /\ index' = [index EXCEPT ![t] = i]
      BY <1>6 DEF Push
  <2>2. index'[t] = i /\ i \in Index
      BY <1>1, <2>1 DEF StackTypes
  <2>3. pc[t] = "idle" /\ pc'[t] = "p.data"
      BY <1>1, <1>6 DEF Push, Goto, StackTypes
  <2>4. pc'[t] \in Calling /\ pc[t] \notin Calling /\ Carries(t)' = i
      BY <2>2, <2>3 DEF Calling, Pushing, Carries
  <2>5. \A u \in Threads : pc'[u] \in Calling /\ u # t =>
            pc[u] \in Calling /\ Carries(u)' = Carries(u) /\ Carries(u) # i
      BY <1>3, <1>5, <2>1
  <2>6. \A j \in Index :
           \/ j \in held' \/ \E k \in 1 .. Len(q) : data[q[k]] = j
           \/ \E u \in Threads : pc'[u] \in Calling /\ Carries(u)' = j
      BY <1>4, <1>5, <2>1, <2>4
  <2>7. \A u \in Threads : pc'[u] \in Calling =>
           /\ Carries(u)' \in Index /\ Carries(u)' \notin held'
           /\ \A k \in 1 .. Len(q) : data[q[k]] # Carries(u)'
      BY <1>3, <2>1, <2>2, <2>4, <2>5
  <2>8. \A u, v \in Threads : pc'[u] \in Calling /\ pc'[v] \in Calling =>
            (Carries(v)' = Carries(u)' => v = u)
      BY <1>3, <2>4, <2>5
  <2> QED
      BY <1>3, <2>1, <2>6, <2>7, <2>8
<1>7. CASE PopReturn(t)
  <2>1. /\ held' = held \cup {index[t]} /\ pc[t] = "q.free" /\ pc'[t] = "idle"
      BY <1>1, <1>7 DEF PopReturn, Goto, StackTypes
  <2>2. pc[t] \in Calling /\ pc'[t] \notin Calling /\ Carries(t) = index[t]
      BY <2>1 DEF Calling, Pushing, Carries
  <2>3. \A u \in Threads : pc'[u] \in Calling =>
            /\ u # t /\ pc[u] \in Calling /\ Carries(u)' = Carries(u)
            /\ Carries(u) # index[t]
      BY <1>3, <1>5, <2>2
  <2>4. \A j \in Index :
           \/ j \in held' \/ \E k \in 1 .. Len(q) : data[q[k]] = j
           \/ \E u \in Threads : pc'[u] \in Calling /\ Carries(u)' = j
      BY <1>4, <1>5, <2>1, <2>2
  <2>5. \A u \in Threads : pc'[u] \in Calling =>
           /\ Carries(u)' \in Index /\ Carries(u)' \notin held'
           /\ \A k \in 1 .. Len(q) : data[q[k]] # Carries(u)'
           /\ \A v \in Threads : pc'[v] \in Calling =>
                 (Carries(v)' = Carries(u)' => v = u)
      BY <1>3, <2>1, <2>3
  <2> QED
      BY <1>3, <2>1, <2>2, <2>4, <2>5
<1>8. CASE ~ Push(t) /\ ~ PopReturn(t)
  <2>1. ~ Hands(t) /\ held' = held
      BY <1>1, <1>8 DEF Hands, Changes
  <2> QED
      BY <1>3, <1>4, <1>5, <2>1
<1> QED
    BY <1>6, <1>7, <1>8

LEMMA NextIndexes ==
    ASSUME NEW q, NEW r, StackInv(q, r), NEW t \in Threads, Act(t),
           NEW p, NodeStep(t, q, p)
    PROVE  IndexApart(p)' /\ IndexSomewhere(p)'
<1>1. CASE ~ PushCas(t) /\ ~ PopCas(t)
  <2>1. p = q
      BY <1>1, NodesOn
  <2>2. IndexApart(q)' /\ IndexSomewhere(q)'
      BY <1>1, OtherIndexes
  <2> QED
      BY <2>1, <2>2
<1> QED
    BY <1>1, PushIndexes, PopIndexes

-----------------------------------------------------------------------------
(* Buckets stay apart. *)

Borrows(t) == InPool(t) /\ BorrowBucket(t)
Takes(t) == InPool(t) /\ TakeObject(t)
Frees(t) == InPool(t) /\ FreeCount(t)
News(t) == InPool(t) /\ AllocNew(t)

\* What is on the list of the buckets after a step.
LEMMA BlocksOn ==
    ASSUME NEW q, NEW r, StackInv(q, r), NEW t \in Threads,
           NEW s, BlockStep(t, r, s), NEW x
    PROVE  /\ Returns(t) => (On(s, x) <=> (x = bucket[t] \/ On(r, x)))
           /\ Fetches(t) => (On(s, x) <=> (x # freeNodePtr.block /\ On(r, x)))
           /\ ~ Returns(t) /\ ~ Fetches(t) => s = r
<1>1. CASE Returns(t)
  <2>1. Added(r, Bucket, bucket[t], s) /\ ~ Fetches(t) /\ FreeCas(t)
      BY <1>1, WhichBlockStep DEF Returns
  <2>2. On(s, x) <=> (x = bucket[t] \/ On(r, x))
      BY <2>1, ReturnList
  <2> QED
      BY <1>1, <2>1, <2>2
<1>2. CASE Fetches(t)
  <2>1. /\ s \in Seq(Bucket) /\ Len(r) = Len(s) + 1 /\ AllocCas(t)
        /\ \A i \in 1 .. Len(s) : s[i] = r[i + 1]
      BY <1>2, WhichBlockStep DEF Fetches
  <2>2. /\ On(r, x) <=> (x = freeNodePtr.block \/ On(s, x))
        /\ ~ On(s, freeNodePtr.block)
      BY <2>1, FetchList
  <2>3. ~ Returns(t)
      BY <1>2, WhichBlockStep
  <2> QED
      BY <1>2, <2>2, <2>3
<1> QED
    BY <1>1, <1>2, WhichBlockStep

\* The moves of the threads' buckets, and of the list, are as before but for
\* those of one thread.
LEMMA OtherMoves ==
    ASSUME NEW t \in Threads, Elsewhere(t), NEW u \in Threads \ {t}, NEW b
    PROVE  Moves(u, b)' <=> Moves(u, b)
BY DEF Elsewhere, Moves

LEMMA ApartParts ==
    ASSUME NEW q, NEW r, StackInv(q, r)
    PROVE  /\ \A b \in Bucket : On(r, b) => b \notin fresh
           /\ \A u \in Threads, b \in Bucket : Moves(u, b) =>
                 /\ b \notin fresh /\ ~ On(r, b)
                 /\ \A v \in Threads : Moves(v, b) => v = u
BY DEF StackInv, BucketsApart

LEMMA ApartNext ==
    ASSUME NEW s, \A b \in Bucket : On(s, b) => b \notin fresh',
           \A u \in Threads, b \in Bucket : Moves(u, b)' =>
              /\ b \notin fresh' /\ ~ On(s, b)
              /\ \A v \in Threads : Moves(v, b)' => v = u
    PROVE  BucketsApart(s)'
BY DEF BucketsApart, On

LEMMA AwayNext ==
    ASSUME NEW s, NEW b
    PROVE  Away(s, b)' <=> \/ b \in fresh' \/ On(s, b)
                           \/ \E u \in Threads : Moves(u, b)'
BY DEF Away, On

LEMMA NewAway ==
    ASSUME NEW q, NEW r, StackInv(q, r), NEW t \in Threads, Act(t), News(t)
    PROVE  /\ BucketsApart(r)'
           /\ \A b \in Bucket : Away(r, b)' <=> Away(r, b)
<1>1. TypeOK /\ Elsewhere(t) /\ PoolThreads /\ PoolShared
    BY Local, ActSteps, TypeParts
<1>2. PICK b0 \in fresh : /\ fresh' = fresh \ {b0}
                          /\ bucket' = [bucket EXCEPT ![t] = b0]
    BY DEF News, AllocNew
<1>3. b0 \in Bucket /\ bucket'[t] = b0 /\ poolPc[t] = "a.new"
      /\ poolPc'[t] = "a.fill"
    BY <1>1, <1>2 DEF News, AllocNew, Step, PoolThreads, PoolShared
<1>4. \A b : (Moves(t, b)' <=> b = b0) /\ ~ Moves(t, b)
    BY <1>3 DEF Moves, Returning
<1>5. \A u \in Threads \ {t} : \A b : Moves(u, b)' <=> Moves(u, b)
    BY <1>1, OtherMoves
<1>6. /\ \A b \in Bucket : On(r, b) => b \notin fresh
      /\ \A u \in Threads, b \in Bucket : Moves(u, b) =>
            /\ b \notin fresh /\ ~ On(r, b)
            /\ \A v \in Threads : Moves(v, b) => v = u
    BY ApartParts
<1>7. \A b \in Bucket : On(r, b) => b \notin fresh'
    BY <1>2, <1>6
<1>8. \A u \in Threads, b \in Bucket : Moves(u, b)' =>
         /\ b \notin fresh' /\ ~ On(r, b)
         /\ \A v \in Threads : Moves(v, b)' => v = u
    BY <1>2, <1>3, <1>4, <1>5, <1>6
<1>9. BucketsApart(r)'
    BY <1>7, <1>8, ApartNext
<1>10. \A b \in Bucket : Away(r, b)' <=> \/ b \in fresh' \/ On(r, b)
                                         \/ \E u \in Threads : Moves(u, b)'
    BY AwayNext
<1>11. \A b \in Bucket : Away(r, b)' <=> Away(r, b)
    BY <1>2, <1>3, <1>4, <1>5, <1>10 DEF Away
<1> QED
    BY <1>9, <1>11

LEMMA FetchAway ==
    ASSUME NEW q, NEW r, StackInv(q, r), NEW t \in Threads, Act(t), Fetches(t),
           NEW s, BlockStep(t, r, s)
    PROVE  /\ BucketsApart(s)'
           /\ \A b \in Bucket : Away(s, b)' <=> Away(r, b)
<1> DEFINE b0 == freeNodePtr.block
<1>1. TypeOK /\ Elsewhere(t) /\ AllocCas(t)
    BY Local, ActSteps DEF Fetches
<1>2. /\ b0 \in Bucket /\ On(r, b0) /\ bucket'[t] = b0
      /\ poolPc[t] = "a.cas" /\ poolPc'[t] = "a.fill"
    BY <1>1, AllocFacts
<1>3. fresh' = fresh
    BY <1>1 DEF AllocCas
<1>4. \A b : (Moves(t, b)' <=> b = b0) /\ ~ Moves(t, b)
    BY <1>2 DEF Moves, Returning
<1>5. \A u \in Threads \ {t} : \A b : Moves(u, b)' <=> Moves(u, b)
    BY <1>1, OtherMoves
<1>6. /\ \A b \in Bucket : On(r, b) => b \notin fresh
      /\ \A u \in Threads, b \in Bucket : Moves(u, b) =>
            /\ b \notin fresh /\ ~ On(r, b)
            /\ \A v \in Threads : Moves(v, b) => v = u
    BY ApartParts
<1>7. \A b : On(s, b) <=> (b # b0 /\ On(r, b))
    BY BlocksOn
<1> HIDE DEF b0
<1>8. \A b \in Bucket : On(s, b) => b \notin fresh'
    BY <1>3, <1>6, <1>7
<1>9. \A u \in Threads, b \in Bucket : Moves(u, b)' =>
         /\ b \notin fresh' /\ ~ On(s, b)
         /\ \A v \in Threads : Moves(v, b)' => v = u
    BY <1>2, <1>3, <1>4, <1>5, <1>6, <1>7
<1>10. BucketsApart(s)'
    BY <1>8, <1>9, ApartNext
<1>11. \A b \in Bucket : Away(s, b)' <=> \/ b \in fresh' \/ On(s, b)
                                         \/ \E u \in Threads : Moves(u, b)'
    BY AwayNext
<1>12. \A b \in Bucket : Away(s, b)' <=> Away(r, b)
    BY <1>2, <1>3, <1>4, <1>5, <1>7, <1>11 DEF Away
<1> QED
    BY <1>10, <1>12

LEMMA ReturnAway ==
    ASSUME NEW q, NEW r, StackInv(q, r), NEW t \in Threads, Act(t), Returns(t),
           NEW s, BlockStep(t, r, s)
    PROVE  /\ BucketsApart(s)'
           /\ \A b \in Bucket : Away(s, b)' <=> Away(r, b)
<1> DEFINE b0 == bucket[t]
<1>1. TypeOK /\ Elsewhere(t) /\ FreeCas(t)
    BY Local, ActSteps DEF Returns
<1>2. /\ b0 \in Bucket /\ ~ On(r, b0) /\ Moves(t, b0)
      /\ poolPc[t] = "f.cas" /\ poolPc'[t] = "out"
    BY <1>1, ReturnFacts
<1>3. fresh' = fresh
    BY <1>1 DEF FreeCas
<1>4. \A b : (Moves(t, b) <=> b = b0) /\ ~ Moves(t, b)'
    BY <1>2 DEF Moves, Returning
<1>5. \A u \in Threads \ {t} : \A b : Moves(u, b)' <=> Moves(u, b)
    BY <1>1, OtherMoves
<1>6. /\ \A b \in Bucket : On(r, b) => b \notin fresh
      /\ \A u \in Threads, b \in Bucket : Moves(u, b) =>
            /\ b \notin fresh /\ ~ On(r, b)
            /\ \A v \in Threads : Moves(v, b) => v = u
    BY ApartParts
<1>7. \A b : On(s, b) <=> (b = b0 \/ On(r, b))
    BY BlocksOn
<1> HIDE DEF b0
<1>8. \A b \in Bucket : On(s, b) => b \notin fresh'
    BY <1>2, <1>3, <1>6, <1>7
<1>9. \A u \in Threads, b \in Bucket : Moves(u, b)' =>
         /\ b \notin fresh' /\ ~ On(s, b)
         /\ \A v \in Threads : Moves(v, b)' => v = u
    BY <1>2, <1>3, <1>4, <1>5, <1>6, <1>7
<1>10. BucketsApart(s)'
    BY <1>8, <1>9, ApartNext
<1>11. \A b \in Bucket : Away(s, b)' <=> \/ b \in fresh' \/ On(s, b)
                                         \/ \E u \in Threads : Moves(u, b)'
    BY AwayNext
<1>12. \A b \in Bucket : Away(s, b)' <=> Away(r, b)
    BY <1>2, <1>3, <1>4, <1>5, <1>7, <1>11 DEF Away
<1> QED
    BY <1>10, <1>12

LEMMA BorrowAway ==
    ASSUME NEW q, NEW r, StackInv(q, r), NEW t \in Threads, Act(t), Borrows(t)
    PROVE  /\ BucketsApart(r)' /\ bucket[t] \in Bucket /\ Away(r, bucket[t])
           /\ \A b \in Bucket :
                 Away(r, b)' <=> (b # bucket[t] /\ Away(r, b))
<1> DEFINE b0 == bucket[t]
<1>1. TypeOK /\ Elsewhere(t) /\ PoolThreads /\ PoolLocal(t)
    BY Local, ActSteps, TypeParts
<1>2. poolPc[t] = "a.fill" /\ poolPc'[t] = "a.take" /\ fresh' = fresh
    BY <1>1 DEF Borrows, BorrowBucket, Step, PoolThreads, shared
<1>3. b0 \in Bucket
    BY <1>1, <1>2, ThreadTypes DEF PoolLocal
<1>4. \A b : (Moves(t, b) <=> b = b0) /\ ~ Moves(t, b)'
    BY <1>2 DEF Moves, Returning
<1>5. \A u \in Threads \ {t} : \A b : Moves(u, b)' <=> Moves(u, b)
    BY <1>1, OtherMoves
<1>6. /\ \A b \in Bucket : On(r, b) => b \notin fresh
      /\ \A u \in Threads, b \in Bucket : Moves(u, b) =>
            /\ b \notin fresh /\ ~ On(r, b)
            /\ \A v \in Threads : Moves(v, b) => v = u
    BY ApartParts
<1> HIDE DEF b0
<1>7. BucketsApart(r)'
    BY <1>2, <1>4, <1>5, <1>6, ApartNext
<1>8. \A b \in Bucket : Away(r, b)' <=> \/ b \in fresh' \/ On(r, b)
                                        \/ \E u \in Threads : Moves(u, b)'
    BY AwayNext
<1>9. \A b \in Bucket : Away(r, b)' <=> (b # b0 /\ Away(r, b))
    BY <1>2, <1>3, <1>4, <1>5, <1>6, <1>8 DEF Away
<1>10. Away(r, b0)
    BY <1>4 DEF Away
<1> QED
    BY <1>3, <1>7, <1>9, <1>10 DEF b0

LEMMA FreeAway ==
    ASSUME NEW q, NEW r, StackInv(q, r), NEW t \in Threads, Act(t), Frees(t)
    PROVE  LET n == object[t] IN
           /\ n \in Object /\ n[1] \in Bucket /\ Used(q, n) /\ ~ Away(r, n[1])
           /\ object' = [object EXCEPT ![t] = NULL] /\ object'[t] = NULL
           /\ BucketsApart(r)'
           /\ \A b \in Bucket : Away(r, b)' <=>
                 (Away(r, b) \/ (useCount[n[1]] = 1 /\ b = n[1]))
<1> DEFINE n == object[t]
           b0 == n[1]
           last == useCount[b0] = 1
<1>1. /\ TypeOK /\ Elsewhere(t) /\ PoolThreads /\ PoolLocal(t) /\ StackLocal(t)
    BY Local, ActSteps, TypeParts
<1>2. /\ poolPc[t] = "f.count" /\ fresh' = fresh
      /\ poolPc'[t] = (IF last THEN "f.top" ELSE "out")
      /\ bucket'[t] = (IF last THEN b0 ELSE NULL)
      /\ object' = [object EXCEPT ![t] = NULL] /\ object'[t] = NULL
    BY <1>1 DEF Frees, FreeCount, Step, PoolThreads, shared
<1>3. n # NULL
    BY <1>1, <1>2 DEF PoolLocal, StackLocal
<1>4. n \in Object /\ Used(q, n)
    BY <1>3, HeldObject
<1>5. b0 \in Bucket /\ ~ Away(r, b0)
    BY <1>4, UsedCounted
<1> HIDE DEF last
<1>6. /\ \A b : ~ Moves(t, b)
      /\ \A b \in Bucket : Moves(t, b)' <=> (last /\ b = b0)
  <2>1. \A b : ~ Moves(t, b)
      BY <1>2 DEF Moves, Returning
  <2>2. \A b : last => (Moves(t, b)' <=> b = b0)
      BY <1>2 DEF Moves, Returning
  <2>3. \A b : ~ last => ~ Moves(t, b)'
      BY <1>2 DEF Moves, Returning
  <2> QED
      BY <2>1, <2>2, <2>3
<1>7. \A u \in Threads \ {t} : \A b : Moves(u, b)' <=> Moves(u, b)
    BY <1>1, OtherMoves
<1>8. /\ \A b \in Bucket : On(r, b) => b \notin fresh
      /\ \A u \in Threads, b \in Bucket : Moves(u, b) =>
            /\ b \notin fresh /\ ~ On(r, b)
            /\ \A v \in Threads : Moves(v, b) => v = u
    BY ApartParts
<1> HIDE DEF b0
<1>9. b0 \notin fresh /\ ~ On(r, b0) /\ \A u \in Threads : ~ Moves(u, b0)
    BY <1>5 DEF Away
<1>10. \A u \in Threads, b \in Bucket : Moves(u, b)' =>
         /\ b \notin fresh' /\ ~ On(r, b)
         /\ \A v \in Threads : Moves(v, b)' => v = u
    BY <1>2, <1>6, <1>7, <1>8, <1>9
<1>11. BucketsApart(r)'
    BY <1>2, <1>8, <1>10, ApartNext
<1>12. \A b \in Bucket : Away(r, b)' <=> \/ b \in fresh' \/ On(r, b)
                                         \/ \E u \in Threads : Moves(u, b)'
    BY AwayNext
<1>13. \A b \in Bucket : Away(r, b)' <=> (Away(r, b) \/ (last /\ b = b0))
    BY <1>2, <1>6, <1>7, <1>12 DEF Away
<1> QED
    BY <1>2, <1>4, <1>5, <1>11, <1>13 DEF b0, last

LEMMA KeptAway ==
    ASSUME NEW q, NEW r, StackInv(q, r), NEW t \in Threads, Act(t),
           ~ News(t), ~ Fetches(t), ~ Returns(t), ~ Borrows(t), ~ Frees(t)
    PROVE  /\ BucketsApart(r)'
           /\ \A b \in Bucket : Away(r, b)' <=> Away(r, b)
<1>1. Elsewhere(t) /\ Changes(t) /\ Reads(t)
    BY ActSteps, ActReads
<1>2. fresh' = fresh
    BY <1>1 DEF Changes, News
<1>3. KeepsBucket(t)
    BY <1>1 DEF Reads, News, Fetches, Returns, Borrows, Frees
<1>4. \A b : Moves(t, b)' <=> Moves(t, b)
    BY <1>3 DEF KeepsBucket
<1>5. \A u \in Threads : \A b : Moves(u, b)' <=> Moves(u, b)
    BY <1>1, <1>4, OtherMoves
<1>6. /\ \A b \in Bucket : On(r, b) => b \notin fresh
      /\ \A u \in Threads, b \in Bucket : Moves(u, b) =>
            /\ b \notin fresh /\ ~ On(r, b)
            /\ \A v \in Threads : Moves(v, b) => v = u
    BY ApartParts
<1>7. BucketsApart(r)'
    BY <1>2, <1>5, <1>6, ApartNext
<1>8. \A b \in Bucket : Away(r, b)' <=> \/ b \in fresh' \/ On(r, b)
                                        \/ \E u \in Threads : Moves(u, b)'
    BY AwayNext
<1>9. \A b \in Bucket : Away(r, b)' <=> Away(r, b)
    BY <1>2, <1>5, <1>8 DEF Away
<1> QED
    BY <1>7, <1>9

-----------------------------------------------------------------------------
(* The counts of the buckets. *)

LEMMA SameUsed ==
    ASSUME NEW q, NEW r, StackInv(q, r), NEW t \in Threads, Act(t),
           NEW p, NodeStep(t, q, p), ~ Takes(t), ~ Frees(t),
           NEW n \in Object
    PROVE  (On(p, n) \/ \E u \in Threads : object'[u] = n) <=> Used(q, n)
<1>1. /\ TypeOK /\ Elsewhere(t) /\ Changes(t)
    BY Local, ActSteps
<1>2. \A u \in Threads \ {t} : object'[u] = object[u]
    BY <1>1 DEF Elsewhere
<1>3. n # NULL
    BY NullApart
<1>4. CASE PushCas(t)
  <2>1. object'[t] = NULL
      BY <1>4, PushFacts
  <2>2. On(p, n) <=> (n = object[t] \/ On(q, n))
      BY <1>4, NodesOn
  <2> QED
      BY <1>2, <1>3, <2>1, <2>2 DEF Used
<1>5. CASE PopCas(t)
  <2>1. object'[t] = top.node /\ object[t] = NULL /\ On(q, top.node)
      BY <1>5, PopFacts
  <2>2. On(p, n) <=> (n # top.node /\ On(q, n))
      BY <1>5, NodesOn
  <2> QED
      BY <1>2, <1>3, <2>1, <2>2 DEF Used
<1>6. CASE ~ PushCas(t) /\ ~ PopCas(t)
  <2>1. p = q /\ object' = object
      BY <1>1, <1>6, NodesOn DEF Changes, Takes, Frees
  <2> QED
      BY <2>1 DEF Used
<1> QED
    BY <1>4, <1>5, <1>6

LEMMA PoolKeepsNodes ==
    ASSUME NEW q, NEW r, StackInv(q, r), NEW t \in Threads, InPool(t),
           NEW p, NodeStep(t, q, p)
    PROVE  p = q
<1>1. pc' = pc
    BY DEF InPool
<1>2. PushCas(t) => pc[t] = "p.cas" /\ pc'[t] = "p.count"
    BY PushFacts
<1>3. PopCas(t) => pc[t] = "q.cas" /\ pc'[t] = "q.data"
    BY PopFacts
<1>4. ~ PushCas(t) /\ ~ PopCas(t)
    BY <1>1, <1>2, <1>3
<1> QED
    BY <1>4, NodesOn

\* The parts of the invariant about one bucket.
LEMMA BucketParts ==
    ASSUME NEW q, NEW r, StackInv(q, r), NEW b \in Bucket
    PROVE  /\ Away(r, b) => /\ UsedOf(q, b) = {}
                            /\ \A t \in Threads : tls[t] # b
           /\ ~ Away(r, b) =>
                /\ useCount[b] = BucketSize - allocCount[b]
                                 + Cardinality(UsedOf(q, b))
                /\ useCount[b] > 0
                /\ b # StartBucket /\ allocCount[b] < BucketSize
                      => \E t \in Threads : tls[t] = b
           /\ \A t \in Threads : tls[t] = b =>
                /\ allocCount[b] < BucketSize
                /\ \A u \in Threads : tls[u] = b => u = t
                /\ \A n \in UsedOf(q, b) : n[2] <= allocCount[b]
           /\ IsFiniteSet(UsedOf(q, b)) /\ Cardinality(UsedOf(q, b)) \in Nat
           /\ BucketSize \in Nat /\ BucketSize > 0
           /\ allocCount[b] \in 0 .. BucketSize
           /\ useCount[b] \in 0 .. BucketSize
<1>1. BucketOK(q, r, b) /\ TypeOK
    BY DEF StackInv, BucketsOK
<1>2. PoolShared /\ PoolCounts
    BY <1>1, TypeParts
<1>3. /\ BucketSize \in Nat /\ BucketSize > 0
      /\ allocCount[b] \in 0 .. BucketSize /\ useCount[b] \in 0 .. BucketSize
    BY <1>2, Numbers DEF PoolShared, PoolCounts
<1>4. IsFiniteSet(UsedOf(q, b)) /\ Cardinality(UsedOf(q, b)) \in Nat
  <2>1. UsedOf(q, b) \subseteq Object
      BY DEF UsedOf
  <2> QED
      BY <2>1, ObjectsFinite, FS_Subset, FS_CardinalityType
<1> QED
    BY <1>1, <1>3, <1>4 DEF BucketOK, Lent, Owned

LEMMA UsedOfNext ==
    ASSUME NEW p, NEW b
    PROVE  UsedOf(p, b)' =
             {n \in Object :
                n[1] = b /\ (On(p, n) \/ \E u \in Threads : object'[u] = n)}
BY DEF UsedOf, Used, On

LEMMA UsedOfNow ==
    ASSUME NEW q, NEW b
    PROVE  UsedOf(q, b) = {n \in Object : n[1] = b /\ Used(q, n)}
BY DEF UsedOf

\* A bucket no step of a thread concerns.
LEMMA SameBucket ==
    ASSUME NEW q, NEW r, StackInv(q, r), NEW b \in Bucket, NEW p, NEW s,
           BucketSize' = BucketSize,
           UsedOf(p, b)' = UsedOf(q, b), Away(s, b)' <=> Away(r, b),
           useCount'[b] = useCount[b], allocCount'[b] = allocCount[b],
           \A t \in Threads : tls'[t] = b <=> tls[t] = b
    PROVE  BucketOK(p, s, b)'
<1>1. BucketOK(q, r, b)
    BY DEF StackInv, BucketsOK
<1>2. StartBucket' = StartBucket
    BY DEF StartBucket, StartNode
<1>3. Lent(p, b)' <=> Lent(q, b)
  <2>1. Lent(p, b)' <=>
          /\ useCount'[b] = BucketSize - allocCount'[b]
                            + Cardinality(UsedOf(p, b)')
          /\ useCount'[b] > 0
          /\ b # StartBucket' /\ allocCount'[b] < BucketSize
                => \E t \in Threads : tls'[t] = b
      BY DEF Lent
  <2>2. Lent(q, b) <=>
          /\ useCount[b] = BucketSize - allocCount[b]
                            + Cardinality(UsedOf(q, b))
          /\ useCount[b] > 0
          /\ b # StartBucket /\ allocCount[b] < BucketSize
                => \E t \in Threads : tls[t] = b
      BY DEF Lent
  <2> HIDE DEF StartBucket
  <2> QED
      BY <1>2, <2>1, <2>2
<1>4. Owned(p, b)' <=> Owned(q, b)
  <2>1. Owned(p, b)' <=>
          \A t \in Threads : tls'[t] = b =>
            /\ allocCount'[b] < BucketSize
            /\ \A u \in Threads : tls'[u] = b => u = t
            /\ \A n \in UsedOf(p, b)' : n[2] <= allocCount'[b]
      BY DEF Owned
  <2>2. Owned(q, b) <=>
          \A t \in Threads : tls[t] = b =>
            /\ allocCount[b] < BucketSize
            /\ \A u \in Threads : tls[u] = b => u = t
            /\ \A n \in UsedOf(q, b) : n[2] <= allocCount[b]
      BY DEF Owned
  <2> QED
      BY <2>1, <2>2
<1>5. BucketOK(p, s, b)' <=>
        /\ Away(s, b)' => /\ UsedOf(p, b)' = {}
                          /\ \A t \in Threads : tls'[t] # b
        /\ ~ Away(s, b)' => Lent(p, b)'
        /\ Owned(p, b)'
    BY DEF BucketOK
<1>6. /\ Away(r, b) => /\ UsedOf(q, b) = {}
                       /\ \A t \in Threads : tls[t] # b
      /\ ~ Away(r, b) => Lent(q, b)
      /\ Owned(q, b)
    BY <1>1 DEF BucketOK
<1> QED
    BY <1>3, <1>4, <1>5, <1>6

\* The same facts after a step, put together.
LEMMA BucketNext ==
    ASSUME NEW p, NEW s, NEW b, BucketSize' = BucketSize,
           Away(s, b)' => /\ UsedOf(p, b)' = {}
                          /\ \A t \in Threads : tls'[t] # b,
           ~ Away(s, b)' =>
                /\ useCount'[b] = BucketSize - allocCount'[b]
                                  + Cardinality(UsedOf(p, b)')
                /\ useCount'[b] > 0
                /\ b # StartBucket /\ allocCount'[b] < BucketSize
                      => \E t \in Threads : tls'[t] = b,
           \A t \in Threads : tls'[t] = b =>
                /\ allocCount'[b] < BucketSize
                /\ \A u \in Threads : tls'[u] = b => u = t
                /\ \A n \in UsedOf(p, b)' : n[2] <= allocCount'[b]
    PROVE  BucketOK(p, s, b)'
<1>1. StartBucket' = StartBucket
    BY DEF StartBucket, StartNode
<1>2. ~ Away(s, b)' => Lent(p, b)'
  <2>1. Lent(p, b)' <=>
          /\ useCount'[b] = BucketSize' - allocCount'[b]
                            + Cardinality(UsedOf(p, b)')
          /\ useCount'[b] > 0
          /\ b # StartBucket' /\ allocCount'[b] < BucketSize'
                => \E t \in Threads : tls'[t] = b
      BY DEF Lent
  <2> HIDE DEF StartBucket
  <2> QED
      BY <1>1, <2>1
<1>3. Owned(p, b)'
  <2>1. Owned(p, b)' <=>
          \A t \in Threads : tls'[t] = b =>
            /\ allocCount'[b] < BucketSize'
            /\ \A u \in Threads : tls'[u] = b => u = t
            /\ \A n \in UsedOf(p, b)' : n[2] <= allocCount'[b]
      BY DEF Owned
  <2> QED
      BY <2>1
<1>4. BucketOK(p, s, b)' <=>
        /\ Away(s, b)' => /\ UsedOf(p, b)' = {}
                          /\ \A t \in Threads : tls'[t] # b
        /\ ~ Away(s, b)' => Lent(p, b)'
        /\ Owned(p, b)'
    BY DEF BucketOK
<1> QED
    BY <1>2, <1>3, <1>4

LEMMA BorrowBuckets ==
    ASSUME NEW q, NEW r, StackInv(q, r), NEW t \in Threads, Act(t), Borrows(t),
           NEW p, NodeStep(t, q, p)
    PROVE  BucketsOK(p, r)'
<1>0. PICK b0 : b0 = bucket[t]
    OBVIOUS
<1>1. /\ TypeOK /\ Elsewhere(t) /\ PoolThreads /\ PoolCounts /\ PoolShared
    BY Local, ActSteps, TypeParts
<1>2. /\ b0 \in Bucket /\ Away(r, b0)
      /\ \A b \in Bucket : Away(r, b)' <=> (b # b0 /\ Away(r, b))
    BY <1>0, BorrowAway
<1>3. /\ poolPc[t] = "a.fill" /\ object' = object
      /\ allocCount' = [allocCount EXCEPT ![b0] = 0]
      /\ useCount' = [useCount EXCEPT ![b0] = BucketSize]
      /\ tls' = [tls EXCEPT ![t] = b0]
    BY <1>0 DEF Borrows, BorrowBucket, Step
<1>4. /\ BucketSize' = BucketSize /\ BucketSize \in Nat /\ BucketSize > 0
    BY <1>1, Numbers DEF Elsewhere, PoolShared
<1>5. tls[t] = NULL
  <2>1. PoolLocal(t)
      BY Local
  <2> QED
      BY <1>3, <2>1 DEF PoolLocal
<1>6. p = q
    BY PoolKeepsNodes DEF Borrows
<1>7. \A b : UsedOf(p, b)' = UsedOf(q, b)
    BY <1>3, <1>6, UsedOfNext, UsedOfNow DEF Used
<1>8. /\ allocCount'[b0] = 0 /\ useCount'[b0] = BucketSize /\ tls'[t] = b0
      /\ \A b \in Bucket \ {b0} : /\ allocCount'[b] = allocCount[b]
                                  /\ useCount'[b] = useCount[b]
      /\ \A u \in Threads \ {t} : tls'[u] = tls[u]
  <2> QED
      BY <1>1, <1>2, <1>3 DEF PoolCounts, PoolThreads
<1>9. UsedOf(q, b0) = {} /\ \A u \in Threads : tls[u] # b0
    BY <1>2, BucketParts
<1>10. BucketOK(p, r, b0)'
  <2>1. ~ Away(r, b0)'
      BY <1>2
  <2>2. UsedOf(p, b0)' = {} /\ Cardinality(UsedOf(p, b0)') = 0
      BY <1>7, <1>9, FS_EmptySet
  <2>3. \A u \in Threads : tls'[u] = b0 =>
           /\ allocCount'[b0] < BucketSize
           /\ \A v \in Threads : tls'[v] = b0 => v = u
           /\ \A n \in UsedOf(p, b0)' : n[2] <= allocCount'[b0]
    <3>1. \A u \in Threads : tls'[u] = b0 => u = t
        BY <1>8, <1>9
    <3>2. allocCount'[b0] < BucketSize
        BY <1>4, <1>8
    <3> QED
        BY <2>2, <3>1, <3>2
  <2>4. useCount'[b0] = BucketSize - allocCount'[b0]
                        + Cardinality(UsedOf(p, b0)')
        /\ useCount'[b0] > 0
      BY <1>4, <1>8, <2>2
  <2> QED
      BY <1>4, <1>8, <2>1, <2>3, <2>4, BucketNext
<1>11. ASSUME NEW b \in Bucket, b # b0
       PROVE  BucketOK(p, r, b)'
  <2>1. b # NULL
      BY NullApart
  <2>2. \A u \in Threads : tls'[u] = b <=> tls[u] = b
      BY <1>5, <1>8, <1>11, <2>1
  <2>3. Away(r, b)' <=> Away(r, b)
      BY <1>2, <1>11
  <2>4. useCount'[b] = useCount[b] /\ allocCount'[b] = allocCount[b]
      BY <1>8, <1>11
  <2> QED
      BY <1>4, <1>7, <2>2, <2>3, <2>4, SameBucket
<1>12. \A b \in Bucket : BucketOK(p, r, b)'
    BY <1>10, <1>11
<1> QED
    BY <1>12 DEF BucketsOK

LEMMA TakeBuckets ==
    ASSUME NEW q, NEW r, StackInv(q, r), NEW t \in Threads, Act(t), Takes(t),
           NEW p, NodeStep(t, q, p)
    PROVE  BucketsOK(p, r)'
<1>11. PICK b0, k : b0 = tls[t] /\ k = allocCount[b0] + 1
    OBVIOUS
<1>20. PICK n0 : n0 = <<b0, k>>
    OBVIOUS
<1>0. TakeObject(t) /\ InPool(t)
    BY DEF Takes
<1>1. /\ TypeOK /\ Elsewhere(t) /\ PoolThreads /\ PoolCounts /\ PoolShared
    BY Local, ActSteps, TypeParts
<1>2. /\ b0 \in Bucket /\ k \in 1 .. BucketSize /\ n0 \in Object
      /\ object'[t] = n0
      /\ allocCount' = [allocCount EXCEPT ![b0] = k] /\ allocCount'[b0] = k
      /\ tls' = [tls EXCEPT ![t] = IF k = BucketSize THEN NULL ELSE b0]
      /\ poolPc[t] = "a.take" /\ poolPc'[t] = "out"
    BY <1>0, <1>11, <1>20, TakeFacts
<1>3. useCount' = useCount
    BY <1>0 DEF TakeObject
<1>4. BucketSize' = BucketSize
    BY <1>1 DEF Elsewhere
<1>5. p = q
    BY <1>0, PoolKeepsNodes
<1>6. /\ ~ Used(q, n0) /\ object[t] = NULL
      /\ \A u \in Threads \ {t} : object'[u] = object[u]
    BY <1>0, <1>2, TakeUnused
<1>7. \A b \in Bucket : Away(r, b)' <=> Away(r, b)
  <2>1. ~ News(t) /\ ~ Fetches(t) /\ ~ Returns(t) /\ ~ Borrows(t) /\ ~ Frees(t)
      BY <1>2 DEF News, Fetches, Returns, Borrows, Frees, AllocNew, AllocCas,
         FreeCas, BorrowBucket, FreeCount, Step
  <2> QED
      BY <2>1, KeptAway
<1>8. n0[1] = b0 /\ n0[2] = k
    BY <1>20
<1>9. b0 # NULL /\ n0 # NULL
    BY <1>2, NullApart
<1>10. /\ \A b \in Bucket \ {b0} : allocCount'[b] = allocCount[b]
       /\ \A u \in Threads \ {t} : tls'[u] = tls[u]
       /\ tls'[t] = IF k = BucketSize THEN NULL ELSE b0
  <2> QED
      BY <1>1, <1>2 DEF PoolCounts, PoolThreads
<1>12. \A n \in Object : (On(p, n) \/ \E u \in Threads : object'[u] = n)
                            <=> (Used(q, n) \/ n = n0)
  <2>1. \A n \in Object : n # NULL
      BY NullApart
  <2> QED
      BY <1>2, <1>5, <1>6, <2>1 DEF Used
<1>13. \A b \in Bucket \ {b0} : UsedOf(p, b)' = UsedOf(q, b)
    BY <1>8, <1>12, UsedOfNext, UsedOfNow
<1>14. UsedOf(p, b0)' = UsedOf(q, b0) \cup {n0} /\ n0 \notin UsedOf(q, b0)
    BY <1>2, <1>6, <1>8, <1>12, UsedOfNext, UsedOfNow
<1>15. /\ ~ Away(r, b0)
       /\ \A u \in Threads : tls[u] = b0 => u = t
       /\ \A n \in UsedOf(q, b0) : n[2] <= allocCount[b0]
       /\ IsFiniteSet(UsedOf(q, b0)) /\ Cardinality(UsedOf(q, b0)) \in Nat
       /\ BucketSize \in Nat /\ allocCount[b0] \in Nat
       /\ useCount[b0] \in Nat
       /\ useCount[b0] = BucketSize - allocCount[b0]
                         + Cardinality(UsedOf(q, b0))
       /\ useCount[b0] > 0
    BY <1>2, <1>11, BucketParts
<1>16. Cardinality(UsedOf(p, b0)') = Cardinality(UsedOf(q, b0)) + 1
    BY <1>14, <1>15, FS_AddElement
<1>17. BucketOK(p, r, b0)'
  <2>1. useCount'[b0] = BucketSize - allocCount'[b0]
                        + Cardinality(UsedOf(p, b0)')
        /\ useCount'[b0] > 0
      BY <1>2, <1>3, <1>11, <1>15, <1>16
  <2>2. allocCount'[b0] < BucketSize => tls'[t] = b0
      BY <1>2, <1>10, <1>15
  <2>3. ASSUME NEW u \in Threads, tls'[u] = b0
        PROVE  /\ allocCount'[b0] < BucketSize
               /\ \A v \in Threads : tls'[v] = b0 => v = u
               /\ \A n \in UsedOf(p, b0)' : n[2] <= allocCount'[b0]
    <3>1. \A v \in Threads : tls'[v] = b0 => v = t
        BY <1>10, <1>15
    <3>2. u = t /\ k # BucketSize
        BY <1>9, <1>10, <2>3, <3>1
    <3>3. allocCount'[b0] < BucketSize
        BY <1>2, <1>15, <3>2
    <3>4. \A n \in UsedOf(q, b0) : n[2] <= k
      <4> SUFFICES ASSUME NEW n \in UsedOf(q, b0) PROVE n[2] <= k
          OBVIOUS
      <4>1. n[2] <= allocCount[b0] /\ n \in Object
          BY <1>15 DEF UsedOf
      <4>2. n[2] \in Nat
          BY <4>1, Numbers DEF Object
      <4> QED
          BY <1>11, <1>15, <4>1, <4>2
    <3>5. \A n \in UsedOf(p, b0)' : n[2] <= allocCount'[b0]
        BY <1>2, <1>8, <1>14, <1>15, <3>4
    <3> QED
        BY <3>1, <3>2, <3>3, <3>5
  <2> QED
      BY <1>2, <1>4, <1>7, <1>15, <2>1, <2>2, <2>3, BucketNext
<1>18. ASSUME NEW b \in Bucket, b # b0
       PROVE  BucketOK(p, r, b)'
  <2>1. b # NULL
      BY NullApart
  <2>2. \A u \in Threads : tls'[u] = b <=> tls[u] = b
      BY <1>10, <1>11, <1>18, <2>1
  <2>3. useCount'[b] = useCount[b] /\ allocCount'[b] = allocCount[b]
      BY <1>3, <1>10, <1>18
  <2> QED
      BY <1>4, <1>7, <1>13, <1>18, <2>2, <2>3, SameBucket
<1>19. \A b \in Bucket : BucketOK(p, r, b)'
    BY <1>17, <1>18
<1> QED
    BY <1>19 DEF BucketsOK

LEMMA FreeBucketsOK ==
    ASSUME NEW q, NEW r, StackInv(q, r), NEW t \in Threads, Act(t), Frees(t),
           NEW p, NodeStep(t, q, p)
    PROVE  BucketsOK(p, r)'
<1>7. PICK n0, b0 : object[t] = n0 /\ n0[1] = b0
    OBVIOUS
<1>0. FreeCount(t) /\ InPool(t)
    BY DEF Frees
<1>1. /\ TypeOK /\ Elsewhere(t) /\ PoolThreads /\ PoolCounts /\ PoolShared
    BY Local, ActSteps, TypeParts
<1>2. /\ n0 \in Object /\ b0 \in Bucket /\ Used(q, n0) /\ ~ Away(r, b0)
      /\ object'[t] = NULL
      /\ \A b \in Bucket : Away(r, b)' <=>
            (Away(r, b) \/ (useCount[b0] = 1 /\ b = b0))
    BY <1>7, FreeAway
<1>3. /\ useCount' = [useCount EXCEPT ![b0] = useCount[b0] - 1]
      /\ allocCount' = allocCount /\ tls' = tls
    BY <1>0, <1>7 DEF FreeCount
<1>4. BucketSize' = BucketSize
    BY <1>1 DEF Elsewhere
<1>5. p = q
    BY <1>0, PoolKeepsNodes
<1>6. /\ \A u \in Threads \ {t} : object'[u] = object[u]
      /\ ~ On(q, n0) /\ \A u \in Threads : object[u] = n0 => u = t
  <2>1. n0 # NULL
      BY <1>2, NullApart
  <2> QED
      BY <1>1, <1>7, <2>1 DEF Elsewhere, StackInv, NodesApart
<1>8. /\ useCount'[b0] = useCount[b0] - 1
      /\ \A b \in Bucket \ {b0} : useCount'[b] = useCount[b]
    BY <1>1, <1>2, <1>3 DEF PoolCounts
<1>9. \A n \in Object : (On(p, n) \/ \E u \in Threads : object'[u] = n)
                           <=> (Used(q, n) /\ n # n0)
  <2>1. \A n \in Object : n # NULL
      BY NullApart
  <2> QED
      BY <1>2, <1>5, <1>6, <1>7, <2>1 DEF Used
<1>10. \A b \in Bucket \ {b0} : UsedOf(p, b)' = UsedOf(q, b)
    BY <1>7, <1>9, UsedOfNext, UsedOfNow
<1>11. UsedOf(p, b0)' = UsedOf(q, b0) \ {n0} /\ n0 \in UsedOf(q, b0)
    BY <1>2, <1>7, <1>9, UsedOfNext, UsedOfNow
<1>12. /\ IsFiniteSet(UsedOf(q, b0)) /\ Cardinality(UsedOf(q, b0)) \in Nat
       /\ BucketSize \in Nat /\ allocCount[b0] \in 0 .. BucketSize
       /\ useCount[b0] \in Nat
       /\ useCount[b0] = BucketSize - allocCount[b0]
                         + Cardinality(UsedOf(q, b0))
       /\ useCount[b0] > 0
       /\ b0 # StartBucket /\ allocCount[b0] < BucketSize
             => \E u \in Threads : tls[u] = b0
       /\ \A u \in Threads : tls[u] = b0 =>
            /\ allocCount[b0] < BucketSize
            /\ \A v \in Threads : tls[v] = b0 => v = u
            /\ \A n \in UsedOf(q, b0) : n[2] <= allocCount[b0]
    BY <1>2, BucketParts
<1>13. /\ Cardinality(UsedOf(p, b0)') = Cardinality(UsedOf(q, b0)) - 1
       /\ Cardinality(UsedOf(p, b0)') \in Nat /\ IsFiniteSet(UsedOf(p, b0)')
    BY <1>11, <1>12, FS_RemoveElement, FS_CardinalityType
<1>14. BucketOK(p, r, b0)'
  <2>1. Away(r, b0)' <=> useCount[b0] = 1
      BY <1>2
  <2>2. useCount[b0] = 1 => /\ UsedOf(p, b0)' = {}
                            /\ \A u \in Threads : tls'[u] # b0
    <3>1. useCount[b0] = 1 => /\ Cardinality(UsedOf(p, b0)') = 0
                              /\ ~ (allocCount[b0] < BucketSize)
        BY <1>12, <1>13
    <3> QED
        BY <1>3, <1>12, <1>13, <3>1, FS_EmptySet
  <2>3. useCount[b0] # 1 =>
          /\ useCount'[b0] = BucketSize - allocCount'[b0]
                             + Cardinality(UsedOf(p, b0)')
          /\ useCount'[b0] > 0
      BY <1>3, <1>8, <1>12, <1>13
  <2>4. \A u \in Threads : tls'[u] = b0 =>
          /\ allocCount'[b0] < BucketSize
          /\ \A v \in Threads : tls'[v] = b0 => v = u
          /\ \A n \in UsedOf(p, b0)' : n[2] <= allocCount'[b0]
      BY <1>3, <1>11, <1>12
  <2>5. b0 # StartBucket /\ allocCount'[b0] < BucketSize
             => \E u \in Threads : tls'[u] = b0
      BY <1>3, <1>12
  <2> QED
      BY <1>4, <2>1, <2>2, <2>3, <2>4, <2>5, BucketNext
<1>15. ASSUME NEW b \in Bucket, b # b0
       PROVE  BucketOK(p, r, b)'
  <2>1. Away(r, b)' <=> Away(r, b)
      BY <1>2, <1>15
  <2>2. /\ useCount'[b] = useCount[b] /\ allocCount'[b] = allocCount[b]
        /\ \A u \in Threads : tls'[u] = b <=> tls[u] = b
      BY <1>3, <1>8, <1>15
  <2> QED
      BY <1>4, <1>10, <1>15, <2>1, <2>2, SameBucket
<1>16. \A b \in Bucket : BucketOK(p, r, b)'
    BY <1>14, <1>15
<1> QED
    BY <1>16 DEF BucketsOK

\* The other steps.
LEMMA KeptBuckets ==
    ASSUME NEW q, NEW r, StackInv(q, r), NEW t \in Threads, Act(t),
           ~ Borrows(t), ~ Takes(t), ~ Frees(t),
           NEW p, NodeStep(t, q, p), NEW s,
           \A b \in Bucket : Away(s, b)' <=> Away(r, b)
    PROVE  BucketsOK(p, s)'
<1>1. Elsewhere(t) /\ Changes(t)
    BY ActSteps
<1>2. /\ BucketSize' = BucketSize /\ allocCount' = allocCount
      /\ useCount' = useCount /\ tls' = tls
    BY <1>1 DEF Elsewhere, Changes, Borrows, Takes, Frees
<1>3. \A n \in Object : (On(p, n) \/ \E u \in Threads : object'[u] = n)
                           <=> Used(q, n)
    BY SameUsed
<1>4. \A b : UsedOf(p, b)' = UsedOf(q, b)
    BY <1>3, UsedOfNext, UsedOfNow
<1>5. \A b \in Bucket : BucketOK(p, s, b)'
    BY <1>2, <1>4, SameBucket
<1> QED
    BY <1>5 DEF BucketsOK

LEMMA NextBuckets ==
    ASSUME NEW q, NEW r, StackInv(q, r), NEW t \in Threads, Act(t),
           NEW p, NodeStep(t, q, p), NEW s, BlockStep(t, r, s)
    PROVE  BucketsApart(s)' /\ BucketsOK(p, s)'
<1>1. /\ Fetches(t) => poolPc[t] = "a.cas" /\ poolPc'[t] = "a.fill"
      /\ Returns(t) => poolPc[t] = "f.cas"
    BY AllocFacts, ReturnFacts DEF Fetches, Returns
<1>2. /\ Borrows(t) => poolPc[t] = "a.fill"
      /\ Takes(t) => poolPc[t] = "a.take"
      /\ Frees(t) => poolPc[t] = "f.count"
      /\ News(t) => poolPc[t] = "a.new"
    BY DEF Borrows, Takes, Frees, News, BorrowBucket, TakeObject, FreeCount,
       AllocNew, Step
<1>3. ~ Fetches(t) /\ ~ Returns(t) => s = r
    BY WhichBlockStep
<1>4. CASE Fetches(t)
  <2>1. BucketsApart(s)' /\ \A b \in Bucket : Away(s, b)' <=> Away(r, b)
      BY <1>4, FetchAway
  <2> QED
      BY <1>1, <1>2, <1>4, <2>1, KeptBuckets
<1>5. CASE Returns(t)
  <2>1. BucketsApart(s)' /\ \A b \in Bucket : Away(s, b)' <=> Away(r, b)
      BY <1>5, ReturnAway
  <2> QED
      BY <1>1, <1>2, <1>5, <2>1, KeptBuckets
<1>6. CASE News(t)
  <2>1. s = r
      BY <1>1, <1>2, <1>3, <1>6
  <2>2. BucketsApart(r)' /\ \A b \in Bucket : Away(r, b)' <=> Away(r, b)
      BY <1>6, NewAway
  <2>3. BucketsOK(p, r)'
      BY <1>2, <1>6, <2>2, KeptBuckets
  <2> QED
      BY <2>1, <2>2, <2>3
<1>7. CASE Borrows(t)
  <2>1. s = r
      BY <1>1, <1>2, <1>3, <1>7
  <2>2. BucketsApart(r)' /\ BucketsOK(p, r)'
      BY <1>7, BorrowAway, BorrowBuckets
  <2> QED
      BY <2>1, <2>2
<1>8. CASE Takes(t)
  <2>1. s = r /\ ~ News(t) /\ ~ Fetches(t) /\ ~ Returns(t)
        /\ ~ Borrows(t) /\ ~ Frees(t)
      BY <1>1, <1>2, <1>3, <1>8
  <2>2. BucketsApart(r)'
      BY <2>1, KeptAway
  <2>3. BucketsOK(p, r)'
      BY <1>8, TakeBuckets
  <2> QED
      BY <2>1, <2>2, <2>3
<1>9. CASE Frees(t)
  <2>1. s = r
      BY <1>1, <1>2, <1>3, <1>9
  <2>2. BucketsApart(r)'
      BY <1>9, FreeAway
  <2>3. BucketsOK(p, r)'
      BY <1>9, FreeBucketsOK
  <2> QED
      BY <2>1, <2>2, <2>3
<1>10. CASE /\ ~ Fetches(t) /\ ~ Returns(t) /\ ~ News(t)
            /\ ~ Borrows(t) /\ ~ Takes(t) /\ ~ Frees(t)
  <2>1. s = r
      BY <1>3, <1>10
  <2>2. BucketsApart(r)' /\ \A b \in Bucket : Away(r, b)' <=> Away(r, b)
      BY <1>10, KeptAway
  <2>3. BucketsOK(p, r)'
      BY <1>10, <2>2, KeptBuckets
  <2> QED
      BY <2>1, <2>2, <2>3
<1> QED
    BY <1>4, <1>5, <1>6, <1>7, <1>8, <1>9, <1>10

-----------------------------------------------------------------------------
(* The invariant is inductive. *)

LEMMA ActInv ==
    ASSUME NEW q, NEW r, StackInv(q, r), NEW t \in Threads, Act(t),
           NEW p, NodeStep(t, q, p), NEW s, BlockStep(t, r, s)
    PROVE  StackInv(p, s)'
<1>1. TypeOK'
  <2>1. [Next]_vars
      BY DEF Next, Act
  <2> QED
      BY <2>1, NextTypes
<1>2. Locals' /\ Lists(p, s)' /\ Stale(p, s)'
    BY NextLocals, NextLists, NextStale
<1>3. Stamps' /\ Counts(p)'
    BY NextStamps, StepCounts
<1>4. IndexApart(p)' /\ IndexSomewhere(p)' /\ NodesApart(p)'
    BY NextIndexes, NextNodesApart
<1>5. BucketsApart(s)' /\ BucketsOK(p, s)'
    BY NextBuckets
<1> QED
    BY <1>1, <1>2, <1>3, <1>4, <1>5 DEF StackInv

LEMMA SameVars ==
    UNCHANGED vars =>
        /\ UNCHANGED <<BucketSize, freeNodePtr, blockNext, fresh, allocCount,
                       useCount, tls, poolPc, tempFreeNode, newNext, bucket,
                       object>>
        /\ UNCHANGED <<next, data, top, nodeCount, pc, tempTop, newTop, index,
                       held, setup>>
BY DEF vars, poolVars, shared, counts, poolLocals, nodes, stackLocals, outside

LEMMA SameInv ==
    ASSUME NEW q, NEW r, StackInv(q, r), UNCHANGED vars
    PROVE  StackInv(q, r)'
<1>1. TypeOK'
    BY NextTypes
<1>2. /\ UNCHANGED <<BucketSize, freeNodePtr, blockNext, fresh, allocCount,
                     useCount, tls, poolPc, tempFreeNode, newNext, bucket,
                     object>>
      /\ UNCHANGED <<next, data, top, nodeCount, pc, tempTop, newTop, index,
                     held, setup>>
    BY SameVars
<1>3. Locals'
    BY <1>2 DEF StackInv, Locals, PoolLocal, StackLocal
<1>4. Lists(q, r)'
    BY <1>2 DEF StackInv, Lists, Linked
<1>5. Stale(q, r)'
    BY <1>2 DEF StackInv, Stale, StaleTop, StaleBlock, On
<1>6. PcIn(Taking)' = PcIn(Taking) /\ PcIn(Took)' = PcIn(Took)
      /\ PcIn(Owing)' = PcIn(Owing) /\ PcIn(Reserved)' = PcIn(Reserved)
      /\ PcIn(Calling)' = PcIn(Calling)
      /\ PoolPcIn(Allocating)' = PoolPcIn(Allocating)
    BY <1>2 DEF PcIn, PoolPcIn
<1>7. Stamps'
    BY <1>2, <1>6 DEF StackInv, Stamps
<1>8. Counts(q)'
    BY <1>2, <1>6 DEF StackInv, Counts
<1>9. IndexApart(q)' /\ IndexSomewhere(q)'
    BY <1>2, <1>6 DEF StackInv, IndexApart, IndexSomewhere, Carries
<1>10. NodesApart(q)'
    BY <1>2 DEF StackInv, NodesApart, On
<1>11. \A u \in Threads : \A b : Moves(u, b)' <=> Moves(u, b)
    BY <1>2 DEF Moves
<1>12. BucketsApart(r)'
    BY <1>2, <1>11 DEF StackInv, BucketsApart, On
<1>13. BucketsOK(q, r)'
  <2>1. \A b \in Bucket : Away(r, b)' <=> Away(r, b)
      BY <1>2, <1>11 DEF Away, On
  <2>2. \A b : UsedOf(q, b)' = UsedOf(q, b)
      BY <1>2 DEF UsedOf, Used, On
  <2>3. \A b \in Bucket : BucketOK(q, r, b)'
      BY <1>2, <2>1, <2>2, SameBucket
  <2> QED
      BY <2>3 DEF BucketsOK
<1> QED
    BY <1>1, <1>3, <1>4, <1>5, <1>7, <1>8, <1>9, <1>10, <1>12, <1>13
    DEF StackInv

LEMMA NextInv == Inv /\ [Next]_vars => Inv'
<1> SUFFICES ASSUME Inv, [Next]_vars PROVE Inv'
    OBVIOUS
<1>1. PICK q \in Seq(Object), r \in Seq(Bucket) : StackInv(q, r)
    BY DEF Inv
<1>2. CASE UNCHANGED vars
  <2>1. StackInv(q, r)'
      BY <1>1, <1>2, SameInv
  <2> QED
      BY <2>1 DEF Inv, Object, Bucket
<1>3. CASE Next
  <2>1. PICK t \in Threads : Act(t)
      BY <1>3 DEF Next, Act
  <2>2. PICK p \in Seq(Object) : NodeStep(t, q, p)
      BY <1>1, NodeStepIs
  <2>3. PICK s \in Seq(Bucket) : BlockStep(t, r, s)
      BY <1>1, BlockStepIs
  <2>4. StackInv(p, s)'
      BY <1>1, <2>1, <2>2, <2>3, ActInv
  <2> QED
      BY <2>4 DEF Inv, Object, Bucket
<1> QED
    BY <1>2, <1>3

-----------------------------------------------------------------------------
(* The numbers of the nodes of the start. *)

LEMMA Euclid ==
    ASSUME NEW x \in Nat, NEW b \in Nat, b > 0
    PROVE  /\ x \div b \in Nat /\ x % b \in 0 .. b - 1
           /\ x = b * (x \div b) + (x % b)
OBVIOUS

LEMMA Multiples ==
    ASSUME NEW b \in Nat, NEW k \in Nat, NEW l \in Nat, k <= l
    PROVE  b * k \in Nat /\ b * l \in Nat /\ b * k <= b * l
<1>1. l - k \in Nat /\ b * (l - k) \in Nat
    OBVIOUS
<1>2. b * l = b * k + b * (l - k)
    OBVIOUS
<1> QED
    BY <1>1, <1>2

LEMMA Quotient ==
    ASSUME NEW x \in Nat, NEW b \in Nat, b > 0, NEW k \in Nat
    PROVE  (x \div b = k) <=> (b * k <= x /\ x < b * k + b)
<1> DEFINE d == x \div b
<1>1. d \in Nat /\ x % b \in 0 .. b - 1 /\ x = b * d + (x % b)
    BY Euclid
<1> HIDE DEF d
<1>2. b * d \in Nat /\ b * k \in Nat
    BY <1>1
<1>3. CASE d = k
    BY <1>1, <1>2, <1>3 DEF d
<1>4. CASE d < k
  <2>1. d + 1 \in Nat /\ d + 1 <= k
      BY <1>1, <1>4
  <2>2. b * (d + 1) <= b * k
      BY <2>1, Multiples
  <2>3. b * (d + 1) = b * d + b
      BY <1>1
  <2> QED
      BY <1>1, <1>2, <1>4, <2>2, <2>3 DEF d
<1>5. CASE d > k
  <2>1. k + 1 \in Nat /\ k + 1 <= d
      BY <1>1, <1>5
  <2>2. b * (k + 1) <= b * d
      BY <1>1, <2>1, Multiples
  <2>3. b * (k + 1) = b * k + b
      OBVIOUS
  <2> QED
      BY <1>1, <1>2, <1>5, <2>2, <2>3 DEF d
<1> QED
    BY <1>1, <1>3, <1>4, <1>5

LEMMA StartNodes ==
    ASSUME BucketSize \in Nat, BucketSize > 0, NEW i \in Nat, i > 0
    PROVE  /\ StartNode(i)[1] = ((i - 1) \div BucketSize) + 1
           /\ StartNode(i)[2] = ((i - 1) % BucketSize) + 1
           /\ StartNode(i)[1] \in Nat /\ StartNode(i)[1] > 0
           /\ StartNode(i)[2] \in 1 .. BucketSize
           /\ i - 1 = BucketSize * (StartNode(i)[1] - 1) + StartNode(i)[2] - 1
<1>1. /\ (i - 1) \div BucketSize \in Nat /\ (i - 1) % BucketSize \in 0 .. BucketSize - 1
      /\ i - 1 = BucketSize * ((i - 1) \div BucketSize) + ((i - 1) % BucketSize)
  <2>1. i - 1 \in Nat
      OBVIOUS
  <2> QED
      BY <2>1, Euclid
<1> DEFINE d == (i - 1) \div BucketSize
           m == (i - 1) % BucketSize
<1>2. StartNode(i)[1] = d + 1 /\ StartNode(i)[2] = m + 1
    BY DEF StartNode
<1>3. d \in Nat /\ m \in 0 .. BucketSize - 1 /\ i - 1 = BucketSize * d + m
    BY <1>1
<1> HIDE DEF d, m
<1>4. d + 1 \in Nat /\ d + 1 > 0 /\ m + 1 \in 1 .. BucketSize
    BY <1>3
<1>5. (d + 1) - 1 = d /\ (m + 1) - 1 = m
    BY <1>3
<1> QED
    BY <1>2, <1>3, <1>4, <1>5 DEF d, m

LEMMA StartApart ==
    ASSUME BucketSize \in Nat, BucketSize > 0,
           NEW i \in Nat, i > 0, NEW j \in Nat, j > 0
    PROVE  /\ StartNode(i) = StartNode(j) <=> i = j
           /\ i <= j => StartNode(i)[1] <= StartNode(j)[1]
<1>1. StartNode(i) = StartNode(j) => i = j
  <2> SUFFICES ASSUME StartNode(i) = StartNode(j) PROVE i = j
      OBVIOUS
  <2>1. PICK n : n = StartNode(i) /\ n = StartNode(j)
      OBVIOUS
  <2>2. i - 1 = BucketSize * (n[1] - 1) + n[2] - 1
      BY <2>1, StartNodes
  <2>3. j - 1 = BucketSize * (n[1] - 1) + n[2] - 1
      BY <2>1, StartNodes
  <2> QED
      BY <2>2, <2>3
<1>2. i <= j => StartNode(i)[1] <= StartNode(j)[1]
  <2> DEFINE d == StartNode(i)[1] - 1
             e == StartNode(j)[1] - 1
  <2>1. /\ d \in Nat /\ e \in Nat
        /\ StartNode(i)[1] = d + 1 /\ StartNode(j)[1] = e + 1
        /\ BucketSize * d <= i - 1 /\ i - 1 < BucketSize * d + BucketSize
        /\ BucketSize * e <= j - 1 /\ j - 1 < BucketSize * e + BucketSize
    <3>1. /\ d \in Nat /\ e \in Nat
          /\ StartNode(i)[1] = d + 1 /\ StartNode(j)[1] = e + 1
          /\ (i - 1) \div BucketSize = d /\ (j - 1) \div BucketSize = e
        BY StartNodes
    <3>2. i - 1 \in Nat /\ j - 1 \in Nat
        OBVIOUS
    <3> HIDE DEF d, e
    <3> QED
        BY <3>1, <3>2, Quotient
  <2> HIDE DEF d, e
  <2>2. CASE e < d
    <3>1. e + 1 \in Nat /\ e + 1 <= d
        BY <2>1, <2>2
    <3>2. BucketSize * (e + 1) <= BucketSize * d
        BY <2>1, <3>1, Multiples
    <3>3. BucketSize * (e + 1) = BucketSize * e + BucketSize
        BY <2>1
    <3>4. BucketSize * e \in Nat /\ BucketSize * d \in Nat
        BY <2>1
    <3> QED
        BY <2>1, <3>2, <3>3, <3>4
  <2> QED
      BY <2>1, <2>2
<1> QED
    BY <1>1, <1>2

-----------------------------------------------------------------------------
(* The start. *)

InitSizes == /\ BucketSize \in 1 .. MaxSize /\ BucketSize \in Nat
             /\ BucketSize > 0 /\ MaxSession <= MaxBuckets * BucketSize

LEMMA InitNumbers ==
    ASSUME Init
    PROVE  InitSizes
<1>1. /\ setup.bucketSize \in 1 .. MaxSize
      /\ MaxSession <= MaxBuckets * setup.bucketSize
      /\ BucketSize = setup.bucketSize
    BY StackAssumption DEF Init
<1> QED
    BY <1>1, Numbers DEF InitSizes

LEMMA StartObjects ==
    ASSUME InitSizes, NEW i \in Index
    PROVE  /\ i \in Nat /\ i > 0 /\ i <= MaxSession
           /\ StartNode(i) \in Object /\ StartNode(i)[1] <= StartBucket
<1>1. i \in Nat /\ i > 0 /\ i <= MaxSession /\ MaxSession > 0
    BY Numbers DEF Index
<1>2. /\ BucketSize \in 1 .. MaxSize /\ BucketSize \in Nat
      /\ BucketSize > 0 /\ MaxSession <= MaxBuckets * BucketSize
    BY DEF InitSizes
<1> DEFINE d == StartNode(i)[1] - 1
<1>3. /\ d \in Nat /\ StartNode(i)[1] = d + 1
      /\ BucketSize * d <= i - 1 /\ StartNode(i)[2] \in 1 .. BucketSize
  <2>1. /\ d \in Nat /\ StartNode(i)[1] = d + 1
        /\ StartNode(i)[2] \in 1 .. BucketSize
        /\ i - 1 = BucketSize * d + StartNode(i)[2] - 1
      BY <1>1, <1>2, StartNodes
  <2>2. BucketSize * d \in Nat
      BY <1>2, <2>1
  <2> HIDE DEF d
  <2> QED
      BY <1>1, <1>2, <2>1, <2>2
<1> HIDE DEF d
<1>4. d < MaxBuckets
  <2> SUFFICES ASSUME MaxBuckets <= d PROVE FALSE
      BY <1>3, Numbers
  <2>1. BucketSize * MaxBuckets <= BucketSize * d
      BY <1>2, <1>3, Numbers, Multiples
  <2>2. MaxBuckets * BucketSize = BucketSize * MaxBuckets
        /\ BucketSize * MaxBuckets \in Nat /\ BucketSize * d \in Nat
      BY <1>2, <1>3, Numbers
  <2> QED
      BY <1>1, <1>2, <1>3, <2>1, <2>2, Numbers
<1>5. StartNode(i)[1] \in Bucket
    BY <1>3, <1>4, Numbers DEF Bucket
<1>6. StartNode(i)[2] \in 1 .. MaxSize
    BY <1>2, <1>3, Numbers
<1>7. StartNode(i) = <<StartNode(i)[1], StartNode(i)[2]>>
    BY DEF StartNode
<1>8. StartNode(i) \in Object
    BY <1>5, <1>6, <1>7 DEF Object
<1>9. StartNode(i)[1] <= StartNode(MaxSession)[1]
    BY <1>1, <1>2, Numbers, StartApart
<1> QED
    BY <1>1, <1>8, <1>9 DEF StartBucket

LEMMA StartInjective ==
    ASSUME InitSizes, NEW i \in Nat, i > 0, NEW j \in Nat, j > 0,
           StartNode(i) = StartNode(j)
    PROVE  i = j
BY StartApart DEF InitSizes

\* The indexes a bucket begins with, and their number.
Starts(b) == {i \in Index : StartNode(i)[1] = b}

LEMMA StartCounts ==
    ASSUME InitSizes, NEW b \in Bucket
    PROVE  /\ IsFiniteSet(Starts(b)) /\ Cardinality(Starts(b)) \in 0 .. BucketSize
           /\ b < StartBucket => Cardinality(Starts(b)) = BucketSize
<1>1. /\ BucketSize \in Nat /\ BucketSize > 0 /\ b \in Nat /\ b > 0
      /\ MaxSession \in Nat
    BY Numbers DEF InitSizes, Bucket
<1> DEFINE k == b - 1
           m == BucketSize * k
           A == m + 1 .. m + BucketSize
<1>2. k \in Nat /\ m \in Nat /\ b = k + 1
    BY <1>1
<1>3. \A i \in Nat : i > 0 => (StartNode(i)[1] = b <=> i \in A)
  <2> SUFFICES ASSUME NEW i \in Nat, i > 0
               PROVE  StartNode(i)[1] = b <=> i \in A
      OBVIOUS
  <2>1. StartNode(i)[1] = ((i - 1) \div BucketSize) + 1
      BY <1>1, StartNodes
  <2>2. i - 1 \in Nat
      OBVIOUS
  <2>3. ((i - 1) \div BucketSize = k) <=> (m <= i - 1 /\ i - 1 < m + BucketSize)
      BY <1>1, <1>2, <2>2, Quotient
  <2>4. (i - 1) \div BucketSize \in Nat
      BY <1>1, <2>2, Euclid
  <2> DEFINE e == (i - 1) \div BucketSize
  <2> HIDE DEF e, k, m
  <2>5. StartNode(i)[1] = b <=> e = k
      BY <1>1, <1>2, <2>1, <2>4 DEF e
  <2>6. i \in A <=> (m <= i - 1 /\ i - 1 < m + BucketSize)
      BY <1>1, <1>2
  <2> QED
      BY <2>3, <2>5, <2>6 DEF e, m
<1> HIDE DEF k, m
<1>4. IsFiniteSet(A) /\ Cardinality(A) = BucketSize
  <2>1. PICK c \in Int : c = m + 1
      BY <1>2
  <2>2. PICK d \in Int : d = m + BucketSize
      BY <1>1, <1>2
  <2>3. IsFiniteSet(c .. d) /\ Cardinality(c .. d) = IF c > d THEN 0 ELSE d - c + 1
      BY FS_Interval
  <2>4. A = c .. d
      BY <2>1, <2>2
  <2>5. ~ (c > d) /\ d - c + 1 = BucketSize
      BY <1>1, <1>2, <2>1, <2>2
  <2> QED
      BY <2>3, <2>4, <2>5
<1>5. Starts(b) \subseteq A
    BY <1>3, Numbers DEF Starts, Index
<1> HIDE DEF A
<1>6. /\ IsFiniteSet(Starts(b)) /\ Cardinality(Starts(b)) \in Nat
      /\ Cardinality(Starts(b)) <= BucketSize
    BY <1>4, <1>5, FS_Subset, FS_CardinalityType
<1>7. b < StartBucket => Starts(b) = A
  <2> SUFFICES ASSUME b < StartBucket PROVE A \subseteq Starts(b)
      BY <1>5
  <2>1. MaxSession > 0 /\ b < StartNode(MaxSession)[1]
      BY <1>1 DEF StartBucket
  <2> SUFFICES ASSUME NEW i \in A PROVE i \in Starts(b)
      OBVIOUS
  <2>2. i \in Nat /\ i > 0
      BY <1>1, <1>2 DEF A
  <2>3. StartNode(i)[1] = b
      BY <1>3, <2>2
  <2>4. ~ (MaxSession <= i)
    <3> SUFFICES ASSUME MaxSession <= i PROVE FALSE
        OBVIOUS
    <3>1. StartNode(MaxSession)[1] <= StartNode(i)[1]
        BY <1>1, <2>1, <2>2, StartApart
    <3>2. StartNode(MaxSession)[1] \in Nat
        BY <1>1, <2>1, StartNodes
    <3> QED
        BY <1>1, <2>1, <2>3, <3>1, <3>2
  <2>5. i \in Index
      BY <1>1, <2>2, <2>4 DEF Index
  <2> QED
      BY <2>3, <2>5 DEF Starts
<1> QED
    BY <1>1, <1>4, <1>6, <1>7

\* What the start gives the variables a call changes.
LEMMA InitThreads ==
    ASSUME Init
    PROVE  /\ pc = [t \in Threads |-> "idle"]
           /\ poolPc = [t \in Threads |-> "out"]
           /\ tls = [t \in Threads |-> NULL]
           /\ object = [t \in Threads |-> NULL]
           /\ bucket = [t \in Threads |-> NULL]
           /\ held = {} /\ nodeCount = MaxSession
BY DEF Init

LEMMA InitNodes ==
    ASSUME Init, NEW j \in Index
    PROVE  /\ StartNode(j) \in Object
           /\ next[StartNode(j)] = IF j = 1 THEN NULL ELSE StartNode(j - 1)
           /\ data[StartNode(j)] = j
<1>1. InitSizes /\ j \in Nat /\ j > 0 /\ j <= MaxSession
      /\ MaxSession \in Nat /\ StartNode(j) \in Object
    BY InitNumbers, StartObjects, Numbers
<1>2. data[StartNode(j)] = j
  <2>1. data[StartNode(j)] = CHOOSE i \in Index : StartNode(j) = StartNode(i)
      BY <1>1 DEF Init
  <2>2. \A i \in Index : StartNode(j) = StartNode(i) => i = j
    <3> SUFFICES ASSUME NEW i \in Index, StartNode(j) = StartNode(i) PROVE i = j
        OBVIOUS
    <3>1. i \in Nat /\ i > 0
        BY <1>1, StartObjects
    <3> QED
        BY <1>1, <3>1, StartInjective
  <2> QED
      BY <2>1, <2>2
<1>3. CASE j = 1
  <2>1. ~ \E i \in Index \ {1} : StartNode(j) = StartNode(i)
    <3> SUFFICES ASSUME NEW i \in Index \ {1}, StartNode(j) = StartNode(i)
                 PROVE  FALSE
        OBVIOUS
    <3>1. i \in Nat /\ i > 0
        BY <1>1, StartObjects
    <3>2. i = j
        BY <1>1, <3>1, StartInjective
    <3> QED
        BY <1>3, <3>2
  <2>2. next[StartNode(j)] = NULL
      BY <1>1, <2>1 DEF Init
  <2> QED
      BY <1>1, <1>2, <1>3, <2>2
<1>4. CASE j # 1
  <2>1. \E i \in Index \ {1} : StartNode(j) = StartNode(i)
      BY <1>4
  <2>2. next[StartNode(j)] =
            StartNode(CHOOSE i \in Index : StartNode(j) = StartNode(i + 1))
      BY <1>1, <2>1 DEF Init
  <2>3. \A i \in Index : StartNode(j) = StartNode(i + 1) => i = j - 1
    <3> SUFFICES ASSUME NEW i \in Index, StartNode(j) = StartNode(i + 1)
                 PROVE  i = j - 1
        OBVIOUS
    <3>1. i \in Nat /\ i > 0
        BY <1>1, StartObjects
    <3>2. PICK k \in Nat : k = i + 1
        BY <3>1
    <3>3. k > 0 /\ StartNode(j) = StartNode(k)
        BY <3>1, <3>2
    <3>4. j = k
        BY <1>1, <3>3, StartInjective
    <3> QED
        BY <3>1, <3>2, <3>4
  <2>4. j - 1 \in Index /\ StartNode(j) = StartNode((j - 1) + 1)
    <3>1. (j - 1) + 1 = j
        BY <1>1
    <3> QED
        BY <1>1, <1>4, <3>1 DEF Index
  <2>5. (CHOOSE i \in Index : StartNode(j) = StartNode(i + 1)) = j - 1
      BY <2>3, <2>4
  <2> QED
      BY <1>1, <1>2, <1>4, <2>2, <2>5
<1> QED
    BY <1>3, <1>4

LEMMA InitNodeTypes ==
    ASSUME Init
    PROVE  /\ next \in [Object -> Object \cup {NULL}]
           /\ data \in [Object -> 0 .. MaxSession]
           /\ top \in NodeTops
<1>1. MaxSession \in Nat /\ InitSizes /\ StampMod \in Nat /\ StampMod > 0
    BY Numbers, InitNumbers
<1>2. DOMAIN next = Object /\ next = [n \in Object |-> next[n]]
    BY DEF Init
<1>3. \A n \in Object : next[n] \in Object \cup {NULL}
  <2> SUFFICES ASSUME NEW n \in Object PROVE next[n] \in Object \cup {NULL}
      OBVIOUS
  <2>1. CASE \E i \in Index \ {1} : n = StartNode(i)
    <3>1. PICK i \in Index \ {1} : n = StartNode(i)
        BY <2>1
    <3>2. next[n] = StartNode(i - 1)
        BY <3>1, InitNodes
    <3>3. i - 1 \in Index
        BY <1>1 DEF Index
    <3> QED
        BY <1>1, <3>2, <3>3, StartObjects
  <2>2. CASE ~ \E i \in Index \ {1} : n = StartNode(i)
      BY <2>2 DEF Init
  <2> QED
      BY <2>1, <2>2
<1>4. DOMAIN data = Object /\ data = [n \in Object |-> data[n]]
    BY DEF Init
<1>5. \A n \in Object : data[n] \in 0 .. MaxSession
  <2> SUFFICES ASSUME NEW n \in Object PROVE data[n] \in 0 .. MaxSession
      OBVIOUS
  <2>1. CASE \E i \in Index : n = StartNode(i)
    <3>1. PICK i \in Index : n = StartNode(i)
        BY <2>1
    <3>2. data[n] = i
        BY <3>1, InitNodes
    <3> QED
        BY <1>1, <3>2 DEF Index
  <2>2. CASE ~ \E i \in Index : n = StartNode(i)
    <3>1. data[n] = 0
        BY <2>2 DEF Init
    <3> QED
        BY <1>1, <3>1
  <2> QED
      BY <2>1, <2>2
<1>6. top \in NodeTops
  <2>1. MaxSession # 0 => MaxSession \in Index
      BY <1>1 DEF Index
  <2>2. MaxSession # 0 => StartNode(MaxSession) \in Object
      BY <1>1, <2>1, StartObjects
  <2>3. 0 \in 0 .. StampMod - 1
      BY <1>1
  <2> QED
      BY <2>2, <2>3 DEF Init, Pointer, NodeTops
<1> QED
    BY <1>2, <1>3, <1>4, <1>5, <1>6

LEMMA InitTypes ==
    ASSUME Init
    PROVE  TypeOK
<1>1. MaxSession \in Nat /\ InitSizes /\ StampMod \in Nat /\ StampMod > 0
    BY Numbers, InitNumbers
<1>2. 0 \in 0 .. StampMod - 1 /\ 0 \in 0 .. MaxSession
    BY <1>1
<1>3. Nowhere \in NodeTops /\ Unseen \in BlockTops
    BY <1>2 DEF Nowhere, Pointer, NodeTops, Unseen, Stamped, BlockTops
<1>4. StackTypes
  <2>1. nodeCount \in Int /\ nodeCount > -Cardinality(setup.poppers)
    <3>1. setup \in Setups /\ nodeCount = MaxSession
        BY DEF Init
    <3>2. setup.poppers \subseteq Threads /\ setup.poppers # {}
        BY <3>1, StackAssumption
    <3>3. IsFiniteSet(setup.poppers)
        BY <3>2, PoolAssumption, FS_Subset
    <3>4. Cardinality(setup.poppers) \in Nat /\ Cardinality(setup.poppers) # 0
        BY <3>2, <3>3, FS_CardinalityType, FS_EmptySet
    <3> QED
        BY <1>1, <3>1, <3>4
  <2>2. setup \in Setups /\ held \subseteq Index
      BY DEF Init
  <2>3. pc \in [Threads -> ControlPoint]
      BY DEF Init, ControlPoint
  <2>4. /\ tempTop \in [Threads -> NodeTops]
        /\ newTop \in [Threads -> Object \cup {NULL}]
        /\ index \in [Threads -> 0 .. MaxSession]
      BY <1>2, <1>3 DEF Init
  <2> QED
      BY <2>1, <2>2, <2>3, <2>4, InitNodeTypes DEF StackTypes
<1>5. PoolShared
    BY <1>1, <1>3 DEF Init, PoolShared, InitSizes
<1>6. PoolCounts
  <2>1. 0 \in 0 .. BucketSize /\ BucketSize \in 0 .. BucketSize
      BY <1>1 DEF InitSizes
  <2>2. useCount \in [Bucket -> 0 .. BucketSize]
      BY <2>1 DEF Init
  <2>3. allocCount = [b \in Bucket |-> Cardinality(Starts(b))]
      BY DEF Init, Starts
  <2>4. \A b \in Bucket : Cardinality(Starts(b)) \in 0 .. BucketSize
      BY <1>1, StartCounts
  <2>5. allocCount \in [Bucket -> 0 .. BucketSize]
      BY <2>3, <2>4
  <2> QED
      BY <2>2, <2>5 DEF PoolCounts
<1>7. PoolThreads
    BY <1>3 DEF Init, PoolThreads, PoolPoint
<1> QED
    BY <1>4, <1>5, <1>6, <1>7, TypeParts

\* The stack begins with all indexes, the last pushed on top.
StartList == [k \in 1 .. MaxSession |-> StartNode(MaxSession + 1 - k)]

LEMMA InitList ==
    ASSUME Init
    PROVE  /\ StartList \in Seq(Object) /\ Len(StartList) = MaxSession
           /\ Linked(StartList, Object, top.node, next)
           /\ \A k \in 1 .. MaxSession : data[StartList[k]] = MaxSession + 1 - k
           /\ \A n : On(StartList, n) <=> \E i \in Index : n = StartNode(i)
<1>1. MaxSession \in Nat /\ InitSizes
    BY Numbers, InitNumbers
<1>2. \A k \in 1 .. MaxSession :
          MaxSession + 1 - k \in Index /\ StartNode(MaxSession + 1 - k) \in Object
  <2> SUFFICES ASSUME NEW k \in 1 .. MaxSession
               PROVE  /\ MaxSession + 1 - k \in Index
                      /\ StartNode(MaxSession + 1 - k) \in Object
      OBVIOUS
  <2>1. MaxSession + 1 - k \in Index
      BY <1>1 DEF Index
  <2> QED
      BY <1>1, <2>1, StartObjects
<1>3. StartList \in Seq(Object) /\ Len(StartList) = MaxSession
    BY <1>1, <1>2 DEF StartList
<1>4. \A k \in 1 .. MaxSession : StartList[k] = StartNode(MaxSession + 1 - k)
    BY DEF StartList
<1>5. \A k \in 1 .. MaxSession : data[StartList[k]] = MaxSession + 1 - k
    BY <1>2, <1>4, InitNodes
<1>6. top.node = IF MaxSession = 0 THEN NULL ELSE StartList[1]
  <2>1. top.node = IF MaxSession = 0 THEN NULL ELSE StartNode(MaxSession)
      BY DEF Init, Pointer
  <2>2. MaxSession # 0 => 1 \in 1 .. MaxSession /\ MaxSession + 1 - 1 = MaxSession
      BY <1>1
  <2> QED
      BY <1>4, <2>1, <2>2
<1>7. \A k \in 1 .. MaxSession :
          next[StartList[k]] = IF k = MaxSession THEN NULL ELSE StartList[k + 1]
  <2> SUFFICES ASSUME NEW k \in 1 .. MaxSession
               PROVE  next[StartList[k]] = IF k = MaxSession THEN NULL
                                           ELSE StartList[k + 1]
      OBVIOUS
  <2>1. PICK j \in Index : j = MaxSession + 1 - k
      BY <1>2
  <2>2. next[StartList[k]] = IF j = 1 THEN NULL ELSE StartNode(j - 1)
      BY <1>4, <2>1, InitNodes
  <2>3. j = 1 <=> k = MaxSession
      BY <1>1, <2>1
  <2>4. k # MaxSession => /\ k + 1 \in 1 .. MaxSession
                          /\ MaxSession + 1 - (k + 1) = j - 1
      BY <1>1, <2>1
  <2> QED
      BY <1>4, <2>2, <2>3, <2>4
<1>8. \A k, l \in 1 .. MaxSession : StartList[k] = StartList[l] => k = l
  <2> SUFFICES ASSUME NEW k \in 1 .. MaxSession, NEW l \in 1 .. MaxSession,
                      StartList[k] = StartList[l]
               PROVE  k = l
      OBVIOUS
  <2>1. MaxSession + 1 - k = MaxSession + 1 - l
      BY <1>5
  <2> QED
      BY <1>1, <2>1
<1>9. Linked(StartList, Object, top.node, next)
    BY <1>3, <1>6, <1>7, <1>8 DEF Linked
<1>10. \A n : On(StartList, n) <=> \E i \in Index : n = StartNode(i)
  <2> SUFFICES ASSUME NEW n
               PROVE  On(StartList, n) <=> \E i \in Index : n = StartNode(i)
      OBVIOUS
  <2>1. ASSUME On(StartList, n) PROVE \E i \in Index : n = StartNode(i)
    <3>1. PICK k \in 1 .. MaxSession : StartList[k] = n
        BY <1>3, <2>1 DEF On
    <3> QED
        BY <1>2, <1>4, <3>1
  <2>2. ASSUME NEW i \in Index, n = StartNode(i) PROVE On(StartList, n)
    <3>1. PICK k \in 1 .. MaxSession : k = MaxSession + 1 - i
        BY <1>1 DEF Index
    <3>2. MaxSession + 1 - k = i
        BY <1>1, <3>1 DEF Index
    <3> QED
        BY <1>3, <1>4, <2>2, <3>1, <3>2 DEF On
  <2> QED
      BY <2>1, <2>2
<1> QED
    BY <1>3, <1>5, <1>9, <1>10

LEMMA BijectionIs ==
    ASSUME NEW S, NEW T, NEW f \in [S -> T],
           \A x, y \in S : f[x] = f[y] => x = y,
           \A y \in T : \E x \in S : f[x] = y
    PROVE  f \in Bijection(S, T)
BY DEF Bijection, Injection, Surjection, IsInjective

LEMMA InitBucket ==
    ASSUME Init, NEW b \in Bucket
    PROVE  BucketOK(StartList, << >>, b)
<1>1. /\ InitSizes /\ MaxSession \in Nat
      /\ BucketSize \in Nat /\ BucketSize > 0 /\ b \in Nat
    BY Numbers, InitNumbers DEF InitSizes, Bucket
<1>2. /\ fresh = {c \in Bucket : c > StartBucket}
      /\ allocCount[b] = Cardinality(Starts(b))
      /\ useCount[b] = IF b \in fresh THEN 0 ELSE BucketSize
    BY DEF Init, Starts
<1>3. StartBucket \in Nat
  <2>1. CASE MaxSession = 0
      BY <2>1 DEF StartBucket
  <2>2. CASE MaxSession # 0
      BY <1>1, <2>2, StartNodes DEF StartBucket
  <2> QED
      BY <2>1, <2>2
<1>4. \A n \in Object : Used(StartList, n) <=> \E i \in Index : n = StartNode(i)
  <2>1. \A t \in Threads : object[t] = NULL
      BY InitThreads
  <2>2. \A n \in Object : \A t \in Threads : object[t] # n
      BY <2>1, NullApart
  <2> QED
      BY <2>2, InitList DEF Used
<1>5. Away(<< >>, b) <=> b \in fresh
  <2>1. ~ On(<< >>, b)
      BY DEF On
  <2>2. \A t \in Threads : poolPc[t] = "out"
      BY InitThreads
  <2> QED
      BY <2>1, <2>2 DEF Away, Moves, Returning
<1>6. \A t \in Threads : tls[t] # b
    BY InitThreads, NullApart
<1>7. b \in fresh => UsedOf(StartList, b) = {}
  <2> SUFFICES ASSUME b \in fresh, NEW n \in UsedOf(StartList, b) PROVE FALSE
      OBVIOUS
  <2>1. n \in Object /\ n[1] = b /\ Used(StartList, n)
      BY DEF UsedOf
  <2>2. PICK i \in Index : n = StartNode(i)
      BY <1>4, <2>1
  <2>3. b <= StartBucket
      BY <1>1, <2>1, <2>2, StartObjects
  <2> QED
      BY <1>1, <1>2, <1>3, <2>3
<1>8. Cardinality(UsedOf(StartList, b)) = Cardinality(Starts(b))
  <2> DEFINE f == [i \in Starts(b) |-> StartNode(i)]
  <2>1. \A i \in Starts(b) : /\ i \in Index /\ StartNode(i)[1] = b
                             /\ i \in Nat /\ i > 0 /\ StartNode(i) \in Object
      BY <1>1, StartObjects DEF Starts
  <2>2. \A i \in Starts(b) : StartNode(i) \in UsedOf(StartList, b)
      BY <1>4, <2>1 DEF UsedOf
  <2>3. \A i, j \in Starts(b) : StartNode(i) = StartNode(j) => i = j
    <3> SUFFICES ASSUME NEW i \in Starts(b), NEW j \in Starts(b),
                        StartNode(i) = StartNode(j)
                 PROVE  i = j
        OBVIOUS
    <3> QED
        BY <1>1, <2>1, StartInjective
  <2>4. \A n \in UsedOf(StartList, b) : \E i \in Starts(b) : StartNode(i) = n
      BY <1>4 DEF UsedOf, Starts
  <2>5. f \in Bijection(Starts(b), UsedOf(StartList, b))
    <3>1. f \in [Starts(b) -> UsedOf(StartList, b)]
        BY <2>2
    <3>2. \A i, j \in Starts(b) : f[i] = f[j] => i = j
        BY <2>3
    <3>3. \A n \in UsedOf(StartList, b) : \E i \in Starts(b) : f[i] = n
        BY <2>4
    <3> HIDE DEF f
    <3> QED
        BY <3>1, <3>2, <3>3, BijectionIs
  <2>6. ExistsBijection(Starts(b), UsedOf(StartList, b))
      BY <2>5 DEF ExistsBijection
  <2>7. IsFiniteSet(Starts(b))
      BY <1>1, StartCounts
  <2> QED
      BY <2>6, <2>7, FS_Bijection
<1>9. b \notin fresh => Lent(StartList, b)
  <2> SUFFICES ASSUME b \notin fresh PROVE Lent(StartList, b)
      OBVIOUS
  <2>1. Cardinality(Starts(b)) \in 0 .. BucketSize
      BY <1>1, StartCounts
  <2>2. b # StartBucket => allocCount[b] = BucketSize
    <3>1. b # StartBucket => b < StartBucket
        BY <1>1, <1>2, <1>3
    <3> QED
        BY <1>1, <1>2, <3>1, StartCounts
  <2>3. useCount[b] = BucketSize /\ useCount[b] > 0
      BY <1>1, <1>2
  <2>4. BucketSize = BucketSize - allocCount[b]
                     + Cardinality(UsedOf(StartList, b))
      BY <1>1, <1>2, <1>8, <2>1
  <2>5. b # StartBucket => ~ (allocCount[b] < BucketSize)
      BY <1>1, <2>2
  <2> QED
      BY <2>3, <2>4, <2>5 DEF Lent
<1> QED
    BY <1>5, <1>6, <1>7, <1>9 DEF BucketOK, Owned

LEMMA InitCounts ==
    ASSUME Init
    PROVE  Stamps /\ Counts(StartList)
<1>1. \A t \in Threads : pc[t] = "idle" /\ poolPc[t] = "out"
    BY InitThreads
<1>2. /\ PcIn(Taking) = {} /\ PcIn(Took) = {} /\ PcIn(Owing) = {}
      /\ PcIn(Reserved) = {} /\ PoolPcIn(Allocating) = {} /\ held = {}
    BY <1>1, InitThreads DEF PcIn, PoolPcIn, Taking, Reserved, Popping, Took,
       Owing, Allocating
<1>3. Cardinality({}) = 0
    BY FS_EmptySet
<1>4. top.stamp = 0 /\ freeNodePtr.stamp = 0
    BY DEF Init, Pointer, Unseen, Stamped
<1>5. TypeOK /\ StackTypes
    BY InitTypes, TypeParts
<1>6. setup.maxPops \in Nat /\ Cardinality(setup.poppers) \in Nat
    BY <1>5, SetupFacts
<1>7. Stamps
    BY <1>2, <1>3, <1>4, <1>6 DEF Stamps
<1>8. nodeCount = MaxSession /\ Len(StartList) = MaxSession /\ MaxSession \in Nat
    BY InitThreads, InitList, Numbers
<1>9. nodeCount > -Cardinality(setup.poppers)
    BY <1>5 DEF StackTypes
<1> QED
    BY <1>2, <1>3, <1>6, <1>7, <1>8, <1>9 DEF Counts

LEMMA InitInv == Init => Inv
<1> SUFFICES ASSUME Init PROVE Inv
    OBVIOUS
<1>1. /\ \A t \in Threads : /\ pc[t] = "idle" /\ poolPc[t] = "out"
                            /\ object[t] = NULL /\ tls[t] = NULL
      /\ held = {}
    BY InitThreads
<1>2. MaxSession \in Nat
    BY Numbers
<1>3. TypeOK
    BY InitTypes
<1>4. Locals
  <2>1. \A t \in Threads : PoolLocal(t)
      BY <1>1 DEF PoolLocal, Filling, Allocating, Returning
  <2>2. \A t \in Threads : StackLocal(t)
      BY <1>1 DEF StackLocal, Taking, Reserved, Popping
  <2> QED
      BY <2>1, <2>2 DEF Locals
<1>5. Lists(StartList, << >>)
  <2>1. freeNodePtr.block = NULL
      BY DEF Init, Unseen, Stamped
  <2>2. << >> \in Seq(Bucket) /\ Len(<< >>) = 0
      OBVIOUS
  <2>3. Linked(<< >>, Bucket, freeNodePtr.block, blockNext)
      BY <2>1, <2>2 DEF Linked
  <2> QED
      BY <2>3, InitList DEF Lists
<1>6. Stale(StartList, << >>)
    BY <1>1 DEF Stale, StaleTop, StaleBlock
<1>7. PcIn(Calling) = {}
    BY <1>1 DEF PcIn, Calling, Pushing
<1>8. IndexApart(StartList)
  <2>1. \A k \in 1 .. Len(StartList) : data[StartList[k]] \in Index
    <3>1. \A k \in 1 .. MaxSession : MaxSession + 1 - k \in Index
        BY <1>2 DEF Index
    <3> QED
        BY <3>1, InitList
  <2>2. \A k, l \in 1 .. Len(StartList) :
            data[StartList[k]] = data[StartList[l]] => k = l
    <3>1. \A k, l \in 1 .. MaxSession :
              MaxSession + 1 - k = MaxSession + 1 - l => k = l
        BY <1>2
    <3> QED
        BY <3>1, InitList
  <2> QED
      BY <1>1, <1>7, <2>1, <2>2 DEF IndexApart
<1>9. IndexSomewhere(StartList)
  <2>1. \A i \in Index : \E k \in 1 .. MaxSession : MaxSession + 1 - k = i
    <3>1. \A i \in Index : /\ MaxSession + 1 - i \in 1 .. MaxSession
                           /\ MaxSession + 1 - (MaxSession + 1 - i) = i
        BY <1>2 DEF Index
    <3> QED
        BY <3>1
  <2>2. \A i \in Index : \E k \in 1 .. Len(StartList) : data[StartList[k]] = i
      BY <2>1, InitList
  <2> QED
      BY <2>2 DEF IndexSomewhere
<1>10. NodesApart(StartList)
    BY <1>1 DEF NodesApart
<1>11. BucketsApart(<< >>)
  <2>1. \A b : ~ On(<< >>, b)
      BY DEF On
  <2>2. \A t \in Threads : \A b : ~ Moves(t, b)
      BY <1>1 DEF Moves, Returning
  <2> QED
      BY <2>1, <2>2 DEF BucketsApart
<1>12. BucketsOK(StartList, << >>)
    BY InitBucket DEF BucketsOK
<1>13. StackInv(StartList, << >>)
    BY <1>3, <1>4, <1>5, <1>6, <1>8, <1>9, <1>10, <1>11, <1>12, InitCounts
    DEF StackInv
<1>14. PICK q \in Seq(Object) : q = StartList
    BY InitList
<1>15. << >> \in Seq(Bucket)
    OBVIOUS
<1> QED
    BY <1>13, <1>14, <1>15 DEF Inv

\* The list holds all indexes in some order: the invariant holds always.
THEOREM StackInvariant == Spec => []Inv
<1>1. Inv /\ [Next]_vars => Inv'
    BY NextInv
<1> QED
    BY <1>1, InitInv, PTL DEF Spec

-----------------------------------------------------------------------------
(* What NodeChain and BlockChain walk is the list. *)

LEMMA NatSetInduction ==
    ASSUME NEW S, 0 \in S, \A n \in Nat : n \in S => n + 1 \in S
    PROVE  Nat \subseteq S
<1> DEFINE R == StrictSubsetOrdering(Nat)
           F == {1 .. n : n \in Nat \ S}
<1>1. IsWellFoundedOn(R, FiniteSubsetsOf(Nat))
    BY FS_StrictSubsetOrderingWellFounded
<1>2. F \subseteq FiniteSubsetsOf(Nat)
  <2>1. ASSUME NEW n \in Nat PROVE 1 .. n \in FiniteSubsetsOf(Nat)
    <3>1. IsFiniteSet(1 .. n)
        BY FS_Interval
    <3> QED
        BY <3>1 DEF FiniteSubsetsOf
  <2> QED
      BY <2>1
<1>3. ASSUME NEW n \in Nat \ S, \A y \in F : <<y, 1 .. n>> \notin R
      PROVE  FALSE
  <2>1. n # 0 /\ n - 1 \in Nat \ S
      OBVIOUS
  <2>2. 1 .. (n - 1) \in F
      BY <2>1
  <2>3. <<1 .. (n - 1), 1 .. n>> \in R
    <3>1. n \in 1 .. n /\ n \notin 1 .. (n - 1)
        BY <2>1
    <3>2. 1 .. (n - 1) \subseteq 1 .. n /\ 1 .. n \subseteq Nat
        BY <2>1
    <3> QED
      BY <3>1, <3>2 DEF StrictSubsetOrdering
  <2> QED
      BY <1>3, <2>2, <2>3
<1> HIDE DEF R
<1>4. F # {} => \E x \in F : \A y \in F : <<y, x>> \notin R
    BY <1>1, <1>2, WFMin
<1> QED
    BY <1>3, <1>4

LEMMA ChainIs ==
    ASSUME NEW N \in Nat, NEW S, NULL \notin S, NEW q, NEW first, NEW link,
           Linked(q, S, first, link), Len(q) <= N, NEW c,
           c = CHOOSE at : at = [k \in 0 .. N |->
                   IF k = 0 THEN first
                   ELSE IF at[k - 1] = NULL THEN NULL ELSE link[at[k - 1]]]
    PROVE  \A k \in 0 .. N : c[k] = IF k < Len(q) THEN q[k + 1] ELSE NULL
<1>1. q \in Seq(S) /\ Len(q) \in Nat
    BY DEF Linked
<1>2. \A k \in 1 .. Len(q) : q[k] \in S /\ q[k] # NULL
    BY <1>1
<1> DEFINE f == [k \in 0 .. N |-> IF k < Len(q) THEN q[k + 1] ELSE NULL]
<1>3. \A k \in 0 .. N : f[k] =
          IF k = 0 THEN first
          ELSE IF f[k - 1] = NULL THEN NULL ELSE link[f[k - 1]]
  <2> SUFFICES ASSUME NEW k \in 0 .. N
               PROVE  f[k] = IF k = 0 THEN first
                             ELSE IF f[k - 1] = NULL THEN NULL
                                                     ELSE link[f[k - 1]]
      OBVIOUS
  <2>1. f[k] = IF k < Len(q) THEN q[k + 1] ELSE NULL
      OBVIOUS
  <2>2. CASE k = 0
      BY <1>1, <2>1, <2>2 DEF Linked
  <2>3. CASE k # 0
    <3>1. k - 1 \in 0 .. N /\ (k - 1) + 1 = k
        BY <2>3
    <3>2. f[k - 1] = IF k - 1 < Len(q) THEN q[k] ELSE NULL
        BY <3>1
    <3> HIDE DEF f
    <3>3. CASE k - 1 < Len(q)
      <4>1. k \in 1 .. Len(q)
          BY <1>1, <2>3, <3>3
      <4>2. link[q[k]] = IF k = Len(q) THEN NULL ELSE q[k + 1]
          BY <4>1 DEF Linked
      <4>3. k < Len(q) <=> k # Len(q)
          BY <1>1, <4>1
      <4> QED
          BY <1>2, <2>1, <2>3, <3>2, <3>3, <4>1, <4>2, <4>3
    <3>4. CASE ~ (k - 1 < Len(q))
      <4>1. ~ (k < Len(q))
          BY <1>1, <3>4
      <4> QED
          BY <2>1, <2>3, <3>2, <3>4, <4>1
    <3> QED
        BY <3>3, <3>4
  <2> QED
      BY <2>2, <2>3
<1>4. \E at : at = [k \in 0 .. N |->
          IF k = 0 THEN first
          ELSE IF at[k - 1] = NULL THEN NULL ELSE link[at[k - 1]]]
  <2>1. f = [k \in 0 .. N |-> f[k]]
      OBVIOUS
  <2> HIDE DEF f
  <2>2. f = [k \in 0 .. N |->
          IF k = 0 THEN first
          ELSE IF f[k - 1] = NULL THEN NULL ELSE link[f[k - 1]]]
      BY <1>3, <2>1
  <2> QED
      BY <2>2
<1>5. c = [k \in 0 .. N |->
          IF k = 0 THEN first
          ELSE IF c[k - 1] = NULL THEN NULL ELSE link[c[k - 1]]]
    BY <1>4
<1>6. \A k \in 0 .. N : c[k] =
          IF k = 0 THEN first
          ELSE IF c[k - 1] = NULL THEN NULL ELSE link[c[k - 1]]
    BY <1>5
<1>7. \A k \in 0 .. N : f[k] = IF k < Len(q) THEN q[k + 1] ELSE NULL
    OBVIOUS
<1> HIDE DEF f
<1> DEFINE Same == {k \in Nat : k <= N => c[k] = f[k]}
<1>8. 0 \in Same
    BY <1>3, <1>6
<1>9. ASSUME NEW n \in Nat, n \in Same PROVE n + 1 \in Same
  <2> SUFFICES ASSUME n + 1 <= N PROVE c[n + 1] = f[n + 1]
      OBVIOUS
  <2>1. n \in 0 .. N /\ n + 1 \in 0 .. N /\ n + 1 # 0 /\ (n + 1) - 1 = n
      OBVIOUS
  <2>2. c[n] = f[n]
      BY <1>9, <2>1
  <2> QED
      BY <1>3, <1>6, <2>1, <2>2
<1> HIDE DEF Same
<1>10. Nat \subseteq Same
    BY <1>8, <1>9, NatSetInduction
<1>11. \A k \in 0 .. N : c[k] = f[k]
    BY <1>10 DEF Same
<1> QED
    BY <1>7, <1>11

\* An injective sequence is not longer than the interval it is over.
LEMMA NotLonger ==
    ASSUME NEW N \in Nat, NEW L \in Nat, NEW f \in [1 .. L -> 1 .. N],
           \A i, j \in 1 .. L : f[i] = f[j] => i = j
    PROVE  L <= N
<1>1. f \in Injection(1 .. L, 1 .. N)
    BY DEF Injection, IsInjective
<1>2. /\ IsFiniteSet(1 .. N) /\ Cardinality(1 .. N) = N
      /\ Cardinality(1 .. L) = L
  <2>1. /\ IsFiniteSet(1 .. N)
        /\ Cardinality(1 .. N) = IF 1 > N THEN 0 ELSE N - 1 + 1
        /\ Cardinality(1 .. L) = IF 1 > L THEN 0 ELSE L - 1 + 1
      BY FS_Interval
  <2> QED
      BY <2>1
<1>3. Cardinality(1 .. L) <= Cardinality(1 .. N)
    BY <1>1, <1>2, FS_Injection
<1> QED
    BY <1>2, <1>3

LEMMA ListsFit ==
    ASSUME NEW q, NEW r, StackInv(q, r)
    PROVE  /\ q \in Seq(Object) /\ Len(q) \in Nat /\ Len(q) <= MaxSession
           /\ r \in Seq(Bucket) /\ Len(r) \in Nat /\ Len(r) <= MaxBuckets
<1>1. /\ Linked(q, Object, top.node, next) /\ IndexApart(q)
      /\ Linked(r, Bucket, freeNodePtr.block, blockNext)
    BY DEF StackInv, Lists
<1>2. /\ q \in Seq(Object) /\ Len(q) \in Nat
      /\ r \in Seq(Bucket) /\ Len(r) \in Nat
    BY <1>1 DEF Linked
<1>3. MaxSession \in Nat /\ MaxBuckets \in Nat
    BY Numbers
<1>4. Len(q) <= MaxSession
  <2> DEFINE f == [k \in 1 .. Len(q) |-> data[q[k]]]
  <2>1. f \in [1 .. Len(q) -> 1 .. MaxSession]
      BY <1>1 DEF IndexApart, Index
  <2>2. \A k, l \in 1 .. Len(q) : f[k] = f[l] => k = l
      BY <1>1 DEF IndexApart
  <2> HIDE DEF f
  <2> QED
      BY <1>2, <1>3, <2>1, <2>2, NotLonger
<1>5. Len(r) <= MaxBuckets
  <2>1. PICK L \in Nat : L = Len(r)
      BY <1>2
  <2>2. r \in [1 .. L -> Bucket]
      BY <1>2, <2>1
  <2>3. r \in [1 .. L -> 1 .. MaxBuckets]
      BY <2>2 DEF Bucket
  <2>4. \A k, l \in 1 .. L : r[k] = r[l] => k = l
      BY <1>1, <2>1 DEF Linked
  <2>5. L <= MaxBuckets
      BY <1>3, <2>3, <2>4, NotLonger
  <2> QED
      BY <2>1, <2>5
<1> QED
    BY <1>2, <1>4, <1>5

LEMMA NodeChainIs ==
    ASSUME NEW q, NEW r, StackInv(q, r)
    PROVE  /\ \A k \in 0 .. MaxSession :
                  NodeChain[k] = IF k < Len(q) THEN q[k + 1] ELSE NULL
           /\ NodeChain[MaxSession] = NULL
           /\ \A n : n \in OnStack <=> On(q, n)
<1>1. /\ Len(q) \in Nat /\ Len(q) <= MaxSession /\ MaxSession \in Nat
      /\ q \in Seq(Object) /\ NULL \notin Object
    BY ListsFit, Numbers, NullApart
<1>2. Linked(q, Object, top.node, next)
    BY DEF StackInv, Lists
<1>3. NodeChain = CHOOSE at : at = [k \in 0 .. MaxSession |->
          IF k = 0 THEN top.node
          ELSE IF at[k - 1] = NULL THEN NULL ELSE next[at[k - 1]]]
    BY DEF NodeChain
<1>4. \A k \in 0 .. MaxSession :
          NodeChain[k] = IF k < Len(q) THEN q[k + 1] ELSE NULL
    BY <1>1, <1>2, <1>3, ChainIs
<1>5. \A n : n \in OnStack <=> On(q, n)
  <2>1. ASSUME NEW n, n \in OnStack PROVE On(q, n)
    <3>1. PICK k \in 0 .. MaxSession : NodeChain[k] = n /\ n # NULL
        BY <2>1 DEF OnStack
    <3>2. k < Len(q) /\ q[k + 1] = n
        BY <1>4, <3>1
    <3>3. k + 1 \in 1 .. Len(q)
        BY <1>1, <3>2
    <3> QED
        BY <3>2, <3>3 DEF On
  <2>2. ASSUME NEW n, On(q, n) PROVE n \in OnStack
    <3>1. PICK i \in 1 .. Len(q) : q[i] = n
        BY <2>2 DEF On
    <3>2. i - 1 \in 0 .. MaxSession /\ i - 1 < Len(q) /\ (i - 1) + 1 = i
        BY <1>1
    <3>3. n # NULL
        BY <1>1, <3>1
    <3>4. NodeChain[i - 1] = n
        BY <1>4, <3>1, <3>2
    <3> QED
        BY <3>2, <3>3, <3>4 DEF OnStack
  <2> QED
      BY <2>1, <2>2
<1>6. MaxSession \in 0 .. MaxSession /\ ~ (MaxSession < Len(q))
    BY <1>1
<1> QED
    BY <1>4, <1>5, <1>6

LEMMA BlockChainIs ==
    ASSUME NEW q, NEW r, StackInv(q, r)
    PROVE  /\ BlockChain[MaxBuckets] = NULL
           /\ \A b : b \in FreeBuckets <=> On(r, b)
<1>1. /\ Len(r) \in Nat /\ Len(r) <= MaxBuckets /\ MaxBuckets \in Nat
      /\ r \in Seq(Bucket) /\ NULL \notin Bucket
    BY ListsFit, Numbers, NullApart
<1>2. Linked(r, Bucket, freeNodePtr.block, blockNext)
    BY DEF StackInv, Lists
<1>3. BlockChain = CHOOSE at : at = [k \in 0 .. MaxBuckets |->
          IF k = 0 THEN freeNodePtr.block
          ELSE IF at[k - 1] = NULL THEN NULL ELSE blockNext[at[k - 1]]]
    BY DEF BlockChain
<1>4. \A k \in 0 .. MaxBuckets :
          BlockChain[k] = IF k < Len(r) THEN r[k + 1] ELSE NULL
    BY <1>1, <1>2, <1>3, ChainIs
<1>5. \A b : b \in FreeBuckets <=> On(r, b)
  <2>1. ASSUME NEW b, b \in FreeBuckets PROVE On(r, b)
    <3>1. PICK k \in 0 .. MaxBuckets : BlockChain[k] = b /\ b # NULL
        BY <2>1 DEF FreeBuckets
    <3>2. k < Len(r) /\ r[k + 1] = b
        BY <1>4, <3>1
    <3>3. k + 1 \in 1 .. Len(r)
        BY <1>1, <3>2
    <3> QED
        BY <3>2, <3>3 DEF On
  <2>2. ASSUME NEW b, On(r, b) PROVE b \in FreeBuckets
    <3>1. PICK i \in 1 .. Len(r) : r[i] = b
        BY <2>2 DEF On
    <3>2. i - 1 \in 0 .. MaxBuckets /\ i - 1 < Len(r) /\ (i - 1) + 1 = i
        BY <1>1
    <3>3. b # NULL
        BY <1>1, <3>1
    <3>4. BlockChain[i - 1] = b
        BY <1>4, <3>1, <3>2
    <3> QED
        BY <3>2, <3>3, <3>4 DEF FreeBuckets
  <2> QED
      BY <2>1, <2>2
<1>6. MaxBuckets \in 0 .. MaxBuckets /\ ~ (MaxBuckets < Len(r))
    BY <1>1
<1> QED
    BY <1>4, <1>5, <1>6

-----------------------------------------------------------------------------
(* What the invariant says of the properties. *)

LEMMA CardinalityOne ==
    ASSUME NEW S, NEW x, \A y : y \in S <=> y = x
    PROVE  Cardinality(S) = 1
<1>1. S = {x}
    OBVIOUS
<1> QED
    BY <1>1, FS_Singleton

LEMMA CardinalityNone ==
    ASSUME NEW S, \A y : y \notin S
    PROVE  Cardinality(S) = 0
<1>1. S = {}
    OBVIOUS
<1> QED
    BY <1>1, FS_EmptySet

LEMMA IndexIsOnce ==
    ASSUME NEW q, NEW r, StackInv(q, r)
    PROVE  IndexOnce
<1> SUFFICES ASSUME NEW i \in Index
             PROVE  Cardinality({n \in OnStack : data[n] = i})
                    + (IF i \in held THEN 1 ELSE 0)
                    + Cardinality({t \in At({"p.data", "p.top", "p.next",
                                   "p.cas", "q.free"}) : index[t] = i})
                    + Cardinality({t \in At({"q.data"}) : data[node[t]] = i}) = 1
    BY DEF IndexOnce
<1> DEFINE A == {n \in OnStack : data[n] = i}
           C == {t \in At({"p.data", "p.top", "p.next", "p.cas", "q.free"}) :
                     index[t] = i}
           D == {t \in At({"q.data"}) : data[node[t]] = i}
           H == IF i \in held THEN 1 ELSE 0
<1>1. IndexApart(q) /\ IndexSomewhere(q)
    BY DEF StackInv
<1>2. \A n : n \in A <=> \E k \in 1 .. Len(q) : n = q[k] /\ data[q[k]] = i
    BY NodeChainIs DEF On
<1>3. \A t : t \in C <=> t \in PcIn(Calling) /\ pc[t] # "q.data" /\ Carries(t) = i
    BY DEF At, PcIn, Calling, Pushing, Carries
<1>4. \A t : t \in D <=> t \in PcIn(Calling) /\ pc[t] = "q.data" /\ Carries(t) = i
    BY DEF At, PcIn, Calling, Pushing, Carries, node
<1> HIDE DEF A, C, D
<1>5. CASE i \in held
  <2>1. \A n : n \notin A
      BY <1>1, <1>2, <1>5 DEF IndexApart
  <2>2. \A t : t \notin C /\ t \notin D
      BY <1>1, <1>3, <1>4, <1>5 DEF IndexApart
  <2>3. Cardinality(A) = 0 /\ Cardinality(C) = 0 /\ Cardinality(D) = 0 /\ H = 1
      BY <1>5, <2>1, <2>2, CardinalityNone
  <2> QED
      BY <2>3 DEF A, C, D
<1>6. CASE \E k \in 1 .. Len(q) : data[q[k]] = i
  <2>1. PICK k \in 1 .. Len(q) : data[q[k]] = i
      BY <1>6
  <2>2. \A n : n \in A <=> n = q[k]
      BY <1>1, <1>2, <2>1 DEF IndexApart
  <2>3. \A t : t \notin C /\ t \notin D
      BY <1>1, <1>3, <1>4, <2>1 DEF IndexApart
  <2>4. i \notin held
      BY <1>1, <2>1 DEF IndexApart
  <2>5. Cardinality(A) = 1
    <3>1. PICK n : n = q[k]
        OBVIOUS
    <3>2. \A m : m \in A <=> m = n
        BY <2>2, <3>1
    <3>3. A = {n}
        BY <3>2
    <3> QED
        BY <3>3, FS_Singleton
  <2>6. Cardinality(C) = 0 /\ Cardinality(D) = 0 /\ H = 0
      BY <2>3, <2>4, CardinalityNone
  <2> QED
      BY <2>5, <2>6 DEF A, C, D
<1>7. CASE \E t \in PcIn(Calling) : Carries(t) = i
  <2>1. PICK t \in PcIn(Calling) : Carries(t) = i
      BY <1>7
  <2>2. \A n : n \notin A
      BY <1>1, <1>2, <2>1 DEF IndexApart
  <2>3. i \notin held
      BY <1>1, <2>1 DEF IndexApart
  <2>4. \A u : u \in PcIn(Calling) /\ Carries(u) = i <=> u = t
      BY <1>1, <2>1 DEF IndexApart
  <2>5. Cardinality(A) = 0 /\ H = 0
      BY <2>2, <2>3, CardinalityNone
  <2>6. CASE pc[t] = "q.data"
    <3>1. (\A u : u \notin C) /\ (\A u : u \in D <=> u = t)
        BY <1>3, <1>4, <2>4, <2>6
    <3>2. Cardinality(C) = 0
        BY <3>1, CardinalityNone
    <3>3. Cardinality(D) = 1
        BY <3>1, CardinalityOne
    <3> QED
        BY <2>5, <3>2, <3>3 DEF A, C, D
  <2>7. CASE pc[t] # "q.data"
    <3>1. (\A u : u \notin D) /\ (\A u : u \in C <=> u = t)
        BY <1>3, <1>4, <2>4, <2>7
    <3>2. Cardinality(D) = 0
        BY <3>1, CardinalityNone
    <3>3. Cardinality(C) = 1
        BY <3>1, CardinalityOne
    <3> QED
        BY <2>5, <3>2, <3>3 DEF A, C, D
  <2> QED
      BY <2>6, <2>7
<1> QED
    BY <1>1, <1>5, <1>6, <1>7 DEF IndexSomewhere

LEMMA ObjectsAreApart ==
    ASSUME NEW q, NEW r, StackInv(q, r)
    PROVE  ObjectsApart
<1>1. NodesApart(q)
    BY DEF StackInv
<1>2. \A t \in Carried : t \in Threads /\ object[t] # NULL
    BY DEF Carried, node
<1>3. \A t \in Carried : /\ object[t] \notin OnStack
                         /\ \A u \in Carried \ {t} : object[u] # object[t]
    BY <1>1, <1>2, NodeChainIs DEF NodesApart
<1> QED
    BY <1>3, NodeChainIs DEF ObjectsApart, node

LEMMA BucketsAreAccounted ==
    ASSUME NEW q, NEW r, StackInv(q, r)
    PROVE  BucketsAccounted
<1>1. /\ BucketsApart(r) /\ BucketsOK(q, r) /\ TypeOK
      /\ BlockChain[MaxBuckets] = NULL
    BY BlockChainIs DEF StackInv
<1> DEFINE moving(b) == InPoolAt({"a.fill", "f.top", "f.link", "f.cas"}, b)
           owners(b) == {t \in Threads : tls[t] = b}
           ofBucket(b) == {n \in InUse : n[1] = b}
           Apart(b) ==
             /\ Cardinality(moving(b)) + (IF b \in fresh THEN 1 ELSE 0)
                + (IF b \in FreeBuckets THEN 1 ELSE 0) = 1
             /\ owners(b) = {} /\ ofBucket(b) = {}
           Counted(b) ==
             /\ useCount[b] = BucketSize - allocCount[b]
                              + Cardinality(ofBucket(b))
             /\ useCount[b] > 0
             /\ b # StartBucket =>
                    Cardinality(owners(b)) = (IF allocCount[b] < BucketSize
                                              THEN 1 ELSE 0)
<1>2. SUFFICES ASSUME NEW b \in Bucket
               PROVE  IF b \in fresh \cup FreeBuckets \/ moving(b) # {}
                      THEN Apart(b) ELSE Counted(b)
    BY <1>1 DEF BucketsAccounted
<1>3. \A t : t \in moving(b) <=> t \in Threads /\ Moves(t, b)
    BY DEF InPoolAt, Moves, Returning
<1>4. b \in FreeBuckets <=> On(r, b)
    BY BlockChainIs
<1>5. ofBucket(b) = UsedOf(q, b)
  <2>1. \A n : n \in InUse <=> On(q, n) \/ \E t \in Carried : object[t] = n
      BY NodeChainIs DEF InUse, node
  <2>2. \A n : On(q, n) => n \in Object
      BY ListsFit DEF On
  <2>3. \A t \in Threads : object[t] \in Object \cup {NULL}
      BY <1>1, ThreadTypes
  <2>4. \A n : n \in InUse <=> n \in Object /\ Used(q, n)
      BY <2>1, <2>2, <2>3, NullApart DEF Used, Carried, node
  <2> QED
      BY <2>4 DEF UsedOf
<1>6. b \in fresh \cup FreeBuckets \/ moving(b) # {} <=> Away(r, b)
    BY <1>3, <1>4 DEF Away
<1>7. BucketOK(q, r, b)
    BY <1>1 DEF BucketsOK
<1> HIDE DEF moving, ofBucket
<1>8. ASSUME Away(r, b) PROVE Apart(b)
  <2>1. owners(b) = {} /\ ofBucket(b) = {}
      BY <1>5, <1>7, <1>8 DEF BucketOK
  <2>2. CASE \E t \in Threads : Moves(t, b)
    <3>1. PICK t \in Threads : Moves(t, b)
        BY <2>2
    <3>2. \A u : u \in moving(b) <=> u = t
        BY <1>1, <1>3, <3>1 DEF BucketsApart
    <3>3. b \notin fresh /\ b \notin FreeBuckets
        BY <1>1, <1>4, <3>1 DEF BucketsApart
    <3>4. Cardinality(moving(b)) = 1
        BY <3>2, CardinalityOne
    <3> QED
        BY <2>1, <3>3, <3>4
  <2>3. CASE ~ \E t \in Threads : Moves(t, b)
    <3>1. Cardinality(moving(b)) = 0
        BY <1>3, <2>3, CardinalityNone
    <3>2. b \in fresh <=> b \notin FreeBuckets
        BY <1>1, <1>4, <1>8, <2>3 DEF Away, BucketsApart
    <3> QED
        BY <2>1, <3>1, <3>2
  <2> QED
      BY <2>2, <2>3
<1>9. ASSUME ~ Away(r, b) PROVE Counted(b)
  <2>1. Lent(q, b) /\ Owned(q, b)
      BY <1>7, <1>9 DEF BucketOK
  <2>2. /\ useCount[b] = BucketSize - allocCount[b] + Cardinality(ofBucket(b))
        /\ useCount[b] > 0
      BY <1>5, <2>1 DEF Lent
  <2>3. ASSUME b # StartBucket
        PROVE  Cardinality(owners(b)) = IF allocCount[b] < BucketSize THEN 1
                                                                     ELSE 0
    <3>1. CASE allocCount[b] < BucketSize
      <4>1. PICK t \in Threads : tls[t] = b
          BY <2>1, <2>3, <3>1 DEF Lent
      <4>2. \A u : u \in owners(b) <=> u = t
          BY <2>1, <4>1 DEF Owned
      <4>3. Cardinality(owners(b)) = 1
        <5> HIDE DEF owners
        <5> QED
            BY <4>2, CardinalityOne
      <4> QED
          BY <3>1, <4>3
    <3>2. CASE ~ (allocCount[b] < BucketSize)
      <4>1. \A u : u \notin owners(b)
          BY <2>1, <3>2 DEF Owned
      <4> QED
          BY <3>2, <4>1, CardinalityNone
    <3> QED
        BY <3>1, <3>2
  <2> QED
      BY <2>2, <2>3
<1> QED
    BY <1>6, <1>8, <1>9

\* The types of the stack, the pool and the threads in them.
THEOREM StackTyped == Spec => []TypeOK
<1>1. Inv => TypeOK
    BY DEF Inv, StackInv
<1> QED
    BY <1>1, StackInvariant, PTL

\* No interleaving of pushes and pops gives an index to two connections or
\* loses one: it is on the stack, held, or in one call's hands.
THEOREM StackIndexOnce == Spec => []IndexOnce
<1>1. Inv => IndexOnce
    BY IndexIsOnce DEF Inv
<1> QED
    BY <1>1, StackInvariant, PTL

\* A node of the stack has one user, and the list never closes to a circle.
THEOREM StackObjectsApart == Spec => []ObjectsApart
<1>1. Inv => ObjectsApart
    BY ObjectsAreApart DEF Inv
<1> QED
    BY <1>1, StackInvariant, PTL

\* A bucket goes back to the shared list when its last object is freed, and
\* never before: useCount is exact, and one thread at most allocates from it.
THEOREM StackBucketsAccounted == Spec => []BucketsAccounted
<1>1. Inv => BucketsAccounted
    BY BucketsAreAccounted DEF Inv
<1> QED
    BY <1>1, StackInvariant, PTL

-----------------------------------------------------------------------------
(* The list is an atomic stack: what a step of the code is there. *)

LEMMA SeqIs ==
    ASSUME NEW V, NEW L \in Nat, NEW f \in [1 .. L -> V]
    PROVE  f \in Seq(V)
OBVIOUS

LEMMA SeqPush ==
    ASSUME NEW V, NEW L \in Nat, NEW f \in [1 .. L -> V], NEW v \in V,
           NEW g \in [1 .. L + 1 -> V], g[1] = v,
           \A k \in 1 .. L : g[k + 1] = f[k]
    PROVE  f \in Seq(V) /\ g = <<v>> \o f
<1>1. f \in Seq(V) /\ Len(f) = L /\ g \in Seq(V) /\ Len(g) = L + 1
    OBVIOUS
<1> DEFINE h == <<v>> \o f
<1>2. /\ h \in Seq(V) /\ Len(h) = L + 1 /\ h[1] = v
      /\ \A k \in 1 .. L : h[k + 1] = f[k]
    BY <1>1
<1> HIDE DEF h
<1>3. \A k \in 1 .. L + 1 : g[k] = h[k]
  <2> SUFFICES ASSUME NEW k \in 1 .. L + 1 PROVE g[k] = h[k]
      OBVIOUS
  <2>1. CASE k = 1
      BY <1>2, <2>1
  <2>2. CASE k # 1
    <3>1. PICK j \in 1 .. L : k = j + 1
      <4>1. k - 1 \in 1 .. L /\ k = (k - 1) + 1
          BY <2>2
      <4> QED
          BY <4>1
    <3> QED
        BY <1>2, <3>1
  <2> QED
      BY <2>1, <2>2
<1>4. g = h
    BY <1>1, <1>2, <1>3
<1> QED
    BY <1>1, <1>4 DEF h

LEMMA SeqPop ==
    ASSUME NEW V, NEW L \in Nat, NEW f \in [1 .. L + 1 -> V],
           NEW g \in [1 .. L -> V], \A k \in 1 .. L : g[k] = f[k + 1]
    PROVE  f # << >> /\ g = Tail(f) /\ Head(f) = f[1]
<1>1. f \in Seq(V) /\ Len(f) = L + 1 /\ g \in Seq(V) /\ Len(g) = L
    OBVIOUS
<1>2. f # << >> /\ Head(f) = f[1]
    BY <1>1
<1> DEFINE h == Tail(f)
<1>3. h \in Seq(V) /\ Len(h) = L /\ \A k \in 1 .. L : h[k] = f[k + 1]
    BY <1>1, <1>2
<1> HIDE DEF h
<1>4. g = h
    BY <1>1, <1>3
<1> QED
    BY <1>2, <1>4 DEF h

StackOf(q) == [k \in 1 .. Len(q) |-> data[q[k]]]

LEMMA StackIs == \A q, r : StackInv(q, r) => Stack = StackOf(q)
<1> SUFFICES ASSUME NEW q, NEW r, StackInv(q, r) PROVE Stack = StackOf(q)
    OBVIOUS
<1>1. /\ Len(q) \in Nat /\ Len(q) <= MaxSession /\ MaxSession \in Nat
      /\ q \in Seq(Object) /\ NULL \notin Object
    BY ListsFit, Numbers, NullApart
<1>2. \A k \in 0 .. MaxSession :
          NodeChain[k] = IF k < Len(q) THEN q[k + 1] ELSE NULL
    BY NodeChainIs
<1> DEFINE D == {k \in 0 .. MaxSession : NodeChain[k] # NULL}
<1>3. D = 0 .. Len(q) - 1
  <2>1. \A k \in 0 .. MaxSession : k < Len(q) => q[k + 1] # NULL
      BY <1>1
  <2>2. \A k \in 0 .. MaxSession : NodeChain[k] # NULL <=> k < Len(q)
      BY <1>2, <2>1
  <2>3. \A k \in 0 .. MaxSession : k < Len(q) <=> k \in 0 .. Len(q) - 1
      BY <1>1
  <2>4. 0 .. Len(q) - 1 \subseteq 0 .. MaxSession
      BY <1>1
  <2> QED
      BY <2>2, <2>3, <2>4
<1>4. Cardinality(D) = Len(q)
  <2>1. PICK m \in Int : m = Len(q) - 1
      BY <1>1
  <2>2. Cardinality(0 .. m) = IF 0 > m THEN 0 ELSE m - 0 + 1
      BY FS_Interval
  <2> HIDE DEF D
  <2>3. Cardinality(D) = Cardinality(0 .. m)
      BY <1>3, <2>1
  <2> QED
      BY <1>1, <2>1, <2>2, <2>3
<1>5. Stack = [k \in 1 .. Cardinality(D) |-> data[NodeChain[k - 1]]]
    BY DEF Stack
<1> HIDE DEF D
<1>6. \A k \in 1 .. Len(q) : NodeChain[k - 1] = q[k]
  <2> SUFFICES ASSUME NEW k \in 1 .. Len(q) PROVE NodeChain[k - 1] = q[k]
      OBVIOUS
  <2>1. k - 1 \in 0 .. MaxSession /\ k - 1 < Len(q) /\ (k - 1) + 1 = k
      BY <1>1
  <2> QED
      BY <1>2, <2>1
<1> QED
    BY <1>4, <1>5, <1>6 DEF StackOf

LEMMA StackIsNext ==
    ASSUME NEW p, NEW s, StackInv(p, s)'
    PROVE  Stack' = [k \in 1 .. Len(p) |-> data'[p[k]]]
<1>1. (\A q, r : StackInv(q, r) => Stack = StackOf(q))'
    BY StackIs, PTL
<1>2. Stack' = StackOf(p)'
    BY <1>1
<1> QED
    BY <1>2 DEF StackOf

LEMMA StackRange ==
    ASSUME NEW q, NEW r, StackInv(q, r)
    PROVE  /\ Stack \in [1 .. Len(q) -> 0 .. MaxSession]
           /\ q \in Seq(Object) /\ Len(q) \in Nat
           /\ data \in [Object -> 0 .. MaxSession]
<1>1. /\ q \in Seq(Object) /\ Len(q) \in Nat
      /\ data \in [Object -> 0 .. MaxSession]
    BY ListsFit, TypeParts DEF StackInv, StackTypes
<1>2. Stack = [k \in 1 .. Len(q) |-> data[q[k]]]
    BY StackIs DEF StackOf
<1>3. \A k \in 1 .. Len(q) : q[k] \in Object
    BY <1>1
<1> QED
    BY <1>1, <1>2, <1>3

\* A push that wins puts its index on the stack, a pop that wins takes it.
LEMMA StackChanges ==
    ASSUME NEW q, NEW r, StackInv(q, r), NEW t \in Threads, Act(t),
           NEW p, NodeStep(t, q, p), NEW s, StackInv(p, s)'
    PROVE  /\ PushCas(t) => Stack' = <<index[t]>> \o Stack
           /\ PopCas(t) => /\ Stack # << >> /\ Stack' = Tail(Stack)
                           /\ data'[object'[t]] = Head(Stack)
           /\ ~ PushCas(t) /\ ~ PopCas(t) => Stack' = Stack
<1>1. /\ Stack = [k \in 1 .. Len(q) |-> data[q[k]]]
      /\ Stack' = [k \in 1 .. Len(p) |-> data'[p[k]]]
    BY StackIs, StackIsNext DEF StackOf
<1>2. /\ Stack \in [1 .. Len(q) -> 0 .. MaxSession]
      /\ q \in Seq(Object) /\ Len(q) \in Nat
      /\ data \in [Object -> 0 .. MaxSession]
    BY StackRange
<1>3. \A k \in 1 .. Len(q) : data'[q[k]] = data[q[k]]
    BY DataKept
<1>4. CASE PushCas(t)
  <2>1. /\ object[t] \in Object /\ data[object[t]] = index[t]
        /\ Added(q, Object, object[t], p) /\ ~ PopCas(t)
      BY <1>4, PushFacts, WhichNodeStep
  <2>2. data' = data
      BY <1>4 DEF PushCas, nodes
  <2>3. /\ p \in Seq(Object) /\ Len(p) = Len(q) + 1 /\ p[1] = object[t]
        /\ \A k \in 1 .. Len(q) : p[k + 1] = q[k]
      BY <2>1 DEF Added
  <2>4. Stack' \in [1 .. Len(q) + 1 -> 0 .. MaxSession]
    <3>1. \A k \in 1 .. Len(p) : p[k] \in Object
        BY <2>3
    <3> QED
        BY <1>1, <1>2, <2>2, <2>3, <3>1
  <2>5. Stack'[1] = index[t] /\ index[t] \in 0 .. MaxSession
    <3>1. 1 \in 1 .. Len(p)
        BY <1>2, <2>3
    <3> QED
        BY <1>1, <1>2, <2>1, <2>2, <2>3, <3>1
  <2>6. \A k \in 1 .. Len(q) : Stack'[k + 1] = Stack[k]
    <3>1. \A k \in 1 .. Len(q) : k + 1 \in 1 .. Len(p)
        BY <1>2, <2>3
    <3> QED
        BY <1>1, <2>2, <2>3, <3>1
  <2>7. Stack' = <<index[t]>> \o Stack
    <3>1. PICK L \in Nat : L = Len(q)
        BY <1>2
    <3>2. PICK f \in [1 .. L -> 0 .. MaxSession] : f = Stack
        BY <1>2, <3>1
    <3>3. PICK g \in [1 .. L + 1 -> 0 .. MaxSession] : g = Stack'
        BY <2>4, <3>1
    <3>4. PICK v \in 0 .. MaxSession : v = index[t]
        BY <2>5
    <3>5. g[1] = v /\ \A k \in 1 .. L : g[k + 1] = f[k]
        BY <2>5, <2>6, <3>1, <3>2, <3>3, <3>4
    <3>6. g = <<v>> \o f
        BY <3>5, SeqPush
    <3> QED
        BY <3>2, <3>3, <3>4, <3>6
  <2> QED
      BY <1>4, <2>1, <2>7
<1>5. CASE PopCas(t)
  <2>1. /\ p \in Seq(Object) /\ Len(q) = Len(p) + 1 /\ Len(p) \in Nat
        /\ \A k \in 1 .. Len(p) : p[k] = q[k + 1]
        /\ ~ PushCas(t)
    <3>1. ~ PushCas(t)
        BY <1>5, WhichNodeStep
    <3>2. /\ p \in Seq(Object) /\ Len(q) = Len(p) + 1
          /\ \A k \in 1 .. Len(p) : p[k] = q[k + 1]
        BY <1>5, WhichNodeStep
    <3>3. Len(p) \in Nat
        BY <3>2
    <3> QED
        BY <3>1, <3>2, <3>3
  <2>2. data' = data /\ object'[t] = top.node /\ top.node = q[1]
    <3>1. data' = data
        BY <1>5 DEF PopCas, nodes
    <3>2. object'[t] = top.node
        BY <1>5, PopFacts
    <3>3. top.node = q[1]
        BY <1>5, <2>1, PopList
    <3> QED
        BY <3>1, <3>2, <3>3
  <2>3. Stack' \in [1 .. Len(p) -> 0 .. MaxSession]
    <3>1. \A k \in 1 .. Len(p) : p[k] \in Object
        BY <2>1
    <3> QED
        BY <1>1, <1>2, <2>2, <3>1
  <2>4. \A k \in 1 .. Len(p) : Stack'[k] = Stack[k + 1]
    <3>1. \A k \in 1 .. Len(p) : k + 1 \in 1 .. Len(q)
        BY <2>1
    <3> QED
        BY <1>1, <2>1, <2>2, <3>1
  <2>5. data'[object'[t]] = Stack[1]
    <3>1. 1 \in 1 .. Len(q)
        BY <2>1
    <3> QED
        BY <1>1, <2>2, <3>1
  <2>6. Stack # << >> /\ Stack' = Tail(Stack) /\ Head(Stack) = Stack[1]
    <3>1. PICK L \in Nat : L = Len(p)
        BY <2>1
    <3>2. PICK f \in [1 .. L + 1 -> 0 .. MaxSession] : f = Stack
        BY <1>2, <2>1, <3>1
    <3>3. PICK g \in [1 .. L -> 0 .. MaxSession] : g = Stack'
        BY <2>3, <3>1
    <3>4. \A k \in 1 .. L : g[k] = f[k + 1]
        BY <2>4, <3>1, <3>2, <3>3
    <3>5. f # << >> /\ g = Tail(f) /\ Head(f) = f[1]
        BY <3>4, SeqPop
    <3> QED
        BY <3>2, <3>3, <3>5
  <2> QED
      BY <1>5, <2>1, <2>5, <2>6
<1>6. CASE ~ PushCas(t) /\ ~ PopCas(t)
  <2>1. p = q
      BY <1>6, WhichNodeStep
  <2>2. [k \in 1 .. Len(p) |-> data'[p[k]]] = [k \in 1 .. Len(q) |-> data[q[k]]]
      BY <1>3, <2>1
  <2>3. Stack' = Stack
      BY <1>1, <2>2
  <2> QED
      BY <1>6, <2>3
<1> QED
    BY <1>4, <1>5, <1>6

\* What the threads do and carry, for the abstract stack.
Calls == [t \in Threads |-> Doing[pc[t]]]
Carrying == [t \in Threads |-> IF pc[t] = "q.data" THEN data[node[t]]
                                                   ELSE index[t]]

LEMMA DoingIs ==
    /\ Doing["p.data"] = "push" /\ Doing["p.top"] = "push"
    /\ Doing["p.next"] = "push" /\ Doing["p.cas"] = "push"
    /\ Doing["p.count"] = "pushed"
    /\ Doing["q.top"] = "pop" /\ Doing["q.next"] = "pop"
    /\ Doing["q.cas"] = "pop"
    /\ Doing["q.data"] = "popped" /\ Doing["q.free"] = "popped"
    /\ Doing["q.undo"] = "failing" /\ Doing["q.false"] = "false"
    /\ Doing["idle"] = "idle" /\ Doing["q.reserve"] = "idle"
BY DEF Doing, ControlPoint

\* One thread moves.
LEMMA CallMoves ==
    ASSUME NEW q, NEW r, StackInv(q, r), NEW t \in Threads, Act(t)
    PROVE  /\ Calls[t] = Doing[pc[t]]
           /\ Calls' = [Calls EXCEPT ![t] = Doing[pc'[t]]]
<1>1. \A u \in Threads \ {t} : pc'[u] = pc[u]
    BY ActSteps DEF Elsewhere
<1>2. Calls' = [u \in Threads |-> Doing[pc'[u]]]
    BY DEF Calls
<1>3. Calls = [u \in Threads |-> Doing[pc[u]]]
    BY DEF Calls
<1> QED
    BY <1>1, <1>2, <1>3

LEMMA ItemMoves ==
    ASSUME NEW q, NEW r, StackInv(q, r), NEW t \in Threads, Act(t)
    PROVE  /\ Carrying[t] = IF pc[t] = "q.data" THEN data[object[t]]
                                                ELSE index[t]
           /\ Carrying'[t] = IF pc'[t] = "q.data" THEN data'[object'[t]]
                                                  ELSE index'[t]
           /\ Carrying' = [Carrying EXCEPT ![t] = Carrying'[t]]
<1>1. \A u \in Threads \ {t} : /\ pc'[u] = pc[u] /\ index'[u] = index[u]
                               /\ object'[u] = object[u]
    BY ActSteps DEF Elsewhere
<1>2. Carrying' = [u \in Threads |-> IF pc'[u] = "q.data" THEN data'[object'[u]]
                                                          ELSE index'[u]]
    BY DEF Carrying, node
<1>3. Carrying = [u \in Threads |-> IF pc[u] = "q.data" THEN data[object[u]]
                                                        ELSE index[u]]
    BY DEF Carrying, node
<1>4. \A u \in Threads : pc[u] = "q.data" => data'[object[u]] = data[object[u]]
    BY DataKept
<1>5. \A u \in Threads \ {t} : Carrying'[u] = Carrying[u]
    BY <1>1, <1>2, <1>3, <1>4
<1>6. DOMAIN Carrying = Threads /\ DOMAIN Carrying' = Threads
      /\ Carrying' = [u \in Threads |-> Carrying'[u]]
      /\ Carrying = [u \in Threads |-> Carrying[u]]
    BY <1>2, <1>3
<1>7. Carrying' = [Carrying EXCEPT ![t] = Carrying'[t]]
    BY <1>5, <1>6
<1> QED
    BY <1>2, <1>3, <1>7

LEMMA ItemKept ==
    ASSUME NEW q, NEW r, StackInv(q, r), NEW t \in Threads, Act(t),
           ~ Push(t), ~ PopCas(t)
    PROVE  Carrying' = Carrying
<1>1. /\ Carrying[t] = IF pc[t] = "q.data" THEN data[object[t]] ELSE index[t]
      /\ Carrying'[t] = IF pc'[t] = "q.data" THEN data'[object'[t]]
                                             ELSE index'[t]
      /\ Carrying' = [Carrying EXCEPT ![t] = Carrying'[t]]
    BY ItemMoves
<1>2. TypeOK /\ StackTypes /\ Reads(t) /\ Changes(t) /\ PoolLocal(t)
      /\ StackLocal(t)
    BY ActReads, ActSteps, Local, TypeParts
<1>3. CASE PopData(t)
  <2>1. /\ pc[t] = "q.data" /\ pc'[t] = "q.free"
        /\ index' = [index EXCEPT ![t] = data[object[t]]]
      BY <1>2, <1>3 DEF PopData, Goto, StackTypes, node
  <2>2. index'[t] = data[object[t]]
      BY <1>2, <2>1 DEF StackTypes
  <2>3. Carrying'[t] = Carrying[t]
      BY <1>1, <2>1, <2>2
  <2> QED
      BY <1>1, <2>3 DEF Carrying
<1>4. CASE ~ PopData(t)
  <2>1. index'[t] = index[t] /\ (pc'[t] = "q.data" <=> pc[t] = "q.data")
      BY <1>2, <1>4 DEF Reads
  <2>2. CASE pc[t] = "q.data"
    <3>1. data'[object[t]] = data[object[t]] /\ object[t] # NULL
        BY <2>2, DataKept
    <3>2. object'[t] = object[t]
      <4>1. poolPc[t] \notin Filling \cup {"f.count"}
          BY <1>2, <2>2 DEF PoolLocal
      <4>2. ~ PushCas(t)
          BY <2>2 DEF PushCas, Goto
      <4>3. ~ TakeObject(t) /\ ~ FreeCount(t)
          BY <4>1 DEF TakeObject, FreeCount, Step, Filling
      <4> QED
          BY <1>2, <4>2, <4>3 DEF Changes
    <3>3. Carrying'[t] = Carrying[t]
        BY <1>1, <2>1, <2>2, <3>1, <3>2
    <3> QED
        BY <1>1, <3>3 DEF Carrying
  <2>3. CASE pc[t] # "q.data"
    <3>1. Carrying'[t] = Carrying[t]
        BY <1>1, <2>1, <2>3
    <3> QED
        BY <1>1, <3>1 DEF Carrying
  <2> QED
      BY <2>2, <2>3
<1> QED
    BY <1>3, <1>4

\* From a point to another.
LEMMA CallIs ==
    ASSUME NEW q, NEW r, StackInv(q, r), NEW t \in Threads, Act(t),
           NEW a, NEW b, Goto(t, a, b)
    PROVE  /\ pc[t] = a /\ pc'[t] = b /\ Calls[t] = Doing[a]
           /\ Calls' = [Calls EXCEPT ![t] = Doing[b]]
<1>1. pc \in [Threads -> ControlPoint]
    BY TypeParts DEF StackInv, StackTypes
<1>2. pc[t] = a /\ pc'[t] = b
    BY <1>1 DEF Goto
<1> QED
    BY <1>2, CallMoves

LEMMA BecomeIs ==
    ASSUME NEW t \in Threads, NEW a, NEW b, Calls[t] = a,
           Calls' = [Calls EXCEPT ![t] = b]
    PROVE  Atomic!Become(t, a, b)
BY DEF Atomic!Become, Calls

LEMMA AtomicVars ==
    (Calls' = Calls /\ Carrying' = Carrying /\ Stack' = Stack)
        => UNCHANGED Atomic!vars
BY DEF Atomic!vars, Calls, Carrying

\* A step that leaves the stack and does not change what the call is doing.
LEMMA Stutters ==
    ASSUME NEW q, NEW r, StackInv(q, r), NEW t \in Threads, Act(t),
           NEW p, NodeStep(t, q, p), NEW s, StackInv(p, s)',
           ~ Push(t), ~ PushCas(t), ~ PopCas(t), Doing[pc'[t]] = Doing[pc[t]]
    PROVE  UNCHANGED Atomic!vars
<1>1. Stack' = Stack
    BY StackChanges
<1>2. Carrying' = Carrying
    BY ItemKept
<1>3. Calls' = Calls
  <2>1. Calls' = [Calls EXCEPT ![t] = Calls[t]]
      BY CallMoves
  <2> QED
      BY <2>1 DEF Calls
<1> QED
    BY <1>1, <1>2, <1>3, AtomicVars

\* A step that only ends or begins a call.
LEMMA CallBecomes ==
    ASSUME NEW q, NEW r, StackInv(q, r), NEW t \in Threads, Act(t),
           NEW p, NodeStep(t, q, p), NEW s, StackInv(p, s)',
           ~ Push(t), ~ PushCas(t), ~ PopCas(t),
           NEW a, NEW b, Goto(t, a, b)
    PROVE  /\ Atomic!Become(t, Doing[a], Doing[b])
           /\ Stack' = Stack /\ Carrying' = Carrying
<1>1. Stack' = Stack
    BY StackChanges
<1>2. Carrying' = Carrying
    BY ItemKept
<1>3. Calls[t] = Doing[a] /\ Calls' = [Calls EXCEPT ![t] = Doing[b]]
    BY CallIs
<1> QED
    BY <1>1, <1>2, <1>3, BecomeIs

LEMMA ReturnIs ==
    ASSUME NEW t \in Threads, NEW a \in {"pushed", "popped", "failing", "false"},
           Atomic!Become(t, a, "idle"), Stack' = Stack, Carrying' = Carrying
    PROVE  Atomic!Return(t)
BY DEF Atomic!Return, Carrying

LEMMA PushImplements ==
    ASSUME NEW q, NEW r, StackInv(q, r), NEW t \in Threads, Push(t),
           NEW p, NodeStep(t, q, p), NEW s, StackInv(p, s)'
    PROVE  Atomic!CallPush(t)
<1>1. Act(t) /\ Goto(t, "idle", "p.data")
    BY DEF Act, Push
<1>2. /\ pc[t] = "idle" /\ pc'[t] = "p.data" /\ Calls[t] = "idle"
      /\ Calls' = [Calls EXCEPT ![t] = "push"]
    BY <1>1, CallIs, DoingIs
<1>3. Atomic!Become(t, "idle", "push")
    BY <1>2, BecomeIs
<1>4. Stack' = Stack
  <2>1. ~ PushCas(t) /\ ~ PopCas(t)
      BY <1>2 DEF PushCas, PopCas, Goto
  <2> QED
      BY <1>1, <2>1, StackChanges
<1>5. /\ Carrying' = [Carrying EXCEPT ![t] = Carrying'[t]]
      /\ Carrying'[t] = index'[t]
    BY <1>1, <1>2, ItemMoves
<1>6. index'[t] \in 0 .. MaxSession
  <2>1. StackTypes
      BY TypeParts DEF StackInv
  <2>2. PICK i \in held : index' = [index EXCEPT ![t] = i]
      BY DEF Push
  <2>3. i \in 0 .. MaxSession
      BY <2>1, Numbers DEF StackTypes, Index
  <2> QED
      BY <2>1, <2>2, <2>3 DEF StackTypes
<1>7. Carrying'[t] \in 0 .. MaxSession
    BY <1>5, <1>6
<1> QED
    BY <1>3, <1>4, <1>5, <1>7 DEF Atomic!CallPush, Carrying

LEMMA PushCasImplements ==
    ASSUME NEW q, NEW r, StackInv(q, r), NEW t \in Threads, PushCas(t),
           NEW p, NodeStep(t, q, p), NEW s, StackInv(p, s)'
    PROVE  Atomic!Push(t)
<1>1. Act(t) /\ Goto(t, "p.cas", "p.count")
    BY DEF Act, PushStep, PushCas
<1>2. /\ pc[t] = "p.cas" /\ Calls[t] = "push"
      /\ Calls' = [Calls EXCEPT ![t] = "pushed"]
    BY <1>1, CallIs, DoingIs
<1>3. Atomic!Become(t, "push", "pushed")
    BY <1>2, BecomeIs
<1>4. Stack' = <<index[t]>> \o Stack
    BY <1>1, StackChanges
<1>5. Carrying[t] = index[t]
    BY <1>1, <1>2, ItemMoves
<1>6. Carrying' = Carrying
  <2>1. ~ Push(t) /\ ~ PopCas(t)
      BY <1>2 DEF Push, PopCas, Goto
  <2> QED
      BY <1>1, <2>1, ItemKept
<1>7. Stack' = <<Carrying[t]>> \o Stack
    BY <1>4, <1>5
<1> QED
    BY <1>3, <1>6, <1>7 DEF Atomic!Push, Carrying

LEMMA PopCasImplements ==
    ASSUME NEW q, NEW r, StackInv(q, r), NEW t \in Threads, PopCas(t),
           NEW p, NodeStep(t, q, p), NEW s, StackInv(p, s)'
    PROVE  Atomic!Pop(t)
<1>1. Act(t) /\ Goto(t, "q.cas", "q.data")
    BY DEF Act, PopStep, PopCas
<1>2. /\ pc[t] = "q.cas" /\ pc'[t] = "q.data" /\ Calls[t] = "pop"
      /\ Calls' = [Calls EXCEPT ![t] = "popped"]
    BY <1>1, CallIs, DoingIs
<1>3. Atomic!Become(t, "pop", "popped")
    BY <1>2, BecomeIs
<1>4. /\ Stack # << >> /\ Stack' = Tail(Stack)
      /\ data'[object'[t]] = Head(Stack)
    BY <1>1, StackChanges
<1>5. /\ Carrying' = [Carrying EXCEPT ![t] = Carrying'[t]]
      /\ Carrying'[t] = data'[object'[t]]
    BY <1>1, <1>2, ItemMoves
<1>6. Carrying' = [Carrying EXCEPT ![t] = Head(Stack)]
    BY <1>4, <1>5
<1> QED
    BY <1>3, <1>4, <1>6 DEF Atomic!Pop, Carrying

\* A pop answers FALSE only when calls that run account for the list.
LEMMA PopImplements ==
    ASSUME NEW q, NEW r, StackInv(q, r), NEW t \in Threads, Pop(t),
           NEW p, NodeStep(t, q, p), NEW s, StackInv(p, s)'
    PROVE  Atomic!PopFalse(t) \/ UNCHANGED Atomic!vars
<1>1. Act(t) /\ Goto(t, "idle", IF nodeCount <= 0 THEN "q.false"
                                                  ELSE "q.reserve")
    BY DEF Act, Pop
<1>2. pc[t] = "idle"
    BY <1>1 DEF Goto
<1>3. ~ Push(t) /\ ~ PushCas(t) /\ ~ PopCas(t)
  <2>1. ~ PushCas(t) /\ ~ PopCas(t)
      BY <1>2 DEF PushCas, PopCas, Goto
  <2>2. pc'[t] # "p.data"
      BY <1>1, CallIs
  <2>3. ~ Push(t)
    <3> SUFFICES ASSUME Push(t) PROVE FALSE
        OBVIOUS
    <3>1. Goto(t, "idle", "p.data")
        BY DEF Push
    <3>2. pc'[t] = "p.data"
        BY <1>1, <3>1, CallIs
    <3> QED
        BY <2>2, <3>2
  <2> QED
      BY <2>1, <2>3
<1>4. CASE nodeCount <= 0
  <2>1. Goto(t, "idle", "q.false")
      BY <1>1, <1>4
  <2>2. /\ Atomic!Become(t, Doing["idle"], Doing["q.false"])
        /\ Stack' = Stack /\ Carrying' = Carrying
      BY <1>1, <1>3, <2>1, CallBecomes
  <2>3. Atomic!Become(t, "idle", "false")
      BY <2>2, DoingIs
  <2>4. Len(Stack) <= Cardinality(PcIn(Owing))
    <3>1. /\ Len(q) \in Nat /\ nodeCount \in Int
          /\ nodeCount + Cardinality(PcIn(Owing)) = Len(q)
          /\ Cardinality(PcIn(Owing)) \in Nat
        BY CountsFacts, CountsAre
    <3>2. Stack \in [1 .. Len(q) -> 0 .. MaxSession]
        BY StackRange
    <3>3. Len(Stack) = Len(q)
        BY <3>1, <3>2
    <3> QED
        BY <1>4, <3>1, <3>3
  <2>5. PcIn(Owing) = {u \in Threads : Calls[u] \in {"pushed", "pop", "failing"}}
    <3>1. \A u \in Threads : Calls[u] = Doing[pc[u]] /\ pc[u] \in ControlPoint
        BY TypeParts DEF Calls, StackInv, StackTypes
    <3>2. \A u \in Threads : pc[u] \in Owing
                             <=> Calls[u] \in {"pushed", "pop", "failing"}
        BY <3>1, DoingIs DEF ControlPoint, Owing, Popping
    <3> QED
        BY <3>2 DEF PcIn
  <2>6. \A S : Atomic!Cardinality(S) = Cardinality(S)
      BY Zenon DEF Atomic!Cardinality, Cardinality
  <2>7. Len(Stack) <= Atomic!Cardinality(
            {u \in Threads : Calls[u] \in {"pushed", "pop", "failing"}})
      BY <2>4, <2>5, <2>6
  <2>8. Atomic!PopFalse(t)
      BY <2>2, <2>3, <2>7 DEF Atomic!PopFalse, Calls, Carrying
  <2> QED
      BY <2>8
<1>5. CASE ~ (nodeCount <= 0)
  <2>1. Goto(t, "idle", "q.reserve")
      BY <1>1, <1>5
  <2>2. Doing[pc'[t]] = Doing[pc[t]]
      BY <1>1, <1>2, <2>1, CallIs, DoingIs
  <2> QED
      BY <1>1, <1>3, <2>2, Stutters
<1> QED
    BY <1>4, <1>5

LEMMA PopTopImplements ==
    ASSUME NEW q, NEW r, StackInv(q, r), NEW t \in Threads, PopTop(t),
           NEW p, NodeStep(t, q, p), NEW s, StackInv(p, s)'
    PROVE  Atomic!PopEmpty(t) \/ UNCHANGED Atomic!vars
<1>1. Act(t) /\ Goto(t, "q.top", IF top.node = NULL THEN "q.undo" ELSE "q.next")
    BY DEF Act, PopStep, PopTop
<1>2. pc[t] = "q.top" /\ ~ Push(t) /\ ~ PushCas(t) /\ ~ PopCas(t)
    BY <1>1 DEF Goto, Push, PushCas, PopCas
<1>3. CASE top.node = NULL
  <2>1. Goto(t, "q.top", "q.undo")
      BY <1>1, <1>3
  <2>2. /\ Atomic!Become(t, Doing["q.top"], Doing["q.undo"])
        /\ Stack' = Stack /\ Carrying' = Carrying
      BY <1>1, <1>2, <2>1, CallBecomes
  <2>3. Atomic!Become(t, "pop", "failing")
      BY <2>2, DoingIs
  <2>4. Stack = << >>
    <3>1. Linked(q, Object, top.node, next)
        BY DEF StackInv, Lists
    <3>2. Len(q) = 0
        BY <1>3, <3>1, NullApart, LinkedFirst
    <3>3. Stack \in [1 .. Len(q) -> 0 .. MaxSession]
        BY StackRange
    <3> QED
        BY <3>2, <3>3
  <2>5. Atomic!PopEmpty(t)
      BY <2>2, <2>3, <2>4 DEF Atomic!PopEmpty, Carrying
  <2> QED
      BY <2>5
<1>4. CASE top.node # NULL
  <2>1. Goto(t, "q.top", "q.next")
      BY <1>1, <1>4
  <2>2. Doing[pc'[t]] = Doing[pc[t]]
      BY <1>1, <1>2, <2>1, CallIs, DoingIs
  <2> QED
      BY <1>1, <1>2, <2>2, Stutters
<1> QED
    BY <1>3, <1>4

\* Which of the steps that the abstract stack sees a step is not.
LEMMA NotSeen ==
    ASSUME NEW q, NEW r, StackInv(q, r), NEW t \in Threads, Act(t)
    PROVE  pc[t] \notin {"idle", "p.cas", "q.cas"}
             \/ pc'[t] \notin {"p.data", "p.count", "q.data"}
             => ~ Push(t) /\ ~ PushCas(t) /\ ~ PopCas(t)
<1>1. \A a, b : Goto(t, a, b) => pc[t] = a /\ pc'[t] = b
    BY CallIs
<1>2. Push(t) => pc[t] = "idle" /\ pc'[t] = "p.data"
    BY <1>1 DEF Push
<1>3. PushCas(t) => pc[t] = "p.cas" /\ pc'[t] = "p.count"
    BY <1>1 DEF PushCas
<1>4. PopCas(t) => pc[t] = "q.cas" /\ pc'[t] = "q.data"
    BY <1>1 DEF PopCas
<1> QED
    BY <1>2, <1>3, <1>4

\* The steps of a push and a pop that begin or end a call, or do neither.
LEMMA QuietImplements ==
    ASSUME NEW q, NEW r, StackInv(q, r), NEW t \in Threads, Act(t),
           NEW p, NodeStep(t, q, p), NEW s, StackInv(p, s)',
           \/ PushData(t) \/ PushTop(t) \/ PushNext(t) \/ PushCasLost(t)
           \/ PopNext(t) \/ PopCasLost(t) \/ PopData(t) \/ InPool(t)
    PROVE  UNCHANGED Atomic!vars
<1>1. \A a, b : Goto(t, a, b) => pc[t] = a /\ pc'[t] = b
    BY CallIs
<1>2. \/ pc[t] = "p.data" /\ pc'[t] = "p.top"
      \/ pc[t] = "p.top" /\ pc'[t] = "p.next"
      \/ pc[t] = "p.next" /\ pc'[t] = "p.cas"
      \/ pc[t] = "p.cas" /\ pc'[t] = "p.top"
      \/ pc[t] = "q.next" /\ pc'[t] = "q.cas"
      \/ pc[t] = "q.cas" /\ pc'[t] = "q.top"
      \/ pc[t] = "q.data" /\ pc'[t] = "q.free"
      \/ pc' = pc
    BY <1>1 DEF PushData, PushTop, PushNext, PushCasLost, PopNext, PopCasLost,
       PopData, InPool
<1>3. Doing[pc'[t]] = Doing[pc[t]]
    BY <1>2, DoingIs
<1>4. ~ Push(t) /\ ~ PushCas(t) /\ ~ PopCas(t)
  <2>1. \/ pc[t] \notin {"idle", "p.cas", "q.cas"}
        \/ pc'[t] \notin {"p.data", "p.count", "q.data"}
      BY <1>2
  <2> QED
      BY <2>1, NotSeen
<1> QED
    BY <1>3, <1>4, Stutters

LEMMA EndsImplement ==
    ASSUME NEW q, NEW r, StackInv(q, r), NEW t \in Threads, Act(t),
           NEW p, NodeStep(t, q, p), NEW s, StackInv(p, s)',
           \/ PushCount(t) \/ PopFalse(t) \/ PopUndo(t) \/ PopReturn(t)
           \/ PopReserve(t)
    PROVE  Atomic!Return(t) \/ Atomic!CallPop(t)
<1>1. \/ Goto(t, "p.count", "idle") \/ Goto(t, "q.false", "idle")
      \/ Goto(t, "q.undo", "idle") \/ Goto(t, "q.free", "idle")
      \/ Goto(t, "q.reserve", "q.top")
    BY DEF PushCount, PopFalse, PopUndo, PopReturn, PopReserve
<1>2. ~ Push(t) /\ ~ PushCas(t) /\ ~ PopCas(t)
  <2>1. pc[t] \notin {"idle", "p.cas", "q.cas"}
      BY <1>1 DEF Goto
  <2> QED
      BY <2>1, NotSeen
<1>3. \A a, b : Goto(t, a, b) => /\ Atomic!Become(t, Doing[a], Doing[b])
                                 /\ Stack' = Stack /\ Carrying' = Carrying
    BY <1>2, CallBecomes
<1>4. /\ Stack' = Stack /\ Carrying' = Carrying
      /\ \/ Atomic!Become(t, "pushed", "idle")
         \/ Atomic!Become(t, "false", "idle")
         \/ Atomic!Become(t, "failing", "idle")
         \/ Atomic!Become(t, "popped", "idle")
         \/ Atomic!Become(t, "idle", "pop")
  <2>1. CASE Goto(t, "p.count", "idle")
      BY <1>3, <2>1, DoingIs
  <2>2. CASE Goto(t, "q.false", "idle")
      BY <1>3, <2>2, DoingIs
  <2>3. CASE Goto(t, "q.undo", "idle")
      BY <1>3, <2>3, DoingIs
  <2>4. CASE Goto(t, "q.free", "idle")
      BY <1>3, <2>4, DoingIs
  <2>5. CASE Goto(t, "q.reserve", "q.top")
      BY <1>3, <2>5, DoingIs
  <2> QED
      BY <1>1, <2>1, <2>2, <2>3, <2>4, <2>5
<1>5. CASE Atomic!Become(t, "idle", "pop")
    BY <1>4, <1>5 DEF Atomic!CallPop, Carrying
<1>6. CASE \E a \in {"pushed", "popped", "failing", "false"} :
               Atomic!Become(t, a, "idle")
    BY <1>4, <1>6, ReturnIs
<1> QED
    BY <1>4, <1>5, <1>6

LEMMA ActImplements ==
    ASSUME NEW q, NEW r, StackInv(q, r), NEW t \in Threads, Act(t),
           NEW p, NodeStep(t, q, p), NEW s, StackInv(p, s)'
    PROVE  Atomic!Next \/ UNCHANGED Atomic!vars
<1>1. CASE Push(t)
    BY <1>1, PushImplements DEF Atomic!Next
<1>2. CASE PushCas(t)
    BY <1>2, PushCasImplements DEF Atomic!Next
<1>3. CASE PopCas(t)
    BY <1>3, PopCasImplements DEF Atomic!Next
<1>4. CASE Pop(t)
    BY <1>4, PopImplements DEF Atomic!Next
<1>5. CASE PopTop(t)
    BY <1>5, PopTopImplements DEF Atomic!Next
<1>6. CASE \/ PushCount(t) \/ PopFalse(t) \/ PopUndo(t) \/ PopReturn(t)
           \/ PopReserve(t)
    BY <1>6, EndsImplement DEF Atomic!Next
<1>7. CASE \/ PushData(t) \/ PushTop(t) \/ PushNext(t) \/ PushCasLost(t)
           \/ PopNext(t) \/ PopCasLost(t) \/ PopData(t) \/ InPool(t)
    BY <1>7, QuietImplements
<1> QED
    BY <1>1, <1>2, <1>3, <1>4, <1>5, <1>6, <1>7 DEF Act, PushStep, PopStep

LEMMA InitImplements == Init => Atomic!Init
<1> SUFFICES ASSUME Init PROVE Atomic!Init
    OBVIOUS
<1>1. PICK q \in Seq(Object), r \in Seq(Bucket) : StackInv(q, r)
    BY InitInv DEF Inv
<1>2. Stack \in Seq(0 .. MaxSession)
  <2>1. /\ Stack \in [1 .. Len(q) -> 0 .. MaxSession] /\ Len(q) \in Nat
      BY <1>1, StackRange
  <2>2. PICK L \in Nat : L = Len(q)
      BY <2>1
  <2>3. PICK f \in [1 .. L -> 0 .. MaxSession] : f = Stack
      BY <2>1, <2>2
  <2>4. f \in Seq(0 .. MaxSession)
      BY SeqIs
  <2> QED
      BY <2>3, <2>4
<1>3. Calls \in [Threads -> {"idle"}]
  <2>1. \A t \in Threads : pc[t] = "idle"
      BY InitThreads
  <2> QED
      BY <2>1, DoingIs DEF Calls
<1>4. Carrying \in [Threads -> 0 .. MaxSession]
  <2>1. \A t \in Threads : pc[t] = "idle" /\ index[t] = 0
      BY DEF Init
  <2>2. 0 \in 0 .. MaxSession
      BY Numbers
  <2> QED
      BY <2>1, <2>2 DEF Carrying
<1> QED
    BY <1>2, <1>3, <1>4 DEF Atomic!Init, Calls, Carrying

LEMMA StepImplements ==
    Inv /\ [Next]_vars => [Atomic!Next]_(Atomic!vars)
<1> SUFFICES ASSUME Inv, [Next]_vars PROVE Atomic!Next \/ UNCHANGED Atomic!vars
    OBVIOUS
<1>1. PICK q \in Seq(Object), r \in Seq(Bucket) : StackInv(q, r)
    BY DEF Inv
<1>2. CASE UNCHANGED vars
  <2>1. /\ UNCHANGED <<next, data, top, pc, index, object>>
      BY <1>2, SameVars
  <2>2. StackInv(q, r)'
      BY <1>1, <1>2, SameInv
  <2>3. Stack' = Stack
    <3>1. /\ Stack = [k \in 1 .. Len(q) |-> data[q[k]]]
          /\ Stack' = [k \in 1 .. Len(q) |-> data'[q[k]]]
        BY <1>1, <2>2, StackIs, StackIsNext DEF StackOf
    <3> QED
        BY <2>1, <3>1
  <2>4. Calls' = Calls /\ Carrying' = Carrying
      BY <2>1 DEF Calls, Carrying, node
  <2> QED
      BY <2>3, <2>4, AtomicVars
<1>3. CASE Next
  <2>1. PICK t \in Threads : Act(t)
      BY <1>3 DEF Next, Act
  <2>2. PICK p \in Seq(Object) : NodeStep(t, q, p)
      BY <1>1, NodeStepIs
  <2>3. PICK s \in Seq(Bucket) : BlockStep(t, r, s)
      BY <1>1, BlockStepIs
  <2>4. StackInv(p, s)'
      BY <1>1, <2>1, <2>2, <2>3, ActInv
  <2> QED
      BY <1>1, <2>1, <2>2, <2>4, ActImplements
<1> QED
    BY <1>2, <1>3

\* The list of nodes is a stack: every push and pop takes effect at once, at
\* the compare-and-swap that wins, last in first out, and a pop answers FALSE
\* only when calls that are running account for every index on the stack.
THEOREM ImplementsStack == Spec => IsStack
<1>1. Inv /\ [Next]_vars => [Atomic!Next]_(Atomic!vars)
    BY StepImplements
<1>2. Init => Atomic!Init
    BY InitImplements
<1>3. Spec => []Inv
    BY StackInvariant
<1> QED
    BY <1>1, <1>2, <1>3, PTL DEF Spec, IsStack, Atomic!Spec
=============================================================================
