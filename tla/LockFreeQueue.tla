---------------------------- MODULE LockFreeQueue ----------------------------
(***************************************************************************)
(* LockFreeQueue (LockFreeQueue.h), access by access: a linked list with a *)
(* dummy node in front, whose front and rear pointers carry a stamp in     *)
(* their upper bits.  A node that was dequeued goes back to NodePool at    *)
(* once and may be allocated again while other threads still look at it;   *)
(* its next field keeps its value until then (the pool links blocks by a   *)
(* field of their own).                                                    *)
(*                                                                         *)
(* The server has one thread at a time enqueue packets for a session (the  *)
(* owner of its player), and one sender, or the thread that drains the     *)
(* queue, dequeue.  A release of a session in use (see NetServer) can add  *)
(* a second of either kind.                                                *)
(***************************************************************************)
EXTENDS Integers, FiniteSets, SequencesExt

CONSTANTS
    Threads,
    NULL,
    Nodes,       \* bound: blocks of NodePool
    StampMod,    \* 2^16: a stamp is a short
    Crews        \* who may use the queue: its producers and consumers, and
                 \* the bound on the items one producer enqueues

ASSUME QueueAssumption ==
    /\ Nodes # {} /\ NULL \notin Nodes
    /\ StampMod \in Nat \ {0}
    /\ \A c \in Crews : /\ c.producers \cup c.consumers \subseteq Threads
                         /\ c.maxItems \in Nat

Item == [from : Threads, num : Nat \ {0}]
Pointer == [node : Nodes, stamp : 0 .. StampMod - 1]

VARIABLES
    next, data,     \* the fields of a node
    front, rear, nodeCount,
    free,           \* the nodes in NodePool, the one freed last in front
    pc,
    node,           \* pNewNode
    snap,           \* tempRear in Enqueue, tempFront in Dequeue
    rearSnap,       \* tempRear in Dequeue
    pNext,
    temp,           \* data in Dequeue
    crew,           \* the producers and consumers of this queue
    sent, got       \* the items enqueued, and those dequeued

list == <<next, data, front, rear, free>>
locals == <<node, snap, rearSnap, pNext, temp>>
history == <<crew, sent, got>>
vars == <<list, nodeCount, pc, locals, history>>

Nowhere == [node |-> CHOOSE n \in Nodes : TRUE, stamp |-> 0]

Goto(t, from, to) == pc[t] = from /\ pc' = [pc EXCEPT ![t] = to]

\* The locals of a call that returns are forgotten.
Return(t, from) ==
    /\ Goto(t, from, "idle")
    /\ node' = [node EXCEPT ![t] = NULL]
    /\ pNext' = [pNext EXCEPT ![t] = NULL]
    /\ snap' = [snap EXCEPT ![t] = Nowhere]
    /\ rearSnap' = [rearSnap EXCEPT ![t] = Nowhere]
    /\ temp' = [temp EXCEPT ![t] = NULL]

\* A slip: the pointer is compared without its stamp.
SwappedUnstamped(pointer, seen, n) ==
    IF pointer.node = seen.node THEN [node |-> n, stamp |-> 0] ELSE pointer

\* InterlockedCompareExchange64 of a stamped pointer.
Swapped(pointer, seen, n) ==
    IF pointer = seen
    THEN [node |-> n, stamp |-> (seen.stamp + 1) % StampMod]
    ELSE pointer

Init ==
    /\ front = Nowhere
    /\ free = SetToSeq(Nodes \ {front.node})
    /\ rear = front
    /\ next = [n \in Nodes |-> NULL]
    /\ data = [n \in Nodes |-> NULL]
    /\ nodeCount = 0
    /\ pc = [t \in Threads |-> "idle"]
    /\ node = [t \in Threads |-> NULL]
    /\ pNext = [t \in Threads |-> NULL]
    /\ snap = [t \in Threads |-> Nowhere]
    /\ rearSnap = [t \in Threads |-> Nowhere]
    /\ temp = [t \in Threads |-> NULL]
    /\ crew \in Crews
    /\ sent = {} /\ got = {}

-----------------------------------------------------------------------------
(* Enqueue *)

SentBy(t) == {i \in sent : i.from = t}

EnqAlloc(t) ==
    /\ t \in crew.producers
    /\ Cardinality(SentBy(t)) < crew.maxItems
    /\ Goto(t, "idle", "e.null")
    /\ free # << >>
    /\ free' = Tail(free)
    /\ node' = [node EXCEPT ![t] = Head(free)]
    /\ LET item == [from |-> t, num |-> Cardinality(SentBy(t)) + 1] IN
           /\ data' = [data EXCEPT ![Head(free)] = item]
           /\ sent' = sent \cup {item}
    /\ UNCHANGED <<next, front, rear, nodeCount, snap, rearSnap, pNext, temp,
                   crew, got>>

\* A slip: the new node keeps the successor it had in its last life.
EnqNoNull(t) ==
    /\ Goto(t, "e.null", "e.rear")
    /\ UNCHANGED <<list, nodeCount, locals, history>>

EnqNull(t) ==
    /\ Goto(t, "e.null", "e.rear")
    /\ next' = [next EXCEPT ![node[t]] = NULL]
    /\ UNCHANGED <<data, front, rear, free, nodeCount, locals, history>>

EnqRear(t) ==
    /\ Goto(t, "e.rear", "e.next")
    /\ snap' = [snap EXCEPT ![t] = rear]
    /\ UNCHANGED <<list, nodeCount, node, rearSnap, pNext, temp, history>>

EnqNext(t) ==
    /\ pNext' = [pNext EXCEPT ![t] = next[snap[t].node]]
    /\ Goto(t, "e.next", IF pNext'[t] = NULL THEN "e.link" ELSE "e.help")
    /\ UNCHANGED <<list, nodeCount, node, snap, rearSnap, temp, history>>

\* The swap of pNode->next, which has no stamp.
EnqLink(t) ==
    /\ next[snap[t].node] = NULL
    /\ Goto(t, "e.link", "e.swing")
    /\ next' = [next EXCEPT ![snap[t].node] = node[t]]
    /\ UNCHANGED <<data, front, rear, free, nodeCount, locals, history>>

EnqLinkLost(t) ==
    /\ next[snap[t].node] # NULL
    /\ Goto(t, "e.link", "e.again")
    /\ UNCHANGED <<list, nodeCount, locals, history>>

EnqAgain(t) ==
    /\ pNext' = [pNext EXCEPT ![t] = next[snap[t].node]]
    /\ Goto(t, "e.again", IF pNext'[t] # NULL THEN "e.help" ELSE "e.rear")
    /\ UNCHANGED <<list, nodeCount, node, snap, rearSnap, temp, history>>

\* A slip: a producer that finds rear behind does not move it on.
EnqHelpNot(t) ==
    /\ Goto(t, "e.help", "e.rear")
    /\ UNCHANGED <<list, nodeCount, locals, history>>

EnqHelp(t) ==
    /\ Goto(t, "e.help", "e.rear")
    /\ rear' = Swapped(rear, snap[t], pNext[t])
    /\ UNCHANGED <<next, data, front, free, nodeCount, locals, history>>

EnqSwing(t) ==
    /\ Goto(t, "e.swing", "e.count")
    /\ rear' = Swapped(rear, snap[t], node[t])
    /\ UNCHANGED <<next, data, front, free, nodeCount, locals, history>>

EnqCount(t) ==
    /\ nodeCount' = nodeCount + 1
    /\ Return(t, "e.count")
    /\ UNCHANGED <<list, history>>

-----------------------------------------------------------------------------
(* Dequeue *)

DeqLook(t) ==
    /\ t \in crew.consumers
    /\ Goto(t, "idle", IF nodeCount <= 0 THEN "d.false" ELSE "d.reserve")
    /\ UNCHANGED <<list, nodeCount, locals, history>>

DeqFalse(t) ==
    /\ Goto(t, "d.false", "idle")
    /\ UNCHANGED <<list, nodeCount, locals, history>>

\* A slip: a Dequeue is counted twice.
DeqReserveTwice(t) ==
    /\ Goto(t, "d.reserve", "d.front")
    /\ nodeCount' = nodeCount - 2
    /\ UNCHANGED <<list, locals, history>>

DeqReserve(t) ==
    /\ Goto(t, "d.reserve", "d.front")
    /\ nodeCount' = nodeCount - 1
    /\ UNCHANGED <<list, locals, history>>

DeqFront(t) ==
    /\ Goto(t, "d.front", "d.next")
    /\ snap' = [snap EXCEPT ![t] = front]
    /\ UNCHANGED <<list, nodeCount, node, rearSnap, pNext, temp, history>>

\* Nothing behind front: some producer has not linked its node yet.
DeqNext(t) ==
    /\ pNext' = [pNext EXCEPT ![t] = next[snap[t].node]]
    /\ Goto(t, "d.next", IF pNext'[t] = NULL THEN "d.front" ELSE "d.data")
    /\ UNCHANGED <<list, nodeCount, node, snap, rearSnap, temp, history>>

DeqData(t) ==
    /\ Goto(t, "d.data", "d.cas")
    /\ temp' = [temp EXCEPT ![t] = data[pNext[t]]]
    /\ UNCHANGED <<list, nodeCount, node, snap, rearSnap, pNext, history>>

DeqCas(t) ==
    /\ front = snap[t]
    /\ Goto(t, "d.cas", "d.rear")
    /\ front' = Swapped(front, snap[t], pNext[t])
    /\ got' = got \cup {temp[t]}
    /\ UNCHANGED <<next, data, rear, free, nodeCount, locals, crew, sent>>

DeqCasLost(t) ==
    /\ front # snap[t]
    /\ Goto(t, "d.cas", "d.front")
    /\ UNCHANGED <<list, nodeCount, locals, history>>

DeqRear(t) ==
    /\ Goto(t, "d.rear", "d.look")
    /\ rearSnap' = [rearSnap EXCEPT ![t] = rear]
    /\ UNCHANGED <<list, nodeCount, node, snap, pNext, temp, history>>

\* A slip: the node is freed with rear standing on it.
DeqRearSkip(t) ==
    /\ Goto(t, "d.look", "d.free")
    /\ UNCHANGED <<list, nodeCount, locals, history>>

\* Does rear still stand on the node before the new front?
DeqRearLook(t) ==
    /\ Goto(t, "d.look", IF next[rearSnap[t].node] = pNext[t]
                         THEN "d.help" ELSE "d.free")
    /\ UNCHANGED <<list, nodeCount, locals, history>>

DeqHelp(t) ==
    /\ Goto(t, "d.help", "d.free")
    /\ rear' = Swapped(rear, rearSnap[t], pNext[t])
    /\ UNCHANGED <<next, data, front, free, nodeCount, locals, history>>

DeqFree(t) ==
    /\ free' = <<snap[t].node>> \o free
    /\ Return(t, "d.free")
    /\ UNCHANGED <<next, data, front, rear, nodeCount, history>>

-----------------------------------------------------------------------------
EnqueueStep(t) ==
    \/ EnqNull(t) \/ EnqRear(t) \/ EnqNext(t) \/ EnqLink(t) \/ EnqLinkLost(t)
    \/ EnqAgain(t) \/ EnqHelp(t) \/ EnqSwing(t) \/ EnqCount(t)

DequeueStep(t) ==
    \/ DeqFalse(t) \/ DeqReserve(t) \/ DeqFront(t) \/ DeqNext(t) \/ DeqData(t)
    \/ DeqCas(t) \/ DeqCasLost(t) \/ DeqRear(t) \/ DeqRearLook(t)
    \/ DeqHelp(t) \/ DeqFree(t)

Next == \E t \in Threads :
            EnqAlloc(t) \/ EnqueueStep(t) \/ DeqLook(t) \/ DequeueStep(t)

Spec == Init /\ [][Next]_vars

\* A thread inside a call keeps running; nobody has to make another call.
FairSpec == Spec /\ \A t \in Threads : WF_vars(EnqueueStep(t))
                                       /\ WF_vars(DequeueStep(t))

-----------------------------------------------------------------------------
(* Properties *)

BeforeLink == {"e.rear", "e.next", "e.link", "e.again", "e.help"}
EnqueuePoints == BeforeLink \cup {"e.null", "e.swing", "e.count"}
Reserved == {"d.front", "d.next", "d.data", "d.cas"}
Taken == {"d.rear", "d.look", "d.help", "d.free"}
ControlPoint == {"idle", "d.false", "d.reserve"} \cup EnqueuePoints
                \cup Reserved \cup Taken

At(points) == {t \in Threads : pc[t] \in points}

\* Every variable has the type of the field or local it stands for, and
\* nodeCount, which is tested before it is decremented, falls below 0 only
\* by the consumers that tested it together.
TypeOK ==
    /\ next \in [Nodes -> Nodes \cup {NULL}]
    /\ data \in [Nodes -> Item \cup {NULL}]
    /\ front \in Pointer /\ rear \in Pointer
    /\ nodeCount \in Int /\ nodeCount > -Cardinality(crew.consumers)
    /\ free \in Seq(Nodes)
    /\ pc \in [Threads -> ControlPoint]
    /\ node \in [Threads -> Nodes \cup {NULL}]
    /\ pNext \in [Threads -> Nodes \cup {NULL}]
    /\ snap \in [Threads -> Pointer] /\ rearSnap \in [Threads -> Pointer]
    /\ temp \in [Threads -> Item \cup {NULL}]
    /\ crew \in Crews /\ sent \subseteq Item /\ got \subseteq Item

\* The nodes from n on, following next.
Chain(n) ==
    LET at[k \in 0 .. Cardinality(Nodes)] ==
            IF k = 0 THEN n
            ELSE IF at[k - 1] = NULL THEN NULL ELSE next[at[k - 1]]
    IN  at
Behind(n) == {Chain(n)[k] : k \in 1 .. Cardinality(Nodes)} \ {NULL}

\* The nodes that hold items: behind the dummy, those a producer still has
\* for itself, and what another producer hung behind one of these.
Private == {node[t] : t \in At(BeforeLink \cup {"e.null"})}
Waiting == Behind(front.node) \cup Private
           \cup UNION {Behind(node[t]) : t \in At(BeforeLink)}

\* No item is lost, and none is dequeued twice, by any interleaving with
\* threads that work on nodes long dequeued and allocated again.
NothingLost ==
    /\ got \subseteq sent
    /\ LET waiting == Waiting IN
       \A i \in sent : Cardinality({n \in waiting : data[n] = i})
                         = IF i \in got THEN 0 ELSE 1

Free == Range(free)

\* A node goes back to the pool only when neither pointer stands on it and
\* no chain leads to it, and it goes back once.
FreedNodeIsGone ==
    /\ Free \cap (Waiting \cup {front.node, rear.node}) = {}
    /\ \A t \in At(Taken) :
           /\ snap[t].node \notin Free \cup Waiting \cup {front.node}
           /\ \A u \in At(Taken) \ {t} : snap[u].node # snap[t].node
    /\ \A t \in At({"d.free"}) : rear.node # snap[t].node

\* The items from front to rear.
Queue ==
    LET chain == Chain(front.node)
        length == Cardinality({k \in 1 .. Cardinality(Nodes) :
                                   chain[k] # NULL})
    IN  [k \in 1 .. length |-> data[chain[k]]]

\* What a thread at a control point is doing, for its caller.
Doing ==
    [p \in ControlPoint |->
        CASE p \in BeforeLink \cup {"e.null"} -> "enqueue"
          [] p \in {"e.swing", "e.count"} -> "enqueued"
          [] p \in Reserved -> "dequeue"
          [] p \in Taken -> "dequeued"
          [] p = "d.false" -> "false"
          [] p \in {"idle", "d.reserve"} -> "idle"]

OneProducer == Cardinality(crew.producers) = 1

Fifo == INSTANCE FifoQueue WITH
            Items <- Item,
            queue <- IF OneProducer THEN Queue ELSE << >>,
            call <- IF OneProducer THEN [t \in Threads |-> Doing[pc[t]]]
                                   ELSE [t \in Threads |-> "idle"],
            sent <- IF OneProducer THEN sent ELSE {},
            got <- IF OneProducer THEN got ELSE {}

\* With one producer at a time, however many consumers, the list is a FIFO
\* queue.  (With two, a producer that slept on a rear node while it was
\* dequeued and allocated again can link its item behind a node that is not
\* in the list yet, and its next item overtakes it.)
IsFifo == Fifo!Spec

\* A call returns, unless it is a Dequeue that finds the queue empty and no
\* Enqueue running: the loops of the two functions wait for nothing else.
CallsReturn ==
    \A t \in Threads :
        pc[t] # "idle" ~> \/ pc[t] = "idle"
                         \/ /\ pc[t] \in Reserved /\ Queue = << >>
                            /\ At(EnqueuePoints) = {}
=============================================================================
