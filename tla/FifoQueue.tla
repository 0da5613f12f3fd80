------------------------------ MODULE FifoQueue ------------------------------
(***************************************************************************)
(* What LockFreeQueue promises to its callers: a FIFO queue whose calls    *)
(* take effect at one moment between call and return.  Dequeue may answer  *)
(* false with items in the queue, but only when other calls that are still *)
(* running account for each of them.                                       *)
(***************************************************************************)
EXTENDS Integers, Sequences, FiniteSets

CONSTANTS Threads, Items

VARIABLES
    queue,
    call,    \* what each thread is doing
    sent,    \* items handed to Enqueue
    got      \* items Dequeue returned

vars == <<queue, call, sent, got>>

Become(t, from, to) == /\ call[t] = from
                       /\ call' = [call EXCEPT ![t] = to]

Init == /\ queue = << >> /\ sent = {} /\ got = {}
        /\ call = [t \in Threads |-> "idle"]

CallEnqueue(t) == /\ Become(t, "idle", "enqueue")
                  /\ \E i \in sent' : /\ i \in Items \ sent /\ i.from = t
                                     /\ sent' = sent \cup {i}
                  /\ UNCHANGED <<queue, got>>

\* The item is the one this thread called with.
Enqueue(t) == /\ Become(t, "enqueue", "enqueued")
              /\ \E i \in sent : i.from = t /\ queue' = Append(queue, i)
                                 /\ \A j \in sent : j.from = t
                                                    => j.num <= i.num
              /\ UNCHANGED <<sent, got>>

CallDequeue(t) == /\ Become(t, "idle", "dequeue")
                  /\ UNCHANGED <<queue, sent, got>>

Dequeue(t) == /\ Become(t, "dequeue", "dequeued")
              /\ queue # << >>
              /\ got' = got \cup {Head(queue)}
              /\ queue' = Tail(queue)
              /\ UNCHANGED sent

DequeueFalse(t) ==
    /\ Become(t, "idle", "false")
    /\ Len(queue) <=
           Cardinality({u \in Threads : call[u] \in {"enqueued", "dequeue"}})
    /\ UNCHANGED <<queue, sent, got>>

Return(t) == /\ \E s \in {"enqueued", "dequeued", "false"} :
                    Become(t, s, "idle")
             /\ UNCHANGED <<queue, sent, got>>

Next == \E t \in Threads :
            \/ CallEnqueue(t) \/ Enqueue(t) \/ CallDequeue(t) \/ Dequeue(t)
            \/ DequeueFalse(t) \/ Return(t)

Spec == Init /\ [][Next]_vars
=============================================================================
