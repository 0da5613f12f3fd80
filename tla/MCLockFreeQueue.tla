--------------------------- MODULE MCLockFreeQueue ---------------------------
(***************************************************************************)
(* The queue of a session: its player's owner enqueues, and the elected    *)
(* sender and a thread that drains the queue dequeue; and the same with a  *)
(* second producer and one consumer.                                       *)
(***************************************************************************)
EXTENDS LockFreeQueue

CONSTANTS p1, p2, c1, c2

AllThreads == {p1, p2, c1, c2}
TwoConsumers == [producers |-> {p1}, consumers |-> {c1, c2},
                 maxItems |-> 3]
TwoProducers == [producers |-> {p1, p2}, consumers |-> {c1},
                 maxItems |-> 2]
BothCrews == {TwoConsumers, TwoProducers}
=============================================================================
