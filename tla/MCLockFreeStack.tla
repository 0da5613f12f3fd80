--------------------------- MODULE MCLockFreeStack ---------------------------
(***************************************************************************)
(* The server's use: workers push, and the accept thread pops.  And one    *)
(* that the class allows: a second thread that pops, which pushes as well. *)
(***************************************************************************)
EXTENDS LockFreeStack, TLC

CONSTANTS acc, w1, w2

AllThreads == {acc, w1, w2}
Workers == {w1, w2}
Server == [pushers |-> Workers, poppers |-> {acc},
           bucketSize |-> 1, maxPops |-> 4]
TwoPop(w) == [pushers |-> {w}, poppers |-> {acc, w},
              bucketSize |-> 2, maxPops |-> 4]
AllSetups == {Server} \cup {TwoPop(w) : w \in Workers}
WorkerSymmetry == Permutations(Workers)
=============================================================================
