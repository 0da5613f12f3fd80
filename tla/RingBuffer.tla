------------------------------ MODULE RingBuffer ------------------------------
(***************************************************************************)
(* CRingBuffer (ringbuffer.cpp): the arithmetic of its two pointers.       *)
(*                                                                         *)
(* begin is position 0 and end the last one.  A pointer stands on the last *)
(* byte read or written, so data lies in the cells after front, up to the  *)
(* one under rear; cell 0 is never used, and a pointer on end means the    *)
(* same as one on begin.                                                   *)
(***************************************************************************)
EXTENDS Integers

CONSTANT Size    \* bytes allocated (10001)

ASSUME SizeAssumption == Size \in Nat /\ Size > 1

begin == 0
end == Size - 1
usableSize == Size - 1
Position == begin .. end
Cell == begin + 1 .. end

\* A pointer on end is moved to begin before it is used.
Normal(p) == IF p = end THEN begin ELSE p

GetUseSize(front, rear) ==
    IF front = rear THEN 0
    ELSE IF Normal(front) <= rear THEN rear - Normal(front)
    ELSE usableSize - (Normal(front) - rear)

\* A slip: no cell is kept free, and a full buffer looks empty.
GetFreeSizeNoSpare(front, rear) == usableSize - GetUseSize(front, rear)

\* Once front has left begin one cell stays free, to tell full from empty.
GetFreeSize(front, rear) ==
    (IF front = begin THEN usableSize ELSE usableSize - 1)
        - GetUseSize(front, rear)

DirectEnqueueSize(front, rear) ==
    IF front > rear THEN front - rear - 1
    ELSE IF rear = end THEN front - begin - 1
    ELSE end - rear

\* Where a pointer is after n more bytes (Dequeue, MoveRear, MoveFront).
Moved(p, n) ==
    IF n <= 0 THEN p
    ELSE IF n <= end - Normal(p) THEN Normal(p) + n
    ELSE begin + n - (end - Normal(p))

\* The cell of the i-th byte after a pointer (Peek, Dequeue).
CellAt(p, i) == Moved(p, i)

GetRearBufferPtr(rear) == Normal(rear) + 1
GetBeginPtr == begin + 1

\* Peek, and what Dequeue copies: the bytes of the first n cells.
Peek(front, buffer, n) == [i \in 1 .. n |-> buffer[CellAt(front, i)]]
=============================================================================
