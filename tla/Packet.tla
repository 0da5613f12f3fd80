-------------------------------- MODULE Packet --------------------------------
(***************************************************************************)
(* CPacket (Packet.cpp): a buffer with a position to read from and one to  *)
(* write to.  Buffers are never erased, so after a packet was freed and    *)
(* allocated again its bytes are those of its last life.                   *)
(*                                                                         *)
(* A byte of the payload is a cell with the number of the message it       *)
(* belongs to; the header is one cell, which Encode fills with the length. *)
(* (Encode_option is not defined: nothing is encrypted, and Decode accepts *)
(* everything.)                                                            *)
(***************************************************************************)
EXTENDS Integers

CONSTANT BufferSize    \* BUFFER_DEFAULT (2000)

dfNETWORK_HEADER_SIZE == 1

ASSUME PacketAssumption ==
    BufferSize \in Nat /\ BufferSize > dfNETWORK_HEADER_SIZE

begin == 0
end == BufferSize - 1
Position == begin .. end

Header(len) == <<"header", len>>
Byte(number) == <<"byte", number>>
Garbage == <<"garbage", 0>>

Constructed == [refCount |-> 0, encodeFlag |-> FALSE, DataSize |-> 0,
                readPos |-> begin, writePos |-> begin,
                bytes |-> [i \in Position |-> Garbage]]

\* A slip: the flag of the last life is kept.
mAllocEncoded(p) == [p EXCEPT !.refCount = 0]

\* CPacket::mAlloc: the positions are left as they are.
mAlloc(p) == [p EXCEPT !.refCount = 0, !.encodeFlag = FALSE]

Clear(p) == [p EXCEPT !.readPos = begin,
                      !.writePos = begin + dfNETWORK_HEADER_SIZE,
                      !.DataSize = dfNETWORK_HEADER_SIZE]

\* A slip: the size of the last life is kept.
ClearNetworkSized(p) == [p EXCEPT !.readPos = begin, !.writePos = begin]

ClearNetwork(p) == [p EXCEPT !.readPos = begin, !.writePos = begin,
                             !.DataSize = 0]

addRef(p, n) == [p EXCEPT !.refCount = @ + n]
subRef(p) == [p EXCEPT !.refCount = @ - 1]

Written(bytes, from, n, cell) ==
    [i \in Position |-> IF i \in from .. from + n - 1 THEN cell ELSE bytes[i]]

MoveWritePos(p, n) ==
    IF n <= 0 \/ end - p.writePos < n THEN p
    ELSE [p EXCEPT !.writePos = @ + n, !.DataSize = @ + n]

MoveReadPos(p, n) ==
    IF n <= 0 \/ p.writePos - p.readPos < n THEN p
    ELSE [p EXCEPT !.readPos = @ + n, !.DataSize = @ - n]

\* operator << of a value of n bytes: what does not fit is dropped.
Put(p, n, cell) ==
    IF end - p.writePos < n THEN p
    ELSE [p EXCEPT !.bytes = Written(@, p.writePos, n, cell),
                   !.writePos = @ + n, !.DataSize = @ + n]

PutData(p, n, cell) == IF n <= 0 THEN p ELSE Put(p, n, cell)

\* operator >>: a value that is not there is not read, and what the caller
\* had in its variable stays.
Get(p, n) ==
    IF p.writePos - p.readPos < n THEN p
    ELSE [p EXCEPT !.readPos = @ + n, !.DataSize = @ - n]

GetData(p, n) == IF n <= 0 THEN p ELSE Get(p, n)

Encode(p) ==
    IF p.DataSize <= dfNETWORK_HEADER_SIZE THEN p
    ELSE [p EXCEPT !.bytes = Written(@, begin, dfNETWORK_HEADER_SIZE,
                                     Header(p.writePos - p.readPos
                                                - dfNETWORK_HEADER_SIZE)),
                   !.encodeFlag = TRUE]

GetReadBufferPtr(p) == p.readPos
GetWriteBufferPtr(p) == p.writePos
GetLeftUsableSize(p) == end - p.writePos
GetDataSize(p) == p.writePos - p.readPos
=============================================================================
