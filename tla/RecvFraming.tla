----------------------------- MODULE RecvFraming -----------------------------
(***************************************************************************)
(* How the bytes of one connection become messages: the receive posted by  *)
(* recvPost, the bytes the kernel writes into the session's ring buffer,   *)
(* and the loop of WorkerThread that takes messages out of it              *)
(* (CNetServer.cpp).  NetServer shows that one worker at a time receives   *)
(* for a session, so this is sequential; the peer, and how its bytes are   *)
(* cut into receives, are not.                                             *)
(*                                                                         *)
(* A byte is its position in the peer's stream.  A message is where it     *)
(* begins, the length its header states and whether its code is right.     *)
(* The check of the length allows what a whole packet has room for, header *)
(* not counted, and so messages that the packet they are copied to cannot  *)
(* hold.                                                                   *)
(***************************************************************************)
EXTENDS RingBuffer, Sequences, FiniteSets

CONSTANTS
    HeaderSize,   \* dfNETWORK_HEADER_SIZE (5)
    MaxLen,       \* BUFFER_DEFAULT (2000): bytes of a packet, and the greatest
                  \* payload length that is not refused
    Word,         \* values of a DWORD (2^32)
    Lens,         \* payload lengths the headers of the peer's messages state
    Codes,        \* FALSE in it: the peer may send a wrong code
    MaxMessages   \* bound: messages the peer sends

ASSUME FramingAssumption ==
    /\ HeaderSize \in Nat \ {0} /\ MaxLen \in Nat /\ MaxLen > HeaderSize
    /\ MaxMessages \in Nat
    /\ Word \in Nat /\ Word > HeaderSize + MaxLen + Size
    /\ Lens \subseteq Nat /\ Codes \subseteq BOOLEAN
    /\ Size > HeaderSize + MaxLen + 1

VARIABLES
    front, rear, buffer,  \* recvQueue
    wsabuf,               \* the two WSABUFs of the receive that is pending
    leftByte,
    stage,                \* where the connection is
    messages,             \* what the peer sent
    arrived,              \* bytes of it that came out of the kernel
    delivered             \* what OnRecv was called with

ring == <<front, rear, buffer>>
peer == <<messages, arrived>>
vars == <<ring, wsabuf, leftByte, stage, peer, delivered>>

\* A cell no byte of this connection was written to.
Stale == 0

UseSize == GetUseSize(front, rear)
FreeSize == GetFreeSize(front, rear)
DirectSize == DirectEnqueueSize(front, rear)

MessageSize(m) == HeaderSize + m.len
\* The position of the last byte of the first k messages.
LastByte(k) == IF k = 0 THEN 0
               ELSE messages[k].first + MessageSize(messages[k]) - 1
StreamEnd == LastByte(Len(messages))
\* The bytes a message begins with, n of them, and those after its header.
Bytes(m, n) == [i \in 1 .. n |-> m.first + i - 1]
Payload(m) == [i \in 1 .. m.len |-> m.first + HeaderSize + i - 1]

\* CPacket: end - begin, what MoveWritePos lets in.
PacketSize == MaxLen - 1

-----------------------------------------------------------------------------
\* AcceptThread: the buffer is cleared, and the first receive has one WSABUF.
Init ==
    /\ front = begin /\ rear = begin
    /\ buffer = [c \in Cell |-> Stale]
    /\ wsabuf = [at |-> GetRearBufferPtr(begin),
                 len |-> DirectEnqueueSize(begin, begin), more |-> 0]
    /\ leftByte = 0
    /\ stage = "posted"
    /\ messages = << >> /\ arrived = 0
    /\ delivered = << >>

PeerSends(len, code) ==
    /\ Len(messages) < MaxMessages
    /\ messages' = Append(messages, [first |-> StreamEnd + 1, len |-> len,
                                     code |-> code])
    /\ UNCHANGED <<ring, wsabuf, leftByte, stage, arrived, delivered>>

\* The kernel fills the WSABUFs in their order, with n bytes of the stream.
Written(n) ==
    [c \in Cell |->
        IF c \in wsabuf.at .. wsabuf.at + wsabuf.len - 1
           /\ c - wsabuf.at < n
        THEN arrived + 1 + c - wsabuf.at
        ELSE IF c \in GetBeginPtr .. GetBeginPtr + wsabuf.more - 1
                /\ wsabuf.len + c - GetBeginPtr < n
        THEN arrived + 1 + wsabuf.len + c - GetBeginPtr
        ELSE buffer[c]]

\* The receive completes, and the worker moves rear over its bytes.
Receive(n) ==
    /\ stage = "posted"
    /\ n <= wsabuf.len + wsabuf.more
    /\ n <= StreamEnd - arrived
    /\ buffer' = Written(n)
    /\ rear' = Moved(rear, n)
    /\ arrived' = arrived + n
    /\ leftByte' = n
    /\ stage' = "loop"
    /\ UNCHANGED <<front, wsabuf, messages, delivered>>

\* The headers Peek may leave in the local variable.  With less than a
\* header in the buffer it copies nothing: len is 0 and code uninitialised.
HeadersAt(bytes) ==
    {m \in {messages[k] : k \in 1 .. Len(messages)} :
         bytes = Bytes(m, HeaderSize)}
Header ==
    IF UseSize < HeaderSize
    THEN [len : {0}, code : BOOLEAN]
    ELSE LET read == HeadersAt(Peek(front, buffer, HeaderSize))
         IN  IF read # {} THEN {[len |-> m.len, code |-> m.code] : m \in read}
             ELSE [len : Lens, code : BOOLEAN]

\* One turn of the loop.
Drained ==
    /\ stage = "loop"
    /\ leftByte = 0
    /\ stage' = "post"
    /\ UNCHANGED <<ring, wsabuf, leftByte, peer, delivered>>

\* A slip: the greatest length is refused.
MalformedGreatest(h) ==
    /\ stage = "loop"
    /\ leftByte # 0
    /\ ~h.code \/ h.len >= MaxLen
    /\ stage' = "cut"
    /\ UNCHANGED <<ring, wsabuf, leftByte, peer, delivered>>

Malformed(h) ==
    /\ stage = "loop"
    /\ leftByte # 0
    /\ ~h.code \/ h.len > MaxLen
    /\ stage' = "cut"    \* disconnectSession, and recvPost returns at once
    /\ UNCHANGED <<ring, wsabuf, leftByte, peer, delivered>>

Incomplete(h) ==
    /\ stage = "loop"
    /\ leftByte # 0
    /\ h.code /\ h.len <= MaxLen
    /\ h.len + HeaderSize > UseSize
    /\ stage' = "post"
    /\ UNCHANGED <<ring, wsabuf, leftByte, peer, delivered>>

\* What the content can read of the packet that the next n bytes of the ring
\* are copied to.  MoveWritePos refuses more than end - begin bytes, which
\* nobody looks at, and then MoveReadPos refuses to pass the header: the
\* packet is empty.
Readable(n) ==
    IF n <= PacketSize
    THEN [i \in 1 .. n - HeaderSize |-> Peek(front, buffer, n)[HeaderSize + i]]
    ELSE << >>

\* More bytes than the packet has are copied past the end of its allocation.
\* The build may survive it (the packet is empty, as above) or not.
Overrun(h) ==
    LET n == h.len + HeaderSize IN
    /\ stage = "loop"
    /\ leftByte # 0
    /\ h.code /\ h.len <= MaxLen
    /\ n <= UseSize
    /\ n > MaxLen
    /\ stage' = "crashed"
    /\ UNCHANGED <<ring, wsabuf, leftByte, peer, delivered>>

\* Slips used for mutation testing: a leftByte that is signed; a front that
\* is moved over the payload only.
OnRecvSigned(h) ==
    LET n == h.len + HeaderSize IN
    /\ stage = "loop"
    /\ leftByte # 0
    /\ h.code /\ h.len <= MaxLen
    /\ n <= UseSize
    /\ delivered' = Append(delivered, Readable(n))
    /\ front' = Moved(front, n)
    /\ leftByte' = leftByte - n
    /\ UNCHANGED <<rear, buffer, wsabuf, stage, peer>>

OnRecvKeepsHeader(h) ==
    LET n == h.len + HeaderSize IN
    /\ stage = "loop"
    /\ leftByte # 0
    /\ h.code /\ h.len <= MaxLen
    /\ n <= UseSize
    /\ delivered' = Append(delivered, Readable(n))
    /\ front' = Moved(front, h.len)
    /\ leftByte' = (leftByte - n) % Word
    /\ UNCHANGED <<rear, buffer, wsabuf, stage, peer>>

\* A whole message is dequeued and its packet given to the content.  leftByte
\* counts the bytes of the last receive only, and is unsigned.
OnRecv(h) ==
    LET n == h.len + HeaderSize IN
    /\ stage = "loop"
    /\ leftByte # 0
    /\ h.code /\ h.len <= MaxLen
    /\ n <= UseSize
    /\ delivered' = Append(delivered, Readable(n))
    /\ front' = Moved(front, n)
    /\ leftByte' = (leftByte - n) % Word
    /\ UNCHANGED <<rear, buffer, wsabuf, stage, peer>>

Parse == \/ Drained
         \/ \E h \in Header :
               Malformed(h) \/ Incomplete(h) \/ OnRecv(h) \/ Overrun(h)

\* A slip: the second WSABUF always has all the free bytes.
RecvPostUnsplit ==
    /\ stage = "post"
    /\ wsabuf' = [at |-> GetRearBufferPtr(rear), len |-> DirectSize,
                  more |-> FreeSize]
    /\ stage' = "posted"
    /\ UNCHANGED <<ring, leftByte, peer, delivered>>

\* recvPost: the free bytes up to end, and those before front.
RecvPost ==
    /\ stage = "post"
    /\ wsabuf' = [at |-> GetRearBufferPtr(rear), len |-> DirectSize,
                  more |-> IF DirectSize < FreeSize THEN FreeSize - DirectSize
                                                    ELSE 0]
    /\ stage' = "posted"
    /\ UNCHANGED <<ring, leftByte, peer, delivered>>

Next ==
    \/ \E len \in Lens, code \in Codes : PeerSends(len, code)
    \/ \E n \in 1 .. usableSize : Receive(n)
    \/ Parse
    \/ RecvPost

Spec == Init /\ [][Next]_vars

\* The worker goes on, and bytes the peer has sent arrive in the end.
FairSpec ==
    Spec /\ WF_vars(Parse) /\ WF_vars(RecvPost)
         /\ WF_vars(\E n \in 1 .. usableSize : Receive(n))

-----------------------------------------------------------------------------
\* The types of the variables: the pointers stay inside the allocation, and
\* leftByte is a DWORD.
TypeOK ==
    /\ front \in Position /\ rear \in Position
    /\ buffer \in [Cell -> Nat]
    /\ wsabuf \in [at : Cell, len : 0 .. usableSize, more : 0 .. usableSize]
    /\ leftByte \in 0 .. Word - 1
    /\ stage \in {"posted", "loop", "post", "cut", "crashed"}
    /\ messages \in Seq([first : Nat, len : Lens, code : Codes])
    /\ arrived \in Nat
    /\ delivered \in Seq(Seq(Nat))

\* The bytes of the messages that were taken out.
Consumed == LastByte(Len(delivered))

\* Between front and rear lies exactly the part of the stream that has
\* arrived and was not taken out yet: whatever the receives were cut into,
\* and wherever the pointers wrapped, no byte is lost, doubled or overwritten.
BufferIsStream ==
    /\ UseSize = arrived - Consumed
    /\ Peek(front, buffer, UseSize) =
           [i \in 1 .. UseSize |-> Consumed + i]

\* A receive that is pending writes only to free cells, never none (its
\* completion would look like a closed connection), and the buffer is left
\* with less than one message of the greatest length.
RoomToReceive ==
    /\ stage = "posted" =>
           LET target == wsabuf.at .. wsabuf.at + wsabuf.len - 1
               wrapped == GetBeginPtr .. GetBeginPtr + wsabuf.more - 1
           IN  /\ target # {} /\ target \cup wrapped \subseteq Cell
               /\ target \cap wrapped = {}
               /\ (target \cup wrapped)
                      \cap {CellAt(front, i) : i \in 1 .. UseSize} = {}
    /\ stage \in {"post", "posted"} => UseSize < HeaderSize + MaxLen

\* The content gets one packet for each of the peer's messages, in order: with
\* the payload, all of it and nothing else, if the packet holds the message,
\* and else with nothing.
Stream == INSTANCE MessageStream WITH
              Longest <- PacketSize - HeaderSize,
              sent <- [k \in 1 .. Len(messages) |-> Payload(messages[k])],
              received <- delivered
DeliversStream == Stream!Spec

\* A peer is cut only for the message that is next, because its code or its
\* length is wrong; or because less than a header was there, and the code
\* that was tested had not been read.
CutForAReason ==
    stage = "cut" =>
        \/ UseSize < HeaderSize
        \/ LET m == messages[Len(delivered) + 1]
           IN  ~m.code \/ m.len > MaxLen

\* The comments of the loop say that it ends when everything was taken out,
\* or when a message has not come completely: so a message that has come is
\* delivered, whatever the peer does next.
EveryMessageDelivered ==
    \A k \in 1 .. MaxMessages :
        (Len(messages) >= k
         /\ arrived >= messages[k].first + MessageSize(messages[k]) - 1)
            ~> (Len(delivered) >= k \/ stage \in {"cut", "crashed"})
=============================================================================
