-------------------------- MODULE RecvFramingProofs --------------------------
(***************************************************************************)
(* The ring buffer holds what arrived and was not taken out, a receive     *)
(* writes to free cells only, and the content gets a packet for each of    *)
(* the peer's messages, with its payload if it fits: for a ring, packets   *)
(* and messages of every size, and receives cut at will.                   *)
(***************************************************************************)
EXTENDS RecvFraming, TLAPS, SequenceTheorems

-----------------------------------------------------------------------------
(* The two pointers of the ring.                                           *)

LEMMA RingSize ==
    /\ Size \in Nat /\ begin = 0 /\ end = Size - 1 /\ usableSize = Size - 1
    /\ end \in Nat /\ end > 0
    /\ Position = 0 .. Size - 1 /\ Cell = 1 .. Size - 1
    BY SizeAssumption DEF begin, end, usableSize, Position, Cell

LEMMA UseRange ==
    ASSUME NEW f \in Position, NEW r \in Position
    PROVE  GetUseSize(f, r) \in 0 .. end
    BY RingSize DEF GetUseSize, Normal

LEMMA MovedRange ==
    ASSUME NEW p \in Position, NEW n \in 0 .. end
    PROVE  /\ Moved(p, n) \in Position
           /\ n > 0 => Moved(p, n) \in Cell
    BY RingSize DEF Moved, Normal

\* Writing n bytes: rear moves over free cells only.
LEMMA UseWritten ==
    ASSUME NEW f \in Position, NEW r \in Position, NEW n \in 0 .. end,
           n <= GetFreeSize(f, r)
    PROVE  GetUseSize(f, Moved(r, n)) = GetUseSize(f, r) + n
    BY RingSize DEF GetUseSize, GetFreeSize, Moved, Normal

\* Reading n bytes.
LEMMA UseRead ==
    ASSUME NEW f \in Position, NEW r \in Position, NEW n \in 0 .. end,
           n <= GetUseSize(f, r)
    PROVE  GetUseSize(Moved(f, n), r) = GetUseSize(f, r) - n
    BY RingSize DEF GetUseSize, Moved, Normal

LEMMA CellsApart ==
    ASSUME NEW p \in Position, NEW i \in 1 .. end, NEW j \in 1 .. end,
           CellAt(p, i) = CellAt(p, j)
    PROVE  i = j
    BY RingSize DEF CellAt, Moved, Normal

LEMMA CellAfter ==
    ASSUME NEW p \in Position, NEW n \in 0 .. end, NEW i \in 1 .. end,
           n + i <= end
    PROVE  CellAt(Moved(p, n), i) = CellAt(p, n + i)
    BY RingSize DEF CellAt, Moved, Normal

\* The cells after rear are those after the bytes in the buffer.
LEMMA CellAfterRear ==
    ASSUME NEW f \in Position, NEW r \in Position, NEW i \in 1 .. end,
           GetUseSize(f, r) + i <= end
    PROVE  CellAt(r, i) = CellAt(f, GetUseSize(f, r) + i)
    BY RingSize DEF CellAt, Moved, Normal, GetUseSize

\* What recvPost says of the free cells.
LEMMA FreeCells ==
    ASSUME NEW f \in Position, NEW r \in Position,
           GetFreeSize(f, r) > 0
    PROVE  /\ GetFreeSize(f, r) \in 1 .. end
           /\ GetUseSize(f, r) + GetFreeSize(f, r) <= end
           /\ DirectEnqueueSize(f, r) \in 1 .. GetFreeSize(f, r)
           /\ GetRearBufferPtr(r) \in Cell
           /\ \A i \in 1 .. DirectEnqueueSize(f, r) :
                  CellAt(r, i) = GetRearBufferPtr(r) + i - 1
           /\ \A i \in 1 .. GetFreeSize(f, r) - DirectEnqueueSize(f, r) :
                  CellAt(r, DirectEnqueueSize(f, r) + i) = GetBeginPtr + i - 1
    BY RingSize DEF GetUseSize, GetFreeSize, DirectEnqueueSize, Moved, Normal,
       CellAt, GetRearBufferPtr, GetBeginPtr

LEMMA FreeCellsRange ==
    ASSUME NEW f \in Position, NEW r \in Position,
           NEW i \in 1 .. GetFreeSize(f, r)
    PROVE  CellAt(r, i) \in Cell
    BY RingSize DEF GetUseSize, GetFreeSize, Moved, Normal, CellAt

\* Which WSABUF the i-th byte of a receive goes to.
LEMMA WriteCell ==
    ASSUME NEW f \in Position, NEW r \in Position, GetFreeSize(f, r) > 0,
           NEW i \in 1 .. GetFreeSize(f, r)
    PROVE  LET c == CellAt(r, i)
               at == GetRearBufferPtr(r)
               len == DirectEnqueueSize(f, r)
           IN  IF i <= len THEN c \in at .. at + len - 1 /\ c - at = i - 1
               ELSE /\ c \notin at .. at + len - 1
                    /\ c \in 1 .. GetFreeSize(f, r) - len /\ len + c = i
    BY RingSize DEF GetUseSize, GetFreeSize, DirectEnqueueSize, Moved, Normal,
       CellAt, GetRearBufferPtr

\* Neither covers a cell in use.
LEMMA KeepCell ==
    ASSUME NEW f \in Position, NEW r \in Position, GetFreeSize(f, r) > 0,
           NEW i \in 1 .. GetUseSize(f, r)
    PROVE  LET c == CellAt(f, i)
               at == GetRearBufferPtr(r)
               len == DirectEnqueueSize(f, r)
           IN  /\ c \in Cell /\ c \notin at .. at + len - 1
               /\ c \notin 1 .. GetFreeSize(f, r) - len
    BY RingSize DEF GetUseSize, GetFreeSize, DirectEnqueueSize, Moved, Normal,
       CellAt, GetRearBufferPtr

-----------------------------------------------------------------------------
(* The inductive invariant.                                                *)

\* What the content is to get of a message.
Handed(m) == IF m.len <= PacketSize - HeaderSize THEN Payload(m) ELSE << >>

\* Messages follow one another without a gap.
MessagesInRow ==
    /\ \A k \in 1 .. Len(messages) : messages[k].first = LastByte(k - 1) + 1
    /\ \A j, k \in 1 .. Len(messages) :
           j < k => LastByte(j) < messages[k].first

\* The content got the packets of the first messages, and all their bytes had
\* arrived.
InOrder ==
    /\ arrived <= LastByte(Len(messages))
    /\ Len(delivered) <= Len(messages)
    /\ \A k \in 1 .. Len(delivered) : delivered[k] = Handed(messages[k])

\* The receive that is pending has all the free cells.
Posted ==
    stage = "posted" =>
        wsabuf = [at |-> GetRearBufferPtr(rear), len |-> DirectSize,
                  more |-> FreeSize - DirectSize]

\* Before a receive there is less than one message of the greatest length
\* (base), and leftByte, though unsigned, tells what came on top of it.
Counted ==
    /\ stage \in {"post", "posted"} => UseSize < HeaderSize + MaxLen
    /\ stage = "loop" =>
           \E base \in 0 .. HeaderSize + MaxLen - 1 :
               \/ leftByte = UseSize - base
               \/ UseSize < base /\ leftByte = UseSize - base + Word

FramingInv ==
    MessagesInRow /\ InOrder /\ Posted /\ Counted /\ BufferIsStream
        /\ CutForAReason
-----------------------------------------------------------------------------
(* Types.                                                                  *)

LEMMA Constants ==
    /\ HeaderSize \in Nat \ {0} /\ MaxLen \in Nat /\ MaxLen > HeaderSize
    /\ PacketSize \in Nat /\ PacketSize >= HeaderSize
    /\ Word \in Nat /\ Word > HeaderSize + MaxLen + Size
    /\ Size > HeaderSize + MaxLen + 1 /\ Lens \subseteq Nat
    /\ Codes \subseteq BOOLEAN
    BY FramingAssumption DEF PacketSize

Message == [first : Nat, len : Lens, code : Codes]

LEMMA MessageType ==
    ASSUME TypeOK, NEW k \in 1 .. Len(messages)
    PROVE  /\ messages[k] \in Message /\ messages[k].first \in Nat
           /\ messages[k].len \in Nat /\ MessageSize(messages[k]) \in Nat
           /\ MessageSize(messages[k]) >= HeaderSize
           /\ LastByte(k) = messages[k].first + MessageSize(messages[k]) - 1
           /\ LastByte(k) \in Nat /\ LastByte(k) >= messages[k].first
<1>1. Len(messages) \in Nat /\ messages[k] \in Message
  <2>1. messages \in Seq(Message)
      BY DEF TypeOK, Message
  <2> QED
      BY <2>1
<1>2. messages[k].first \in Nat /\ messages[k].len \in Nat
    BY <1>1, Constants DEF Message
<1>3. /\ MessageSize(messages[k]) \in Nat
      /\ MessageSize(messages[k]) >= HeaderSize
    BY <1>2, Constants DEF MessageSize
<1>4. k \in Nat /\ k # 0
    BY <1>1
<1>5. LastByte(k) = messages[k].first + MessageSize(messages[k]) - 1
    BY <1>4 DEF LastByte
<1> QED
    BY <1>1, <1>2, <1>3, <1>5, Constants

LEMMA StreamEnds == TypeOK => StreamEnd = LastByte(Len(messages))
                              /\ StreamEnd \in Nat
<1> SUFFICES ASSUME TypeOK PROVE StreamEnd = LastByte(Len(messages))
                                 /\ StreamEnd \in Nat
    OBVIOUS
<1>1. messages \in Seq(Message) /\ Len(messages) \in Nat
    BY DEF TypeOK, Message
<1>2. CASE Len(messages) = 0
    BY <1>2 DEF StreamEnd, LastByte
<1>3. CASE Len(messages) # 0
  <2>1. Len(messages) \in 1 .. Len(messages)
      BY <1>1, <1>3
  <2> QED
      BY <2>1, MessageType DEF StreamEnd
<1> QED
    BY <1>2, <1>3

\* The headers that can be read.
LEMMA HeaderType ==
    ASSUME TypeOK, NEW h \in Header PROVE h.len \in Nat /\ h.code \in BOOLEAN
<1>1. CASE UseSize < HeaderSize
    BY <1>1 DEF Header
<1>2. CASE ~(UseSize < HeaderSize)
  <2> DEFINE read == HeadersAt(Peek(front, buffer, HeaderSize))
  <2>1. ASSUME NEW m \in read PROVE m.len \in Nat /\ m.code \in BOOLEAN
    <3>1. PICK k \in 1 .. Len(messages) : m = messages[k]
        BY DEF HeadersAt
    <3>2. messages[k] \in Message
        BY MessageType
    <3> QED
        BY <3>1, <3>2, Constants DEF Message
  <2> HIDE DEF read
  <2>2. h \in IF read # {}
              THEN {[len |-> m.len, code |-> m.code] : m \in read}
              ELSE [len : Lens, code : BOOLEAN]
      BY <1>2 DEF Header, read
  <2>3. CASE read # {}
    <3>1. PICK m \in read : h = [len |-> m.len, code |-> m.code]
        BY <2>2, <2>3
    <3> QED
        BY <2>1, <3>1
  <2>4. CASE read = {}
      BY <2>2, <2>4, Constants
  <2> QED
      BY <2>3, <2>4
<1> QED
    BY <1>1, <1>2

LEMMA UseType ==
    ASSUME TypeOK
    PROVE  /\ UseSize \in 0 .. end /\ front \in Position /\ rear \in Position
           /\ FreeSize \in Int
<1>1. front \in Position /\ rear \in Position
    BY DEF TypeOK
<1>2. UseSize \in 0 .. end
    BY <1>1, UseRange DEF UseSize
<1> QED
    BY <1>1, <1>2, RingSize DEF UseSize, FreeSize, GetFreeSize

\* Before a receive is posted there is a free cell.
LEMMA RoomLeft ==
    ASSUME TypeOK, Counted, stage \in {"post", "posted"}
    PROVE  FreeSize > 0
    BY UseType, RingSize, Constants
       DEF Counted, FreeSize, GetFreeSize, UseSize

LEMMA PostedType ==
    ASSUME TypeOK, Counted, Posted, stage = "posted"
    PROVE  /\ wsabuf.at = GetRearBufferPtr(rear)
           /\ wsabuf.len \in 1 .. FreeSize
           /\ wsabuf.more = FreeSize - wsabuf.len
           /\ FreeSize \in 1 .. end /\ UseSize + FreeSize <= end
  BY RoomLeft, FreeCells, UseType DEF Posted, FreeSize, UseSize, DirectSize

\* The peer's next bytes, in the cells after rear.
LEMMA WrittenCells ==
    ASSUME TypeOK, Counted, Posted, stage = "posted",
           NEW n \in 1 .. usableSize, n <= wsabuf.len + wsabuf.more
    PROVE  /\ Written(n) \in [Cell -> Nat] /\ n <= FreeSize
           /\ \A i \in 1 .. n : Written(n)[CellAt(rear, i)] = arrived + i
           /\ \A i \in 1 .. UseSize :
                  Written(n)[CellAt(front, i)] = buffer[CellAt(front, i)]
<1>1. PICK at, len, more :
          /\ wsabuf.at = at /\ wsabuf.len = len /\ wsabuf.more = more
          /\ at = GetRearBufferPtr(rear)
          /\ len = DirectEnqueueSize(front, rear)
          /\ more = GetFreeSize(front, rear) - len
    BY DEF Posted, DirectSize, FreeSize
<1>2. GetFreeSize(front, rear) > 0
    BY RoomLeft DEF FreeSize
<1>3. /\ front \in Position /\ rear \in Position /\ arrived \in Nat
      /\ buffer \in [Cell -> Nat]
    BY DEF TypeOK
<1>4. /\ len \in Nat /\ more \in Nat /\ at \in Nat
      /\ n \in 1 .. GetFreeSize(front, rear)
      /\ GetFreeSize(front, rear) \in Nat
    BY <1>1, <1>2, <1>3, FreeCells, RingSize
<1>5. ASSUME NEW c \in Cell
      PROVE  Written(n)[c] =
                 IF c \in at .. at + len - 1 /\ c - at < n
                 THEN arrived + 1 + c - at
                 ELSE IF c \in 1 .. more /\ len + c - 1 < n
                 THEN arrived + 1 + len + c - 1
                 ELSE buffer[c]
  <2>1. Written(n)[c] =
            IF c \in at .. at + len - 1 /\ c - at < n
            THEN arrived + 1 + c - at
            ELSE IF /\ c \in GetBeginPtr .. GetBeginPtr + more - 1
                    /\ len + c - GetBeginPtr < n
            THEN arrived + 1 + len + c - GetBeginPtr
            ELSE buffer[c]
      BY <1>1 DEF Written
  <2>2. GetBeginPtr = 1
      BY DEF GetBeginPtr, begin
  <2>3. 1 + more - 1 = more
      BY <1>4
  <2> QED
      BY <2>1, <2>2, <2>3
<1>6. Written(n) \in [Cell -> Nat]
  <2>1. ASSUME NEW c \in Cell PROVE Written(n)[c] \in Nat
    <3>1. c \in Nat /\ buffer[c] \in Nat /\ n \in Nat
        BY <1>3, RingSize
    <3> QED
        BY <1>3, <1>4, <1>5, <3>1
  <2>2. Written(n) = [c \in Cell |-> Written(n)[c]]
      BY DEF Written
  <2> QED
      BY <2>1, <2>2
<1>7. ASSUME NEW i \in 1 .. n
      PROVE  Written(n)[CellAt(rear, i)] = arrived + i
  <2>0. i \in 1 .. GetFreeSize(front, rear)
      BY <1>4
  <2>1. PICK c \in Cell : c = CellAt(rear, i)
      BY <1>3, <2>0, FreeCellsRange
  <2>2. IF i <= len THEN c \in at .. at + len - 1 /\ c - at = i - 1
        ELSE /\ c \notin at .. at + len - 1 /\ c \in 1 .. more
             /\ len + c = i
      BY <1>1, <1>2, <1>3, <2>0, <2>1, WriteCell
  <2>3. c \in Nat /\ n \in Nat /\ i \in Nat
      BY <1>4, RingSize
  <2>4. CASE i <= len
      BY <1>3, <1>4, <1>5, <2>1, <2>2, <2>3, <2>4
  <2>5. CASE ~(i <= len)
      BY <1>3, <1>4, <1>5, <2>1, <2>2, <2>3, <2>5
  <2> QED
      BY <2>4, <2>5
<1>8. ASSUME NEW i \in 1 .. UseSize
      PROVE  Written(n)[CellAt(front, i)] = buffer[CellAt(front, i)]
  <2>1. PICK c \in Cell : /\ c = CellAt(front, i)
                          /\ c \notin at .. at + len - 1 /\ c \notin 1 .. more
      BY <1>1, <1>2, <1>3, KeepCell DEF UseSize
  <2> QED
      BY <1>5, <2>1
<1> QED
    BY <1>4, <1>6, <1>7, <1>8 DEF FreeSize

\* Arithmetic of a DWORD.
LEMMA Modulus ==
    ASSUME NEW w \in Nat \ {0}, NEW a \in Int, a >= -w, a < w
    PROVE  /\ a % w \in 0 .. w - 1
           /\ a % w = IF a >= 0 THEN a ELSE a + w
<1>1. a >= 0 => a % w = a
    OBVIOUS
<1>2. a < 0 => a % w = a + w
    OBVIOUS
<1> QED
    BY <1>1, <1>2

-----------------------------------------------------------------------------
(* What is in the buffer.                                                  *)

LEMMA ConsumedAt ==
    TypeOK /\ InOrder => /\ Consumed = LastByte(Len(delivered))
                         /\ Consumed \in Nat
<1> SUFFICES ASSUME TypeOK, InOrder
             PROVE  Consumed = LastByte(Len(delivered)) /\ Consumed \in Nat
    OBVIOUS
<1>1. /\ delivered \in Seq(Seq(Nat)) /\ Len(delivered) \in Nat
      /\ Len(messages) \in Nat /\ Len(delivered) <= Len(messages)
    BY DEF TypeOK, InOrder
<1>2. CASE Len(delivered) = 0
    BY <1>2 DEF Consumed, LastByte
<1>3. CASE Len(delivered) # 0
  <2>1. Len(delivered) \in 1 .. Len(messages)
      BY <1>1, <1>3
  <2> QED
      BY <2>1, MessageType DEF Consumed
<1> QED
    BY <1>2, <1>3

\* While there are bytes there is a message they belong to.
LEMMA NextMessage ==
    ASSUME TypeOK, MessagesInRow, InOrder, BufferIsStream, UseSize > 0
    PROVE  /\ Len(delivered) + 1 \in 1 .. Len(messages)
           /\ messages[Len(delivered) + 1].first = Consumed + 1
<1>1. /\ arrived \in Nat /\ Len(delivered) \in Nat /\ Len(messages) \in Nat
      /\ Len(delivered) <= Len(messages)
      /\ arrived <= LastByte(Len(messages))
    BY DEF TypeOK, InOrder
<1>2. /\ Consumed = LastByte(Len(delivered)) /\ Consumed \in Nat
      /\ UseSize = arrived - Consumed
    BY ConsumedAt DEF BufferIsStream
<1>3. CASE Len(delivered) = Len(messages)
  <2>1. arrived <= Consumed
      BY <1>1, <1>2, <1>3
  <2> QED
      BY <1>1, <1>2, <2>1
<1>4. CASE Len(delivered) # Len(messages)
  <2>1. Len(delivered) + 1 \in 1 .. Len(messages)
        /\ (Len(delivered) + 1) - 1 = Len(delivered)
      BY <1>1, <1>4
  <2> QED
      BY <1>2, <2>1 DEF MessagesInRow
<1> QED
    BY <1>3, <1>4

LEMMA Peeked ==
    ASSUME TypeOK, BufferIsStream, NEW n \in 0 .. UseSize
    PROVE  Peek(front, buffer, n) = [i \in 1 .. n |-> Consumed + i]
<1>1. UseSize \in Nat
    BY UseType, RingSize
<1>2. Peek(front, buffer, UseSize) = [i \in 1 .. UseSize |-> Consumed + i]
    BY DEF BufferIsStream
<1>3. ASSUME NEW i \in 1 .. UseSize
      PROVE  buffer[CellAt(front, i)] = Consumed + i
  <2>1. Peek(front, buffer, UseSize)[i] = buffer[CellAt(front, i)]
      BY DEF Peek
  <2> QED
      BY <1>2, <2>1
<1>4. ASSUME NEW i \in 1 .. n PROVE i \in 1 .. UseSize
    BY <1>1
<1> QED
    BY <1>3, <1>4 DEF Peek

\* The header that is read is that of the next message.
LEMMA HeaderRead ==
    ASSUME TypeOK, MessagesInRow, InOrder, BufferIsStream,
           UseSize >= HeaderSize, NEW h \in Header
    PROVE  LET k == Len(delivered) + 1 IN
           /\ k \in 1 .. Len(messages)
           /\ messages[k].first = Consumed + 1
           /\ h.len = messages[k].len /\ h.code = messages[k].code
<1>1. PICK k : k = Len(delivered) + 1
    OBVIOUS
<1>2. /\ UseSize \in Nat /\ HeaderSize \in 1 .. UseSize
      /\ HeaderSize \in 0 .. UseSize
    BY UseType, RingSize, Constants
<1>3. k \in 1 .. Len(messages) /\ messages[k].first = Consumed + 1
    BY <1>1, <1>2, NextMessage
<1>4. Consumed \in Nat /\ Len(messages) \in Nat
    BY ConsumedAt DEF TypeOK
<1>5. Peek(front, buffer, HeaderSize)
          = [i \in 1 .. HeaderSize |-> Consumed + i]
    BY <1>2, Peeked
<1>6. Peek(front, buffer, HeaderSize) = Bytes(messages[k], HeaderSize)
  <2>1. \A i \in 1 .. HeaderSize : Consumed + i = messages[k].first + i - 1
      BY <1>2, <1>3, <1>4
  <2> QED
      BY <1>5, <2>1 DEF Bytes
<1>7. ASSUME NEW j \in 1 .. Len(messages),
             Peek(front, buffer, HeaderSize) = Bytes(messages[j], HeaderSize)
      PROVE  j = k
  <2>1. /\ messages[j].first \in Nat /\ LastByte(j) \in Nat
        /\ LastByte(j) >= messages[j].first
        /\ messages[k].first \in Nat /\ LastByte(k) \in Nat
        /\ LastByte(k) >= messages[k].first
      BY <1>3, MessageType
  <2>2. Bytes(messages[j], HeaderSize)[1] = messages[j].first
      BY <1>2, <2>1 DEF Bytes
  <2>3. Bytes(messages[k], HeaderSize)[1] = messages[k].first
      BY <1>2, <2>1 DEF Bytes
  <2>4. messages[j].first = messages[k].first
      BY <1>6, <1>7, <2>2, <2>3
  <2>5. /\ j < k => LastByte(j) < messages[k].first
        /\ k < j => LastByte(k) < messages[j].first
      BY <1>3 DEF MessagesInRow
  <2> QED
      BY <1>3, <1>4, <2>1, <2>4, <2>5
<1>8. PICK read : read = HeadersAt(Peek(front, buffer, HeaderSize))
    OBVIOUS
<1>9. messages[k] \in read
    BY <1>3, <1>6, <1>8 DEF HeadersAt
<1>10. \A m \in read : m = messages[k]
    BY <1>7, <1>8 DEF HeadersAt
<1>11. h \in {[len |-> m.len, code |-> m.code] : m \in read}
  <2>1. ~(UseSize < HeaderSize)
      BY <1>2
  <2> QED
      BY <1>8, <1>9, <2>1 DEF Header
<1>12. h.len = messages[k].len /\ h.code = messages[k].code
    BY <1>10, <1>11
<1> QED
    BY <1>1, <1>3, <1>12

-----------------------------------------------------------------------------
(* A step preserves the types and the invariant.                           *)

\* The last byte of a message depends on what the peer sent only.
LEMMA SameRow ==
    ASSUME messages' = messages, MessagesInRow
    PROVE  MessagesInRow' /\ \A k : LastByte(k)' = LastByte(k)
<1>1. \A k : LastByte(k)' = LastByte(k)
    BY DEF LastByte, MessageSize
<1> QED
    BY <1>1 DEF MessagesInRow

\* The buffer, and what was taken out of it, are as they were.
LEMMA SameBuffer ==
    ASSUME UNCHANGED <<front, rear, buffer, messages, delivered>>
    PROVE  UseSize' = UseSize /\ Consumed' = Consumed
           /\ Peek(front, buffer, UseSize)' = Peek(front, buffer, UseSize)
           /\ FreeSize' = FreeSize /\ DirectSize' = DirectSize
    BY DEF UseSize, Consumed, LastByte, MessageSize, Peek, FreeSize, DirectSize

LEMMA InitStep == Init => TypeOK /\ FramingInv
<1> SUFFICES ASSUME Init PROVE TypeOK /\ FramingInv
    OBVIOUS
<1>1. front = 0 /\ rear = 0 /\ UseSize = 0 /\ FreeSize = usableSize
      /\ DirectSize = usableSize /\ usableSize \in 1 .. end
    BY RingSize DEF Init, UseSize, FreeSize, GetUseSize, GetFreeSize,
       DirectSize, DirectEnqueueSize
<1>2. TypeOK
  <2>1. front \in Position /\ rear \in Position
      BY <1>1, RingSize
  <2>2. buffer \in [Cell -> Nat]
      BY DEF Init, Stale
  <2>3. wsabuf \in [at : Cell, len : 0 .. usableSize, more : 0 .. usableSize]
    <3>1. GetRearBufferPtr(begin) \in Cell
        BY RingSize DEF GetRearBufferPtr, Normal
    <3>2. DirectEnqueueSize(begin, begin) \in 0 .. usableSize
        BY RingSize DEF DirectEnqueueSize
    <3>3. 0 \in 0 .. usableSize
        BY RingSize
    <3> QED
        BY <3>1, <3>2, <3>3 DEF Init
  <2>4. leftByte \in 0 .. Word - 1 /\ arrived \in Nat
      BY Constants, RingSize DEF Init
  <2>5. /\ messages \in Seq([first : Nat, len : Lens, code : Codes])
        /\ delivered \in Seq(Seq(Nat))
      BY DEF Init
  <2> QED
      BY <2>1, <2>2, <2>3, <2>4, <2>5 DEF TypeOK, Init
<1>3. messages = << >> /\ delivered = << >> /\ arrived = 0 /\ stage = "posted"
      /\ Len(messages) = 0 /\ Len(delivered) = 0
    BY DEF Init
<1>4. MessagesInRow
    BY <1>3 DEF MessagesInRow
<1>5. InOrder
    BY <1>3 DEF InOrder, LastByte
<1>6. Posted
  <2>1. wsabuf = [at |-> GetRearBufferPtr(begin),
                  len |-> DirectEnqueueSize(begin, begin), more |-> 0]
      BY DEF Init
  <2>2. FreeSize - DirectSize = 0 /\ rear = begin /\ front = begin
      BY <1>1, RingSize DEF Init
  <2> QED
      BY <2>1, <2>2 DEF Posted, DirectSize
<1>7. Counted
    BY <1>1, <1>3, Constants DEF Counted
<1>8. BufferIsStream
  <2>1. Consumed = 0
      BY <1>3 DEF Consumed, LastByte
  <2>2. \A i \in 1 .. UseSize : FALSE
      BY <1>1
  <2>3. UseSize = arrived - Consumed
      BY <1>1, <1>3, <2>1
  <2> QED
      BY <2>2, <2>3 DEF BufferIsStream, Peek
<1>9. CutForAReason
    BY <1>3 DEF CutForAReason
<1> QED
    BY <1>2, <1>4, <1>5, <1>6, <1>7, <1>8, <1>9 DEF FramingInv

LEMMA SendStep ==
    ASSUME TypeOK, FramingInv, NEW len \in Lens, NEW code \in Codes,
           PeerSends(len, code)
    PROVE  TypeOK' /\ FramingInv'
<1>1. PICK new : new = [first |-> StreamEnd + 1, len |-> len, code |-> code]
    OBVIOUS
<1>2. StreamEnd \in Nat /\ StreamEnd = LastByte(Len(messages))
    BY StreamEnds
<1>3. /\ new \in Message /\ new.first = StreamEnd + 1
      /\ MessageSize(new) \in Nat
      /\ new.first + MessageSize(new) - 1 > StreamEnd
    BY <1>1, <1>2, Constants DEF Message, MessageSize
<1>4. /\ messages \in Seq(Message) /\ messages' = Append(messages, new)
      /\ UNCHANGED <<front, rear, buffer, wsabuf, leftByte, stage, arrived,
                     delivered>>
    BY <1>1 DEF TypeOK, Message, PeerSends, ring
<1>5. PICK sent \in Nat : sent = Len(messages)
    BY <1>4
<1>6. /\ messages' \in Seq(Message) /\ Len(messages') = sent + 1
      /\ messages'[sent + 1] = new
      /\ \A k \in 1 .. sent : messages'[k] = messages[k]
    BY <1>3, <1>4, <1>5
<1>7. TypeOK'
    BY <1>4, <1>6 DEF TypeOK, Message
<1>8. ASSUME NEW k \in 0 .. sent PROVE LastByte(k)' = LastByte(k)
    BY <1>5, <1>6 DEF LastByte, MessageSize
<1>9. LastByte(sent + 1)' = new.first + MessageSize(new) - 1
    BY <1>5, <1>6 DEF LastByte, MessageSize
<1>10. MessagesInRow'
  <2>1. ASSUME NEW k \in 1 .. sent + 1
        PROVE  messages'[k].first = LastByte(k - 1)' + 1
    <3>1. k - 1 \in 0 .. sent
        BY <1>5
    <3>2. CASE k = sent + 1
        BY <1>2, <1>3, <1>5, <1>6, <1>8, <3>1, <3>2
    <3>3. CASE k # sent + 1
      <4>1. k \in 1 .. sent
          BY <1>5, <3>3
      <4> QED
          BY <1>5, <1>6, <1>8, <3>1, <4>1 DEF FramingInv, MessagesInRow
    <3> QED
        BY <3>2, <3>3
  <2>2. ASSUME NEW j \in 1 .. sent + 1, NEW k \in 1 .. sent + 1, j < k
        PROVE  LastByte(j)' < messages'[k].first
    <3>1. j \in 1 .. sent /\ j \in 0 .. sent
        BY <1>5, <2>2
    <3>2. CASE k = sent + 1
      <4>1. LastByte(j) <= LastByte(sent)
        <5>1. CASE j = sent
            BY <1>2, <1>5, <5>1
        <5>2. CASE j < sent
          <6>1. sent \in 1 .. sent
              BY <1>5, <3>1
          <6>2. LastByte(j) < messages[sent].first
              BY <1>5, <3>1, <5>2, <6>1 DEF FramingInv, MessagesInRow
          <6>3. /\ LastByte(sent) >= messages[sent].first
                /\ messages[sent].first \in Nat /\ LastByte(sent) \in Nat
                /\ LastByte(j) \in Nat
              BY <1>5, <3>1, <6>1, MessageType
          <6> QED
              BY <6>2, <6>3
        <5> QED
            BY <1>5, <3>1, <5>1, <5>2
      <4>2. LastByte(j) \in Nat
          BY <1>5, <3>1, MessageType
      <4> QED
          BY <1>2, <1>3, <1>5, <1>6, <1>8, <3>1, <3>2, <4>1, <4>2
    <3>3. CASE k # sent + 1
      <4>1. k \in 1 .. sent
          BY <1>5, <3>3
      <4>2. LastByte(j) < messages[k].first
          BY <1>5, <2>2, <3>1, <4>1 DEF FramingInv, MessagesInRow
      <4> QED
          BY <1>6, <1>8, <3>1, <4>1, <4>2
    <3> QED
        BY <3>2, <3>3
  <2> QED
      BY <1>6, <2>1, <2>2 DEF MessagesInRow
<1>11. InOrder'
  <2>1. /\ arrived \in Nat /\ arrived <= StreamEnd /\ Len(delivered) <= sent
        /\ Len(delivered) \in Nat
      BY <1>2, <1>5 DEF FramingInv, InOrder, TypeOK
  <2>2. arrived' <= LastByte(Len(messages))'
      BY <1>2, <1>3, <1>4, <1>6, <1>9, <2>1
  <2>3. Len(delivered') <= Len(messages')
      BY <1>4, <1>5, <1>6, <2>1
  <2>4. ASSUME NEW k \in 1 .. Len(delivered')
        PROVE  delivered'[k] = Handed(messages[k])'
    <3>1. k \in 1 .. Len(delivered) /\ k \in 1 .. sent
        BY <1>4, <1>5, <2>1
    <3>2. messages'[k] = messages[k]
        BY <1>6, <3>1
    <3> QED
        BY <1>4, <3>1, <3>2 DEF FramingInv, InOrder, Handed, Payload
  <2> QED
      BY <2>2, <2>3, <2>4 DEF InOrder
<1>12. /\ UseSize' = UseSize /\ Consumed' = Consumed
       /\ Peek(front, buffer, UseSize)' = Peek(front, buffer, UseSize)
       /\ FreeSize' = FreeSize /\ DirectSize' = DirectSize
  <2>1. Len(delivered) \in 0 .. sent
      BY <1>5 DEF FramingInv, InOrder, TypeOK
  <2>2. Consumed' = Consumed
      BY <1>4, <1>8, <2>1 DEF Consumed
  <2> QED
      BY <1>4, <2>2 DEF UseSize, Peek, FreeSize, DirectSize
<1>13. Posted' /\ Counted' /\ BufferIsStream'
    BY <1>4, <1>12 DEF FramingInv, Posted, Counted, BufferIsStream
<1>14. CutForAReason'
  <2>1. SUFFICES ASSUME stage = "cut", ~(UseSize < HeaderSize)
                 PROVE  LET m == messages'[Len(delivered) + 1]
                        IN  ~m.code \/ m.len > MaxLen
      BY <1>4, <1>12 DEF CutForAReason
  <2>2. UseSize > 0
      BY <2>1, UseType, RingSize, Constants
  <2>3. Len(delivered) + 1 \in 1 .. sent
      BY <1>5, <2>2, NextMessage DEF FramingInv
  <2>4. messages'[Len(delivered) + 1] = messages[Len(delivered) + 1]
      BY <1>6, <2>3
  <2> QED
      BY <2>1, <2>4 DEF FramingInv, CutForAReason
<1> QED
    BY <1>7, <1>10, <1>11, <1>13, <1>14 DEF FramingInv

\* The buffer, cell by cell.
LEMMA StreamCells ==
    ASSUME TypeOK, BufferIsStream, NEW i \in 1 .. UseSize
    PROVE  buffer[CellAt(front, i)] = Consumed + i
<1>1. Peek(front, buffer, UseSize)[i] = buffer[CellAt(front, i)]
    BY DEF Peek
<1>2. Peek(front, buffer, UseSize) = [k \in 1 .. UseSize |-> Consumed + k]
    BY DEF BufferIsStream
<1> QED
    BY <1>1, <1>2

LEMMA ReceiveStep ==
    ASSUME TypeOK, FramingInv, NEW n \in 1 .. usableSize, Receive(n)
    PROVE  TypeOK' /\ FramingInv'
<1>1. /\ stage = "posted" /\ n <= wsabuf.len + wsabuf.more
      /\ n <= StreamEnd - arrived
      /\ buffer' = Written(n) /\ rear' = Moved(rear, n)
      /\ arrived' = arrived + n
      /\ leftByte' = n /\ stage' = "loop"
      /\ UNCHANGED <<front, wsabuf, messages, delivered>>
    BY DEF Receive
<1>2. /\ front \in Position /\ rear \in Position /\ arrived \in Nat
      /\ Consumed \in Nat /\ n \in Nat /\ n \in 0 .. end
    BY ConsumedAt, RingSize DEF TypeOK, FramingInv
<1>3. /\ Written(n) \in [Cell -> Nat] /\ n <= FreeSize
      /\ \A i \in 1 .. n : Written(n)[CellAt(rear, i)] = arrived + i
      /\ \A i \in 1 .. UseSize :
             Written(n)[CellAt(front, i)] = buffer[CellAt(front, i)]
    BY <1>1, WrittenCells DEF FramingInv
<1>4. PICK u : u = UseSize
    OBVIOUS
<1>5. u \in 0 .. end /\ u < HeaderSize + MaxLen /\ u + n <= end
      /\ FreeSize \in Nat
    BY <1>1, <1>2, <1>3, <1>4, UseType, PostedType, RingSize
       DEF FramingInv, Counted
<1>6. UseSize' = u + n
    BY <1>1, <1>2, <1>3, <1>4, UseWritten DEF UseSize, FreeSize
<1>7. Consumed' = Consumed
    BY <1>1 DEF Consumed, LastByte, MessageSize
<1>8. TypeOK'
  <2>1. rear' \in Position
      BY <1>1, <1>2, MovedRange
  <2>2. leftByte' \in 0 .. Word - 1
      BY <1>1, <1>2, Constants, RingSize
  <2>3. arrived' \in Nat
      BY <1>1, <1>2
  <2> QED
      BY <1>1, <1>3, <2>1, <2>2, <2>3 DEF TypeOK
<1>9. MessagesInRow' /\ LastByte(Len(messages))' = LastByte(Len(messages))
    BY <1>1, SameRow DEF FramingInv
<1>10. InOrder'
  <2>1. arrived' <= LastByte(Len(messages))'
      BY <1>1, <1>2, <1>9, StreamEnds
  <2> QED
      BY <1>1, <2>1 DEF FramingInv, InOrder, Handed, Payload
<1>11. BufferIsStream'
  <2>1. UseSize' = arrived' - Consumed'
      BY <1>1, <1>2, <1>4, <1>5, <1>6, <1>7 DEF FramingInv, BufferIsStream
  <2>2. ASSUME NEW i \in 1 .. u + n
        PROVE  buffer'[CellAt(front, i)] = Consumed + i
    <3>1. CASE i <= u
      <4>1. i \in 1 .. UseSize
          BY <1>4, <1>5, <3>1
      <4> QED
          BY <1>1, <1>3, <4>1, StreamCells DEF FramingInv
    <3>2. CASE ~(i <= u)
      <4>1. PICK j \in 1 .. n : i = u + j
        <5>1. i - u \in 1 .. n /\ i = u + (i - u)
            BY <1>2, <1>5, <3>2
        <5> QED
            BY <5>1
      <4>2. j \in 1 .. end /\ u + j <= end
          BY <1>2, <1>5, RingSize
      <4>3. CellAt(rear, j) = CellAt(front, u + j)
          BY <1>2, <1>4, <4>2, CellAfterRear DEF UseSize
      <4>4. u = arrived - Consumed
          BY <1>4 DEF FramingInv, BufferIsStream
      <4> QED
          BY <1>1, <1>2, <1>3, <1>5, <4>1, <4>3, <4>4
    <3> QED
        BY <3>1, <3>2
  <2>3. Peek(front, buffer, UseSize)' = [i \in 1 .. u + n |-> Consumed + i]
      BY <1>1, <1>6, <2>2 DEF Peek
  <2> QED
      BY <1>6, <1>7, <2>1, <2>3 DEF BufferIsStream
<1>12. Counted'
  <2>1. u \in 0 .. HeaderSize + MaxLen - 1
      BY <1>5, Constants, RingSize
  <2>2. leftByte' = UseSize' - u
      BY <1>1, <1>2, <1>5, <1>6, RingSize
  <2> QED
      BY <1>1, <2>1, <2>2 DEF Counted
<1>13. Posted' /\ CutForAReason'
    BY <1>1 DEF Posted, CutForAReason
<1> QED
    BY <1>8, <1>9, <1>10, <1>11, <1>12, <1>13 DEF FramingInv

\* When the loop ends nothing but its stage changes.
LEMMA LoopEnds ==
    ASSUME TypeOK, FramingInv,
           UNCHANGED <<ring, wsabuf, leftByte, peer, delivered>>,
           \/ stage' = "post" /\ UseSize < HeaderSize + MaxLen
           \/ stage' = "cut" /\ CutForAReason'
           \/ stage' = "crashed"
    PROVE  TypeOK' /\ FramingInv'
<1>1. /\ UNCHANGED <<front, rear, buffer, wsabuf, leftByte, messages, arrived,
                     delivered>>
      /\ stage' \in {"post", "cut", "crashed"}
    BY DEF ring, peer
<1>2. /\ UseSize' = UseSize /\ Consumed' = Consumed
      /\ Peek(front, buffer, UseSize)' = Peek(front, buffer, UseSize)
    BY <1>1, SameBuffer
<1>3. TypeOK'
    BY <1>1 DEF TypeOK
<1>4. MessagesInRow' /\ LastByte(Len(messages))' = LastByte(Len(messages))
    BY <1>1, SameRow DEF FramingInv
<1>5. InOrder'
    BY <1>1, <1>4 DEF FramingInv, InOrder, Handed, Payload
<1>6. BufferIsStream'
    BY <1>1, <1>2 DEF FramingInv, BufferIsStream
<1>7. Posted' /\ Counted' /\ CutForAReason'
    BY <1>1, <1>2 DEF Posted, Counted, CutForAReason
<1> QED
    BY <1>3, <1>4, <1>5, <1>6, <1>7 DEF FramingInv

\* leftByte is 0 only with what was there before the receive.
LEMMA DrainedStep ==
    ASSUME TypeOK, FramingInv, Drained PROVE TypeOK' /\ FramingInv'
<1>1. PICK base \in 0 .. HeaderSize + MaxLen - 1 :
          \/ leftByte = UseSize - base
          \/ UseSize < base /\ leftByte = UseSize - base + Word
    BY DEF Drained, FramingInv, Counted
<1>2. leftByte = 0 /\ UseSize \in Nat
    BY UseType, RingSize DEF Drained
<1>3. UseSize < HeaderSize + MaxLen
    BY <1>1, <1>2, Constants, RingSize
<1> QED
    BY <1>3, LoopEnds DEF Drained

LEMMA MalformedStep ==
    ASSUME TypeOK, FramingInv, NEW h \in Header, Malformed(h)
    PROVE  TypeOK' /\ FramingInv'
<1>1. UNCHANGED <<ring, wsabuf, leftByte, peer, delivered>> /\ stage' = "cut"
    BY DEF Malformed
<1>2. UNCHANGED <<front, rear, messages, delivered>>
    BY <1>1 DEF ring, peer
<1>3. UseSize' = UseSize
    BY <1>2 DEF UseSize
<1>4. CASE UseSize < HeaderSize
  <2>1. CutForAReason'
      BY <1>3, <1>4 DEF CutForAReason
  <2> QED
      BY <1>1, <2>1, LoopEnds
<1>5. CASE ~(UseSize < HeaderSize)
  <2>1. UseSize >= HeaderSize
      BY <1>5, UseType, RingSize, Constants
  <2>2. LET m == messages[Len(delivered) + 1]
        IN  h.len = m.len /\ h.code = m.code
      BY <2>1, HeaderRead DEF FramingInv
  <2>3. CutForAReason'
      BY <1>2, <2>2 DEF CutForAReason, Malformed
  <2> QED
      BY <1>1, <2>3, LoopEnds
<1> QED
    BY <1>4, <1>5

LEMMA IncompleteStep ==
    ASSUME TypeOK, FramingInv, NEW h \in Header, Incomplete(h)
    PROVE  TypeOK' /\ FramingInv'
<1>1. /\ h.len <= MaxLen /\ h.len + HeaderSize > UseSize
      /\ stage' = "post"
      /\ UNCHANGED <<ring, wsabuf, leftByte, peer, delivered>>
    BY DEF Incomplete
<1>2. UseSize < HeaderSize + MaxLen
    BY <1>1, HeaderType, UseType, RingSize, Constants
<1> QED
    BY <1>1, <1>2, LoopEnds

LEMMA OverrunStep ==
    ASSUME TypeOK, FramingInv, NEW h \in Header, Overrun(h)
    PROVE  TypeOK' /\ FramingInv'
    BY LoopEnds DEF Overrun

\* A message is dequeued: it is the next one, whole, and the content can read
\* all of it or nothing.
LEMMA Dequeued ==
    ASSUME TypeOK, FramingInv, NEW h \in Header, OnRecv(h)
    PROVE  LET k == Len(delivered) + 1
               n == MessageSize(messages[k])
           IN  /\ k \in 1 .. Len(messages)
               /\ n = h.len + HeaderSize /\ n \in 1 .. UseSize
               /\ messages[k].first = Consumed + 1
               /\ LastByte(k) = Consumed + n
               /\ messages[k].len \in Nat /\ Readable(n) = Handed(messages[k])
<1>1. PICK k, n : k = Len(delivered) + 1 /\ n = MessageSize(messages[k])
    OBVIOUS
<1>2. h.len \in Nat /\ h.len + HeaderSize <= UseSize /\ UseSize \in Nat
    BY HeaderType, UseType, RingSize DEF OnRecv
<1>3. UseSize >= HeaderSize
    BY <1>2, Constants
<1>4. /\ k \in 1 .. Len(messages) /\ messages[k].first = Consumed + 1
      /\ h.len = messages[k].len
    BY <1>1, <1>3, HeaderRead DEF FramingInv
<1>5. n = h.len + HeaderSize
    BY <1>1, <1>2, <1>4, Constants DEF MessageSize
<1>6. n \in 1 .. UseSize /\ n \in 0 .. UseSize
    BY <1>2, <1>5, Constants
<1>7. Consumed \in Nat
    BY ConsumedAt DEF FramingInv
<1>8. LastByte(k) = Consumed + n
    BY <1>1, <1>4, <1>6, <1>7, MessageType
<1>9. Peek(front, buffer, n) = Bytes(messages[k], n)
  <2>1. Peek(front, buffer, n) = [i \in 1 .. n |-> Consumed + i]
      BY <1>6, Peeked DEF FramingInv
  <2>2. \A i \in 1 .. n : Consumed + i = messages[k].first + i - 1
      BY <1>4, <1>6, <1>7
  <2> QED
      BY <2>1, <2>2 DEF Bytes
<1>10. Readable(n) = Handed(messages[k])
  <2>1. PICK len \in Nat : len = messages[k].len /\ n = len + HeaderSize
      BY <1>2, <1>4, <1>5
  <2>2. HeaderSize \in Nat /\ PacketSize \in Nat /\ n \in Nat
        /\ messages[k].first \in Nat
    <3>1. messages[k].first \in Nat
        BY <1>4, MessageType
    <3> QED
        BY <2>1, <3>1, Constants
  <2>3. n - HeaderSize = len /\ (n <= PacketSize <=> len <= PacketSize - HeaderSize)
      BY <2>1, <2>2
  <2>4. ASSUME NEW i \in 1 .. len
        PROVE  Peek(front, buffer, n)[HeaderSize + i]
                   = messages[k].first + HeaderSize + i - 1
    <3>1. HeaderSize + i \in 1 .. n
        BY <2>1, <2>2
    <3>2. Bytes(messages[k], n)[HeaderSize + i]
              = messages[k].first + (HeaderSize + i) - 1
        BY <3>1 DEF Bytes
    <3> QED
        BY <1>9, <2>2, <3>2
  <2>5. [i \in 1 .. len |-> Peek(front, buffer, n)[HeaderSize + i]]
            = Payload(messages[k])
      BY <2>1, <2>4 DEF Payload
  <2> QED
      BY <2>1, <2>3, <2>5 DEF Readable, Handed
<1> QED
    BY <1>1, <1>2, <1>4, <1>5, <1>6, <1>8, <1>10

\* leftByte, which may pass below 0.
LEMMA LeftByte ==
    ASSUME TypeOK, NEW u \in 0 .. end, NEW n \in 1 .. u,
           NEW base \in 0 .. HeaderSize + MaxLen - 1,
           \/ leftByte = u - base
           \/ u < base /\ leftByte = u - base + Word
    PROVE  /\ (leftByte - n) % Word \in 0 .. Word - 1
           /\ \/ (leftByte - n) % Word = u - n - base
              \/ /\ u - n < base
                 /\ (leftByte - n) % Word = u - n - base + Word
<1>1. /\ u \in Nat /\ n \in Nat /\ base \in Nat /\ n > 0 /\ n <= u
      /\ Word \in Nat \ {0} /\ base < Word /\ u < Word
    BY Constants, RingSize
<1>2. PICK left : left = leftByte - n
    OBVIOUS
<1>3. /\ left \in Int /\ left >= -Word /\ left < Word
      /\ \/ left = u - n - base
         \/ left = u - n - base + Word /\ left >= 0 /\ u - n < base
    BY <1>1, <1>2
<1>4. /\ left % Word \in 0 .. Word - 1
      /\ left % Word = IF left >= 0 THEN left ELSE left + Word
    BY <1>1, <1>3, Modulus
<1> QED
    BY <1>1, <1>2, <1>3, <1>4

LEMMA OnRecvStep ==
    ASSUME TypeOK, FramingInv, NEW h \in Header, OnRecv(h)
    PROVE  TypeOK' /\ FramingInv'
<1>1. PICK k, n, u : /\ k = Len(delivered) + 1 /\ u = UseSize
                     /\ n = MessageSize(messages[k])
    OBVIOUS
<1>2. /\ k \in 1 .. Len(messages) /\ n = h.len + HeaderSize /\ n \in 1 .. u
      /\ messages[k].first = Consumed + 1 /\ LastByte(k) = Consumed + n
      /\ messages[k].len \in Nat /\ Readable(n) = Handed(messages[k])
    BY <1>1, Dequeued
<1>3. /\ stage = "loop" /\ front' = Moved(front, n)
      /\ delivered' = Append(delivered, Handed(messages[k]))
      /\ leftByte' = (leftByte - n) % Word
      /\ UNCHANGED <<rear, buffer, wsabuf, stage, messages, arrived>>
    BY <1>2 DEF OnRecv, peer
<1>4. /\ front \in Position /\ rear \in Position /\ arrived \in Nat
      /\ Consumed \in Nat /\ u \in 0 .. end /\ end \in Nat
      /\ delivered \in Seq(Seq(Nat)) /\ Len(delivered) \in Nat
      /\ Len(messages) \in Nat /\ messages[k].first \in Nat
  <2>1. /\ front \in Position /\ rear \in Position /\ arrived \in Nat
        /\ delivered \in Seq(Seq(Nat)) /\ Len(delivered) \in Nat
        /\ Len(messages) \in Nat
      BY DEF TypeOK
  <2>2. Consumed \in Nat /\ u \in 0 .. end /\ end \in Nat
      BY <1>1, ConsumedAt, UseType, RingSize DEF FramingInv
  <2>3. messages[k].first \in Nat
      BY <1>2, MessageType
  <2> QED
      BY <2>1, <2>2, <2>3
<1>5. n \in Nat /\ n \in 0 .. end /\ n <= u
    BY <1>2, <1>4
<1>6. UseSize' = u - n
    BY <1>1, <1>3, <1>4, <1>5, UseRead DEF UseSize
<1>7. PICK message : message = Handed(messages[k])
    OBVIOUS
<1>8. message \in Seq(Nat)
  <2>1. \A i \in 1 .. messages[k].len :
            messages[k].first + HeaderSize + i - 1 \in Nat
      BY <1>2, <1>4, Constants
  <2>2. Payload(messages[k]) \in Seq(Nat)
      BY <1>2, <2>1 DEF Payload
  <2> QED
      BY <1>7, <2>2 DEF Handed
<1>9. /\ delivered' \in Seq(Seq(Nat)) /\ Len(delivered') = k
      /\ delivered'[k] = message
      /\ \A i \in 1 .. k - 1 : delivered'[i] = delivered[i]
    BY <1>1, <1>3, <1>4, <1>7, <1>8
<1>10. PICK base \in 0 .. HeaderSize + MaxLen - 1 :
           \/ leftByte = u - base
           \/ u < base /\ leftByte = u - base + Word
    BY <1>1, <1>3 DEF FramingInv, Counted
<1>11. /\ leftByte' \in 0 .. Word - 1
       /\ \/ leftByte' = UseSize' - base
          \/ UseSize' < base /\ leftByte' = UseSize' - base + Word
    BY <1>2, <1>3, <1>4, <1>6, <1>10, LeftByte
<1>12. TypeOK'
  <2>1. front' \in Position
      BY <1>3, <1>4, <1>5, MovedRange
  <2> QED
      BY <1>3, <1>9, <1>11, <2>1 DEF TypeOK
<1>13. MessagesInRow' /\ \A i : LastByte(i)' = LastByte(i)
    BY <1>3, SameRow DEF FramingInv
<1>14. InOrder'
  <2>1. arrived' <= LastByte(Len(messages))'
      BY <1>3, <1>13 DEF FramingInv, InOrder
  <2>2. ASSUME NEW i \in 1 .. k
        PROVE  delivered'[i] = Handed(messages[i])
    <3>1. CASE i = k
        BY <1>1, <1>7, <1>9, <3>1
    <3>2. CASE i # k
      <4>1. i \in 1 .. k - 1 /\ i \in 1 .. Len(delivered)
          BY <1>1, <1>4, <3>2
      <4> QED
          BY <1>9, <4>1 DEF FramingInv, InOrder
    <3> QED
        BY <3>1, <3>2
  <2>3. Len(delivered') <= Len(messages')
      BY <1>2, <1>3, <1>4, <1>9
  <2>4. ASSUME NEW i \in 1 .. Len(delivered')
        PROVE  delivered'[i] = Handed(messages[i])'
    <3>1. Handed(messages[i])' = Handed(messages[i])
        BY <1>3 DEF Handed, Payload
    <3> QED
        BY <1>9, <2>2, <3>1
  <2> QED
      BY <2>1, <2>3, <2>4 DEF InOrder
<1>15. Consumed' = Consumed + n
  <2>1. Consumed' = LastByte(Len(delivered))'
      BY DEF Consumed
  <2>2. LastByte(Len(delivered))' = LastByte(k)
      BY <1>3, <1>9 DEF LastByte, MessageSize
  <2> QED
      BY <1>2, <2>1, <2>2
<1>16. BufferIsStream'
  <2>1. UseSize' = arrived' - Consumed'
      BY <1>1, <1>3, <1>4, <1>5, <1>6, <1>15 DEF FramingInv, BufferIsStream
  <2>2. ASSUME NEW i \in 1 .. u - n
        PROVE  buffer'[CellAt(front', i)] = Consumed' + i
    <3>1. i \in 1 .. end /\ n + i <= end /\ n + i \in 1 .. UseSize
        BY <1>1, <1>4, <1>5
    <3>2. CellAt(front', i) = CellAt(front, n + i)
        BY <1>3, <1>4, <1>5, <3>1, CellAfter
    <3>3. buffer[CellAt(front, n + i)] = Consumed + (n + i)
        BY <3>1, StreamCells DEF FramingInv
    <3> QED
        BY <1>3, <1>4, <1>5, <1>15, <3>1, <3>2, <3>3
  <2>3. Peek(front, buffer, UseSize)' = [i \in 1 .. u - n |-> Consumed' + i]
      BY <1>6, <2>2 DEF Peek
  <2> QED
      BY <1>6, <2>1, <2>3 DEF BufferIsStream
<1>17. Counted'
    BY <1>3, <1>11 DEF Counted
<1>18. Posted' /\ CutForAReason'
    BY <1>3 DEF Posted, CutForAReason
<1> QED
    BY <1>12, <1>13, <1>14, <1>16, <1>17, <1>18 DEF FramingInv

LEMMA RecvPostStep ==
    ASSUME TypeOK, FramingInv, RecvPost PROVE TypeOK' /\ FramingInv'
<1>1. PICK direct, free : direct = DirectSize /\ free = FreeSize
    OBVIOUS
<1>2. /\ stage = "post" /\ stage' = "posted"
      /\ wsabuf' = [at |-> GetRearBufferPtr(rear), len |-> direct,
                    more |-> IF direct < free THEN free - direct ELSE 0]
      /\ UNCHANGED <<front, rear, buffer, leftByte, messages, arrived,
                     delivered>>
    BY <1>1 DEF RecvPost, ring, peer
<1>3. free > 0 /\ front \in Position /\ rear \in Position
    BY <1>1, <1>2, RoomLeft DEF FramingInv, TypeOK
<1>4. /\ free \in 1 .. end /\ direct \in 1 .. free
      /\ GetRearBufferPtr(rear) \in Cell
    BY <1>1, <1>3, FreeCells DEF FreeSize, DirectSize
<1>5. wsabuf' = [at |-> GetRearBufferPtr(rear), len |-> direct,
                 more |-> free - direct]
    BY <1>2, <1>4, RingSize
<1>6. /\ UseSize' = UseSize /\ Consumed' = Consumed
      /\ Peek(front, buffer, UseSize)' = Peek(front, buffer, UseSize)
      /\ FreeSize' = FreeSize /\ DirectSize' = DirectSize
    BY <1>2, SameBuffer
<1>7. TypeOK'
  <2>1. direct \in 0 .. usableSize /\ free - direct \in 0 .. usableSize
      BY <1>4, RingSize
  <2>2. wsabuf' \in [at : Cell, len : 0 .. usableSize, more : 0 .. usableSize]
      BY <1>4, <1>5, <2>1
  <2> QED
      BY <1>2, <2>2 DEF TypeOK
<1>8. MessagesInRow' /\ LastByte(Len(messages))' = LastByte(Len(messages))
    BY <1>2, SameRow DEF FramingInv
<1>9. InOrder'
    BY <1>2, <1>8 DEF FramingInv, InOrder, Handed, Payload
<1>10. BufferIsStream' /\ Counted' /\ CutForAReason'
    BY <1>2, <1>6 DEF FramingInv, BufferIsStream, Counted, CutForAReason
<1>11. Posted'
    BY <1>1, <1>2, <1>5, <1>6 DEF Posted
<1> QED
    BY <1>7, <1>8, <1>9, <1>10, <1>11 DEF FramingInv

LEMMA FramingStep ==
    ASSUME TypeOK, FramingInv, [Next]_vars PROVE TypeOK' /\ FramingInv'
<1>1. CASE UNCHANGED vars
  <2>1. /\ UNCHANGED <<front, rear, buffer, wsabuf, leftByte, stage, messages,
                       arrived, delivered>>
      BY <1>1 DEF vars, ring, peer
  <2>2. /\ UseSize' = UseSize /\ Consumed' = Consumed
        /\ Peek(front, buffer, UseSize)' = Peek(front, buffer, UseSize)
        /\ FreeSize' = FreeSize /\ DirectSize' = DirectSize
      BY <2>1, SameBuffer
  <2>3. MessagesInRow' /\ LastByte(Len(messages))' = LastByte(Len(messages))
      BY <2>1, SameRow DEF FramingInv
  <2>4. InOrder'
      BY <2>1, <2>3 DEF FramingInv, InOrder, Handed, Payload
  <2>5. TypeOK'
      BY <2>1 DEF TypeOK
  <2>6. BufferIsStream' /\ Counted' /\ CutForAReason' /\ Posted'
      BY <2>1, <2>2 DEF FramingInv, BufferIsStream, Counted, CutForAReason,
         Posted
  <2> QED
      BY <2>3, <2>4, <2>5, <2>6 DEF FramingInv
<1>2. CASE \E len \in Lens, code \in Codes : PeerSends(len, code)
    BY <1>2, SendStep
<1>3. CASE \E n \in 1 .. usableSize : Receive(n)
    BY <1>3, ReceiveStep
<1>4. CASE Parse
  <2>1. CASE Drained
      BY <2>1, DrainedStep
  <2>2. ASSUME NEW h \in Header,
               Malformed(h) \/ Incomplete(h) \/ OnRecv(h) \/ Overrun(h)
        PROVE  TypeOK' /\ FramingInv'
      BY <2>2, MalformedStep, IncompleteStep, OnRecvStep, OverrunStep
  <2> QED
      BY <1>4, <2>1, <2>2 DEF Parse
<1>5. CASE RecvPost
    BY <1>5, RecvPostStep
<1> QED
    BY <1>1, <1>2, <1>3, <1>4, <1>5 DEF Next

-----------------------------------------------------------------------------
(* The theorems.                                                           *)

\* The pointers stay inside the allocation, what the WSABUFs describe too,
\* and leftByte is a DWORD, whatever it is decremented by.
THEOREM FramingTypes == Spec => []TypeOK
<1>1. TypeOK /\ FramingInv /\ [Next]_vars => (TypeOK /\ FramingInv)'
    BY FramingStep
<1> QED
    BY <1>1, InitStep, PTL DEF Spec

THEOREM FramingInvariant == Spec => []FramingInv
<1>1. TypeOK /\ FramingInv /\ [Next]_vars => (TypeOK /\ FramingInv)'
    BY FramingStep
<1> QED
    BY <1>1, InitStep, PTL DEF Spec

\* No byte is lost, doubled or overwritten between the socket and OnRecv,
\* wherever the pointers of the ring buffer wrap.
THEOREM BufferHoldsStream == Spec => []BufferIsStream
<1>1. FramingInv => BufferIsStream
    BY DEF FramingInv
<1> QED
    BY <1>1, FramingInvariant, PTL

\* A peer is cut by the loop for the code or the length of the message that
\* is next, or because no header had been read.
THEOREM CutHasReason == Spec => []CutForAReason
<1>1. FramingInv => CutForAReason
    BY DEF FramingInv
<1> QED
    BY <1>1, FramingInvariant, PTL

\* The cells of the two WSABUFs.
LEMMA TargetCells ==
    ASSUME NEW f \in Position, NEW r \in Position, GetFreeSize(f, r) > 0
    PROVE  LET at == GetRearBufferPtr(r)
               len == DirectEnqueueSize(f, r)
               more == GetFreeSize(f, r) - len
           IN  /\ at \in at .. at + len - 1
               /\ at .. at + len - 1 \subseteq Cell
               /\ GetBeginPtr .. GetBeginPtr + more - 1 \subseteq Cell
               /\ \A c \in at .. at + len - 1 :
                      c \notin GetBeginPtr .. GetBeginPtr + more - 1
    BY RingSize DEF GetUseSize, GetFreeSize, DirectEnqueueSize, Moved, Normal,
       GetRearBufferPtr, GetBeginPtr

\* What recvPost gives the kernel is free, is not nothing, and does not
\* overlap itself.
THEOREM ReceiveHasRoom == Spec => []RoomToReceive
<1>1. ASSUME TypeOK, FramingInv PROVE RoomToReceive
  <2>1. stage \in {"post", "posted"} => UseSize < HeaderSize + MaxLen
      BY <1>1 DEF FramingInv, Counted
  <2>2. ASSUME stage = "posted"
        PROVE  LET target == wsabuf.at .. wsabuf.at + wsabuf.len - 1
                   wrapped == GetBeginPtr .. GetBeginPtr + wsabuf.more - 1
               IN  /\ target # {} /\ target \cup wrapped \subseteq Cell
                   /\ target \cap wrapped = {}
                   /\ (target \cup wrapped)
                          \cap {CellAt(front, i) : i \in 1 .. UseSize} = {}
    <3>1. PICK at, len, more :
              /\ wsabuf.at = at /\ wsabuf.len = len /\ wsabuf.more = more
              /\ at = GetRearBufferPtr(rear)
              /\ len = DirectEnqueueSize(front, rear)
              /\ more = GetFreeSize(front, rear) - len
        BY <1>1, <2>2 DEF FramingInv, Posted, DirectSize, FreeSize
    <3>2. /\ GetFreeSize(front, rear) > 0 /\ front \in Position
          /\ rear \in Position
        BY <1>1, <2>2, RoomLeft DEF FreeSize, FramingInv, TypeOK
    <3>3. PICK target, wrapped :
              /\ target = at .. at + len - 1
              /\ wrapped = GetBeginPtr .. GetBeginPtr + more - 1
        OBVIOUS
    <3>4. /\ at \in target /\ target \subseteq Cell /\ wrapped \subseteq Cell
          /\ \A c \in target : c \notin wrapped
        BY <3>1, <3>2, <3>3, TargetCells
    <3>5. ASSUME NEW i \in 1 .. UseSize
          PROVE  CellAt(front, i) \notin target \cup wrapped
      <4>1. /\ CellAt(front, i) \notin at .. at + len - 1
            /\ CellAt(front, i) \notin 1 .. more
          BY <3>1, <3>2, KeepCell DEF UseSize
      <4>2. wrapped = 1 .. more
        <5>1. more \in Int
            BY <3>1, <3>2, FreeCells
        <5> QED
            BY <3>3, <5>1 DEF GetBeginPtr, begin
      <4> QED
          BY <3>3, <4>1, <4>2
    <3>6. /\ target # {} /\ target \cup wrapped \subseteq Cell
          /\ target \cap wrapped = {}
          /\ (target \cup wrapped)
                 \cap {CellAt(front, i) : i \in 1 .. UseSize} = {}
        BY <3>4, <3>5
    <3> QED
        BY <3>1, <3>3, <3>6
  <2> QED
      BY <2>1, <2>2 DEF RoomToReceive
<1> QED
    BY <1>1, FramingTypes, FramingInvariant, PTL

-----------------------------------------------------------------------------
(* The stream of messages.                                                 *)

Sent == [k \in 1 .. Len(messages) |-> Payload(messages[k])]

LEMMA StreamInit == Init => Stream!Init
<1> SUFFICES ASSUME Init PROVE Stream!Init
    OBVIOUS
<1>1. Len(messages) = 0 /\ delivered = << >>
    BY DEF Init
<1>2. Sent = << >>
    BY <1>1 DEF Sent
<1> QED
    BY <1>1, <1>2 DEF Stream!Init, Sent

\* The stream sees what was sent and what was delivered only.
LEMMA StreamStutters ==
    ASSUME UNCHANGED <<messages, delivered>>
    PROVE  UNCHANGED <<Sent, delivered>>
    BY DEF Sent, Payload

LEMMA StreamSend ==
    ASSUME TypeOK, NEW len \in Lens, NEW code \in Codes, PeerSends(len, code)
    PROVE  Stream!Send
<1>1. PICK new : new = [first |-> StreamEnd + 1, len |-> len, code |-> code]
    OBVIOUS
<1>2. new \in Message
    BY <1>1, StreamEnds DEF Message
<1>3. /\ messages \in Seq(Message) /\ messages' = Append(messages, new)
      /\ delivered' = delivered
    BY <1>1 DEF TypeOK, Message, PeerSends
<1>4. PICK n \in Nat : n = Len(messages)
    BY <1>3
<1>5. /\ Len(messages') = n + 1
      /\ \A k \in 1 .. n : messages'[k] = messages[k]
    BY <1>2, <1>3, <1>4
<1>6. PICK before, after : before = Sent /\ after = Sent'
    OBVIOUS
<1>7. before = [k \in 1 .. n |-> Payload(messages[k])]
    BY <1>4, <1>6 DEF Sent
<1>8. after = [k \in 1 .. n + 1 |-> Payload(messages'[k])]
    BY <1>5, <1>6 DEF Sent, Payload
<1>9. \A k \in 1 .. n : after[k] = before[k]
    BY <1>4, <1>5, <1>7, <1>8
<1>10. /\ Len(before) = n /\ Len(after) = n + 1
       /\ SubSeq(before, 1, n) = SubSeq(after, 1, n)
  <2>1. Len(before) = n /\ Len(after) = n + 1
      BY <1>4, <1>7, <1>8
  <2>2. PICK S : S = {after[k] : k \in 1 .. n + 1}
      OBVIOUS
  <2>3. before \in Seq(S) /\ after \in Seq(S)
    <3>1. \A k \in 1 .. n : k \in 1 .. n + 1
        BY <1>4
    <3>2. before \in [1 .. n -> S] /\ after \in [1 .. n + 1 -> S]
        BY <1>7, <1>8, <1>9, <2>2, <3>1
    <3> QED
        BY <1>4, <3>2
  <2>4. SubSeq(before, 1, n) = SubSeq(after, 1, n)
      BY <1>4, <1>9, <2>1, <2>3
  <2> QED
      BY <2>1, <2>4
<1>11. before # after /\ Len(before) <= Len(after)
       /\ SubSeq(before, 1, Len(before)) = SubSeq(after, 1, Len(before))
    BY <1>4, <1>10
<1>12. Stream!IsStrictPrefix(before, after)
    BY <1>11 DEF Stream!IsStrictPrefix, Stream!IsPrefix
<1> QED
    BY <1>3, <1>6, <1>12 DEF Stream!Send, Sent

LEMMA StreamReceive ==
    ASSUME TypeOK, FramingInv, NEW h \in Header, OnRecv(h)
    PROVE  Stream!Receive
<1>1. PICK k, n : k = Len(delivered) + 1 /\ n = MessageSize(messages[k])
    OBVIOUS
<1>2. /\ k \in 1 .. Len(messages) /\ n = h.len + HeaderSize
      /\ messages[k].len \in Nat /\ Readable(n) = Handed(messages[k])
    BY <1>1, Dequeued
<1>3. /\ delivered' = Append(delivered, Handed(messages[k]))
      /\ messages' = messages
    BY <1>2 DEF OnRecv, peer
<1>4. Len(messages) \in Nat /\ Len(delivered) \in Nat
    BY DEF TypeOK
<1>5. /\ Len(Sent) = Len(messages) /\ Sent[k] = Payload(messages[k])
      /\ Sent' = Sent
    BY <1>1, <1>2, <1>3, <1>4 DEF Sent, Payload
<1>6. Len(Payload(messages[k])) = messages[k].len
    BY <1>2 DEF Payload
<1>7. Stream!Given(Sent[k]) = Handed(messages[k])
    BY <1>5, <1>6 DEF Stream!Given, Handed
<1>8. /\ Len(delivered) < Len(Sent) /\ Sent' = Sent
      /\ delivered' = Append(delivered, Stream!Given(Sent[Len(delivered) + 1]))
    BY <1>1, <1>2, <1>3, <1>4, <1>5, <1>7
<1> QED
    BY <1>8 DEF Stream!Receive, Sent

LEMMA StreamStep ==
    ASSUME TypeOK, FramingInv, [Next]_vars
    PROVE  [Stream!Send \/ Stream!Receive]_<<Sent, delivered>>
<1>1. CASE \E len \in Lens, code \in Codes : PeerSends(len, code)
    BY <1>1, StreamSend
<1>2. CASE \E h \in Header : OnRecv(h)
    BY <1>2, StreamReceive
<1>3. ASSUME ~ \E len \in Lens, code \in Codes : PeerSends(len, code),
             ~ \E h \in Header : OnRecv(h)
      PROVE  UNCHANGED <<messages, delivered>>
  <2>1. CASE UNCHANGED vars
      BY <2>1 DEF vars, peer
  <2>2. CASE \E n \in 1 .. usableSize : Receive(n)
      BY <2>2 DEF Receive
  <2>3. CASE Parse
    <3>1. CASE Drained
        BY <3>1 DEF Drained, peer
    <3>2. ASSUME NEW h \in Header, Malformed(h) \/ Incomplete(h) \/ Overrun(h)
          PROVE  UNCHANGED <<messages, delivered>>
        BY <3>2 DEF Malformed, Incomplete, Overrun, peer
    <3> QED
        BY <1>3, <2>3, <3>1, <3>2 DEF Parse
  <2>4. CASE RecvPost
      BY <2>4 DEF RecvPost, peer
  <2> QED
      BY <1>3, <2>1, <2>2, <2>3, <2>4 DEF Next
<1> QED
    BY <1>1, <1>2, <1>3, StreamStutters

\* The content gets what the peer sent, message by message: the payload of
\* every message that its packet holds, and an empty packet for every longer
\* one that the check of the length lets through.
THEOREM ImplementsStream == Spec => DeliversStream
<1>1. TypeOK /\ FramingInv /\ [Next]_vars
          => [Stream!Send \/ Stream!Receive]_<<Sent, delivered>>
    BY StreamStep
<1> QED
    BY <1>1, StreamInit, FramingTypes, FramingInvariant, PTL
       DEF Spec, DeliversStream, Stream!Spec, Sent
=============================================================================
