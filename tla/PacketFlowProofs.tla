-------------------------- MODULE PacketFlowProofs --------------------------
(***************************************************************************)
(* Proofs about the life of packets: the reference count is exact, what    *)
(* WSASend has is whole, and a job is read as it was received, for every   *)
(* number of packets, sessions and threads.                                *)
(***************************************************************************)
EXTENDS PacketFlow, FiniteSetTheorems, TLAPS

-----------------------------------------------------------------------------
(* Induction over the naturals, from the well-foundedness of the finite     *)
(* subsets, and sequences.                                                  *)

LEMMA NatSetInduction ==
    ASSUME NEW S, 0 \in S, \A n \in Nat : n \in S => n + 1 \in S
    PROVE  Nat \subseteq S
<1> DEFINE R == StrictSubsetOrdering(Nat)
           F == {1 .. n : n \in Nat \ S}
<1>1. IsWellFoundedOn(R, FiniteSubsetsOf(Nat))
    BY FS_StrictSubsetOrderingWellFounded
<1>2. F \subseteq FiniteSubsetsOf(Nat)
  <2>1. ASSUME NEW n \in Nat PROVE 1 .. n \in FiniteSubsetsOf(Nat)
    <3>1. IsFiniteSet(1 .. n)
        BY FS_Interval
    <3> QED
        BY <3>1 DEF FiniteSubsetsOf
  <2> QED
      BY <2>1
<1>3. ASSUME NEW n \in Nat \ S, \A y \in F : <<y, 1 .. n>> \notin R
      PROVE  FALSE
  <2>1. n # 0 /\ n - 1 \in Nat \ S
      OBVIOUS
  <2>2. 1 .. (n - 1) \in F
      BY <2>1
  <2>3. <<1 .. (n - 1), 1 .. n>> \in R
    <3>1. n \in 1 .. n /\ n \notin 1 .. (n - 1)
        BY <2>1
    <3>2. 1 .. (n - 1) \subseteq 1 .. n /\ 1 .. n \subseteq Nat
        BY <2>1
    <3> QED
      BY <3>1, <3>2 DEF StrictSubsetOrdering
  <2> QED
      BY <1>3, <2>2, <2>3
<1> HIDE DEF R
<1>4. F # {} => \E x \in F : \A y \in F : <<y, x>> \notin R
    BY <1>1, <1>2, WFMin
<1> QED
    BY <1>3, <1>4

-----------------------------------------------------------------------------
(* The inductive invariant. *)

\* Where a thread is says what it has: its packet, the session it sends to,
\* what it is still to drop.
Local(t) ==
    /\ mine[t] # Nobody <=>
          pc[t] \in {"send", "encode", "enqueue", "recv", "push", "free"}
    /\ at[t] # Nobody => pc[t] \in {"encode", "enqueue", "post", "drop", "free"}
    /\ pc[t] \in {"encode", "enqueue"} => at[t] # Nobody /\ targets[t] # << >>
    /\ pc[t] = "post" => at[t] # Nobody
    /\ pc[t] \in {"idle", "post", "recv", "push"} => left[t] = << >>
    /\ pc[t] \in {"job", "handled"} => Len(left[t]) = 1

Locals == \A t \in Threads : Local(t)

\* Thread t has, or is about to have, the array of session s.
SendsFor(t, s) == at[t] = s /\ pc[t] \in {"post", "drop", "free"}

\* sendFlag lets one sender in; the array is empty when it gives it back.
SendTurn(s) ==
    /\ sendFlag[s] = 0 => sentPacketArray[s] = << >>
    /\ \A t \in Threads : SendsFor(t, s) =>
          /\ sendFlag[s] = 1 /\ overlapped[s] = "none"
          /\ pc[t] \in {"drop", "free"} => sentPacketArray[s] = << >>
          /\ \A u \in Threads : SendsFor(u, s) => u = t
    /\ overlapped[s] # "none" => sendFlag[s] = 1
    /\ ~isValid[s] => /\ overlapped[s] = "none"
                      /\ sentPacketArray[s] = << >>
                      /\ \A t \in Threads : at[t] # s

SendTurns == \A s \in Sessions : SendTurn(s)

\* A worker receives for one session.
RecvTurns ==
    /\ \A s \in Sessions : receiver[s] # Nobody =>
          pc[receiver[s]] \in {"recv", "push", "drop", "free"}
    /\ \A s, r \in Sessions :
          receiver[s] # Nobody /\ receiver[s] = receiver[r] => s = r
    /\ \A t \in Threads : pc[t] \in {"recv", "push"} =>
          \E s \in Sessions : receiver[s] = t

\* The holders of a packet, all of them or those that have it to read.
Counted(p, which) ==
    {h \in Holders(p) : \/ which = "all"
                        \/ h[1] = "job"
                        \/ h[1] = "own" /\ pc[h[2]] \in {"recv", "push"}
                        \/ h[1] = "left" /\ pc[h[2]] = "job"}
References(p, which) == Cardinality(Counted(p, which))

\* What RefsExact says, without the cardinality of Freeing.
RefOK(p) ==
    /\ p \in pool => References(p, "all") = 0 /\ Freeing(p) = {}
    /\ p \notin pool =>
          /\ packet[p].refCount = References(p, "all")
          /\ References(p, "all") = 0 <=> Freeing(p) # {}
          /\ \A t, u \in Freeing(p) : t = u

RefInv == \A p \in Packets : RefOK(p)

\* An object that is being sent as message k: the message from the header
\* on, and the header is right when it has been encoded.
Sendable(o, k, lengths) ==
    /\ k \in 1 .. Len(lengths)
    /\ o.readPos = begin /\ o.writePos > dfNETWORK_HEADER_SIZE
    /\ \A i \in Position : dfNETWORK_HEADER_SIZE <= i /\ i < o.writePos
          => o.bytes[i] = Byte(k)
    /\ lengths[k] < BufferSize - dfNETWORK_HEADER_SIZE =>
          o.writePos = lengths[k] + dfNETWORK_HEADER_SIZE
    /\ o.encodeFlag =>
          o.bytes[begin] = Header(o.writePos - dfNETWORK_HEADER_SIZE)

\* An object that was received as message k and not yet read: its payload,
\* or nothing when header and payload did not fit.
Readable(o, k, lengths) ==
    /\ k \in 1 .. Len(lengths)
    /\ IF lengths[k] + dfNETWORK_HEADER_SIZE <= end - begin
       THEN /\ o.readPos = dfNETWORK_HEADER_SIZE
            /\ o.writePos = o.readPos + lengths[k]
            /\ \A i \in Position : o.readPos <= i /\ i < o.writePos
                  => o.bytes[i] = Byte(k)
       ELSE o.readPos = begin /\ o.writePos = begin

Outgoing(e) == Sendable(packet[e.packet], e.number, made)
Encoded(e) == Outgoing(e) /\ packet[e.packet].encodeFlag
Incoming(e) == Readable(packet[e.packet], e.number, made)

OutThread(t) ==
    /\ pc[t] \in {"send", "encode"} => Outgoing(mine[t])
    /\ pc[t] = "enqueue" => Encoded(mine[t])
OutSession(s) ==
    /\ \A i \in 1 .. Len(sendQueue[s]) : Encoded(sendQueue[s][i])
    /\ \A i \in 1 .. Len(sentPacketArray[s]) :
          /\ Encoded(sentPacketArray[s][i].entry)
          /\ sentPacketArray[s][i] = Buffer(sentPacketArray[s][i].entry)

OutInv == /\ \A t \in Threads : OutThread(t)
          /\ \A s \in Sessions : OutSession(s)

InThread(t) == /\ pc[t] \in {"recv", "push"} => Incoming(mine[t])
               /\ pc[t] = "job" => Incoming(left[t][1])
InSession(s) == \A i \in 1 .. Len(JobQueue[s]) : Incoming(JobQueue[s][i])

\* A received packet has one reader.
InInv == /\ \A t \in Threads : InThread(t)
         /\ \A s \in Sessions : InSession(s)
         /\ \A p \in Packets : References(p, "unread") <= 1

FlowInv == TypeOK /\ Locals /\ SendTurns /\ RecvTurns /\ RefInv /\ OutInv /\ InInv
-----------------------------------------------------------------------------
(* The operations of a packet. *)

\* An object whose fields fit together.
Good(o) == /\ o \in Objects
           /\ o.readPos <= o.writePos
           /\ o.DataSize = o.writePos - o.readPos

LEMMA Bounds ==
    /\ BufferSize \in Nat /\ BufferSize > 1
    /\ begin = 0 /\ end = BufferSize - 1 /\ end \in Nat /\ end >= 1
    /\ dfNETWORK_HEADER_SIZE = 1
    /\ Position = 0 .. end
    /\ 0 \in Position /\ 1 \in Position /\ 0 \in 0 .. end /\ 1 \in 0 .. end
BY PacketAssumption DEF begin, end, dfNETWORK_HEADER_SIZE, Position

LEMMA GoodFields ==
    ASSUME NEW o, Good(o)
    PROVE  /\ o \in Objects
           /\ o.refCount \in Nat /\ o.encodeFlag \in BOOLEAN
           /\ o.readPos \in Nat /\ o.writePos \in Nat
           /\ o.readPos <= o.writePos /\ o.writePos <= end
           /\ o.DataSize = o.writePos - o.readPos
           /\ o.bytes \in [Position -> Cells]
           /\ o.readPos \in Position /\ o.writePos \in Position
<1>1. end \in Nat /\ Position = 0 .. end
    BY Bounds
<1> QED
    BY <1>1 DEF Good, Objects

\* An object whose positions and bytes are given new values that fit.
NewObject(o, r, w, b, f) ==
    [o EXCEPT !.readPos = r, !.writePos = w, !.DataSize = w - r, !.bytes = b,
              !.encodeFlag = f]

LEMMA NewFields ==
    ASSUME NEW o \in Objects, NEW r \in Position, NEW w \in Position, r <= w,
           NEW b \in [Position -> Cells], NEW f \in BOOLEAN
    PROVE  LET n == NewObject(o, r, w, b, f) IN
           /\ Good(n)
           /\ n.readPos = r /\ n.writePos = w /\ n.bytes = b
           /\ n.encodeFlag = f /\ n.refCount = o.refCount
<1>1. end \in Nat /\ Position = 0 .. end
    BY Bounds
<1>2. w - r \in 0 .. end
    BY <1>1
<1> QED
    BY <1>2 DEF Good, Objects, NewObject

LEMMA NewPositions ==
    ASSUME NEW o \in Objects, NEW r, NEW w, NEW d, d = w - r
    PROVE  [o EXCEPT !.readPos = r, !.writePos = w, !.DataSize = d]
             = NewObject(o, r, w, o.bytes, o.encodeFlag)
BY DEF Objects, NewObject

LEMMA CellTypes ==
    /\ Garbage \in Cells
    /\ \A n \in 0 .. BufferSize : Header(n) \in Cells
    /\ \A k \in 1 .. MaxMessages : Byte(k) \in Cells
BY DEF Cells

LEMMA WrittenType ==
    ASSUME NEW bytes \in [Position -> Cells], NEW from, NEW n,
           NEW cell \in Cells
    PROVE  Written(bytes, from, n, cell) \in [Position -> Cells]
BY DEF Written

LEMMA ConstructedGood == Good(Constructed)
<1>1. Constructed.bytes \in [Position -> Cells]
    BY CellTypes DEF Constructed
<1> QED
    BY <1>1, Bounds DEF Constructed, Good, Objects

LEMMA AddRefGood ==
    ASSUME NEW o, Good(o), NEW n \in Nat
    PROVE  /\ Good(addRef(o, n))
           /\ addRef(o, n).refCount = o.refCount + n
           /\ addRef(o, n).encodeFlag = o.encodeFlag
           /\ addRef(o, n).readPos = o.readPos
           /\ addRef(o, n).writePos = o.writePos
           /\ addRef(o, n).bytes = o.bytes
BY DEF Good, Objects, addRef

LEMMA SubRefGood ==
    ASSUME NEW o, Good(o), o.refCount > 0
    PROVE  /\ Good(subRef(o))
           /\ subRef(o).refCount = o.refCount - 1
           /\ subRef(o).encodeFlag = o.encodeFlag
           /\ subRef(o).readPos = o.readPos
           /\ subRef(o).writePos = o.writePos
           /\ subRef(o).bytes = o.bytes
BY DEF Good, Objects, subRef

LEMMA MAllocGood ==
    ASSUME NEW o, Good(o)
    PROVE  /\ Good(mAlloc(o))
           /\ mAlloc(o).refCount = 0
           /\ mAlloc(o).encodeFlag = FALSE
           /\ mAlloc(o).bytes = o.bytes
BY DEF Good, Objects, mAlloc

LEMMA ClearGood ==
    ASSUME NEW o, Good(o)
    PROVE  /\ Good(Clear(o))
           /\ Clear(o).refCount = o.refCount
           /\ Clear(o).encodeFlag = o.encodeFlag
           /\ Clear(o).readPos = 0
           /\ Clear(o).writePos = 1
<1>1. Clear(o) = NewObject(o, 0, 1, o.bytes, o.encodeFlag)
  <2>1. o \in Objects /\ 1 = 1 - 0
      BY DEF Good
  <2>2. Clear(o) = [o EXCEPT !.readPos = 0, !.writePos = 1, !.DataSize = 1]
      BY DEF Clear, begin, dfNETWORK_HEADER_SIZE
  <2> QED
      BY <2>1, <2>2, NewPositions
<1>2. /\ o \in Objects /\ o.bytes \in [Position -> Cells]
      /\ o.encodeFlag \in BOOLEAN
    BY GoodFields
<1>3. 0 \in Position /\ 1 \in Position /\ 0 <= 1
    BY Bounds
<1> QED
    BY <1>1, <1>2, <1>3, NewFields

LEMMA ClearNetworkGood ==
    ASSUME NEW o, Good(o)
    PROVE  /\ Good(ClearNetwork(o))
           /\ ClearNetwork(o).refCount = o.refCount
           /\ ClearNetwork(o).encodeFlag = o.encodeFlag
           /\ ClearNetwork(o).readPos = 0
           /\ ClearNetwork(o).writePos = 0
           /\ ClearNetwork(o).bytes = o.bytes
<1>1. ClearNetwork(o) = NewObject(o, 0, 0, o.bytes, o.encodeFlag)
  <2>1. o \in Objects /\ 0 = 0 - 0
      BY DEF Good
  <2>2. ClearNetwork(o) = [o EXCEPT !.readPos = 0, !.writePos = 0, !.DataSize = 0]
      BY DEF ClearNetwork, begin, dfNETWORK_HEADER_SIZE
  <2> QED
      BY <2>1, <2>2, NewPositions
<1>2. /\ o \in Objects /\ o.bytes \in [Position -> Cells]
      /\ o.encodeFlag \in BOOLEAN
    BY GoodFields
<1>3. 0 \in Position /\ 0 \in Position /\ 0 <= 0
    BY Bounds
<1> QED
    BY <1>1, <1>2, <1>3, NewFields

\* What a value that is put does: it is there, whole, or nothing changes.
LEMMA PutDataGood ==
    ASSUME NEW o, Good(o), NEW n \in Nat, NEW cell \in Cells
    PROVE  LET r == PutData(o, n, cell) IN
           /\ Good(r)
           /\ r.refCount = o.refCount /\ r.encodeFlag = o.encodeFlag
           /\ r.readPos = o.readPos
           /\ IF o.writePos + n <= end
              THEN /\ r.writePos = o.writePos + n
                   /\ \A i \in Position : r.bytes[i] =
                        IF o.writePos <= i /\ i < o.writePos + n
                        THEN cell ELSE o.bytes[i]
              ELSE r.writePos = o.writePos /\ r.bytes = o.bytes
<1>1. /\ o.writePos \in Nat /\ o.readPos \in Nat /\ o.readPos <= o.writePos
      /\ o.writePos <= end /\ o.DataSize = o.writePos - o.readPos
      /\ o.bytes \in [Position -> Cells] /\ o \in Objects
      /\ o.encodeFlag \in BOOLEAN /\ o.readPos \in Position
    BY GoodFields
<1>2. end \in Nat /\ Position = 0 .. end
    BY Bounds
<1>3. CASE n = 0
    BY <1>1, <1>2, <1>3 DEF PutData
<1>4. CASE n # 0 /\ o.writePos + n > end
    BY <1>1, <1>2, <1>4 DEF PutData, Put
<1>5. CASE n # 0 /\ o.writePos + n <= end
  <2> DEFINE b == Written(o.bytes, o.writePos, n, cell)
             w == o.writePos + n
  <2>1. b \in [Position -> Cells]
      BY <1>1, WrittenType
  <2>2. \A i \in Position : b[i] =
           IF o.writePos <= i /\ i < o.writePos + n THEN cell ELSE o.bytes[i]
      BY <1>1, <1>2 DEF Written
  <2>3. PutData(o, n, cell) = NewObject(o, o.readPos, w, b, o.encodeFlag)
    <3>1. ~ n <= 0 /\ ~ end - o.writePos < n
        BY <1>1, <1>2, <1>5
    <3>2. PutData(o, n, cell)
            = [o EXCEPT !.bytes = b, !.writePos = w,
                        !.DataSize = o.DataSize + n]
        BY <3>1 DEF PutData, Put, Objects
    <3>3. o.DataSize + n = w - o.readPos
        BY <1>1
    <3> HIDE DEF b, w
    <3> QED
        BY <1>1, <3>2, <3>3 DEF Objects, NewObject
  <2>4. w \in Position /\ o.readPos <= w
      BY <1>1, <1>2, <1>5
  <2> HIDE DEF b
  <2>5. /\ Good(PutData(o, n, cell))
        /\ PutData(o, n, cell).refCount = o.refCount
        /\ PutData(o, n, cell).encodeFlag = o.encodeFlag
        /\ PutData(o, n, cell).readPos = o.readPos
        /\ PutData(o, n, cell).writePos = w
        /\ PutData(o, n, cell).bytes = b
    <3> HIDE DEF w
    <3> QED
        BY <1>1, <2>1, <2>3, <2>4, NewFields
  <2> QED
      BY <1>5, <2>2, <2>5
<1> QED
    BY <1>1, <1>2, <1>3, <1>4, <1>5

\* Encode fills in the header of a packet that begins at the start of the
\* buffer, and nothing else.
LEMMA EncodeGood ==
    ASSUME NEW o, Good(o), o.readPos = 0, o.writePos > 1
    PROVE  LET r == Encode(o) IN
           /\ Good(r)
           /\ r.refCount = o.refCount /\ r.encodeFlag = TRUE
           /\ r.readPos = 0 /\ r.writePos = o.writePos
           /\ r.bytes[0] = Header(o.writePos - 1)
           /\ \A i \in Position : i > 0 => r.bytes[i] = o.bytes[i]
<1> DEFINE b == Written(o.bytes, 0, 1, Header(o.writePos - 1))
           yes == TRUE
<1>1. /\ o.writePos \in Nat /\ o.writePos <= end /\ o.DataSize = o.writePos
      /\ o.bytes \in [Position -> Cells] /\ o \in Objects
      /\ o.writePos \in Position
    BY GoodFields
<1>2. end \in Nat /\ Position = 0 .. end /\ BufferSize = end + 1
    BY Bounds
<1>3. b \in [Position -> Cells]
  <2>1. o.writePos - 1 \in 0 .. BufferSize
      BY <1>1, <1>2
  <2> QED
      BY <1>1, <2>1, WrittenType, CellTypes
<1>4. b[0] = Header(o.writePos - 1)
      /\ \A i \in Position : i > 0 => b[i] = o.bytes[i]
    BY <1>1, <1>2 DEF Written
<1>5. Encode(o) = NewObject(o, 0, o.writePos, b, yes)
  <2>1. o.writePos - o.readPos - dfNETWORK_HEADER_SIZE = o.writePos - 1
        /\ ~ o.DataSize <= dfNETWORK_HEADER_SIZE
      BY <1>1, Bounds
  <2>2. Encode(o) = [o EXCEPT !.bytes = b, !.encodeFlag = TRUE]
      BY <2>1, Bounds DEF Encode, Objects
  <2>3. o.writePos - 0 = o.DataSize
      BY <1>1
  <2> HIDE DEF b
  <2> QED
      BY <1>1, <2>2, <2>3 DEF Objects, NewObject
<1>6. 0 \in Position /\ 0 <= o.writePos
    BY <1>1, Bounds
<1>7. yes \in BOOLEAN
    OBVIOUS
<1> HIDE DEF b, yes
<1>8. LET n == Encode(o) IN
      /\ Good(n) /\ n.readPos = 0 /\ n.writePos = o.writePos /\ n.bytes = b
      /\ n.encodeFlag = yes /\ n.refCount = o.refCount
  <2>1. o \in Objects /\ o.writePos \in Position
      BY <1>1
  <2>2. 0 \in Position /\ 0 <= o.writePos
      BY <1>6
  <2> QED
      BY <2>1, <2>2, <1>3, <1>5, <1>7, NewFields
<1> QED
    BY <1>4, <1>8 DEF yes

LEMMA GetDataGood ==
    ASSUME NEW o, Good(o), NEW n \in Nat
    PROVE  LET r == GetData(o, n) IN
           /\ Good(r)
           /\ r.refCount = o.refCount /\ r.encodeFlag = o.encodeFlag
           /\ r.writePos = o.writePos /\ r.bytes = o.bytes
<1>1. /\ o.writePos \in Nat /\ o.readPos \in Nat /\ o.readPos <= o.writePos
      /\ o.writePos <= end /\ o.DataSize = o.writePos - o.readPos
      /\ o.bytes \in [Position -> Cells] /\ o \in Objects
      /\ o.encodeFlag \in BOOLEAN /\ o.writePos \in Position
    BY GoodFields
<1>2. CASE n = 0 \/ o.writePos - o.readPos < n
    BY <1>1, <1>2 DEF GetData, Get
<1>3. CASE ~(n = 0 \/ o.writePos - o.readPos < n)
  <2> DEFINE r == o.readPos + n
  <2>1. r \in Position /\ r <= o.writePos
    <3>1. end \in Nat /\ Position = 0 .. end
        BY Bounds
    <3> QED
        BY <1>1, <1>3, <3>1
  <2>2. GetData(o, n) = [o EXCEPT !.readPos = r, !.DataSize = o.DataSize - n]
    <3>1. ~ n <= 0
        BY <1>3
    <3> QED
        BY <1>3, <3>1 DEF GetData, Get, Objects
  <2>3. o.DataSize - n = o.writePos - r
      BY <1>1
  <2> HIDE DEF r
  <2>4. GetData(o, n) = NewObject(o, r, o.writePos, o.bytes, o.encodeFlag)
      BY <1>1, <2>2, <2>3 DEF Objects, NewObject
  <2> QED
      BY <1>1, <2>1, <2>4, NewFields
<1> QED
    BY <1>2, <1>3

-----------------------------------------------------------------------------
(* The values of a message: Fill and Length satisfy their equations, and    *)
(* Fill leaves one message in the packet.                                   *)

LEMMA FillEquation ==
    ASSUME NEW p, NEW message, Len(message) \in Nat, NEW number
    PROVE  \E f : /\ f[0] = p
                  /\ \A i \in 1 .. Len(message) :
                        f[i] = PutData(f[i - 1], message[i], Byte(number))
                  /\ Fill(p, message, number) = f[Len(message)]
<1> DEFINE step(x, i) == PutData(x, message[i], Byte(number))
           Is(f, n) == f = [i \in 0 .. n |-> IF i = 0 THEN p
                                             ELSE step(f[i - 1], i)]
           S == {n \in Nat : \E f : Is(f, n)}
<1>1. 0 \in S
  <2>1. Is([i \in 0 .. 0 |-> p], 0)
      OBVIOUS
  <2> QED
      BY <2>1
<1>2. ASSUME NEW n \in Nat, n \in S PROVE n + 1 \in S
  <2> HIDE DEF step
  <2>1. PICK f : Is(f, n)
      BY <1>2
  <2> DEFINE g == [i \in 0 .. n + 1 |-> IF i <= n THEN f[i]
                                        ELSE step(f[n], n + 1)]
  <2>2. \A i \in 0 .. n + 1 :
           g[i] = IF i = 0 THEN p ELSE step(g[i - 1], i)
    <3> SUFFICES ASSUME NEW i \in 0 .. n + 1
                 PROVE  g[i] = IF i = 0 THEN p ELSE step(g[i - 1], i)
        OBVIOUS
    <3>1. CASE i = 0
        BY <2>1, <3>1
    <3>2. CASE i \in 1 .. n
      <4>1. g[i - 1] = f[i - 1] /\ g[i] = f[i]
          BY <3>2
      <4>2. f[i] = step(f[i - 1], i)
          BY <2>1, <3>2
      <4> QED
          BY <3>2, <4>1, <4>2
    <3>3. CASE i = n + 1
      <4>1. g[i - 1] = f[n] /\ g[i] = step(f[n], n + 1)
          BY <3>3
      <4> QED
          BY <3>3, <4>1
    <3> QED
        BY <3>1, <3>2, <3>3
  <2>3. Is(g, n + 1)
      BY <2>2
  <2> HIDE DEF Is, g
  <2>4. n + 1 \in Nat /\ \E h : Is(h, n + 1)
      BY <2>3
  <2> QED
      BY <2>4
<1>3. Nat \subseteq S
    BY <1>1, <1>2, NatSetInduction
<1>4. PICK f : Is(f, Len(message))
    BY <1>3
<1> DEFINE F == CHOOSE x : x = [i \in 0 .. Len(message) |-> IF i = 0 THEN p
                            ELSE PutData(x[i - 1], message[i], Byte(number))]
<1>5. F = [i \in 0 .. Len(message) |-> IF i = 0 THEN p
                            ELSE PutData(F[i - 1], message[i], Byte(number))]
    BY <1>4
<1>6. Fill(p, message, number) = F[Len(message)]
    BY DEF Fill
<1> HIDE DEF F
<1>7. F[0] = p /\ \A i \in 1 .. Len(message) :
                      F[i] = PutData(F[i - 1], message[i], Byte(number))
    BY <1>5
<1> QED
    BY <1>6, <1>7

LEMMA LengthEquation ==
    ASSUME NEW message, Len(message) \in Nat
    PROVE  \E f : /\ f[0] = 0
                  /\ \A i \in 1 .. Len(message) : f[i] = f[i - 1] + message[i]
                  /\ Length(message) = f[Len(message)]
<1> DEFINE step(x, i) == x + message[i]
           Is(f, n) == f = [i \in 0 .. n |-> IF i = 0 THEN 0
                                             ELSE step(f[i - 1], i)]
           S == {n \in Nat : \E f : Is(f, n)}
<1>1. 0 \in S
  <2>1. Is([i \in 0 .. 0 |-> 0], 0)
      OBVIOUS
  <2> QED
      BY <2>1
<1>2. ASSUME NEW n \in Nat, n \in S PROVE n + 1 \in S
  <2> HIDE DEF step
  <2>1. PICK f : Is(f, n)
      BY <1>2
  <2> DEFINE g == [i \in 0 .. n + 1 |-> IF i <= n THEN f[i]
                                        ELSE step(f[n], n + 1)]
  <2>2. \A i \in 0 .. n + 1 :
           g[i] = IF i = 0 THEN 0 ELSE step(g[i - 1], i)
    <3> SUFFICES ASSUME NEW i \in 0 .. n + 1
                 PROVE  g[i] = IF i = 0 THEN 0 ELSE step(g[i - 1], i)
        OBVIOUS
    <3>1. CASE i = 0
        BY <2>1, <3>1
    <3>2. CASE i \in 1 .. n
      <4>1. g[i - 1] = f[i - 1] /\ g[i] = f[i]
          BY <3>2
      <4>2. f[i] = step(f[i - 1], i)
          BY <2>1, <3>2
      <4> QED
          BY <3>2, <4>1, <4>2
    <3>3. CASE i = n + 1
      <4>1. g[i - 1] = f[n] /\ g[i] = step(f[n], n + 1)
          BY <3>3
      <4> QED
          BY <3>3, <4>1
    <3> QED
        BY <3>1, <3>2, <3>3
  <2>3. Is(g, n + 1)
      BY <2>2
  <2> HIDE DEF Is, g
  <2>4. n + 1 \in Nat /\ \E h : Is(h, n + 1)
      BY <2>3
  <2> QED
      BY <2>4
<1>3. Nat \subseteq S
    BY <1>1, <1>2, NatSetInduction
<1>4. PICK f : Is(f, Len(message))
    BY <1>3
<1> DEFINE F == CHOOSE x : x = [i \in 0 .. Len(message) |-> IF i = 0 THEN 0
                                                 ELSE x[i - 1] + message[i]]
<1>5. F = [i \in 0 .. Len(message) |-> IF i = 0 THEN 0
                                                 ELSE F[i - 1] + message[i]]
    BY <1>4
<1>6. Length(message) = F[Len(message)]
    BY DEF Length
<1> HIDE DEF F
<1>7. F[0] = 0 /\ \A i \in 1 .. Len(message) :
                      F[i] = F[i - 1] + message[i]
    BY <1>5
<1> QED
    BY <1>6, <1>7

LEMMA FillGood ==
    ASSUME NEW o, Good(o), o.readPos = 0, o.writePos = 1,
           NEW message \in Messages, NEW k \in 1 .. MaxMessages
    PROVE  LET r == Fill(o, message, k) IN
           /\ Good(r)
           /\ r.refCount = o.refCount /\ r.encodeFlag = o.encodeFlag
           /\ r.readPos = 0 /\ r.writePos > 1
           /\ \A i \in Position : 1 <= i /\ i < r.writePos
                 => r.bytes[i] = Byte(k)
           /\ Length(message) \in Nat
           /\ Length(message) < BufferSize - 1
                 => r.writePos = Length(message) + 1
<1> DEFINE L == Len(message)
<1>1. /\ message \in Seq(Nat \ {0}) /\ L \in Nat /\ L >= 1
      /\ message[1] < BufferSize - 1 /\ \A i \in 1 .. L : message[i] \in Nat \ {0}
    BY FlowAssumption, Bounds
<1>2. end \in Nat /\ Position = 0 .. end /\ BufferSize = end + 1
    BY Bounds
<1>3. Byte(k) \in Cells
    BY CellTypes
<1>4. PICK f : /\ f[0] = o
               /\ \A i \in 1 .. L : f[i] = PutData(f[i - 1], message[i], Byte(k))
               /\ Fill(o, message, k) = f[L]
    BY <1>1, FillEquation
<1>5. PICK g : /\ g[0] = 0
               /\ \A i \in 1 .. L : g[i] = g[i - 1] + message[i]
               /\ Length(message) = g[L]
    BY <1>1, LengthEquation
<1> DEFINE P(i) == /\ Good(f[i])
                   /\ f[i].refCount = o.refCount
                   /\ f[i].encodeFlag = o.encodeFlag
                   /\ f[i].readPos = 0
                   /\ f[i].writePos >= 1 /\ (i > 0 => f[i].writePos > 1)
                   /\ \A j \in Position : 1 <= j /\ j < f[i].writePos
                         => f[i].bytes[j] = Byte(k)
                   /\ g[i] \in Nat
                   /\ g[i] + 1 <= end => f[i].writePos = g[i] + 1
           S == {i \in Nat : i <= L => P(i)}
<1>8. 0 \in S
    BY <1>4, <1>5, <1>1, <1>2
<1>9. ASSUME NEW i \in Nat, i \in S PROVE i + 1 \in S
  <2> SUFFICES ASSUME i + 1 <= L PROVE P(i + 1)
      OBVIOUS
  <2>1. P(i)
      BY <1>9, <1>1
  <2> DEFINE n == message[i + 1]
             w == f[i].writePos
             r == f[i + 1]
  <2>2. n \in Nat \ {0} /\ i + 1 \in 1 .. L /\ (i = 0 => n <= end - 1)
      BY <1>1, <1>2
  <2>3. r = PutData(f[i], n, Byte(k)) /\ g[i + 1] = g[i] + n
      BY <1>4, <1>5, <2>2
  <2>4. w \in Nat /\ w <= end
      BY <2>1, GoodFields
  <2>5. /\ Good(r)
        /\ r.refCount = f[i].refCount /\ r.encodeFlag = f[i].encodeFlag
        /\ r.readPos = f[i].readPos
        /\ IF w + n <= end
           THEN /\ r.writePos = w + n
                /\ \A j \in Position : r.bytes[j] =
                     IF w <= j /\ j < w + n THEN Byte(k) ELSE f[i].bytes[j]
           ELSE r.writePos = w /\ r.bytes = f[i].bytes
    <3> HIDE DEF r, n, P
    <3>1. Good(f[i]) /\ n \in Nat /\ r = PutData(f[i], n, Byte(k))
        BY <2>1, <2>2, <2>3 DEF P
    <3> QED
        BY <3>1, <1>3, PutDataGood
  <2>6. f[i].writePos >= 1 /\ g[i] \in Nat
        /\ (i > 0 => w > 1) /\ (g[i] + 1 <= end => w = g[i] + 1)
        /\ (\A j \in Position : 1 <= j /\ j < w => f[i].bytes[j] = Byte(k))
        /\ f[i].refCount = o.refCount /\ f[i].encodeFlag = o.encodeFlag
        /\ f[i].readPos = 0 /\ (i = 0 => w = 1)
      BY <2>1, <1>4
  <2> HIDE DEF r, n, w
  <2>7. CASE w + n <= end
    <3>0. r.writePos = w + n /\ \A j \in Position : r.bytes[j] =
                     IF w <= j /\ j < w + n THEN Byte(k) ELSE f[i].bytes[j]
        BY <2>5, <2>7
    <3>1. ASSUME NEW j \in Position, 1 <= j, j < r.writePos
          PROVE  r.bytes[j] = Byte(k)
      <4>1. CASE w <= j
          BY <3>0, <3>1, <4>1
      <4>2. CASE ~ w <= j
        <5>1. j < w
            BY <4>2, <2>4, <1>2
        <5> QED
            BY <3>0, <3>1, <4>2, <5>1, <2>6
      <4> QED
          BY <4>1, <4>2
    <3>2. r.writePos > 1 /\ g[i + 1] \in Nat
        /\ (g[i + 1] + 1 <= end => r.writePos = g[i + 1] + 1)
      <4>1. r.writePos = w + n /\ w \in Nat /\ n \in Nat \ {0} /\ w >= 1
          BY <2>2, <2>4, <3>0, <2>6 DEF w
      <4>2. g[i] \in Nat /\ g[i + 1] = g[i] + n
            /\ (g[i] + 1 <= end => w = g[i] + 1)
          BY <2>3, <2>6
      <4>3. r.writePos > 1 /\ g[i + 1] \in Nat
          BY <4>1, <4>2
      <4>4. ASSUME g[i + 1] + 1 <= end PROVE r.writePos = g[i + 1] + 1
        <5>1. g[i] + 1 <= end
            BY <4>1, <4>2, <4>4, <1>2
        <5> QED
            BY <5>1, <4>1, <4>2
      <4> QED
          BY <4>3, <4>4
    <3>3. /\ Good(r)
          /\ r.refCount = o.refCount /\ r.encodeFlag = o.encodeFlag
          /\ r.readPos = 0
        BY <2>5, <2>6
    <3>4. r.writePos >= 1
        BY <2>4, <2>2, <3>0, <2>6 DEF w
    <3> QED
        BY <3>1, <3>2, <3>3, <3>4 DEF r
  <2>8. CASE w + n > end
    <3>0. ~ w + n <= end
        BY <2>8, <2>4, <2>2, <1>2
    <3>1. r.writePos = w /\ r.bytes = f[i].bytes
        BY <2>5, <3>0
    <3>2. i > 0 /\ g[i + 1] \in Nat /\ ~ g[i + 1] + 1 <= end
        BY <2>2, <2>3, <2>4, <2>6, <2>8, <1>2
    <3> QED
        BY <2>5, <2>6, <3>1, <3>2 DEF r, w
  <2> QED
      BY <2>2, <2>4, <1>2, <2>7, <2>8
<1>10. Nat \subseteq S
    BY <1>8, <1>9, NatSetInduction
<1>11. P(L)
    BY <1>1, <1>10
<1> QED
    BY <1>1, <1>2, <1>4, <1>5, <1>11

-----------------------------------------------------------------------------
(* Counting the entries of a packet in a sequence. *)

Occurs(p, q) == {i \in 1 .. Len(q) : q[i].packet = p}
Count(p, q) == Cardinality(Occurs(p, q))
One(yes) == IF yes THEN 1 ELSE 0

LEMMA CountType ==
    ASSUME NEW E, NEW q \in Seq(E), NEW p
    PROVE  /\ IsFiniteSet(Occurs(p, q)) /\ Count(p, q) \in Nat
           /\ Count(p, q) = 0 <=> \A i \in 1 .. Len(q) : q[i].packet # p
<1>1. Len(q) \in Nat
    OBVIOUS
<1>2. IsFiniteSet(1 .. Len(q))
    BY <1>1, FS_Interval
<1>3. Occurs(p, q) \in SUBSET (1 .. Len(q))
    BY DEF Occurs
<1>4. IsFiniteSet(Occurs(p, q))
    BY <1>2, <1>3, FS_Subset
<1>5. Count(p, q) \in Nat
    BY <1>4, FS_CardinalityType DEF Count
<1>6. Count(p, q) = 0 <=> Occurs(p, q) = {}
    BY <1>4, FS_EmptySet DEF Count
<1> QED
    BY <1>4, <1>5, <1>6 DEF Occurs

LEMMA CountEmpty == \A p : Count(p, << >>) = 0
<1> TAKE p
<1>1. Occurs(p, << >>) = {}
    BY DEF Occurs
<1> QED
    BY <1>1, FS_EmptySet DEF Count

LEMMA CountOne == \A p, e : Count(p, <<e>>) = One(e.packet = p)
<1> TAKE p, e
<1>1. Len(<<e>>) = 1 /\ <<e>>[1] = e
    OBVIOUS
<1>2. CASE e.packet = p
  <2>1. Occurs(p, <<e>>) = {1}
      BY <1>1, <1>2 DEF Occurs
  <2> QED
      BY <2>1, <1>2, FS_Singleton DEF Count, One
<1>3. CASE e.packet # p
  <2>1. Occurs(p, <<e>>) = {}
      BY <1>1, <1>3 DEF Occurs
  <2> QED
      BY <2>1, <1>3, FS_EmptySet DEF Count, One
<1> QED
    BY <1>2, <1>3

\* A set of numbers, shifted or labelled, has as many elements.
LEMMA SameSize ==
    ASSUME NEW S, IsFiniteSet(S), NEW T, NEW f \in [S -> T],
           \A i, j \in S : f[i] = f[j] => i = j,
           \A y \in T : \E i \in S : f[i] = y
    PROVE  IsFiniteSet(T) /\ Cardinality(T) = Cardinality(S)
<1>1. f \in Bijection(S, T)
    BY DEF Bijection, Injection, Surjection, IsInjective
<1>2. ExistsBijection(S, T)
    BY <1>1 DEF ExistsBijection
<1> QED
    BY <1>2, FS_Bijection

LEMMA CountConcat ==
    ASSUME NEW E, NEW q \in Seq(E), NEW r \in Seq(E), NEW p
    PROVE  Count(p, q \o r) = Count(p, q) + Count(p, r)
<1> DEFINE T == {i + Len(q) : i \in Occurs(p, r)}
           f == [i \in Occurs(p, r) |-> i + Len(q)]
<1>1. /\ Len(q) \in Nat /\ Len(r) \in Nat /\ Len(q \o r) = Len(q) + Len(r)
      /\ \A i \in 1 .. Len(q) : (q \o r)[i] = q[i]
      /\ \A i \in 1 .. Len(r) : (q \o r)[i + Len(q)] = r[i]
    OBVIOUS
<1>2. Occurs(p, r) \subseteq 1 .. Len(r) /\ Occurs(p, q) \subseteq 1 .. Len(q)
    BY DEF Occurs
<1>3. IsFiniteSet(T) /\ Cardinality(T) = Count(p, r)
  <2>1. IsFiniteSet(Occurs(p, r))
      BY CountType
  <2>2. f \in [Occurs(p, r) -> T]
      OBVIOUS
  <2>3. \A i, j \in Occurs(p, r) : f[i] = f[j] => i = j
      BY <1>1, <1>2
  <2>4. \A y \in T : \E i \in Occurs(p, r) : f[i] = y
      OBVIOUS
  <2> HIDE DEF f, T
  <2> QED
      BY <2>1, <2>2, <2>3, <2>4, SameSize DEF Count
<1>4. Occurs(p, q \o r) = Occurs(p, q) \cup T
  <2>1. ASSUME NEW i \in Occurs(p, q \o r) PROVE i \in Occurs(p, q) \cup T
    <3>1. i \in 1 .. Len(q) + Len(r) /\ (q \o r)[i].packet = p
        BY <2>1, <1>1 DEF Occurs
    <3>2. CASE i <= Len(q)
        BY <3>1, <3>2, <1>1 DEF Occurs
    <3>3. CASE ~ i <= Len(q)
      <4>1. i - Len(q) \in 1 .. Len(r) /\ i = (i - Len(q)) + Len(q)
          BY <3>1, <3>3, <1>1
      <4>2. r[i - Len(q)].packet = p
          BY <3>1, <4>1, <1>1
      <4> QED
          BY <4>1, <4>2 DEF Occurs
    <3> QED
        BY <3>2, <3>3
  <2>2. Occurs(p, q) \subseteq Occurs(p, q \o r)
      BY <1>1 DEF Occurs
  <2>3. T \subseteq Occurs(p, q \o r)
    <3> SUFFICES ASSUME NEW i \in Occurs(p, r)
                 PROVE  i + Len(q) \in Occurs(p, q \o r)
        OBVIOUS
    <3>1. i \in 1 .. Len(r) /\ r[i].packet = p
        BY DEF Occurs
    <3>2. i + Len(q) \in 1 .. Len(q \o r) /\ (q \o r)[i + Len(q)] = r[i]
        BY <3>1, <1>1
    <3> QED
        BY <3>1, <3>2 DEF Occurs
  <2> QED
      BY <2>1, <2>2, <2>3
<1>5. Occurs(p, q) \cap T = {}
    BY <1>1, <1>2
<1>6. IsFiniteSet(Occurs(p, q)) /\ Count(p, q) \in Nat /\ Count(p, r) \in Nat
    BY CountType
<1> HIDE DEF T
<1>7. Cardinality(Occurs(p, q) \cup T)
        = Cardinality(Occurs(p, q)) + Cardinality(T)
            - Cardinality(Occurs(p, q) \cap T)
    BY <1>3, <1>6, FS_Union
<1>8. Cardinality(Occurs(p, q) \cap T) = 0
    BY <1>5, FS_EmptySet
<1> QED
    BY <1>3, <1>4, <1>6, <1>7, <1>8 DEF Count

LEMMA CountAppend ==
    ASSUME NEW E, NEW q \in Seq(E), NEW e \in E, NEW p
    PROVE  Count(p, Append(q, e)) = Count(p, q) + One(e.packet = p)
<1> DEFINE one == <<e>>
<1>1. Append(q, e) = q \o one /\ one \in Seq(E)
    OBVIOUS
<1>2. Count(p, one) = One(e.packet = p)
    BY CountOne
<1> HIDE DEF one
<1>3. Count(p, q \o one) = Count(p, q) + Count(p, one)
    BY <1>1, CountConcat
<1> QED
    BY <1>1, <1>2, <1>3

LEMMA CountPush ==
    ASSUME NEW E, NEW q \in Seq(E), NEW e \in E, NEW p
    PROVE  Count(p, <<e>> \o q) = One(e.packet = p) + Count(p, q)
<1> DEFINE one == <<e>>
<1>1. one \in Seq(E)
    OBVIOUS
<1>2. Count(p, one) = One(e.packet = p)
    BY CountOne
<1> HIDE DEF one
<1>3. Count(p, one \o q) = Count(p, one) + Count(p, q)
    BY <1>1, CountConcat
<1> QED
    BY <1>2, <1>3 DEF one

LEMMA CountTail ==
    ASSUME NEW E, NEW q \in Seq(E), q # << >>, NEW p
    PROVE  Count(p, q) = One(Head(q).packet = p) + Count(p, Tail(q))
<1> DEFINE h == Head(q)
           r == Tail(q)
<1>1. h \in E /\ r \in Seq(E) /\ q = <<h>> \o r
    OBVIOUS
<1> HIDE DEF h, r
<1>2. Count(p, <<h>> \o r) = One(h.packet = p) + Count(p, r)
    BY <1>1, CountPush
<1> QED
    BY <1>1, <1>2 DEF h, r

LEMMA SameSeq ==
    ASSUME NEW E, NEW q \in Seq(E), NEW r \in Seq(E), Len(q) = Len(r),
           \A i \in 1 .. Len(q) : q[i] = r[i]
    PROVE  q = r
<1>1. q = [i \in 1 .. Len(q) |-> q[i]] /\ r = [i \in 1 .. Len(r) |-> r[i]]
    OBVIOUS
<1> QED
    BY <1>1

LEMMA CountSplit ==
    ASSUME NEW E, NEW q \in Seq(E), NEW n \in 0 .. Len(q), NEW p
    PROVE  LET front == [i \in 1 .. n |-> q[i]]
               back == SubSeq(q, n + 1, Len(q))
           IN  /\ front \in Seq(E) /\ back \in Seq(E)
               /\ Count(p, q) = Count(p, front) + Count(p, back)
<1> DEFINE front == [i \in 1 .. n |-> q[i]]
           back == SubSeq(q, n + 1, Len(q))
<1>1. Len(q) \in Nat /\ n \in Nat /\ n <= Len(q)
    OBVIOUS
<1>2. front \in Seq(E) /\ back \in Seq(E) /\ Len(front) = n
    BY <1>1
<1>3. Len(back) = Len(q) - n /\ \A i \in 1 .. Len(q) - n : back[i] = q[i + n]
    BY <1>1
<1>4. q = front \o back
  <2>1. Len(front \o back) = Len(q)
      BY <1>1, <1>2, <1>3
  <2>2. \A i \in 1 .. Len(q) : (front \o back)[i] = q[i]
      BY <1>1, <1>2, <1>3
  <2>3. front \o back \in Seq(E)
      BY <1>2
  <2> HIDE DEF front, back
  <2> QED
      BY <2>1, <2>2, <2>3, SameSeq
<1> HIDE DEF front, back
<1>5. Count(p, front \o back) = Count(p, front) + Count(p, back)
    BY <1>2, CountConcat
<1> QED
    BY <1>2, <1>4, <1>5 DEF front, back

-----------------------------------------------------------------------------
(* The holders, thread by thread and session by session. *)

Owns(p, t) == mine[t] # Nobody /\ mine[t].packet = p /\ pc[t] # "free"
Takes(p, t) == /\ mine[t] # Nobody /\ mine[t].packet = p
               /\ pc[t] \in {"encode", "enqueue", "push"}

Owning(p, t, which) ==
    Owns(p, t) /\ (which = "all" \/ pc[t] \in {"recv", "push"})
Taking(p, t, which) == Takes(p, t) /\ which = "all"

ThreadHolds(p, t, which) ==
    {h \in {<<"own", t, 0>>} : Owning(p, t, which)}
    \cup {h \in {<<"next", t, 0>>} : Taking(p, t, which)}
    \cup {h \in In(p, "left", t, left[t]) : which = "all" \/ pc[t] = "job"}

SessionHolds(p, s, which) ==
    {h \in In(p, "queue", s, sendQueue[s]) : which = "all"}
    \cup {h \in In(p, "sent", s, Sent(s)) : which = "all"}
    \cup In(p, "job", s, JobQueue[s])

\* What they are without those of a thread, and of a session.
Others(p, t, which) ==
    (UNION {ThreadHolds(p, u, which) : u \in Threads \ {t}})
    \cup (UNION {SessionHolds(p, s, which) : s \in Sessions})
Rest(p, t, s, which) ==
    (UNION {ThreadHolds(p, u, which) : u \in Threads \ {t}})
    \cup (UNION {SessionHolds(p, r, which) : r \in Sessions \ {s}})

ThreadTally(p, t, which) ==
    One(Owning(p, t, which)) + One(Taking(p, t, which))
    + (IF which = "all" \/ pc[t] = "job" THEN Count(p, left[t]) ELSE 0)
SessionTally(p, s, which) ==
    (IF which = "all" THEN Count(p, sendQueue[s]) + Count(p, Sent(s)) ELSE 0)
    + Count(p, JobQueue[s])

LEMMA InLabel ==
    \A p, place, x, q : \A h \in In(p, place, x, q) : h[1] = place /\ h[2] = x
BY DEF In

LEMMA HolderIs ==
    \A p, h :
        h \in Holders(p) <=>
            \/ \E t \in Threads : Owns(p, t) /\ h = <<"own", t, 0>>
            \/ \E t \in Threads : Takes(p, t) /\ h = <<"next", t, 0>>
            \/ \E s \in Sessions : h \in In(p, "queue", s, sendQueue[s])
            \/ \E s \in Sessions : h \in In(p, "sent", s, Sent(s))
            \/ \E s \in Sessions : h \in In(p, "job", s, JobQueue[s])
            \/ \E t \in Threads : h \in In(p, "left", t, left[t])
<1> TAKE p, h
<1> DEFINE A == {<<"own", t, 0>> : t \in Mine(p) \ Freeing(p)}
           B == {<<"next", t, 0>> :
                   t \in {u \in Mine(p) :
                            pc[u] \in {"encode", "enqueue", "push"}}}
           C == UNION {In(p, "queue", s, sendQueue[s]) : s \in Sessions}
           D == UNION {In(p, "sent", s, Sent(s)) : s \in Sessions}
           E == UNION {In(p, "job", s, JobQueue[s]) : s \in Sessions}
           F == UNION {In(p, "left", t, left[t]) : t \in Threads}
<1>1. h \in A <=> \E t \in Threads : Owns(p, t) /\ h = <<"own", t, 0>>
    BY DEF Mine, Freeing, Owns
<1>2. h \in B <=> \E t \in Threads : Takes(p, t) /\ h = <<"next", t, 0>>
    BY DEF Mine, Takes
<1>3. h \in C <=> \E s \in Sessions : h \in In(p, "queue", s, sendQueue[s])
    OBVIOUS
<1>4. h \in D <=> \E s \in Sessions : h \in In(p, "sent", s, Sent(s))
    OBVIOUS
<1>5. h \in E <=> \E s \in Sessions : h \in In(p, "job", s, JobQueue[s])
    OBVIOUS
<1>6. h \in F <=> \E t \in Threads : h \in In(p, "left", t, left[t])
    OBVIOUS
<1>7. Holders(p) = A \cup B \cup C \cup D \cup E \cup F
    BY Zenon DEF Holders
<1> HIDE DEF A, B, C, D, E, F
<1>8. h \in Holders(p) <=> h \in A \/ h \in B \/ h \in C \/ h \in D \/ h \in E
                           \/ h \in F
    BY <1>7
<1> QED
    BY <1>1, <1>2, <1>3, <1>4, <1>5, <1>6, <1>8

LEMMA CountedIs ==
    \A p, which :
        Counted(p, which) =
            (UNION {ThreadHolds(p, t, which) : t \in Threads})
            \cup (UNION {SessionHolds(p, s, which) : s \in Sessions})
<1> TAKE p, which
<1> DEFINE all == (UNION {ThreadHolds(p, t, which) : t \in Threads})
                  \cup (UNION {SessionHolds(p, s, which) : s \in Sessions})
           W(h) == \/ which = "all"
                   \/ h[1] = "job"
                   \/ h[1] = "own" /\ pc[h[2]] \in {"recv", "push"}
                   \/ h[1] = "left" /\ pc[h[2]] = "job"
<1>0. \A h : h \in Counted(p, which) <=> h \in Holders(p) /\ W(h)
    BY DEF Counted
<1>10. \A h : h \in all <=> \/ \E t \in Threads : h \in ThreadHolds(p, t, which)
                           \/ \E s \in Sessions : h \in SessionHolds(p, s, which)
  <2> DEFINE X == UNION {ThreadHolds(p, t, which) : t \in Threads}
             Y == UNION {SessionHolds(p, s, which) : s \in Sessions}
  <2>1. \A h : h \in X <=> \E t \in Threads : h \in ThreadHolds(p, t, which)
      OBVIOUS
  <2>2. \A h : h \in Y <=> \E s \in Sessions : h \in SessionHolds(p, s, which)
      OBVIOUS
  <2>3. all = X \cup Y
      OBVIOUS
  <2> HIDE DEF X, Y, all
  <2> QED
      BY <2>1, <2>2, <2>3
<1>11. \A h, t : h \in ThreadHolds(p, t, which) <=>
          \/ h = <<"own", t, 0>> /\ Owns(p, t)
               /\ (which = "all" \/ pc[t] \in {"recv", "push"})
          \/ h = <<"next", t, 0>> /\ Takes(p, t) /\ which = "all"
          \/ h \in In(p, "left", t, left[t]) /\ (which = "all" \/ pc[t] = "job")
    BY DEF ThreadHolds, Owning, Taking
<1>12. \A h, s : h \in SessionHolds(p, s, which) <=>
          \/ h \in In(p, "queue", s, sendQueue[s]) /\ which = "all"
          \/ h \in In(p, "sent", s, Sent(s)) /\ which = "all"
          \/ h \in In(p, "job", s, JobQueue[s])
    BY DEF SessionHolds
<1> HIDE DEF all
<1>1. ASSUME NEW h \in Counted(p, which) PROVE h \in all
  <2>0. h \in Holders(p) /\ W(h)
      BY <1>0, <1>1
  <2>1. CASE \E t \in Threads : Owns(p, t) /\ h = <<"own", t, 0>>
      BY <2>0, <2>1, <1>10, <1>11
  <2>2. CASE \E t \in Threads : Takes(p, t) /\ h = <<"next", t, 0>>
      BY <2>0, <2>2, <1>10, <1>11
  <2>3. CASE \E s \in Sessions : h \in In(p, "queue", s, sendQueue[s])
    <3>1. h[1] = "queue"
        BY <2>3, InLabel
    <3> QED
        BY <2>0, <2>3, <3>1, <1>10, <1>12
  <2>4. CASE \E s \in Sessions : h \in In(p, "sent", s, Sent(s))
    <3>1. h[1] = "sent"
        BY <2>4, InLabel
    <3> QED
        BY <2>0, <2>4, <3>1, <1>10, <1>12
  <2>5. CASE \E s \in Sessions : h \in In(p, "job", s, JobQueue[s])
      BY <2>5, <1>10, <1>12
  <2>6. CASE \E t \in Threads : h \in In(p, "left", t, left[t])
    <3>1. PICK t \in Threads : h \in In(p, "left", t, left[t])
        BY <2>6
    <3>2. h[1] = "left" /\ h[2] = t
        BY <3>1, InLabel
    <3> QED
        BY <2>0, <3>1, <3>2, <1>10, <1>11
  <2> QED
      BY <2>0, <2>1, <2>2, <2>3, <2>4, <2>5, <2>6, HolderIs
<1>2. ASSUME NEW t \in Threads, NEW h \in ThreadHolds(p, t, which)
      PROVE  h \in Counted(p, which)
  <2>1. CASE h = <<"own", t, 0>> /\ Owns(p, t)
             /\ (which = "all" \/ pc[t] \in {"recv", "push"})
      BY <2>1, <1>0, HolderIs
  <2>2. CASE h = <<"next", t, 0>> /\ Takes(p, t) /\ which = "all"
      BY <2>2, <1>0, HolderIs
  <2>3. CASE h \in In(p, "left", t, left[t]) /\ (which = "all" \/ pc[t] = "job")
    <3>1. h[1] = "left" /\ h[2] = t
        BY <2>3, InLabel
    <3> QED
        BY <2>3, <3>1, <1>0, HolderIs
  <2> QED
      BY <1>2, <1>11, <2>1, <2>2, <2>3
<1>3. ASSUME NEW s \in Sessions, NEW h \in SessionHolds(p, s, which)
      PROVE  h \in Counted(p, which)
  <2>1. CASE h \in In(p, "queue", s, sendQueue[s]) /\ which = "all"
      BY <2>1, <1>0, HolderIs
  <2>2. CASE h \in In(p, "sent", s, Sent(s)) /\ which = "all"
      BY <2>2, <1>0, HolderIs
  <2>3. CASE h \in In(p, "job", s, JobQueue[s])
    <3>1. h[1] = "job"
        BY <2>3, InLabel
    <3> QED
        BY <2>3, <3>1, <1>0, HolderIs
  <2> QED
      BY <1>3, <1>12, <2>1, <2>2, <2>3
<1>4. \A h : h \in Counted(p, which) <=> h \in all
    BY <1>1, <1>2, <1>3, <1>10
<1>5. Counted(p, which) = all
    BY <1>4
<1> QED
    BY <1>5 DEF all

LEMMA ThreadParts ==
    \A p, t, which : \A h \in ThreadHolds(p, t, which) :
        h[1] \in {"own", "next", "left"} /\ h[2] = t
BY DEF ThreadHolds, In

LEMMA SessionParts ==
    \A p, s, which : \A h \in SessionHolds(p, s, which) :
        h[1] \in {"queue", "sent", "job"} /\ h[2] = s
BY DEF SessionHolds, In

LEMMA InSize ==
    ASSUME NEW E, NEW q \in Seq(E), NEW p, NEW place, NEW x
    PROVE  /\ IsFiniteSet(In(p, place, x, q))
           /\ Cardinality(In(p, place, x, q)) = Count(p, q)
<1> DEFINE T == In(p, place, x, q)
           f == [i \in Occurs(p, q) |-> <<place, x, i>>]
<1>1. T = {<<place, x, i>> : i \in Occurs(p, q)}
    BY DEF In, Occurs
<1>2. IsFiniteSet(Occurs(p, q))
    BY CountType
<1>3. f \in [Occurs(p, q) -> T]
    BY <1>1
<1>4. \A i, j \in Occurs(p, q) : f[i] = f[j] => i = j
    OBVIOUS
<1>5. \A y \in T : \E i \in Occurs(p, q) : f[i] = y
    BY <1>1
<1> HIDE DEF T, f
<1> QED
    BY <1>2, <1>3, <1>4, <1>5, SameSize DEF T, Count

\* Sets that have nothing in common.
LEMMA TwoSize ==
    ASSUME NEW A, NEW B, IsFiniteSet(A), IsFiniteSet(B),
           \A x \in A : x \notin B
    PROVE  /\ IsFiniteSet(A \cup B)
           /\ Cardinality(A \cup B) = Cardinality(A) + Cardinality(B)
           /\ Cardinality(A) \in Nat /\ Cardinality(B) \in Nat
<1>1. A \cap B = {}
    OBVIOUS
<1>2. Cardinality(A \cap B) = 0
    BY <1>1, FS_EmptySet
<1>3. Cardinality(A) \in Nat /\ Cardinality(B) \in Nat
    BY FS_CardinalityType
<1>4. /\ IsFiniteSet(A \cup B)
      /\ Cardinality(A \cup B)
           = Cardinality(A) + Cardinality(B) - Cardinality(A \cap B)
    BY FS_Union
<1> QED
    BY <1>2, <1>3, <1>4

LEMMA ThreeSize ==
    ASSUME NEW A, NEW B, NEW C, IsFiniteSet(A), IsFiniteSet(B), IsFiniteSet(C),
           A \cap B = {}, A \cap C = {}, B \cap C = {}
    PROVE  /\ IsFiniteSet(A \cup B \cup C)
           /\ Cardinality(A \cup B \cup C)
                = Cardinality(A) + Cardinality(B) + Cardinality(C)
           /\ Cardinality(A) \in Nat /\ Cardinality(B) \in Nat
           /\ Cardinality(C) \in Nat
<1> DEFINE D == A \cup B
<1>1. /\ IsFiniteSet(D) /\ Cardinality(D) = Cardinality(A) + Cardinality(B)
      /\ Cardinality(A) \in Nat /\ Cardinality(B) \in Nat
    BY TwoSize
<1>2. \A x \in D : x \notin C
    OBVIOUS
<1> HIDE DEF D
<1>3. /\ IsFiniteSet(D \cup C)
      /\ Cardinality(D \cup C) = Cardinality(D) + Cardinality(C)
      /\ Cardinality(C) \in Nat
    BY <1>1, <1>2, TwoSize
<1> QED
    BY <1>1, <1>3 DEF D

LEMMA SingleSize ==
    \A x, yes : LET S == {h \in {x} : yes} IN
                IsFiniteSet(S) /\ Cardinality(S) = One(yes)
<1> TAKE x, yes
<1>1. CASE yes
  <2>1. {h \in {x} : yes} = {x}
      BY <1>1
  <2> QED
      BY <1>1, <2>1, FS_Singleton DEF One
<1>2. CASE ~ yes
  <2>1. {h \in {x} : yes} = {}
      BY <1>2
  <2> QED
      BY <1>2, <2>1, FS_EmptySet DEF One
<1> QED
    BY <1>1, <1>2

LEMMA ThreadSize ==
    TypeOK => \A p, which : \A t \in Threads :
        /\ IsFiniteSet(ThreadHolds(p, t, which))
        /\ Cardinality(ThreadHolds(p, t, which)) = ThreadTally(p, t, which)
<1> SUFFICES ASSUME TypeOK, NEW p, NEW which, NEW t \in Threads
             PROVE  /\ IsFiniteSet(ThreadHolds(p, t, which))
                    /\ Cardinality(ThreadHolds(p, t, which))
                         = ThreadTally(p, t, which)
    OBVIOUS
<1> DEFINE A == {h \in {<<"own", t, 0>>} : Owning(p, t, which)}
           B == {h \in {<<"next", t, 0>>} : Taking(p, t, which)}
           I == In(p, "left", t, left[t])
           C == {h \in I : which = "all" \/ pc[t] = "job"}
<1>1. IsFiniteSet(A) /\ Cardinality(A) = One(Owning(p, t, which))
    BY SingleSize
<1>2. IsFiniteSet(B) /\ Cardinality(B) = One(Taking(p, t, which))
    BY SingleSize
<1>3. IsFiniteSet(I) /\ Cardinality(I) = Count(p, left[t])
  <2>1. left[t] \in Seq(Entries)
      BY DEF TypeOK
  <2> QED
      BY <2>1, InSize
<1>4. IsFiniteSet(C)
      /\ Cardinality(C) = IF which = "all" \/ pc[t] = "job"
                          THEN Count(p, left[t]) ELSE 0
  <2>1. CASE which = "all" \/ pc[t] = "job"
    <3>1. C = I
        BY <2>1
    <3> QED
        BY <2>1, <3>1, <1>3
  <2>2. CASE ~(which = "all" \/ pc[t] = "job")
    <3>1. C = {}
        BY <2>2
    <3> QED
        BY <2>2, <3>1, FS_EmptySet
  <2> QED
      BY <2>1, <2>2
<1>5. A \cap B = {} /\ A \cap C = {} /\ B \cap C = {}
    BY DEF In
<1>6. ThreadHolds(p, t, which) = A \cup B \cup C
    BY DEF ThreadHolds
<1> HIDE DEF A, B, C
<1>7. IsFiniteSet(A \cup B \cup C) /\
      Cardinality(A \cup B \cup C)
        = Cardinality(A) + Cardinality(B) + Cardinality(C)
    BY <1>1, <1>2, <1>4, <1>5, ThreeSize
<1> QED
    BY <1>1, <1>2, <1>4, <1>6, <1>7 DEF ThreadTally

LEMMA SentSeq ==
    TypeOK => \A s \in Sessions :
        /\ Sent(s) \in Seq(Entries)
        /\ Len(Sent(s)) = Len(sentPacketArray[s])
        /\ \A i \in 1 .. Len(Sent(s)) :
              Sent(s)[i] = sentPacketArray[s][i].entry
<1> SUFFICES ASSUME TypeOK, NEW s \in Sessions
             PROVE  /\ Sent(s) \in Seq(Entries)
                    /\ Len(Sent(s)) = Len(sentPacketArray[s])
                    /\ \A i \in 1 .. Len(Sent(s)) :
                          Sent(s)[i] = sentPacketArray[s][i].entry
    OBVIOUS
<1>1. sentPacketArray[s] \in Seq(Buffers)
    BY DEF TypeOK
<1>2. \A i \in 1 .. Len(sentPacketArray[s]) :
         sentPacketArray[s][i].entry \in Entries
  <2>1. \A i \in 1 .. Len(sentPacketArray[s]) :
           sentPacketArray[s][i] \in Buffers
      BY <1>1
  <2> QED
      BY <2>1 DEF Buffers
<1> DEFINE q == sentPacketArray[s]
           f == [i \in 1 .. Len(q) |-> q[i].entry]
<1>3. Sent(s) = f
    BY <1>1 DEF Sent
<1>4. f \in Seq(Entries) /\ Len(f) = Len(q)
    BY <1>1, <1>2
<1> QED
    BY <1>3, <1>4

LEMMA SessionSize ==
    TypeOK => \A p, which : \A s \in Sessions :
        /\ IsFiniteSet(SessionHolds(p, s, which))
        /\ Cardinality(SessionHolds(p, s, which)) = SessionTally(p, s, which)
<1> SUFFICES ASSUME TypeOK, NEW p, NEW which, NEW s \in Sessions
             PROVE  /\ IsFiniteSet(SessionHolds(p, s, which))
                    /\ Cardinality(SessionHolds(p, s, which))
                         = SessionTally(p, s, which)
    OBVIOUS
<1> DEFINE I == In(p, "queue", s, sendQueue[s])
           J == In(p, "sent", s, Sent(s))
           A == {h \in I : which = "all"}
           B == {h \in J : which = "all"}
           C == In(p, "job", s, JobQueue[s])
<1>0. sendQueue[s] \in Seq(Entries) /\ JobQueue[s] \in Seq(Entries)
      /\ Sent(s) \in Seq(Entries)
    BY SentSeq DEF TypeOK
<1>1. IsFiniteSet(I) /\ Cardinality(I) = Count(p, sendQueue[s])
    BY <1>0, InSize
<1>2. IsFiniteSet(J) /\ Cardinality(J) = Count(p, Sent(s))
    BY <1>0, InSize
<1>3. IsFiniteSet(C) /\ Cardinality(C) = Count(p, JobQueue[s])
    BY <1>0, InSize
<1>4. /\ IsFiniteSet(A) /\ IsFiniteSet(B)
      /\ Cardinality(A) = IF which = "all" THEN Count(p, sendQueue[s]) ELSE 0
      /\ Cardinality(B) = IF which = "all" THEN Count(p, Sent(s)) ELSE 0
  <2>1. CASE which = "all"
    <3>1. A = I /\ B = J
        BY <2>1
    <3> QED
        BY <2>1, <3>1, <1>1, <1>2
  <2>2. CASE which # "all"
    <3>1. A = {} /\ B = {}
        BY <2>2
    <3> QED
        BY <2>2, <3>1, FS_EmptySet
  <2> QED
      BY <2>1, <2>2
<1>5. A \cap B = {} /\ A \cap C = {} /\ B \cap C = {}
    BY DEF In
<1>6. SessionHolds(p, s, which) = A \cup B \cup C
    BY DEF SessionHolds
<1> HIDE DEF A, B, C
<1>7. IsFiniteSet(A \cup B \cup C) /\
      Cardinality(A \cup B \cup C)
        = Cardinality(A) + Cardinality(B) + Cardinality(C)
  <2>1. IsFiniteSet(A) /\ IsFiniteSet(B) /\ IsFiniteSet(C)
      BY <1>3, <1>4
  <2> QED
      BY <2>1, <1>5, ThreeSize
<1> QED
    BY <1>3, <1>4, <1>6, <1>7 DEF SessionTally, C

LEMMA FamilyFinite ==
    ASSUME NEW T, IsFiniteSet(T), NEW f, \A u \in T : IsFiniteSet(f[u])
    PROVE  IsFiniteSet(UNION {f[u] : u \in T})
<1> DEFINE F == {f[u] : u \in T}
           g == [u \in T |-> f[u]]
<1>1. g \in Surjection(T, F)
    BY DEF Surjection
<1>2. \A A \in F : IsFiniteSet(A)
    OBVIOUS
<1> HIDE DEF g, F
<1>3. IsFiniteSet(F)
    BY <1>1, FS_Surjection
<1>4. IsFiniteSet(UNION F)
    BY <1>2, <1>3, FS_UNION
<1> QED
    BY <1>4 DEF F

LEMMA ThreadsFinite ==
    TypeOK => \A p, which : \A T \in SUBSET Threads :
        IsFiniteSet(UNION {ThreadHolds(p, u, which) : u \in T})
<1> SUFFICES ASSUME TypeOK, NEW p, NEW which, NEW T \in SUBSET Threads
             PROVE  IsFiniteSet(UNION {ThreadHolds(p, u, which) : u \in T})
    OBVIOUS
<1> DEFINE f == [u \in T |-> ThreadHolds(p, u, which)]
<1>1. IsFiniteSet(T)
    BY FlowAssumption, FS_Subset
<1>2. \A u \in T : IsFiniteSet(f[u])
    BY ThreadSize
<1>3. {ThreadHolds(p, u, which) : u \in T} = {f[u] : u \in T}
    OBVIOUS
<1> HIDE DEF f
<1>4. IsFiniteSet(UNION {f[u] : u \in T})
    BY <1>1, <1>2, FamilyFinite
<1> QED
    BY <1>3, <1>4

LEMMA SessionsFinite ==
    TypeOK => \A p, which : \A T \in SUBSET Sessions :
        IsFiniteSet(UNION {SessionHolds(p, s, which) : s \in T})
<1> SUFFICES ASSUME TypeOK, NEW p, NEW which, NEW T \in SUBSET Sessions
             PROVE  IsFiniteSet(UNION {SessionHolds(p, s, which) : s \in T})
    OBVIOUS
<1> DEFINE f == [s \in T |-> SessionHolds(p, s, which)]
<1>1. IsFiniteSet(T)
    BY FlowAssumption, FS_Subset
<1>2. \A s \in T : IsFiniteSet(f[s])
    BY SessionSize
<1>3. {SessionHolds(p, s, which) : s \in T} = {f[s] : s \in T}
    OBVIOUS
<1> HIDE DEF f
<1>4. IsFiniteSet(UNION {f[s] : s \in T})
    BY <1>1, <1>2, FamilyFinite
<1> QED
    BY <1>3, <1>4

\* The holders are those of one thread, of one session, and the rest.
Split(p, t, which) ==
    /\ IsFiniteSet(Counted(p, which))
    /\ Cardinality(Others(p, t, which)) \in Nat
    /\ ThreadTally(p, t, which) \in Nat
    /\ Cardinality(Counted(p, which))
         = Cardinality(Others(p, t, which)) + ThreadTally(p, t, which)
    /\ \A s \in Sessions :
          /\ Cardinality(Rest(p, t, s, which)) \in Nat
          /\ SessionTally(p, s, which) \in Nat
          /\ Cardinality(Others(p, t, which))
               = Cardinality(Rest(p, t, s, which))
                   + SessionTally(p, s, which)

LEMMA Tallies ==
    TypeOK => \A p, which : \A t \in Threads : Split(p, t, which)
<1> SUFFICES ASSUME TypeOK, NEW p, NEW which, NEW t \in Threads
             PROVE  Split(p, t, which)
    OBVIOUS
<1> DEFINE TU(T) == UNION {ThreadHolds(p, u, which) : u \in T}
           SU(T) == UNION {SessionHolds(p, s, which) : s \in T}
           O == Others(p, t, which)
           H == ThreadHolds(p, t, which)
<1>1. /\ \A T : \A h : h \in TU(T) <=> \E u \in T : h \in ThreadHolds(p, u, which)
      /\ \A T : \A h : h \in SU(T) <=> \E s \in T : h \in SessionHolds(p, s, which)
    OBVIOUS
<1>2. Counted(p, which) = TU(Threads) \cup SU(Sessions)
    BY CountedIs
<1>3. /\ O = TU(Threads \ {t}) \cup SU(Sessions)
      /\ \A s : Rest(p, t, s, which) = TU(Threads \ {t}) \cup SU(Sessions \ {s})
    BY DEF Others, Rest
<1>4. /\ \A T \in SUBSET Threads : IsFiniteSet(TU(T))
      /\ \A T \in SUBSET Sessions : IsFiniteSet(SU(T))
    BY ThreadsFinite, SessionsFinite
<1> HIDE DEF TU, SU, O, H
<1>5. \A h \in SU(Sessions) : h[1] \in {"queue", "sent", "job"}
    BY <1>1, SessionParts
<1>6. \A h \in TU(Threads \ {t}) :
          h[1] \in {"own", "next", "left"} /\ h[2] # t
  <2> SUFFICES ASSUME NEW h \in TU(Threads \ {t})
               PROVE  h[1] \in {"own", "next", "left"} /\ h[2] # t
      OBVIOUS
  <2>1. PICK u \in Threads : u # t /\ h \in ThreadHolds(p, u, which)
    <3>1. \E u \in Threads \ {t} : h \in ThreadHolds(p, u, which)
        BY <1>1
    <3> QED
        BY <3>1
  <2> QED
      BY <2>1, ThreadParts
<1>7. \A h \in H : h[1] \in {"own", "next", "left"} /\ h[2] = t
    BY ThreadParts DEF H
<1>8. IsFiniteSet(TU(Threads \ {t})) /\ IsFiniteSet(SU(Sessions))
    BY <1>4
<1>9. \A x \in TU(Threads \ {t}) : x \notin SU(Sessions)
    BY <1>5, <1>6
<1>10. IsFiniteSet(O)
    BY <1>3, <1>8, <1>9, TwoSize
<1>11. IsFiniteSet(H) /\ Cardinality(H) = ThreadTally(p, t, which)
    BY ThreadSize DEF H
<1>12. \A x \in O : x \notin H
    BY <1>3, <1>5, <1>6, <1>7
<1>13. Counted(p, which) = O \cup H
  <2>1. \A h : h \in TU(Threads) <=> h \in TU(Threads \ {t}) \/ h \in H
      BY <1>1 DEF H
  <2> QED
      BY <1>2, <1>3, <2>1
<1>14. /\ IsFiniteSet(O \cup H)
       /\ Cardinality(O \cup H) = Cardinality(O) + Cardinality(H)
       /\ Cardinality(O) \in Nat /\ Cardinality(H) \in Nat
    BY <1>10, <1>11, <1>12, TwoSize
<1>15. ASSUME NEW s \in Sessions
       PROVE  /\ Cardinality(Rest(p, t, s, which)) \in Nat
              /\ SessionTally(p, s, which) \in Nat
              /\ Cardinality(O) = Cardinality(Rest(p, t, s, which))
                                    + SessionTally(p, s, which)
  <2> DEFINE R == Rest(p, t, s, which)
             S == SessionHolds(p, s, which)
  <2>1. R = TU(Threads \ {t}) \cup SU(Sessions \ {s})
      BY <1>3
  <2>2. \A h \in SU(Sessions \ {s}) :
            h[1] \in {"queue", "sent", "job"} /\ h[2] # s
    <3> SUFFICES ASSUME NEW h \in SU(Sessions \ {s})
                 PROVE  h[1] \in {"queue", "sent", "job"} /\ h[2] # s
        OBVIOUS
    <3>1. PICK r \in Sessions : r # s /\ h \in SessionHolds(p, r, which)
      <4>1. \E r \in Sessions \ {s} : h \in SessionHolds(p, r, which)
          BY <1>1
      <4> QED
          BY <4>1
    <3> QED
        BY <3>1, SessionParts
  <2>3. \A h \in S : h[1] \in {"queue", "sent", "job"} /\ h[2] = s
      BY SessionParts
  <2>4. IsFiniteSet(S) /\ Cardinality(S) = SessionTally(p, s, which)
      BY SessionSize
  <2>5. \A h : h \in SU(Sessions) <=> h \in SU(Sessions \ {s}) \/ h \in S
      BY <1>1
  <2> HIDE DEF R, S
  <2>6. IsFiniteSet(R)
    <3>1. IsFiniteSet(SU(Sessions \ {s}))
        BY <1>4
    <3>2. \A x \in TU(Threads \ {t}) : x \notin SU(Sessions \ {s})
        BY <1>6, <2>2
    <3> QED
        BY <2>1, <3>1, <3>2, <1>8, TwoSize
  <2>7. \A x \in R : x \notin S
      BY <2>1, <2>2, <2>3, <1>6
  <2>8. O = R \cup S
      BY <1>3, <2>1, <2>5
  <2>9. /\ Cardinality(R \cup S) = Cardinality(R) + Cardinality(S)
        /\ Cardinality(R) \in Nat /\ Cardinality(S) \in Nat
      BY <2>4, <2>6, <2>7, TwoSize
  <2> QED
      BY <2>4, <2>8, <2>9 DEF R
<1> QED
    BY <1>11, <1>13, <1>14, <1>15 DEF O, Split

LEMMA TalliesNext ==
    TypeOK' => (\A p, which : \A t \in Threads : Split(p, t, which))'
BY Tallies, PTL

-----------------------------------------------------------------------------
(* Types. *)

PacketOK == /\ packet \in [Packets -> Objects]
            /\ \A p \in Packets : Good(packet[p])
QueueOK ==
    /\ pool \subseteq Packets
    /\ isValid \in [Sessions -> BOOLEAN]
    /\ receiver \in [Sessions -> Workers \cup {Nobody}]
    /\ sendFlag \in [Sessions -> 0 .. 1]
    /\ sendQueue \in [Sessions -> Seq(Entries)]
    /\ sentPacketArray \in [Sessions -> Seq(Buffers)]
    /\ overlapped \in [Sessions -> {"none", "sending", "sent", "failed"}]
    /\ JobQueue \in [Sessions -> Seq(Entries)]
    /\ made \in Seq(Nat) /\ Len(made) <= MaxMessages
LocalOK ==
    /\ pc \in [Threads -> {"idle", "send", "encode", "enqueue", "job",
                           "handled", "post", "recv", "push", "drop", "free"}]
    /\ mine \in [Threads -> Entries \cup {Nobody}]
    /\ targets \in [Threads -> Seq(Sessions)]
    /\ at \in [Threads -> Sessions \cup {Nobody}]
    /\ left \in [Threads -> Seq(Entries)]

LEMMA TypeParts == TypeOK <=> PacketOK /\ QueueOK /\ LocalOK
BY DEF TypeOK, PacketOK, QueueOK, LocalOK, Good

LEMMA TypePartsNext == TypeOK' <=> PacketOK' /\ QueueOK' /\ LocalOK'
BY TypeParts, PTL

LEMMA PacketStep ==
    ASSUME PacketOK, NEW p \in Packets, NEW o, Good(o),
           packet' = Set(packet, p, o)
    PROVE  /\ PacketOK'
           /\ packet'[p] = o
           /\ \A q \in Packets \ {p} : packet'[q] = packet[q]
BY DEF PacketOK, Set, Good

LEMMA PacketSame ==
    ASSUME PacketOK, packet' = packet PROVE PacketOK'
BY DEF PacketOK, Good

LEMMA EntryType ==
    ASSUME NEW e \in Entries
    PROVE  e.packet \in Packets /\ e.number \in 0 .. MaxMessages /\ e # Nobody
<1>1. e.packet \in Packets /\ e.number \in 0 .. MaxMessages
    BY DEF Entries
<1>2. e \in [packet : Packets, number : Nat]
    BY FlowAssumption DEF Entries
<1> QED
    BY <1>1, <1>2, FlowAssumption

LEMMA NewEntry ==
    ASSUME QueueOK, NEW n, NewMessage(n), NEW p \in Packets
    PROVE  /\ Number \in 1 .. MaxMessages /\ Entry(p, Number) \in Entries
           /\ Entry(p, Number).packet = p /\ Entry(p, Number).number = Number
<1>1. Len(made) \in Nat /\ Len(made) < MaxMessages /\ MaxMessages \in Nat
    BY FlowAssumption DEF QueueOK, NewMessage
<1>2. Number \in 1 .. MaxMessages /\ Number \in 0 .. MaxMessages
    BY <1>1 DEF Number
<1> QED
    BY <1>2 DEF Entry, Entries

LEMMA NewMade ==
    ASSUME QueueOK, NEW n \in Nat, NewMessage(n)
    PROVE  /\ made' \in Seq(Nat) /\ Len(made') <= MaxMessages
           /\ Len(made') = Number /\ made'[Number] = n
           /\ \A k \in 1 .. Len(made) : made'[k] = made[k]
<1>1. made \in Seq(Nat) /\ Len(made) < MaxMessages /\ MaxMessages \in Nat
      /\ made' = Append(made, n) /\ Len(made) \in Nat
    BY FlowAssumption DEF QueueOK, NewMessage
<1> QED
    BY <1>1 DEF Number

\* The fields of a message just built.
BuiltFor(o, k, n) ==
    /\ Good(o) /\ o.refCount = 1 /\ o.encodeFlag = FALSE
    /\ o.readPos = 0 /\ o.writePos > 1
    /\ \A i \in Position : 1 <= i /\ i < o.writePos => o.bytes[i] = Byte(k)
    /\ n \in Nat
    /\ n < BufferSize - 1 => o.writePos = n + 1

LEMMA BuildObject ==
    ASSUME NEW o, Good(o), NEW message \in Messages, NEW k \in 1 .. MaxMessages
    PROVE  BuiltFor(Fill(addRef(Clear(mAlloc(o)), 1), message, k), k,
                    Length(message))
<1> DEFINE a == mAlloc(o)
           c == Clear(a)
           d == addRef(c, 1)
<1>1. Good(a) /\ a.refCount = 0 /\ a.encodeFlag = FALSE
    BY MAllocGood
<1> HIDE DEF a
<1>2. Good(c) /\ c.refCount = 0 /\ c.encodeFlag = FALSE
      /\ c.readPos = 0 /\ c.writePos = 1
    BY <1>1, ClearGood
<1> HIDE DEF c
<1>3. Good(d) /\ d.refCount = 1 /\ d.encodeFlag = FALSE
      /\ d.readPos = 0 /\ d.writePos = 1
  <2>1. /\ Good(d) /\ d.refCount = c.refCount + 1
        /\ d.encodeFlag = c.encodeFlag /\ d.readPos = c.readPos
        /\ d.writePos = c.writePos
      BY <1>2, AddRefGood
  <2> QED
      BY <1>2, <2>1
<1> HIDE DEF d
<1> DEFINE r == Fill(d, message, k)
<1>4. /\ Good(r)
      /\ r.refCount = d.refCount /\ r.encodeFlag = d.encodeFlag
      /\ r.readPos = 0 /\ r.writePos > 1
      /\ \A i \in Position : 1 <= i /\ i < r.writePos => r.bytes[i] = Byte(k)
      /\ Length(message) \in Nat
      /\ Length(message) < BufferSize - 1 => r.writePos = Length(message) + 1
    BY <1>3, FillGood
<1> HIDE DEF r
<1>5. BuiltFor(r, k, Length(message))
    BY <1>3, <1>4 DEF BuiltFor
<1> QED
    BY <1>5 DEF r, d, c, a

\* The fields of a message just received.
ReceivedAs(o, k, n) ==
    /\ Good(o) /\ o.refCount = 1
    /\ IF n + 1 <= end
       THEN /\ o.readPos = 1 /\ o.writePos = n + 1
            /\ \A i \in Position :
                   1 <= i /\ i < o.writePos => o.bytes[i] = Byte(k)
       ELSE o.readPos = 0 /\ o.writePos = 0

LEMMA PayloadType ==
    \A n \in Payloads : n \in Nat /\ n \in 0 .. BufferSize
<1>1. BufferSize \in Nat
    BY Bounds
<1>2. \A n \in Payloads : n \in 0 .. BufferSize
    BY FlowAssumption
<1> QED
    BY <1>1, <1>2

LEMMA NewInSteps ==
    ASSUME NEW o \in Objects, NEW r, NEW w, NEW d, NEW b, NEW x, d = w - r,
           NEW f, f = [o EXCEPT !.bytes = b],
           NEW g, g = [f EXCEPT !.writePos = w, !.DataSize = x],
           NEW h, h = [g EXCEPT !.readPos = r, !.DataSize = d]
    PROVE  h = NewObject(o, r, w, b, o.encodeFlag)
BY DEF Objects, NewObject

LEMMA ReceiveObject ==
    ASSUME NEW o, Good(o), NEW n \in Payloads, NEW k \in 1 .. MaxMessages
    PROVE  ReceivedAs(Received(o, n, k), k, n)
<1> DEFINE a == mAlloc(o)
           c == ClearNetwork(a)
           d == addRef(c, 1)
           b1 == Written(d.bytes, 0, 1, Header(n))
           b2 == Written(b1, 1, n, Byte(k))
           f == [d EXCEPT !.bytes = b2]
<1>1. Good(a) /\ a.refCount = 0 /\ a.encodeFlag = FALSE
    BY MAllocGood
<1> HIDE DEF a
<1>2. Good(c) /\ c.refCount = 0 /\ c.readPos = 0 /\ c.writePos = 0
    BY <1>1, ClearNetworkGood
<1> HIDE DEF c
<1>3. Good(d) /\ d.refCount = 1 /\ d.readPos = 0 /\ d.writePos = 0
  <2>1. /\ Good(d) /\ d.refCount = c.refCount + 1
        /\ d.readPos = c.readPos /\ d.writePos = c.writePos
      BY <1>2, AddRefGood
  <2> QED
      BY <1>2, <2>1
<1>4. /\ d.bytes \in [Position -> Cells] /\ d \in Objects
      /\ d.encodeFlag \in BOOLEAN /\ d.DataSize = 0
    BY <1>3, GoodFields
<1>5. n \in Nat /\ n \in 0 .. BufferSize
    BY PayloadType
<1>6. end \in Nat /\ Position = 0 .. end
    BY Bounds
<1>7. b2 \in [Position -> Cells]
  <2>1. b1 \in [Position -> Cells]
      BY <1>4, <1>5, CellTypes, WrittenType
  <2> HIDE DEF b1
  <2> QED
      BY <2>1, CellTypes, WrittenType
<1>8. \A i \in Position : 1 <= i /\ i < n + 1 => b2[i] = Byte(k)
    BY <1>5, <1>6 DEF Written
<1>9. Received(o, n, k) = MoveReadPos(MoveWritePos(f, n + 1), 1)
  <2> DEFINE w == d.writePos
             v == w + 1
             e == Written(Written(d.bytes, w, 1, Header(n)), v, n, Byte(k))
  <2>1. Received(o, n, k)
          = MoveReadPos(MoveWritePos([d EXCEPT !.bytes = e], n + 1), 1)
      BY DEF Received, GetWriteBufferPtr, dfNETWORK_HEADER_SIZE, a, c
  <2>2. w = 0
      BY <1>3
  <2> HIDE DEF w
  <2>3. v = 1
      BY <2>2
  <2> HIDE DEF v
  <2> QED
      BY <2>1, <2>2, <2>3
<1> HIDE DEF d, b2
<1>10. f \in Objects /\ f.writePos = 0 /\ f.readPos = 0 /\ f.DataSize = 0
    BY <1>3, <1>4, <1>7 DEF Objects
\* The message does not fit: neither position moves.
<1>20. CASE ~(n + 1 <= end)
  <2>1. MoveWritePos(f, n + 1) = f
    <3>1. end - f.writePos < n + 1
        BY <1>5, <1>6, <1>10, <1>20
    <3> HIDE DEF f
    <3> QED
        BY <3>1 DEF MoveWritePos
  <2>2. MoveReadPos(f, 1) = f
    <3>1. f.writePos - f.readPos < 1
        BY <1>10
    <3> HIDE DEF f
    <3> QED
        BY <3>1 DEF MoveReadPos
  <2>3. Good(f) /\ f.refCount = 1
      BY <1>3, <1>7, <1>10 DEF Good, Objects
  <2>4. Received(o, n, k) = f
      BY <1>9, <2>1, <2>2
  <2> HIDE DEF f
  <2> QED
      BY <1>10, <1>20, <2>3, <2>4 DEF ReceivedAs
<1>21. SUFFICES ASSUME n + 1 <= end PROVE ReceivedAs(Received(o, n, k), k, n)
    BY <1>20
<1>11. MoveWritePos(f, n + 1)
         = [f EXCEPT !.writePos = n + 1, !.DataSize = n + 1]
  <2>1. ~ n + 1 <= 0 /\ ~ end - f.writePos < n + 1 /\ 0 + (n + 1) = n + 1
      BY <1>5, <1>6, <1>10, <1>21
  <2> HIDE DEF f
  <2> QED
      BY <2>1, <1>10 DEF MoveWritePos, Objects
<1> DEFINE g == [f EXCEPT !.writePos = n + 1, !.DataSize = n + 1]
<1>12. /\ g.writePos = n + 1 /\ g.readPos = 0 /\ g.DataSize = n + 1
       /\ g \in Objects
  <2>1. n + 1 \in Position /\ n + 1 \in 0 .. end
      BY <1>5, <1>6, <1>21
  <2> QED
      BY <2>1, <1>10 DEF Objects
<1>13. MoveReadPos(g, 1) = [g EXCEPT !.readPos = 1, !.DataSize = n]
  <2> DEFINE v == g.readPos + 1
             y == g.DataSize - 1
  <2>1. ~ 1 <= 0 /\ ~ g.writePos - g.readPos < 1 /\ v = 1 /\ y = n
      BY <1>5, <1>12
  <2> HIDE DEF g
  <2>2. MoveReadPos(g, 1) = [g EXCEPT !.readPos = v, !.DataSize = y]
      BY <2>1 DEF MoveReadPos
  <2> HIDE DEF v, y
  <2> QED
      BY <2>1, <2>2
<1>14. [g EXCEPT !.readPos = 1, !.DataSize = n]
         = NewObject(d, 1, n + 1, b2, d.encodeFlag)
  <2> DEFINE m == n + 1
             one == 1
             h == [g EXCEPT !.readPos = one, !.DataSize = n]
  <2>1. n = m - one
      BY <1>5
  <2>2. d \in Objects
      BY <1>4
  <2>3. f = [d EXCEPT !.bytes = b2]
      OBVIOUS
  <2>4. g = [f EXCEPT !.writePos = m, !.DataSize = m]
      OBVIOUS
  <2>5. h = [g EXCEPT !.readPos = one, !.DataSize = n]
      OBVIOUS
  <2> HIDE DEF f, g, m, h, one
  <2>6. h = NewObject(d, one, m, b2, d.encodeFlag)
      BY <2>1, <2>2, <2>3, <2>4, <2>5 DEF NewObject, Objects
  <2> QED
      BY <2>6 DEF h, m, one
<1> DEFINE r == NewObject(d, 1, n + 1, b2, d.encodeFlag)
<1>15. Good(r) /\ r.readPos = 1 /\ r.writePos = n + 1 /\ r.bytes = b2
       /\ r.refCount = d.refCount
  <2>1. 1 \in Position /\ n + 1 \in Position /\ 1 <= n + 1
      BY <1>5, <1>6, <1>21
  <2> QED
      BY <1>4, <1>7, <2>1, NewFields
<1>16. Received(o, n, k) = r
  <2>1. Received(o, n, k) = MoveReadPos(g, 1)
      BY <1>9, <1>11
  <2> HIDE DEF g, r
  <2> QED
      BY <2>1, <1>13, <1>14 DEF r
<1> HIDE DEF r
<1> QED
    BY <1>3, <1>8, <1>15, <1>16, <1>21 DEF ReceivedAs

LEMMA DatagramObject ==
    ASSUME NEW o, Good(o), NEW n \in Payloads
    PROVE  LET new == addRef(ClearNetwork(mAlloc(o)), 1)
               r == Get([new EXCEPT !.bytes =
                           Written(@, GetWriteBufferPtr(new), n, Garbage)], 1)
           IN  Good(r) /\ r.refCount = 1
<1> DEFINE a == mAlloc(o)
           c == ClearNetwork(a)
           d == addRef(c, 1)
           b == Written(d.bytes, GetWriteBufferPtr(d), n, Garbage)
           f == [d EXCEPT !.bytes = b]
<1>1. Good(a) /\ a.refCount = 0
    BY MAllocGood
<1> HIDE DEF a
<1>2. Good(c) /\ c.refCount = 0 /\ c.readPos = 0 /\ c.writePos = 0
    BY <1>1, ClearNetworkGood
<1> HIDE DEF c
<1>3. Good(d) /\ d.refCount = 1 /\ d.readPos = 0 /\ d.writePos = 0
  <2>1. /\ Good(d) /\ d.refCount = c.refCount + 1
        /\ d.readPos = c.readPos /\ d.writePos = c.writePos
      BY <1>2, AddRefGood
  <2> QED
      BY <1>2, <2>1
<1> HIDE DEF d
<1>4. b \in [Position -> Cells]
  <2>1. d.bytes \in [Position -> Cells]
      BY <1>3, GoodFields
  <2> QED
      BY <2>1, WrittenType, CellTypes
<1> HIDE DEF b
<1>5. Good(f) /\ f.refCount = 1 /\ f.readPos = 0 /\ f.writePos = 0
    BY <1>3, <1>4 DEF Good, Objects
<1>6. Get(f, 1) = f
    BY <1>5 DEF Get
<1>7. Good(Get(f, 1)) /\ Get(f, 1).refCount = 1
    BY <1>5, <1>6
<1> QED
    BY <1>7 DEF f, b, d, c, a

-----------------------------------------------------------------------------
(* What a step of one thread leaves alone. *)

Elsewhere(t) ==
    \A u \in Threads : u # t =>
        /\ pc'[u] = pc[u] /\ mine'[u] = mine[u] /\ left'[u] = left[u]
        /\ at'[u] = at[u] /\ targets'[u] = targets[u]
SameQueues(s) ==
    /\ sendQueue'[s] = sendQueue[s] /\ JobQueue'[s] = JobQueue[s]
    /\ sentPacketArray'[s] = sentPacketArray[s]
QueuesElsewhere(s) == \A r \in Sessions : r # s => SameQueues(r)
QueuesKept == \A r \in Sessions : SameQueues(r)

LEMMA HoldsKept ==
    ASSUME NEW t \in Threads, Elsewhere(t)
    PROVE  /\ \A p, which : \A u \in Threads : u # t =>
                ThreadHolds(p, u, which)' = ThreadHolds(p, u, which)
           /\ \A p, which : \A s \in Sessions : SameQueues(s) =>
                SessionHolds(p, s, which)' = SessionHolds(p, s, which)
<1>1. ASSUME NEW p, NEW which, NEW u \in Threads, u # t
      PROVE  ThreadHolds(p, u, which)' = ThreadHolds(p, u, which)
  <2>1. pc'[u] = pc[u] /\ mine'[u] = mine[u] /\ left'[u] = left[u]
      BY <1>1 DEF Elsewhere
  <2>2. (Owning(p, u, which)' <=> Owning(p, u, which))
        /\ (Taking(p, u, which)' <=> Taking(p, u, which))
      BY <2>1 DEF Owning, Taking, Owns, Takes
  <2>3. In(p, "left", u, left[u])' = In(p, "left", u, left[u])
      BY <2>1 DEF In
  <2> QED
      BY <2>1, <2>2, <2>3 DEF ThreadHolds
<1>2. ASSUME NEW p, NEW which, NEW s \in Sessions, SameQueues(s)
      PROVE  SessionHolds(p, s, which)' = SessionHolds(p, s, which)
  <2>1. Sent(s)' = Sent(s)
      BY <1>2 DEF SameQueues, Sent
  <2>2. In(p, "sent", s, Sent(s))' = In(p, "sent", s, Sent(s))
      BY <2>1 DEF In
  <2>3. /\ In(p, "queue", s, sendQueue[s])' = In(p, "queue", s, sendQueue[s])
        /\ In(p, "job", s, JobQueue[s])' = In(p, "job", s, JobQueue[s])
      BY <1>2 DEF SameQueues, In
  <2> QED
      BY <2>2, <2>3 DEF SessionHolds
<1> QED
    BY <1>1, <1>2

LEMMA OthersKept ==
    ASSUME NEW t \in Threads, Elsewhere(t), QueuesKept, NEW p, NEW which
    PROVE  Others(p, t, which)' = Others(p, t, which)
<1>1. {ThreadHolds(p, u, which)' : u \in Threads \ {t}}
        = {ThreadHolds(p, u, which) : u \in Threads \ {t}}
    BY HoldsKept
<1>2. {SessionHolds(p, s, which)' : s \in Sessions}
        = {SessionHolds(p, s, which) : s \in Sessions}
    BY HoldsKept DEF QueuesKept
<1> QED
    BY <1>1, <1>2, Zenon DEF Others

LEMMA RestKept ==
    ASSUME NEW t \in Threads, NEW s \in Sessions, Elsewhere(t),
           QueuesElsewhere(s), NEW p, NEW which
    PROVE  Rest(p, t, s, which)' = Rest(p, t, s, which)
<1>1. {ThreadHolds(p, u, which)' : u \in Threads \ {t}}
        = {ThreadHolds(p, u, which) : u \in Threads \ {t}}
    BY HoldsKept
<1>2. {SessionHolds(p, r, which)' : r \in Sessions \ {s}}
        = {SessionHolds(p, r, which) : r \in Sessions \ {s}}
    BY HoldsKept DEF QueuesElsewhere
<1> QED
    BY <1>1, <1>2, Zenon DEF Rest

HasPart(p, t, which) ==
    /\ References(p, which) \in Nat
    /\ ThreadTally(p, t, which) \in Nat
    /\ ThreadTally(p, t, which) <= References(p, which)
    /\ \A s \in Sessions :
          /\ SessionTally(p, s, which) \in Nat
          /\ SessionTally(p, s, which) <= References(p, which)

LEMMA ReferencesType ==
    TypeOK => \A p, which : \A t \in Threads : HasPart(p, t, which)
<1> SUFFICES ASSUME TypeOK, NEW p, NEW which, NEW t \in Threads
             PROVE  HasPart(p, t, which)
    OBVIOUS
<1>1. /\ Cardinality(Others(p, t, which)) \in Nat
      /\ ThreadTally(p, t, which) \in Nat
      /\ References(p, which)
           = Cardinality(Others(p, t, which)) + ThreadTally(p, t, which)
    BY Tallies DEF References, Split
<1>2. \A s \in Sessions :
         /\ Cardinality(Rest(p, t, s, which)) \in Nat
         /\ SessionTally(p, s, which) \in Nat
         /\ Cardinality(Others(p, t, which))
              = Cardinality(Rest(p, t, s, which)) + SessionTally(p, s, which)
    BY Tallies DEF Split
<1> QED
    BY <1>1, <1>2 DEF HasPart

LEMMA ReferencesTypeNext ==
    TypeOK' => (\A p, which : \A t \in Threads : HasPart(p, t, which))'
BY ReferencesType, PTL

\* A step changes the references of a packet by what it changes those of
\* one thread,
LEMMA ThreadMoves ==
    ASSUME TypeOK, TypeOK', NEW t \in Threads, Elsewhere(t), QueuesKept,
           NEW p, NEW which
    PROVE  References(p, which)' + ThreadTally(p, t, which)
             = References(p, which) + ThreadTally(p, t, which)'
<1>1. Others(p, t, which)' = Others(p, t, which)
    BY OthersKept
<1>2. /\ Cardinality(Others(p, t, which)) \in Nat
      /\ ThreadTally(p, t, which) \in Nat
      /\ References(p, which)
           = Cardinality(Others(p, t, which)) + ThreadTally(p, t, which)
    BY Tallies DEF References, Split
<1>3. /\ ThreadTally(p, t, which)' \in Nat
      /\ References(p, which)'
           = Cardinality(Others(p, t, which)') + ThreadTally(p, t, which)'
    BY TalliesNext DEF References, Split
<1> QED
    BY <1>1, <1>2, <1>3

\* or of one thread and one session.
LEMMA SessionMoves ==
    ASSUME TypeOK, TypeOK', NEW t \in Threads, NEW s \in Sessions,
           Elsewhere(t), QueuesElsewhere(s), NEW p, NEW which
    PROVE  References(p, which)' + ThreadTally(p, t, which)
               + SessionTally(p, s, which)
             = References(p, which) + ThreadTally(p, t, which)'
                 + SessionTally(p, s, which)'
<1>1. Rest(p, t, s, which)' = Rest(p, t, s, which)
    BY RestKept
<1>2. /\ Cardinality(Rest(p, t, s, which)) \in Nat
      /\ ThreadTally(p, t, which) \in Nat /\ SessionTally(p, s, which) \in Nat
      /\ References(p, which)
           = Cardinality(Rest(p, t, s, which)) + SessionTally(p, s, which)
               + ThreadTally(p, t, which)
    BY Tallies DEF References, Split
<1>3. /\ ThreadTally(p, t, which)' \in Nat /\ SessionTally(p, s, which)' \in Nat
      /\ References(p, which)'
           = Cardinality(Rest(p, t, s, which)') + SessionTally(p, s, which)'
               + ThreadTally(p, t, which)'
    BY TalliesNext DEF References, Split
<1> QED
    BY <1>1, <1>2, <1>3

\* What a thread has, by where it is.
Mined(p, t) == One(mine[t].packet = p)

TallyAt(p, t) ==
    /\ Count(p, left[t]) \in Nat /\ Mined(p, t) \in {0, 1}
    /\ pc[t] \in {"idle", "post"} =>
          ThreadTally(p, t, "all") = 0 /\ ThreadTally(p, t, "unread") = 0
    /\ pc[t] \in {"drop", "free", "handled"} =>
          /\ ThreadTally(p, t, "all") = Count(p, left[t])
          /\ ThreadTally(p, t, "unread") = 0
    /\ pc[t] = "send" =>
          /\ ThreadTally(p, t, "all") = Mined(p, t) + Count(p, left[t])
          /\ ThreadTally(p, t, "unread") = 0
    /\ pc[t] \in {"encode", "enqueue"} =>
          /\ ThreadTally(p, t, "all")
               = Mined(p, t) + Mined(p, t) + Count(p, left[t])
          /\ ThreadTally(p, t, "unread") = 0
    /\ pc[t] = "recv" =>
          /\ ThreadTally(p, t, "all") = Mined(p, t)
          /\ ThreadTally(p, t, "unread") = Mined(p, t)
    /\ pc[t] = "push" =>
          /\ ThreadTally(p, t, "all") = Mined(p, t) + Mined(p, t)
          /\ ThreadTally(p, t, "unread") = Mined(p, t)
    /\ pc[t] = "job" =>
          /\ ThreadTally(p, t, "all") = Count(p, left[t])
          /\ ThreadTally(p, t, "unread") = Count(p, left[t])

LEMMA StateTally ==
    TypeOK /\ Locals => \A p : \A t \in Threads : TallyAt(p, t)
<1> SUFFICES ASSUME TypeOK, Locals, NEW p, NEW t \in Threads
             PROVE  TallyAt(p, t)
    OBVIOUS
<1>1. Count(p, left[t]) \in Nat /\ Mined(p, t) \in {0, 1}
  <2>1. left[t] \in Seq(Entries)
      BY DEF TypeOK
  <2>2. Count(p, left[t]) \in Nat
      BY <2>1, CountType
  <2> QED
      BY <2>2 DEF Mined, One
<1>2. /\ mine[t] # Nobody <=>
            pc[t] \in {"send", "encode", "enqueue", "recv", "push", "free"}
      /\ pc[t] \in {"idle", "post", "recv", "push"} => left[t] = << >>
    BY DEF Locals, Local
<1>3. pc[t] \in {"idle", "post", "recv", "push"} => Count(p, left[t]) = 0
    BY <1>2, CountEmpty
<1> DEFINE o == One(Owning(p, t, "all"))
           n == One(Taking(p, t, "all"))
           ou == One(Owning(p, t, "unread"))
           c == Count(p, left[t])
<1>4. ThreadTally(p, t, "all") = o + n + c
    BY DEF ThreadTally
<1>5. ThreadTally(p, t, "unread") = ou + (IF pc[t] = "job" THEN c ELSE 0)
  <2>1. One(Taking(p, t, "unread")) = 0
      BY DEF Taking, One
  <2>2. ou \in {0, 1}
      BY DEF One
  <2> HIDE DEF ou
  <2> QED
      BY <1>1, <2>1, <2>2 DEF ThreadTally, ou
<1>6. o = IF pc[t] \in {"send", "encode", "enqueue", "recv", "push"}
          THEN Mined(p, t) ELSE 0
    BY <1>2 DEF Owning, Owns, One, Mined
<1>7. n = IF pc[t] \in {"encode", "enqueue", "push"} THEN Mined(p, t) ELSE 0
    BY <1>2 DEF Taking, Takes, One, Mined
<1>8. ou = IF pc[t] \in {"recv", "push"} THEN Mined(p, t) ELSE 0
    BY <1>2 DEF Owning, Owns, One, Mined
<1> HIDE DEF o, n, ou, c
<1>9. c = Count(p, left[t])
    BY DEF c
<1> QED
    BY <1>1, <1>3, <1>4, <1>5, <1>6, <1>7, <1>8, <1>9 DEF TallyAt

LEMMA StateTallyNext ==
    TypeOK' /\ Locals' => (\A p : \A t \in Threads : TallyAt(p, t))'
BY StateTally, PTL
-----------------------------------------------------------------------------
(* What a step keeps of the messages that the packets hold. *)

MadeGrows == /\ made \in Seq(Nat) /\ made' \in Seq(Nat)
             /\ Len(made) <= Len(made')
             /\ \A k \in 1 .. Len(made) : made'[k] = made[k]
SameContent(o, n) ==
    /\ n.readPos = o.readPos /\ n.writePos = o.writePos
    /\ n.bytes = o.bytes /\ n.encodeFlag = o.encodeFlag
KeptOut(e) == /\ Outgoing(e) => Outgoing(e)'
              /\ Encoded(e) => Encoded(e)' /\ Buffer(e)' = Buffer(e)
KeptIn(e) == Incoming(e) => Incoming(e)'

LEMMA MadeSame ==
    ASSUME QueueOK, made' = made PROVE MadeGrows
BY DEF QueueOK, MadeGrows

LEMMA MadeMore ==
    ASSUME QueueOK, NEW n \in Nat, NewMessage(n) PROVE MadeGrows
<1>1. made \in Seq(Nat) /\ Number = Len(made) + 1 /\ Len(made) \in Nat
    BY DEF QueueOK, Number
<1> QED
    BY <1>1, NewMade DEF MadeGrows

LEMMA SendableKept ==
    ASSUME NEW o, NEW n, SameContent(o, n), NEW k, NEW r \in Seq(Nat),
           NEW q \in Seq(Nat), Len(r) <= Len(q),
           \A j \in 1 .. Len(r) : q[j] = r[j]
    PROVE  /\ Sendable(o, k, r) => Sendable(n, k, q)
           /\ Readable(o, k, r) => Readable(n, k, q)
<1>1. k \in 1 .. Len(r) => k \in 1 .. Len(q) /\ q[k] = r[k]
    OBVIOUS
<1>2. ASSUME Sendable(o, k, r) PROVE Sendable(n, k, q)
    BY <1>1, <1>2 DEF Sendable, SameContent
<1>3. ASSUME Readable(o, k, r) PROVE Readable(n, k, q)
    BY <1>1, <1>3 DEF Readable, SameContent
<1> QED
    BY <1>2, <1>3

LEMMA ContentKept ==
    ASSUME MadeGrows, NEW e,
           SameContent(packet[e.packet], packet'[e.packet])
    PROVE  KeptOut(e) /\ KeptIn(e)
<1> DEFINE o == packet[e.packet]
           n == packet'[e.packet]
<1>1. /\ Sendable(o, e.number, made) => Sendable(n, e.number, made')
      /\ Readable(o, e.number, made) => Readable(n, e.number, made')
  <2>1. SameContent(o, n)
      OBVIOUS
  <2> HIDE DEF o, n
  <2> QED
      BY <2>1, SendableKept DEF MadeGrows
<1>2. n.encodeFlag = o.encodeFlag /\ Buffer(e)' = Buffer(e)
    BY DEF SameContent, Buffer, GetReadBufferPtr, GetDataSize
<1> QED
    BY <1>1, <1>2 DEF KeptOut, KeptIn, Outgoing, Encoded, Incoming

LEMMA SameKept ==
    ASSUME QueueOK, packet' = packet, made' = made
    PROVE  \A e \in Entries : KeptOut(e) /\ KeptIn(e)
<1>1. \A e : SameContent(packet[e.packet], packet'[e.packet])
    BY DEF SameContent
<1>2. MadeGrows
    BY MadeSame
<1> QED
    BY <1>1, <1>2, ContentKept

\* Counting a reference.
LEMMA CountingKept ==
    ASSUME QueueOK, made' = made, NEW p \in Packets, NEW o,
           packet' = Set(packet, p, o), PacketOK, SameContent(packet[p], o)
    PROVE  \A e \in Entries : KeptOut(e) /\ KeptIn(e)
<1>1. \A q \in Packets : SameContent(packet[q], packet'[q])
    BY DEF SameContent, Set, PacketOK
<1>2. MadeGrows
    BY MadeSame
<1> QED
    BY <1>1, <1>2, ContentKept, EntryType

\* A packet that was free is given a message.
LEMMA OthersContent ==
    ASSUME MadeGrows, NEW p \in Packets, PacketOK, NEW o,
           packet' = Set(packet, p, o), References(p, "all") = 0
    PROVE  \A e \in Entries :
               References(e.packet, "all") # 0 => KeptOut(e) /\ KeptIn(e)
<1> SUFFICES ASSUME NEW e \in Entries, References(e.packet, "all") # 0
             PROVE  KeptOut(e) /\ KeptIn(e)
    OBVIOUS
<1>1. e.packet \in Packets /\ e.packet # p
    BY EntryType
<1>2. SameContent(packet[e.packet], packet'[e.packet])
    BY <1>1 DEF SameContent, Set, PacketOK
<1> QED
    BY <1>2, ContentKept

LEMMA UnreadCounted ==
    TypeOK => \A p : \A t \in Threads :
                  References(p, "unread") <= References(p, "all")
<1> SUFFICES ASSUME TypeOK, NEW p, NEW t \in Threads
             PROVE  References(p, "unread") <= References(p, "all")
    OBVIOUS
<1>1. IsFiniteSet(Counted(p, "all"))
    BY Tallies DEF Split
<1>2. Counted(p, "unread") \in SUBSET Counted(p, "all")
    BY DEF Counted
<1>3. Cardinality(Counted(p, "unread")) <= Cardinality(Counted(p, "all"))
    BY <1>1, <1>2, FS_Subset
<1> QED
    BY <1>3 DEF References

\* What is in a place has a reference.
LEMMA InQueue ==
    ASSUME NEW q \in Seq(Entries), NEW i \in 1 .. Len(q)
    PROVE  q[i] \in Entries /\ Count(q[i].packet, q) # 0
<1>1. q[i] \in Entries
    OBVIOUS
<1> QED
    BY <1>1, CountType

HasQueued(s) ==
    /\ \A i \in 1 .. Len(sendQueue[s]) :
          /\ sendQueue[s][i] \in Entries
          /\ References(sendQueue[s][i].packet, "all") # 0
    /\ \A i \in 1 .. Len(sentPacketArray[s]) :
          /\ sentPacketArray[s][i].entry \in Entries
          /\ References(sentPacketArray[s][i].entry.packet, "all") # 0
    /\ \A i \in 1 .. Len(JobQueue[s]) :
          /\ JobQueue[s][i] \in Entries
          /\ References(JobQueue[s][i].packet, "all") # 0
          /\ References(JobQueue[s][i].packet, "unread") # 0

LEMMA QueueReferenced ==
    TypeOK => \A t \in Threads : \A s \in Sessions : HasQueued(s)
<1> SUFFICES ASSUME TypeOK, NEW s \in Sessions, NEW t \in Threads
             PROVE  HasQueued(s)
    OBVIOUS
<1>1. /\ sendQueue[s] \in Seq(Entries) /\ JobQueue[s] \in Seq(Entries)
      /\ Sent(s) \in Seq(Entries) /\ Len(Sent(s)) = Len(sentPacketArray[s])
      /\ \A i \in 1 .. Len(Sent(s)) : Sent(s)[i] = sentPacketArray[s][i].entry
    BY SentSeq DEF TypeOK
<1>2. \A p : /\ Count(p, sendQueue[s]) \in Nat /\ Count(p, Sent(s)) \in Nat
             /\ Count(p, JobQueue[s]) \in Nat
    BY <1>1, CountType
<1>3. \A p : /\ References(p, "all") \in Nat /\ References(p, "unread") \in Nat
             /\ SessionTally(p, s, "all") <= References(p, "all")
             /\ SessionTally(p, s, "unread") <= References(p, "unread")
    BY ReferencesType DEF HasPart
<1>4. \A p : /\ SessionTally(p, s, "all") =
                  Count(p, sendQueue[s]) + Count(p, Sent(s))
                    + Count(p, JobQueue[s])
             /\ SessionTally(p, s, "unread") = Count(p, JobQueue[s])
    BY <1>2 DEF SessionTally
<1>5. \A p : /\ Count(p, sendQueue[s]) # 0 => References(p, "all") # 0
             /\ Count(p, Sent(s)) # 0 => References(p, "all") # 0
             /\ Count(p, JobQueue[s]) # 0 =>
                   References(p, "all") # 0 /\ References(p, "unread") # 0
    BY <1>2, <1>3, <1>4
<1>6. \A i \in 1 .. Len(sendQueue[s]) :
         /\ sendQueue[s][i] \in Entries
         /\ References(sendQueue[s][i].packet, "all") # 0
    BY <1>1, <1>5, InQueue
<1>7. \A i \in 1 .. Len(JobQueue[s]) :
         /\ JobQueue[s][i] \in Entries
         /\ References(JobQueue[s][i].packet, "all") # 0
         /\ References(JobQueue[s][i].packet, "unread") # 0
    BY <1>1, <1>5, InQueue
<1>8. \A i \in 1 .. Len(Sent(s)) :
         Sent(s)[i] \in Entries /\ References(Sent(s)[i].packet, "all") # 0
    BY <1>1, <1>5, InQueue
<1> QED
    BY <1>1, <1>6, <1>7, <1>8 DEF HasQueued

LEMMA QueueReferencedNext ==
    TypeOK' => (\A t \in Threads : \A s \in Sessions : HasQueued(s))'
BY QueueReferenced, PTL

HasOwn(t) ==
    /\ pc[t] \in {"send", "encode", "enqueue", "recv", "push"} =>
          /\ mine[t] \in Entries
          /\ References(mine[t].packet, "all") # 0
    /\ pc[t] \in {"recv", "push"} => References(mine[t].packet, "unread") # 0
    /\ \A i \in 1 .. Len(left[t]) :
          /\ left[t][i] \in Entries
          /\ References(left[t][i].packet, "all") # 0
          /\ pc[t] = "job" => References(left[t][i].packet, "unread") # 0

LEMMA OwnReferenced == TypeOK /\ Locals => \A t \in Threads : HasOwn(t)
<1> SUFFICES ASSUME TypeOK, Locals, NEW t \in Threads PROVE HasOwn(t)
    OBVIOUS
<1>1. left[t] \in Seq(Entries) /\ mine[t] \in Entries \cup {Nobody}
    BY DEF TypeOK
<1>2. \A p : Count(p, left[t]) \in Nat
    BY <1>1, CountType
<1>3. \A p : /\ References(p, "all") \in Nat /\ References(p, "unread") \in Nat
             /\ ThreadTally(p, t, "all") <= References(p, "all")
             /\ ThreadTally(p, t, "unread") <= References(p, "unread")
             /\ ThreadTally(p, t, "all") \in Nat
             /\ ThreadTally(p, t, "unread") \in Nat
    BY ReferencesType DEF HasPart
<1>4. \A p : TallyAt(p, t)
    BY StateTally
<1>5. pc[t] \in {"send", "encode", "enqueue", "recv", "push"} =>
          mine[t] \in Entries
    BY <1>1 DEF Locals, Local
<1>6. Mined(mine[t].packet, t) = 1
    BY DEF Mined, One
<1>7. pc[t] \in {"send", "encode", "enqueue", "recv", "push"} =>
          References(mine[t].packet, "all") # 0
  <2> DEFINE p == mine[t].packet
  <2>1. TallyAt(p, t) /\ Mined(p, t) = 1
      BY <1>4, <1>6
  <2> HIDE DEF p
  <2>2. pc[t] \in {"send", "encode", "enqueue", "recv", "push"} =>
            References(p, "all") # 0
      BY <2>1, <1>3 DEF TallyAt
  <2> QED
      BY <2>2 DEF p
<1>8. pc[t] \in {"recv", "push"} => References(mine[t].packet, "unread") # 0
  <2> DEFINE p == mine[t].packet
  <2>1. TallyAt(p, t) /\ Mined(p, t) = 1
      BY <1>4, <1>6
  <2> HIDE DEF p
  <2>2. pc[t] \in {"recv", "push"} => References(p, "unread") # 0
      BY <2>1, <1>3 DEF TallyAt
  <2> QED
      BY <2>2 DEF p
<1>9. \A i \in 1 .. Len(left[t]) :
          left[t][i] \in Entries /\ Count(left[t][i].packet, left[t]) # 0
    BY <1>1, InQueue
<1>10. ASSUME NEW p, Count(p, left[t]) # 0
       PROVE  /\ References(p, "all") # 0
              /\ pc[t] = "job" => References(p, "unread") # 0
  <2>1. ThreadTally(p, t, "all") # 0
    <3>1. pc[t] \in {"idle", "send", "encode", "enqueue", "job", "handled",
                     "post", "recv", "push", "drop", "free"}
        BY DEF TypeOK
    <3>2. Count(p, left[t]) = 0 \/ ~ pc[t] \in {"idle", "post", "recv", "push"}
        BY CountEmpty DEF Locals, Local
    <3> QED
        BY <3>1, <3>2, <1>2, <1>4, <1>10 DEF TallyAt
  <2>2. pc[t] = "job" => ThreadTally(p, t, "unread") # 0
      BY <1>4, <1>10 DEF TallyAt
  <2> QED
      BY <2>1, <2>2, <1>3
<1> QED
    BY <1>5, <1>7, <1>8, <1>9, <1>10 DEF HasOwn

LEMMA OwnReferencedNext ==
    TypeOK' /\ Locals' => (\A t \in Threads : HasOwn(t))'
BY OwnReferenced, PTL
-----------------------------------------------------------------------------
(* From what a step does to one thread, and to one session, to the          *)
(* invariant.                                                               *)

LEMMA OutFrame ==
    ASSUME TypeOK, Locals, OutInv, NEW t \in Threads, Elsewhere(t),
           \A e \in Entries : References(e.packet, "all") # 0 => KeptOut(e)
    PROVE  /\ \A u \in Threads : u # t => OutThread(u)'
           /\ \A s \in Sessions : SameQueues(s) => OutSession(s)'
<1>1. ASSUME NEW u \in Threads, u # t PROVE OutThread(u)'
  <2>1. OutThread(u) /\ HasOwn(u) /\ pc'[u] = pc[u] /\ mine'[u] = mine[u]
      BY <1>1, OwnReferenced DEF OutInv, Elsewhere
  <2>2. pc[u] \in {"send", "encode", "enqueue"} => KeptOut(mine[u])
      BY <2>1 DEF HasOwn
  <2>3. ASSUME pc[u] \in {"send", "encode"} PROVE Outgoing(mine[u])'
    <3>1. Outgoing(mine[u]) /\ KeptOut(mine[u])
        BY <2>1, <2>2, <2>3 DEF OutThread
    <3>2. packet'[mine[u].packet] = packet'[mine'[u].packet]
          /\ mine'[u].number = mine[u].number
        BY <2>1
    <3> QED
        BY <3>1, <3>2 DEF KeptOut, Outgoing
  <2>4. ASSUME pc[u] = "enqueue" PROVE Encoded(mine[u])'
    <3>1. Encoded(mine[u]) /\ KeptOut(mine[u])
        BY <2>1, <2>2, <2>4 DEF OutThread
    <3>2. packet'[mine[u].packet] = packet'[mine'[u].packet]
          /\ mine'[u].number = mine[u].number
        BY <2>1
    <3> QED
        BY <3>1, <3>2 DEF KeptOut, Encoded, Outgoing
  <2> QED
      BY <2>1, <2>3, <2>4 DEF OutThread
<1>2. ASSUME NEW s \in Sessions, SameQueues(s) PROVE OutSession(s)'
  <2>1. OutSession(s) /\ HasQueued(s) /\ sendQueue'[s] = sendQueue[s]
        /\ sentPacketArray'[s] = sentPacketArray[s]
      BY <1>2, QueueReferenced DEF OutInv, SameQueues
  <2>2. \A i \in 1 .. Len(sendQueue[s]) :
            Encoded(sendQueue[s][i]) /\ KeptOut(sendQueue[s][i])
      BY <2>1 DEF OutSession, HasQueued
  <2>3. \A i \in 1 .. Len(sentPacketArray[s]) :
            /\ Encoded(sentPacketArray[s][i].entry)
            /\ sentPacketArray[s][i] = Buffer(sentPacketArray[s][i].entry)
            /\ KeptOut(sentPacketArray[s][i].entry)
      BY <2>1 DEF OutSession, HasQueued
  <2>4. \A i \in 1 .. Len(sendQueue'[s]) : Encoded(sendQueue[s][i])'
      BY <2>1, <2>2 DEF KeptOut, Encoded, Outgoing
  <2>5. \A i \in 1 .. Len(sentPacketArray'[s]) :
            /\ Encoded(sentPacketArray[s][i].entry)'
            /\ sentPacketArray'[s][i] = Buffer(sentPacketArray[s][i].entry)'
      BY <2>1, <2>3 DEF KeptOut, Encoded, Outgoing, Buffer
  <2> QED
      BY <2>4, <2>5 DEF OutSession
<1> QED
    BY <1>1, <1>2

LEMMA InFrame ==
    ASSUME TypeOK, Locals, InInv, NEW t \in Threads, Elsewhere(t),
           TypeOK', Locals',
           \A e \in Entries : /\ References(e.packet, "all") # 0
                              /\ References(e.packet, "unread")' # 0
                              => KeptIn(e)
    PROVE  /\ \A u \in Threads : u # t => InThread(u)'
           /\ \A s \in Sessions : SameQueues(s) => InSession(s)'
<1>1. ASSUME NEW u \in Threads, u # t PROVE InThread(u)'
  <2>1. /\ InThread(u) /\ HasOwn(u) /\ HasOwn(u)'
        /\ pc'[u] = pc[u] /\ mine'[u] = mine[u] /\ left'[u] = left[u]
      BY <1>1, OwnReferenced, OwnReferencedNext DEF InInv, Elsewhere
  <2>2. ASSUME pc[u] \in {"recv", "push"} PROVE Incoming(mine[u])'
    <3>1. /\ mine[u] \in Entries /\ References(mine[u].packet, "all") # 0
          /\ References(mine[u].packet, "unread")' # 0
      <4>1. References(mine[u].packet, "unread")' # 0
          BY <2>1, <2>2 DEF HasOwn
      <4> QED
          BY <2>1, <2>2, <4>1 DEF HasOwn
    <3>2. Incoming(mine[u]) /\ KeptIn(mine[u])
        BY <2>1, <2>2, <3>1 DEF InThread
    <3>3. packet'[mine[u].packet] = packet'[mine'[u].packet]
          /\ mine'[u].number = mine[u].number
        BY <2>1
    <3> QED
        BY <3>2, <3>3 DEF KeptIn, Incoming
  <2>3. ASSUME pc[u] = "job" PROVE Incoming(left[u][1])'
    <3>0. 1 \in 1 .. Len(left[u])
        BY <2>3 DEF Locals, Local
    <3>1. /\ left[u][1] \in Entries /\ References(left[u][1].packet, "all") # 0
          /\ References(left[u][1].packet, "unread")' # 0
      <4>1. References(left[u][1].packet, "unread")' # 0
          BY <2>1, <2>3, <3>0 DEF HasOwn
      <4> QED
          BY <2>1, <2>3, <3>0, <4>1 DEF HasOwn
    <3>2. Incoming(left[u][1]) /\ KeptIn(left[u][1])
        BY <2>1, <2>3, <3>1 DEF InThread
    <3>3. left'[u][1] = left[u][1]
        BY <2>1
    <3> QED
        BY <3>2, <3>3 DEF KeptIn, Incoming
  <2> QED
      BY <2>1, <2>2, <2>3 DEF InThread
<1>2. ASSUME NEW s \in Sessions, SameQueues(s) PROVE InSession(s)'
  <2>1. InSession(s) /\ HasQueued(s) /\ HasQueued(s)'
        /\ JobQueue'[s] = JobQueue[s]
      BY <1>2, QueueReferenced, QueueReferencedNext DEF InInv, SameQueues
  <2>2. ASSUME NEW i \in 1 .. Len(JobQueue[s])
        PROVE  Incoming(JobQueue[s][i])'
    <3>1. References(JobQueue[s][i].packet, "unread")' # 0
        BY <2>1 DEF HasQueued
    <3>2. Incoming(JobQueue[s][i]) /\ KeptIn(JobQueue[s][i])
        BY <2>1, <3>1 DEF InSession, HasQueued
    <3>3. JobQueue'[s][i] = JobQueue[s][i]
        BY <2>1
    <3> QED
        BY <3>2, <3>3 DEF KeptIn, Incoming
  <2> QED
      BY <2>1, <2>2 DEF InSession
<1> QED
    BY <1>1, <1>2

LEMMA RefStay ==
    ASSUME NEW p, RefOK(p), p \in pool' <=> p \in pool,
           References(p, "all")' = References(p, "all"),
           Freeing(p)' = Freeing(p),
           packet'[p].refCount = packet[p].refCount
    PROVE  RefOK(p)'
BY DEF RefOK

LEMMA RefMore ==
    ASSUME NEW p, RefOK(p), p \in pool' <=> p \in pool,
           References(p, "all") \in Nat, References(p, "all") # 0,
           References(p, "all")' = References(p, "all") + 1,
           Freeing(p)' = Freeing(p),
           packet'[p].refCount = packet[p].refCount + 1
    PROVE  RefOK(p)'
BY DEF RefOK

LEMMA RefNew ==
    ASSUME NEW p, RefOK(p), p \in pool, p \notin pool',
           References(p, "all")' = 1, Freeing(p)' = Freeing(p),
           packet'[p].refCount = 1
    PROVE  RefOK(p)'
BY DEF RefOK

LEMMA FreeingKept ==
    ASSUME NEW t \in Threads, Elsewhere(t), pc[t] # "free", pc'[t] # "free"
    PROVE  \A p : Freeing(p)' = Freeing(p)
<1> TAKE p
<1>1. \A u \in Threads : u \in Freeing(p)' <=> u \in Freeing(p)
    BY DEF Freeing, Mine, Elsewhere
<1>2. Freeing(p)' \subseteq Threads /\ Freeing(p) \subseteq Threads
    BY DEF Freeing, Mine
<1> QED
    BY <1>1, <1>2

LEMMA InvParts ==
    FlowInv => /\ TypeOK /\ PacketOK /\ QueueOK /\ LocalOK
               /\ Locals /\ SendTurns /\ RecvTurns /\ RefInv /\ OutInv /\ InInv
BY TypeParts DEF FlowInv

\* A packet in the pool is nobody's, and one that is somebody's is not there.
LEMMA PoolFree ==
    ASSUME FlowInv, NEW t \in Threads, NEW p \in Packets
    PROVE  /\ References(p, "all") \in Nat /\ References(p, "unread") \in Nat
           /\ p \in pool => /\ References(p, "all") = 0
                            /\ References(p, "unread") = 0
                            /\ Freeing(p) = {}
           /\ References(p, "all") # 0 =>
                 /\ p \notin pool /\ Freeing(p) = {}
                 /\ packet[p].refCount = References(p, "all")
<1>1. References(p, "all") \in Nat /\ References(p, "unread") \in Nat
      /\ References(p, "unread") <= References(p, "all") /\ RefOK(p)
    BY InvParts, ReferencesType, UnreadCounted DEF HasPart, RefInv
<1> QED
    BY <1>1 DEF RefOK

LEMMA ContentNext ==
    ASSUME FlowInv, TypeOK', Locals', NEW t \in Threads, Elsewhere(t),
           \A e \in Entries : References(e.packet, "all") # 0 => KeptOut(e),
           \A e \in Entries : /\ References(e.packet, "all") # 0
                              /\ References(e.packet, "unread")' # 0
                              => KeptIn(e),
           OutThread(t)', InThread(t)',
           \A s \in Sessions : 
               SameQueues(s) \/ (OutSession(s)' /\ InSession(s)'),
           \A p \in Packets : References(p, "unread")' <= 1
    PROVE  OutInv' /\ InInv'
<1>1. /\ \A u \in Threads : u # t => OutThread(u)'
      /\ \A s \in Sessions : SameQueues(s) => OutSession(s)'
    BY InvParts, OutFrame
<1>2. /\ \A u \in Threads : u # t => InThread(u)'
      /\ \A s \in Sessions : SameQueues(s) => InSession(s)'
    BY InvParts, InFrame
<1>3. /\ \A u \in Threads : OutThread(u)' /\ InThread(u)'
      /\ \A s \in Sessions : OutSession(s)' /\ InSession(s)'
    BY <1>1, <1>2
<1> QED
    BY <1>3 DEF OutInv, InInv

\* A step that changes no message.
LEMMA ContentStays ==
    ASSUME FlowInv, TypeOK', Locals', NEW t \in Threads, Elsewhere(t),
           \A e \in Entries : KeptOut(e) /\ KeptIn(e),
           OutThread(t)', InThread(t)',
           \A s \in Sessions : 
               SameQueues(s) \/ (OutSession(s)' /\ InSession(s)'),
           \A p \in Packets : References(p, "unread")' <= 1
    PROVE  OutInv' /\ InInv'
<1>1. \A e \in Entries : References(e.packet, "all") # 0 => KeptOut(e)
    OBVIOUS
<1>2. \A e \in Entries : /\ References(e.packet, "all") # 0
                         /\ References(e.packet, "unread")' # 0
                         => KeptIn(e)
    OBVIOUS
<1> QED
    BY <1>1, <1>2, ContentNext

\* A thread that is neither sending nor receiving, before and after.
LEMMA SendTurnsKept ==
    ASSUME SendTurns, LocalOK, NEW t \in Threads, Elsewhere(t),
           UNCHANGED <<isValid, sendFlag, sentPacketArray, overlapped>>,
           at'[t] = at[t] \/ at'[t] = Nobody \/ isValid[at'[t]],
           \A s \in Sessions :
               SendsFor(t, s)' => /\ SendsFor(t, s)
                                  /\ pc'[t] = "post" <=> pc[t] = "post"
    PROVE  SendTurns'
<1> SUFFICES ASSUME NEW s \in Sessions PROVE SendTurn(s)'
    BY DEF SendTurns
<1>1. SendTurn(s)
    BY DEF SendTurns
<1>2. \A u \in Threads : u # t => (SendsFor(u, s)' <=> SendsFor(u, s))
    BY DEF Elsewhere, SendsFor
<1>3. SendsFor(t, s)' /\ pc'[t] \in {"drop", "free"} => pc[t] \in {"drop", "free"}
    BY DEF SendsFor
<1>4. \A u \in Threads : u # t => pc'[u] = pc[u] /\ at'[u] = at[u]
    BY DEF Elsewhere
<1>5. s # Nobody
    BY FlowAssumption
<1>6. \A u \in Threads : SendsFor(u, s)' => SendsFor(u, s)
    BY <1>2
<1>7. \A u \in Threads : SendsFor(u, s)' =>
          /\ sendFlag[s] = 1 /\ overlapped[s] = "none"
          /\ pc'[u] \in {"drop", "free"} => sentPacketArray[s] = << >>
          /\ \A v \in Threads : SendsFor(v, s)' => v = u
    BY <1>1, <1>3, <1>4, <1>6 DEF SendTurn
<1>8. ~isValid[s] => \A u \in Threads : at'[u] # s
    BY <1>1, <1>4, <1>5 DEF SendTurn
<1> QED
    BY <1>1, <1>7, <1>8 DEF SendTurn

LEMMA RecvTurnsKept ==
    ASSUME RecvTurns, QueueOK, NEW t \in Threads, Elsewhere(t),
           receiver' = receiver,
           \/ /\ pc[t] \notin {"recv", "push", "drop", "free"}
              /\ pc'[t] \notin {"recv", "push"}
           \/ /\ pc[t] \in {"drop", "free"} /\ pc'[t] \in {"drop", "free"}
           \/ /\ pc[t] \in {"recv", "push"}
              /\ pc'[t] \in {"recv", "push", "drop", "free"}
    PROVE  RecvTurns'
<1>1. \A u \in Threads : u # t => pc'[u] = pc[u]
    BY DEF Elsewhere
<1>2. ASSUME NEW s \in Sessions, receiver[s] # Nobody
      PROVE  pc'[receiver[s]] \in {"recv", "push", "drop", "free"}
  <2>1. pc[receiver[s]] \in {"recv", "push", "drop", "free"}
        /\ receiver[s] \in Threads
      BY <1>2 DEF RecvTurns, QueueOK, Threads
  <2> QED
      BY <1>1, <2>1
<1>3. ASSUME NEW u \in Threads, pc'[u] \in {"recv", "push"}
      PROVE  \E s \in Sessions : receiver[s] = u
  <2>1. pc[u] \in {"recv", "push"}
      BY <1>1, <1>3
  <2> QED
      BY <2>1 DEF RecvTurns
<1> QED
    BY <1>2, <1>3 DEF RecvTurns

LEMMA SetType ==
    ASSUME NEW S, NEW T, NEW f \in [S -> T], NEW x, NEW v \in T
    PROVE  Set(f, x, v) \in [S -> T]
BY DEF Set

LEMMA LocalsNext ==
    ASSUME Locals, NEW t \in Threads, Elsewhere(t), Local(t)'
    PROVE  Locals'
<1>1. ASSUME NEW u \in Threads, u # t PROVE Local(u)'
    BY <1>1 DEF Locals, Local, Elsewhere
<1> QED
    BY <1>1 DEF Locals

\* What the references were and are, by what the thread has.
ThreadBalanced(p, t) ==
    /\ TallyAt(p, t) /\ TallyAt(p, t)'
    /\ References(p, "all") \in Nat /\ References(p, "all")' \in Nat
    /\ References(p, "unread") \in Nat /\ References(p, "unread")' \in Nat
    /\ References(p, "all")' + ThreadTally(p, t, "all")
         = References(p, "all") + ThreadTally(p, t, "all")'
    /\ References(p, "unread")' + ThreadTally(p, t, "unread")
         = References(p, "unread") + ThreadTally(p, t, "unread")'

LEMMA ThreadBalance ==
    ASSUME FlowInv, TypeOK', Locals', NEW t \in Threads, Elsewhere(t),
           QueuesKept
    PROVE  \A p : ThreadBalanced(p, t)
<1> TAKE p
<1>1. TypeOK /\ Locals
    BY InvParts
<1>2. TallyAt(p, t) /\ TallyAt(p, t)'
    BY <1>1, StateTally, StateTallyNext
<1>3. ASSUME NEW which
      PROVE  /\ References(p, which) \in Nat /\ References(p, which)' \in Nat
             /\ References(p, which)' + ThreadTally(p, t, which)
                  = References(p, which) + ThreadTally(p, t, which)'
    BY <1>1, ThreadMoves, ReferencesType, ReferencesTypeNext DEF HasPart
<1> QED
    BY <1>2, <1>3 DEF ThreadBalanced

\* What they are, by what the thread and a session have.
Queued(p, s) == Count(p, sendQueue[s]) + Count(p, Sent(s))
Jobs(p, s) == Count(p, JobQueue[s])

LEMMA SessionParted ==
    TypeOK => \A p : \A s \in Sessions :
        /\ Queued(p, s) \in Nat /\ Jobs(p, s) \in Nat
        /\ SessionTally(p, s, "all") = Queued(p, s) + Jobs(p, s)
        /\ SessionTally(p, s, "unread") = Jobs(p, s)
<1> SUFFICES ASSUME TypeOK, NEW p, NEW s \in Sessions
             PROVE  /\ Queued(p, s) \in Nat /\ Jobs(p, s) \in Nat
                    /\ SessionTally(p, s, "all") = Queued(p, s) + Jobs(p, s)
                    /\ SessionTally(p, s, "unread") = Jobs(p, s)
    OBVIOUS
<1>1. /\ sendQueue[s] \in Seq(Entries) /\ JobQueue[s] \in Seq(Entries)
      /\ Sent(s) \in Seq(Entries)
    BY SentSeq DEF TypeOK
<1>2. /\ Count(p, sendQueue[s]) \in Nat /\ Count(p, Sent(s)) \in Nat
      /\ Count(p, JobQueue[s]) \in Nat
    BY <1>1, CountType
<1> QED
    BY <1>2 DEF SessionTally, Queued, Jobs

LEMMA SessionPartedNext ==
    TypeOK' => (\A p : \A s \in Sessions :
        /\ Queued(p, s) \in Nat /\ Jobs(p, s) \in Nat
        /\ SessionTally(p, s, "all") = Queued(p, s) + Jobs(p, s)
        /\ SessionTally(p, s, "unread") = Jobs(p, s))'
BY SessionParted, PTL

SessionBalanced(p, t, s) ==
    /\ TallyAt(p, t) /\ TallyAt(p, t)'
    /\ References(p, "all") \in Nat /\ References(p, "all")' \in Nat
    /\ References(p, "unread") \in Nat /\ References(p, "unread")' \in Nat
    /\ Queued(p, s) \in Nat /\ Queued(p, s)' \in Nat
    /\ Jobs(p, s) \in Nat /\ Jobs(p, s)' \in Nat
    /\ References(p, "all")' + ThreadTally(p, t, "all") + Queued(p, s)
           + Jobs(p, s)
         = References(p, "all") + ThreadTally(p, t, "all")' + Queued(p, s)'
             + Jobs(p, s)'
    /\ References(p, "unread")' + ThreadTally(p, t, "unread") + Jobs(p, s)
         = References(p, "unread") + ThreadTally(p, t, "unread")' + Jobs(p, s)'

LEMMA SessionBalance ==
    ASSUME FlowInv, TypeOK', Locals', NEW t \in Threads, NEW s \in Sessions,
           Elsewhere(t), QueuesElsewhere(s)
    PROVE  \A p : SessionBalanced(p, t, s)
<1> TAKE p
<1>1. TypeOK /\ Locals
    BY InvParts
<1>2. TallyAt(p, t) /\ TallyAt(p, t)'
    BY <1>1, StateTally, StateTallyNext
<1>3. /\ Queued(p, s) \in Nat /\ Jobs(p, s) \in Nat
      /\ SessionTally(p, s, "all") = Queued(p, s) + Jobs(p, s)
      /\ SessionTally(p, s, "unread") = Jobs(p, s)
    BY <1>1, SessionParted
<1>4. /\ Queued(p, s)' \in Nat /\ Jobs(p, s)' \in Nat
      /\ SessionTally(p, s, "all")' = Queued(p, s)' + Jobs(p, s)'
      /\ SessionTally(p, s, "unread")' = Jobs(p, s)'
    BY SessionPartedNext
<1>5. ASSUME NEW which
      PROVE  /\ References(p, which) \in Nat /\ References(p, which)' \in Nat
             /\ ThreadTally(p, t, which) \in Nat
             /\ ThreadTally(p, t, which)' \in Nat
             /\ References(p, which)' + ThreadTally(p, t, which)
                    + SessionTally(p, s, which)
                  = References(p, which) + ThreadTally(p, t, which)'
                      + SessionTally(p, s, which)'
    BY <1>1, SessionMoves, ReferencesType, ReferencesTypeNext DEF HasPart
<1>6. /\ References(p, "all") \in Nat /\ References(p, "all")' \in Nat
      /\ ThreadTally(p, t, "all") \in Nat /\ ThreadTally(p, t, "all")' \in Nat
      /\ References(p, "all")' + ThreadTally(p, t, "all")
             + SessionTally(p, s, "all")
           = References(p, "all") + ThreadTally(p, t, "all")'
               + SessionTally(p, s, "all")'
    BY <1>5
<1>7. /\ References(p, "unread") \in Nat /\ References(p, "unread")' \in Nat
      /\ ThreadTally(p, t, "unread") \in Nat
      /\ ThreadTally(p, t, "unread")' \in Nat
      /\ References(p, "unread")' + ThreadTally(p, t, "unread")
             + SessionTally(p, s, "unread")
           = References(p, "unread") + ThreadTally(p, t, "unread")'
               + SessionTally(p, s, "unread")'
    BY <1>5
<1> QED
    BY <1>2, <1>3, <1>4, <1>6, <1>7 DEF SessionBalanced

\* A step that moves references and leaves the counts.
LEMMA MoveNext ==
    ASSUME FlowInv, NEW t \in Threads, Elsewhere(t), TypeOK', Locals',
           SendTurns', RecvTurns', pc[t] # "free", pc'[t] # "free",
           pool' = pool,
           \A p \in Packets :
               /\ packet'[p].refCount = packet[p].refCount
               /\ References(p, "all")' = References(p, "all")
               /\ References(p, "unread")' <= References(p, "unread"),
           \A e \in Entries : KeptOut(e) /\ KeptIn(e),
           OutThread(t)', InThread(t)',
           \A s \in Sessions :
               SameQueues(s) \/ (OutSession(s)' /\ InSession(s)')
    PROVE  FlowInv'
<1>1. RefInv'
  <2> SUFFICES ASSUME NEW p \in Packets PROVE RefOK(p)'
      BY DEF RefInv
  <2>1. RefOK(p)
      BY InvParts DEF RefInv
  <2>2. Freeing(p)' = Freeing(p)
      BY FreeingKept
  <2>3. packet'[p].refCount = packet[p].refCount
        /\ References(p, "all")' = References(p, "all")
      OBVIOUS
  <2> QED
      BY <2>1, <2>2, <2>3, RefStay
<1>2. \A p \in Packets : References(p, "unread")' <= 1
  <2> SUFFICES ASSUME NEW p \in Packets PROVE References(p, "unread")' <= 1
      OBVIOUS
  <2>1. /\ References(p, "unread") \in Nat /\ References(p, "unread")' \in Nat
        /\ References(p, "unread") <= 1
      BY InvParts, ReferencesType, ReferencesTypeNext DEF HasPart, InInv
  <2> QED
      BY <2>1
<1>3. OutInv' /\ InInv'
    BY <1>2, ContentStays
<1> QED
    BY <1>1, <1>3 DEF FlowInv

-----------------------------------------------------------------------------
(* Dropping references. *)

LEMMA SubRefStep ==
    ASSUME FlowInv, NEW t \in Threads, SubRef(t)
    PROVE  FlowInv'
<1> DEFINE e == Head(left[t])
           last == packet[e.packet].refCount = 1
<1>1. /\ TypeOK /\ PacketOK /\ QueueOK /\ LocalOK /\ Local(t)
      /\ Locals /\ SendTurns /\ RecvTurns /\ RefInv /\ OutInv /\ InInv
    BY InvParts DEF Locals
<1>2. /\ pc[t] = "drop" /\ left[t] # << >> /\ left[t] \in Seq(Entries)
      /\ e \in Entries /\ mine[t] = Nobody
  <2>1. pc[t] = "drop" /\ left[t] # << >>
      BY DEF SubRef, Goto
  <2> QED
      BY <1>1, <2>1 DEF LocalOK, Local
<1>3. /\ packet' = Set(packet, e.packet, subRef(packet[e.packet]))
      /\ UNCHANGED <<pool, isValid, receiver, sendFlag, sendQueue,
                     sentPacketArray, overlapped, JobQueue, made, targets, at>>
      /\ pc'[t] = (IF last THEN "free" ELSE "drop")
      /\ left'[t] = Tail(left[t])
      /\ mine'[t] = IF last THEN e ELSE Nobody
      /\ Elsewhere(t) /\ QueuesKept
    BY <1>1 DEF SubRef, Goto, Set, LocalOK, Elsewhere, QueuesKept, SameQueues,
                sessionVars, sendVars
<1>4. /\ e.packet \in Packets /\ References(e.packet, "all") \in Nat \ {0}
      /\ e.packet \notin pool /\ Freeing(e.packet) = {}
      /\ packet[e.packet].refCount = References(e.packet, "all")
  <2>1. References(e.packet, "all") # 0
    <3>1. HasOwn(t) /\ 1 \in 1 .. Len(left[t]) /\ left[t][1] = e
        BY <1>1, <1>2, OwnReferenced
    <3> QED
        BY <3>1 DEF HasOwn
  <2>2. e.packet \in Packets
      BY <1>2, EntryType
  <2> QED
      BY <2>1, <2>2, PoolFree
<1>5. /\ PacketOK' /\ \A q \in Packets \ {e.packet} : packet'[q] = packet[q]
      /\ packet'[e.packet].refCount = packet[e.packet].refCount - 1
      /\ SameContent(packet[e.packet], subRef(packet[e.packet]))
  <2> DEFINE p == e.packet
             o == packet[p]
             n == subRef(o)
  <2>1. Good(o) /\ o.refCount > 0
      BY <1>1, <1>4 DEF PacketOK
  <2>2. p \in Packets /\ packet' = Set(packet, p, n)
      BY <1>3, <1>4
  <2> HIDE DEF o, p
  <2>3. Good(n) /\ n.refCount = o.refCount - 1 /\ SameContent(o, n)
      BY <2>1, SubRefGood DEF SameContent
  <2> HIDE DEF n
  <2>4. /\ PacketOK' /\ packet'[p] = n
        /\ \A q \in Packets \ {p} : packet'[q] = packet[q]
      BY <1>1, <2>2, <2>3, PacketStep
  <2> QED
      BY <2>3, <2>4 DEF p, o, n
<1>6. TypeOK'
  <2>1. QueueOK'
      BY <1>1, <1>3 DEF QueueOK
  <2>2. LocalOK'
    <3>1. Tail(left[t]) \in Seq(Entries) /\ e \in Entries \cup {Nobody}
        BY <1>2
    <3> HIDE DEF e, last
    <3> QED
        BY <1>1, <3>1 DEF LocalOK, SubRef, Goto, Set, e, last
  <2> QED
      BY <1>5, <2>1, <2>2, TypePartsNext
<1>7. Locals'
  <2>1. Local(t)'
    <3>1. e # Nobody
        BY <1>2, EntryType
    <3> HIDE DEF e, last
    <3> QED
        BY <1>1, <1>2, <1>3, <3>1 DEF Local
  <2> QED
      BY <1>1, <1>3, <2>1 DEF Locals, Local, Elsewhere
<1>8. SendTurns' /\ RecvTurns'
  <2>1. pc[t] \in {"drop", "free"} /\ pc'[t] \in {"drop", "free"} /\ at'[t] = at[t]
      BY <1>2, <1>3
  <2> HIDE DEF e, last
  <2>2. SendTurns'
    <3>1. \A s \in Sessions : SendsFor(t, s)' => SendsFor(t, s)
        BY <2>1 DEF SendsFor
    <3> QED
        BY <1>1, <1>3, <2>1, <3>1, SendTurnsKept
  <2>3. RecvTurns'
      BY <1>1, <1>3, <2>1, RecvTurnsKept
  <2> QED
      BY <2>2, <2>3
<1>9. \A p : /\ References(p, "all")' + One(e.packet = p) = References(p, "all")
             /\ References(p, "unread")' = References(p, "unread")
             /\ References(p, "all")' \in Nat /\ References(p, "all") \in Nat
  <2> TAKE p
  <2>1. TallyAt(p, t) /\ TallyAt(p, t)'
      BY <1>1, <1>6, <1>7, StateTally, StateTallyNext
  <2>2. /\ References(p, "all")' + ThreadTally(p, t, "all")
              = References(p, "all") + ThreadTally(p, t, "all")'
        /\ References(p, "unread")' + ThreadTally(p, t, "unread")
              = References(p, "unread") + ThreadTally(p, t, "unread")'
      BY <1>1, <1>3, <1>6, ThreadMoves
  <2>3. /\ References(p, "all")' \in Nat /\ References(p, "all") \in Nat
        /\ References(p, "unread")' \in Nat /\ References(p, "unread") \in Nat
      BY <1>1, <1>6, ReferencesType, ReferencesTypeNext DEF HasPart
  <2>4. Count(p, left[t]) = One(e.packet = p) + Count(p, left'[t])
      BY <1>2, <1>3, CountTail
  <2>5. /\ ThreadTally(p, t, "all") = Count(p, left[t])
        /\ ThreadTally(p, t, "unread") = 0 /\ Count(p, left[t]) \in Nat
      BY <2>1, <1>2 DEF TallyAt
  <2>6. /\ ThreadTally(p, t, "all")' = Count(p, left'[t])
        /\ ThreadTally(p, t, "unread")' = 0 /\ Count(p, left'[t]) \in Nat
    <3>1. pc'[t] \in {"drop", "free"}
        BY <1>3
    <3> QED
        BY <2>1, <3>1 DEF TallyAt
  <2>7. One(e.packet = p) \in Nat
      BY DEF One
  <2> QED
      BY <2>2, <2>3, <2>4, <2>5, <2>6, <2>7
<1>10. RefInv'
  <2> SUFFICES ASSUME NEW p \in Packets PROVE RefOK(p)'
      BY DEF RefInv
  <2>1. RefOK(p)
      BY <1>1 DEF RefInv
  <2>2. CASE p # e.packet
    <3>1. References(p, "all")' = References(p, "all")
        BY <1>9, <2>2 DEF One
    <3>2. Freeing(p)' = Freeing(p)
      <4>1. \A u \in Threads : u \in Freeing(p)' <=> u \in Freeing(p)
          BY <1>2, <1>3, <2>2 DEF Freeing, Mine, Elsewhere
      <4>2. Freeing(p)' \subseteq Threads /\ Freeing(p) \subseteq Threads
          BY DEF Freeing, Mine
      <4> QED
          BY <4>1, <4>2
    <3>3. packet'[p].refCount = packet[p].refCount /\ pool' = pool
        BY <1>3, <1>5, <2>2
    <3> QED
        BY <2>1, <3>1, <3>2, <3>3, RefStay
  <2>3. CASE p = e.packet
    <3>1. References(p, "all")' = References(p, "all") - 1
        BY <1>9, <2>3 DEF One
    <3>2. last <=> References(p, "all") = 1
        BY <1>4, <2>3
    <3>3. \A u \in Threads : u \in Freeing(p)' <=> (u = t /\ last)
      <4>1. \A u \in Threads : u \notin Freeing(p)
          BY <1>4, <2>3
      <4>2. e # Nobody
          BY <1>2, EntryType
      <4> HIDE DEF e, last
      <4> QED
          BY <1>2, <1>3, <2>3, <4>1, <4>2 DEF Freeing, Mine, Elsewhere
    <3>4. Freeing(p)' \subseteq Threads
        BY DEF Freeing, Mine
    <3>5. Freeing(p)' # {} <=> last
        BY <3>3, <3>4
    <3>6. p \notin pool' /\ packet'[p].refCount = References(p, "all")'
      <4>1. pool' = pool /\ p \notin pool
          BY <1>3, <1>4, <2>3
      <4>2. packet'[p].refCount = References(p, "all") - 1
          BY <1>4, <1>5, <2>3
      <4> QED
          BY <3>1, <4>1, <4>2
    <3>7. References(p, "all")' = 0 <=> last
      <4>1. References(p, "all") \in Nat
          BY <1>4, <2>3
      <4> HIDE DEF e, last
      <4> QED
          BY <3>1, <3>2, <4>1
    <3>8. \A u, v \in Freeing(p)' : u = v
        BY <3>3, <3>4
    <3> HIDE DEF e, last
    <3> QED
        BY <3>5, <3>6, <3>7, <3>8 DEF RefOK
  <2> QED
      BY <2>2, <2>3
<1>11. OutInv' /\ InInv'
  <2>1. \A x \in Entries : KeptOut(x) /\ KeptIn(x)
      BY <1>1, <1>3, <1>4, <1>5, CountingKept
  <2>2. OutThread(t)' /\ InThread(t)'
    <3>1. pc'[t] \in {"drop", "free"}
        BY <1>3
    <3> QED
        BY <3>1 DEF OutThread, InThread
  <2>3. \A p \in Packets : References(p, "unread")' <= 1
      BY <1>1, <1>9 DEF InInv
  <2>4. Elsewhere(t)
      BY <1>3
  <2>5. \A s \in Sessions : SameQueues(s)
      BY <1>3 DEF QueuesKept
  <2> QED
      BY <1>6, <1>7, <2>1, <2>2, <2>3, <2>4, <2>5, ContentStays
<1> QED
    BY <1>6, <1>7, <1>8, <1>10, <1>11 DEF FlowInv
LEMMA MFreeStep ==
    ASSUME FlowInv, NEW t \in Threads, MFree(t)
    PROVE  FlowInv'
<1> DEFINE x == mine[t].packet
<1>1. /\ TypeOK /\ PacketOK /\ QueueOK /\ LocalOK /\ Local(t)
      /\ Locals /\ SendTurns /\ RecvTurns /\ RefInv /\ OutInv /\ InInv
    BY InvParts DEF Locals
<1>2. /\ pc[t] = "free" /\ pc'[t] = "drop" /\ mine'[t] = Nobody
      /\ mine[t] # Nobody /\ x \in Packets /\ pool' = pool \cup {x}
      /\ UNCHANGED <<packet, isValid, receiver, sendFlag, sendQueue,
                     sentPacketArray, overlapped, JobQueue, made, targets,
                     at, left>>
      /\ Elsewhere(t) /\ QueuesKept
  <2>1. pc[t] = "free" /\ mine[t] # Nobody
      BY <1>1 DEF MFree, Goto, Local
  <2>2. mine[t] \in Entries
      BY <1>1, <2>1 DEF LocalOK
  <2> QED
      BY <1>1, <2>1, <2>2, EntryType DEF MFree, Goto, Set, LocalOK, Elsewhere,
         QueuesKept, SameQueues, sessionVars, sendVars
<1>3. TypeOK'
  <2>1. PacketOK'
      BY <1>1, <1>2, PacketSame
  <2>2. QueueOK'
      BY <1>1, <1>2 DEF QueueOK
  <2>3. LocalOK'
      BY <1>1 DEF LocalOK, MFree, Goto, Set
  <2> QED
      BY <2>1, <2>2, <2>3, TypePartsNext
<1>4. Locals'
  <2>1. Local(t)'
      BY <1>1, <1>2 DEF Local
  <2> QED
      BY <1>1, <1>2, <2>1, LocalsNext
<1>5. SendTurns' /\ RecvTurns'
  <2>1. \A s \in Sessions : SendsFor(t, s)' => SendsFor(t, s)
      BY <1>2 DEF SendsFor
  <2>2. SendTurns'
      BY <1>1, <1>2, <2>1, SendTurnsKept
  <2> QED
      BY <1>1, <1>2, <2>2, RecvTurnsKept
<1>6. \A p : /\ References(p, "all")' = References(p, "all")
             /\ References(p, "unread")' = References(p, "unread")
  <2> TAKE p
  <2>1. ThreadBalanced(p, t)
      BY <1>2, <1>3, <1>4, ThreadBalance
  <2>2. left'[t] = left[t]
      BY <1>2
  <2> QED
      BY <1>2, <2>1, <2>2 DEF ThreadBalanced, TallyAt
<1>7. RefInv'
  <2> SUFFICES ASSUME NEW p \in Packets PROVE RefOK(p)'
      BY DEF RefInv
  <2>1. RefOK(p) /\ RefOK(x)
      BY <1>1, <1>2 DEF RefInv
  <2>2. t \in Freeing(x)
      BY <1>2 DEF Freeing, Mine
  <2>3. References(x, "all") = 0 /\ \A u \in Freeing(x) : u = t
      BY <2>1, <2>2 DEF RefOK
  <2>4. \A u \in Threads : u \in Freeing(p)' <=> u \in Freeing(p) /\ u # t
      BY <1>2 DEF Freeing, Mine, Elsewhere
  <2>5. Freeing(p)' \subseteq Threads /\ Freeing(p) \subseteq Threads
      BY DEF Freeing, Mine
  <2>6. CASE p = x
    <3>1. Freeing(p)' = {}
        BY <2>3, <2>4, <2>5, <2>6
    <3> QED
        BY <1>2, <1>6, <2>3, <2>6, <3>1 DEF RefOK
  <2>7. CASE p # x
    <3>1. t \notin Freeing(p)
        BY <2>7 DEF Freeing, Mine
    <3>2. Freeing(p)' = Freeing(p)
        BY <2>4, <2>5, <3>1
    <3>3. p \in pool' <=> p \in pool
        BY <1>2, <2>7
    <3>4. packet'[p].refCount = packet[p].refCount
        BY <1>2
    <3> QED
        BY <1>6, <2>1, <3>2, <3>3, <3>4, RefStay
  <2> QED
      BY <2>6, <2>7
<1>8. OutInv' /\ InInv'
  <2>1. \A e \in Entries : KeptOut(e) /\ KeptIn(e)
      BY <1>1, <1>2, SameKept
  <2>2. OutThread(t)' /\ InThread(t)'
      BY <1>2 DEF OutThread, InThread
  <2>3. \A p \in Packets : References(p, "unread")' <= 1
      BY <1>1, <1>6 DEF InInv
  <2>4. Elsewhere(t) /\ \A s \in Sessions : SameQueues(s)
      BY <1>2 DEF QueuesKept
  <2> QED
      BY <1>3, <1>4, <2>1, <2>2, <2>3, <2>4, ContentStays
<1> QED
    BY <1>3, <1>4, <1>5, <1>7, <1>8 DEF FlowInv

LEMMA SendSkipStep ==
    ASSUME FlowInv, NEW g \in Threads, SendSkip(g)
    PROVE  FlowInv'
<1>1. /\ TypeOK /\ PacketOK /\ QueueOK /\ LocalOK /\ Local(g)
      /\ Locals /\ SendTurns /\ RecvTurns /\ RefInv /\ OutInv /\ InInv
    BY InvParts DEF Locals
<1>2. /\ pc[g] = "send" /\ pc'[g] = "send"
      /\ UNCHANGED <<packet, pool, isValid, receiver, sendFlag, sendQueue,
                     sentPacketArray, overlapped, JobQueue, made, pc, mine,
                     at, left>>
      /\ Elsewhere(g) /\ QueuesKept
    BY <1>1 DEF SendSkip, Goto, Set, LocalOK, Local, Elsewhere,
                QueuesKept, SameQueues, sessionVars, sendVars
<1>3. TypeOK'
  <2>1. PacketOK'
      BY <1>1, <1>2, PacketSame
  <2>2. QueueOK'
      BY <1>1, <1>2 DEF QueueOK
  <2>3. LocalOK'
      BY <1>1 DEF LocalOK, Local, SendSkip, Goto, Set
  <2> QED
      BY <2>1, <2>2, <2>3, TypePartsNext
<1>4. Locals'
  <2>1. Local(g)'
      BY <1>1, <1>2 DEF Local
  <2> QED
      BY <1>1, <1>2, <2>1, LocalsNext
<1>5. SendTurns' /\ RecvTurns'
  <2>1. SendTurns'
    <3>1. \A s \in Sessions : SendsFor(g, s)' => SendsFor(g, s)
        BY <1>1, <1>2, FlowAssumption DEF SendsFor, Local
    <3> QED
        BY <1>1, <1>2, <3>1, SendTurnsKept
  <2>2. RecvTurns'
      BY <1>1, <1>2, RecvTurnsKept
  <2> QED
      BY <2>1, <2>2
<1>6. \A p : /\ References(p, "all")' = References(p, "all")
             /\ References(p, "unread")' <= References(p, "unread")
  <2> TAKE p
  <2>1. ThreadBalanced(p, g)
      BY <1>2, <1>3, <1>4, ThreadBalance
  <2>2. left'[g] = left[g] /\ Mined(p, g)' = Mined(p, g)
      BY <1>2 DEF Mined
  <2> QED
      BY <1>2, <2>1, <2>2 DEF ThreadBalanced, TallyAt
<1>7. \A e \in Entries : KeptOut(e) /\ KeptIn(e)
    BY <1>1, <1>2, SameKept
<1>8. OutThread(g)' /\ InThread(g)'
  <2>1. OutThread(g)
      BY <1>1 DEF OutInv
  <2> QED
      BY <1>2, <2>1 DEF OutThread, InThread, Outgoing
<1>9. \A s \in Sessions : SameQueues(s)
    BY <1>2 DEF QueuesKept
<1> QED
    BY <1>2, <1>3, <1>4, <1>5, <1>6, <1>7, <1>8, <1>9, MoveNext

LEMMA SendDoneStep ==
    ASSUME FlowInv, NEW g \in Threads, SendDone(g)
    PROVE  FlowInv'
<1>1. /\ TypeOK /\ PacketOK /\ QueueOK /\ LocalOK /\ Local(g)
      /\ Locals /\ SendTurns /\ RecvTurns /\ RefInv /\ OutInv /\ InInv
    BY InvParts DEF Locals
<1>2. /\ pc[g] = "send" /\ pc'[g] = "drop" /\ mine'[g] = Nobody
      /\ mine[g] \in Entries /\ left[g] \in Seq(Entries)
      /\ left'[g] = <<mine[g]>> \o left[g]
      /\ UNCHANGED <<packet, pool, isValid, receiver, sendFlag, sendQueue,
                     sentPacketArray, overlapped, JobQueue, made, targets, at>>
      /\ Elsewhere(g) /\ QueuesKept
    BY <1>1 DEF SendDone, Goto, Set, LocalOK, Local, Elsewhere,
                QueuesKept, SameQueues, sessionVars, sendVars
<1>3. TypeOK'
  <2>1. PacketOK'
      BY <1>1, <1>2, PacketSame
  <2>2. QueueOK'
      BY <1>1, <1>2 DEF QueueOK
  <2>3. LocalOK'
      BY <1>1 DEF LocalOK, Local, SendDone, Goto, Set
  <2> QED
      BY <2>1, <2>2, <2>3, TypePartsNext
<1>4. Locals'
  <2>1. Local(g)'
      BY <1>1, <1>2 DEF Local
  <2> QED
      BY <1>1, <1>2, <2>1, LocalsNext
<1>5. SendTurns' /\ RecvTurns'
  <2>1. SendTurns'
    <3>1. \A s \in Sessions : SendsFor(g, s)' => SendsFor(g, s)
        BY <1>1, <1>2, FlowAssumption DEF SendsFor, Local
    <3> QED
        BY <1>1, <1>2, <3>1, SendTurnsKept
  <2>2. RecvTurns'
      BY <1>1, <1>2, RecvTurnsKept
  <2> QED
      BY <2>1, <2>2
<1>6. \A p : /\ References(p, "all")' = References(p, "all")
             /\ References(p, "unread")' <= References(p, "unread")
  <2> TAKE p
  <2>1. ThreadBalanced(p, g)
      BY <1>2, <1>3, <1>4, ThreadBalance
  <2>2. Count(p, left'[g]) = Mined(p, g) + Count(p, left[g])
      BY <1>2, CountPush DEF Mined
  <2> QED
      BY <1>2, <2>1, <2>2 DEF ThreadBalanced, TallyAt
<1>7. \A e \in Entries : KeptOut(e) /\ KeptIn(e)
    BY <1>1, <1>2, SameKept
<1>8. OutThread(g)' /\ InThread(g)'
    BY <1>2 DEF OutThread, InThread
<1>9. \A s \in Sessions : SameQueues(s)
    BY <1>2 DEF QueuesKept
<1> QED
    BY <1>2, <1>3, <1>4, <1>5, <1>6, <1>7, <1>8, <1>9, MoveNext

LEMMA WSASendStep ==
    ASSUME FlowInv, NEW w \in Threads, WSASend(w)
    PROVE  FlowInv'
<1>1. /\ TypeOK /\ PacketOK /\ QueueOK /\ LocalOK /\ Local(w)
      /\ Locals /\ SendTurns /\ RecvTurns /\ RefInv /\ OutInv /\ InInv
    BY InvParts DEF Locals
<1>2. /\ pc[w] = "post" /\ pc'[w] = "idle" /\ at'[w] = Nobody
      /\ at[w] \in Sessions /\ left'[w] = left[w]
      /\ overlapped' = Set(overlapped, at[w], "sending")
      /\ UNCHANGED <<packet, pool, isValid, receiver, sendFlag, sendQueue,
                     sentPacketArray, JobQueue, made, mine, targets, left>>
      /\ Elsewhere(w) /\ QueuesKept
    BY <1>1 DEF WSASend, Goto, Set, LocalOK, Local, Elsewhere,
                QueuesKept, SameQueues, sessionVars, sendVars
<1>3. TypeOK'
  <2>1. PacketOK'
      BY <1>1, <1>2, PacketSame
  <2>2. QueueOK'
      BY <1>1, <1>2 DEF QueueOK, Set
  <2>3. LocalOK'
      BY <1>1 DEF LocalOK, Local, WSASend, Goto, Set
  <2> QED
      BY <2>1, <2>2, <2>3, TypePartsNext
<1>4. Locals'
  <2>1. Local(w)'
      BY <1>1, <1>2 DEF Local
  <2> QED
      BY <1>1, <1>2, <2>1, LocalsNext
<1>5. SendTurns' /\ RecvTurns'
  <2>1. SendTurns'
    <3> DEFINE r == at[w]
    <3>1. SendTurn(r) /\ SendsFor(w, r) /\ r \in Sessions
        BY <1>1, <1>2 DEF SendTurns, SendsFor
    <3>2. /\ sendFlag[r] = 1 /\ isValid[r] 
          /\ \A u \in Threads : SendsFor(u, r) => u = w
        BY <3>1 DEF SendTurn
    <3>3. overlapped'[r] = "sending"
          /\ \A s \in Sessions : s # r => overlapped'[s] = overlapped[s]
        BY <1>1, <1>2 DEF QueueOK, Set
    <3>4. \A u \in Threads : \A s \in Sessions :
              SendsFor(u, s)' => SendsFor(u, s) /\ s # r /\ pc'[u] = pc[u]
      <4> SUFFICES ASSUME NEW u \in Threads, NEW s \in Sessions, SendsFor(u, s)'
                   PROVE  SendsFor(u, s) /\ s # r /\ pc'[u] = pc[u]
          OBVIOUS
      <4>1. u # w
          BY <1>2 DEF SendsFor
      <4>2. SendsFor(u, s) /\ pc'[u] = pc[u]
          BY <1>2, <4>1 DEF SendsFor, Elsewhere
      <4> QED
          BY <3>2, <4>1, <4>2
    <3>5. \A u \in Threads : at'[u] = at[u] \/ at'[u] = Nobody
        BY <1>2 DEF Elsewhere
    <3> HIDE DEF r
    <3> SUFFICES ASSUME NEW s \in Sessions PROVE SendTurn(s)'
        BY DEF SendTurns
    <3>6. SendTurn(s) /\ s # Nobody
        BY <1>1, FlowAssumption DEF SendTurns
    <3>7. \A u \in Threads : SendsFor(u, s)' =>
             /\ sendFlag'[s] = 1 /\ overlapped'[s] = "none"
             /\ pc'[u] \in {"drop", "free"} => sentPacketArray'[s] = << >>
             /\ \A v \in Threads : SendsFor(v, s)' => v = u
        BY <1>2, <3>3, <3>4, <3>6 DEF SendTurn
    <3>8. ~isValid'[s] => /\ overlapped'[s] = "none"
                          /\ sentPacketArray'[s] = << >>
                          /\ \A u \in Threads : at'[u] # s
        BY <1>2, <3>2, <3>3, <3>5, <3>6 DEF SendTurn
    <3>9. /\ sendFlag'[s] = 0 => sentPacketArray'[s] = << >>
          /\ overlapped'[s] # "none" => sendFlag'[s] = 1
        BY <1>2, <3>2, <3>3, <3>6 DEF SendTurn
    <3> QED
        BY <3>7, <3>8, <3>9 DEF SendTurn
  <2>2. RecvTurns'
      BY <1>1, <1>2, RecvTurnsKept
  <2> QED
      BY <2>1, <2>2
<1>6. \A p : /\ References(p, "all")' = References(p, "all")
             /\ References(p, "unread")' <= References(p, "unread")
  <2> TAKE p
  <2>1. ThreadBalanced(p, w)
      BY <1>2, <1>3, <1>4, ThreadBalance
  <2>2. left'[w] = left[w]
      BY <1>2
  <2> QED
      BY <1>2, <2>1, <2>2 DEF ThreadBalanced, TallyAt
<1>7. \A e \in Entries : KeptOut(e) /\ KeptIn(e)
    BY <1>1, <1>2, SameKept
<1>8. OutThread(w)' /\ InThread(w)'
    BY <1>2 DEF OutThread, InThread
<1>9. \A s \in Sessions : SameQueues(s)
    BY <1>2 DEF QueuesKept
<1> QED
    BY <1>2, <1>3, <1>4, <1>5, <1>6, <1>7, <1>8, <1>9, MoveNext

LEMMA JobDoneStep ==
    ASSUME FlowInv, NEW g \in Threads, JobDone(g)
    PROVE  FlowInv'
<1>1. /\ TypeOK /\ PacketOK /\ QueueOK /\ LocalOK /\ Local(g)
      /\ Locals /\ SendTurns /\ RecvTurns /\ RefInv /\ OutInv /\ InInv
    BY InvParts DEF Locals
<1>2. /\ pc[g] \in {"job", "handled"} /\ pc'[g] = "drop"
      /\ UNCHANGED <<packet, pool, isValid, receiver, sendFlag, sendQueue,
                     sentPacketArray, overlapped, JobQueue, made, mine, targets, at,
                     left>>
      /\ Elsewhere(g) /\ QueuesKept
    BY <1>1 DEF JobDone, Goto, Set, LocalOK, Local, Elsewhere,
                QueuesKept, SameQueues, sessionVars, sendVars
<1>3. TypeOK'
  <2>1. PacketOK'
      BY <1>1, <1>2, PacketSame
  <2>2. QueueOK'
      BY <1>1, <1>2 DEF QueueOK
  <2>3. LocalOK'
      BY <1>1 DEF LocalOK, Local, JobDone, Goto, Set
  <2> QED
      BY <2>1, <2>2, <2>3, TypePartsNext
<1>4. Locals'
  <2>1. Local(g)'
      BY <1>1, <1>2 DEF Local
  <2> QED
      BY <1>1, <1>2, <2>1, LocalsNext
<1>5. SendTurns' /\ RecvTurns'
  <2>1. SendTurns'
    <3>1. \A s \in Sessions : SendsFor(g, s)' => SendsFor(g, s)
        BY <1>1, <1>2, FlowAssumption DEF SendsFor, Local
    <3> QED
        BY <1>1, <1>2, <3>1, SendTurnsKept
  <2>2. RecvTurns'
      BY <1>1, <1>2, RecvTurnsKept
  <2> QED
      BY <2>1, <2>2
<1>6. \A p : /\ References(p, "all")' = References(p, "all")
             /\ References(p, "unread")' <= References(p, "unread")
  <2> TAKE p
  <2>1. ThreadBalanced(p, g)
      BY <1>2, <1>3, <1>4, ThreadBalance
  <2>2. left'[g] = left[g] /\ Count(p, left[g]) \in Nat
      BY <1>2, <2>1 DEF ThreadBalanced, TallyAt
  <2> QED
      BY <1>2, <2>1, <2>2 DEF ThreadBalanced, TallyAt
<1>7. \A e \in Entries : KeptOut(e) /\ KeptIn(e)
    BY <1>1, <1>2, SameKept
<1>8. OutThread(g)' /\ InThread(g)'
    BY <1>2 DEF OutThread, InThread
<1>9. \A s \in Sessions : SameQueues(s)
    BY <1>2 DEF QueuesKept
<1> QED
    BY <1>2, <1>3, <1>4, <1>5, <1>6, <1>7, <1>8, <1>9, MoveNext

LEMMA DropDoneStep ==
    ASSUME FlowInv, NEW t \in Threads, DropDone(t)
    PROVE  FlowInv'
<1>1. /\ TypeOK /\ PacketOK /\ QueueOK /\ LocalOK /\ Local(t)
      /\ Locals /\ SendTurns /\ RecvTurns /\ RefInv /\ OutInv /\ InInv
    BY InvParts DEF Locals
<1>2. /\ pc[t] = "drop" /\ pc'[t] = "idle" /\ left[t] = << >>
      /\ at'[t] = Nobody /\ left'[t] = left[t] /\ mine[t] = Nobody
      /\ \A s \in Sessions :
            /\ sendFlag'[s] = IF s = at[t] THEN 0 ELSE sendFlag[s]
            /\ receiver'[s] = IF receiver[s] = t THEN Nobody ELSE receiver[s]
      /\ UNCHANGED <<packet, pool, isValid, sendQueue, sentPacketArray,
                     overlapped, JobQueue, made, mine, targets, left>>
      /\ Elsewhere(t) /\ QueuesKept
  <2>1. \A s \in Sessions :
            sendFlag'[s] = IF s = at[t] THEN 0 ELSE sendFlag[s]
    <3>1. sendFlag' = IF at[t] = Nobody THEN sendFlag
                      ELSE Set(sendFlag, at[t], 0)
        BY DEF DropDone
    <3>2. sendFlag \in [Sessions -> 0 .. 1] /\ Nobody \notin Sessions
        BY <1>1, FlowAssumption DEF QueueOK
    <3>3. \A s \in Sessions :
              Set(sendFlag, at[t], 0)[s] = IF s = at[t] THEN 0 ELSE sendFlag[s]
        BY <3>2 DEF Set
    <3> QED
        BY <3>1, <3>2, <3>3
  <2>2. \A s \in Sessions :
            receiver'[s] = IF receiver[s] = t THEN Nobody ELSE receiver[s]
      BY DEF DropDone
  <2> QED
      BY <1>1, <2>1, <2>2 DEF DropDone, Goto, Set, LocalOK, Local, Elsewhere,
         QueuesKept, SameQueues
<1>3. TypeOK'
  <2>1. PacketOK'
      BY <1>1, <1>2, PacketSame
  <2>2. QueueOK'
    <3>1. sendFlag' \in [Sessions -> 0 .. 1]
      <4>1. sendFlag' = IF at[t] = Nobody THEN sendFlag
                        ELSE Set(sendFlag, at[t], 0)
          BY DEF DropDone
      <4>2. sendFlag \in [Sessions -> 0 .. 1]
          BY <1>1 DEF QueueOK
      <4>3. Set(sendFlag, at[t], 0) \in [Sessions -> 0 .. 1]
        <5> DEFINE T == 0 .. 1
                   zero == 0
        <5>1. zero \in T /\ sendFlag \in [Sessions -> T]
            BY <4>2
        <5> HIDE DEF T, zero
        <5>2. Set(sendFlag, at[t], zero) \in [Sessions -> T]
            BY <5>1, SetType
        <5> QED
            BY <5>2 DEF T, zero
      <4> QED
          BY <4>1, <4>2, <4>3
    <3>2. receiver' \in [Sessions -> Workers \cup {Nobody}]
        BY <1>1 DEF DropDone, QueueOK
    <3> QED
        BY <1>1, <1>2, <3>1, <3>2 DEF QueueOK
  <2>3. LocalOK'
      BY <1>1 DEF LocalOK, Local, DropDone, Goto, Set
  <2> QED
      BY <2>1, <2>2, <2>3, TypePartsNext
<1>4. Locals'
  <2>1. Local(t)'
      BY <1>1, <1>2 DEF Local
  <2> QED
      BY <1>1, <1>2, <2>1, LocalsNext
<1>5. SendTurns' /\ RecvTurns'
  <2>1. SendTurns'
    <3> SUFFICES ASSUME NEW s \in Sessions PROVE SendTurn(s)'
        BY DEF SendTurns
    <3>1. SendTurn(s) /\ s # Nobody
        BY <1>1, FlowAssumption DEF SendTurns
    <3>2. s = at[t] => /\ SendsFor(t, s) /\ overlapped[s] = "none"
                       /\ sentPacketArray[s] = << >>
        BY <1>2, <3>1 DEF SendTurn, SendsFor
    <3>3. \A u \in Threads :
              SendsFor(u, s)' => SendsFor(u, s) /\ pc'[u] = pc[u] /\ u # t
        BY <1>2, <3>1 DEF SendsFor, Elsewhere
    <3>4. \A u \in Threads : SendsFor(u, s)' =>
             /\ sendFlag'[s] = 1 /\ overlapped'[s] = "none"
             /\ pc'[u] \in {"drop", "free"} => sentPacketArray'[s] = << >>
             /\ \A v \in Threads : SendsFor(v, s)' => v = u
        BY <1>2, <3>1, <3>2, <3>3 DEF SendTurn
    <3>5. \A u \in Threads : at'[u] = at[u] \/ at'[u] = Nobody
        BY <1>2 DEF Elsewhere
    <3>6. ~isValid'[s] => /\ overlapped'[s] = "none"
                          /\ sentPacketArray'[s] = << >>
                          /\ \A u \in Threads : at'[u] # s
        BY <1>2, <3>1, <3>5 DEF SendTurn
    <3>7. /\ sendFlag'[s] = 0 => sentPacketArray'[s] = << >>
          /\ overlapped'[s] # "none" => sendFlag'[s] = 1
        BY <1>2, <3>1, <3>2 DEF SendTurn
    <3> QED
        BY <3>4, <3>6, <3>7 DEF SendTurn
  <2>2. RecvTurns'
    <3>1. \A s \in Sessions : receiver'[s] # Nobody =>
              receiver'[s] = receiver[s] /\ receiver[s] # t
        BY <1>2
    <3>2. \A u \in Threads : u # t => pc'[u] = pc[u]
        BY <1>2 DEF Elsewhere
    <3>3. ASSUME NEW s \in Sessions, receiver'[s] # Nobody
          PROVE  pc'[receiver'[s]] \in {"recv", "push", "drop", "free"}
      <4>1. receiver[s] \in Threads /\ receiver[s] # t /\ receiver[s] # Nobody
          BY <1>1, <3>1, <3>3 DEF QueueOK, Threads
      <4>2. pc[receiver[s]] \in {"recv", "push", "drop", "free"}
          BY <1>1, <4>1 DEF RecvTurns
      <4> QED
          BY <3>1, <3>2, <3>3, <4>1, <4>2
    <3>4. ASSUME NEW u \in Threads, pc'[u] \in {"recv", "push"}
          PROVE  \E s \in Sessions : receiver'[s] = u
      <4>1. u # t /\ pc[u] \in {"recv", "push"}
          BY <1>2, <3>2, <3>4
      <4>2. PICK s \in Sessions : receiver[s] = u
          BY <1>1, <4>1 DEF RecvTurns
      <4> QED
          BY <1>2, <4>1, <4>2
    <3>5. \A s, r \in Sessions :
              receiver'[s] # Nobody /\ receiver'[s] = receiver'[r] => s = r
        BY <1>1, <3>1 DEF RecvTurns
    <3> QED
        BY <3>3, <3>4, <3>5 DEF RecvTurns
  <2> QED
      BY <2>1, <2>2
<1>6. \A p : /\ References(p, "all")' = References(p, "all")
             /\ References(p, "unread")' <= References(p, "unread")
  <2> TAKE p
  <2>1. ThreadBalanced(p, t)
      BY <1>2, <1>3, <1>4, ThreadBalance
  <2>2. left'[t] = left[t] /\ Count(p, left[t]) = 0
      BY <1>2, CountEmpty
  <2> QED
      BY <1>2, <2>1, <2>2 DEF ThreadBalanced, TallyAt
<1>7. \A e \in Entries : KeptOut(e) /\ KeptIn(e)
    BY <1>1, <1>2, SameKept
<1>8. OutThread(t)' /\ InThread(t)'
    BY <1>2 DEF OutThread, InThread
<1>9. \A s \in Sessions : SameQueues(s)
    BY <1>2 DEF QueuesKept
<1> QED
    BY <1>2, <1>3, <1>4, <1>5, <1>6, <1>7, <1>8, <1>9, MoveNext

LEMMA SendAbortedStep ==
    ASSUME FlowInv, NEW w \in Threads, NEW s \in Sessions, SendAborted(w, s)
    PROVE  FlowInv'
<1>1. /\ TypeOK /\ PacketOK /\ QueueOK /\ LocalOK /\ Local(w)
      /\ Locals /\ SendTurns /\ RecvTurns /\ RefInv /\ OutInv /\ InInv
    BY InvParts DEF Locals
<1>2. /\ pc[w] = "idle" /\ pc'[w] = "idle" /\ mine[w] = Nobody
      /\ at[w] = Nobody /\ left[w] = << >>
      /\ overlapped[s] = "failed" /\ overlapped' = Set(overlapped, s, "none")
      /\ UNCHANGED <<packet, pool, isValid, receiver, sendFlag, sendQueue,
                     sentPacketArray, JobQueue, made, pc, mine, targets, at,
                     left>>
      /\ Elsewhere(w) /\ QueuesKept
    BY <1>1 DEF SendAborted, Goto, Set, LocalOK, Local, Elsewhere,
                QueuesKept, SameQueues, sessionVars, sendVars
<1>3. TypeOK'
  <2>1. PacketOK'
      BY <1>1, <1>2, PacketSame
  <2>2. QueueOK'
      BY <1>1, <1>2 DEF QueueOK, Set
  <2>3. LocalOK'
      BY <1>1 DEF LocalOK, Local, SendAborted, Goto, Set
  <2> QED
      BY <2>1, <2>2, <2>3, TypePartsNext
<1>4. Locals'
  <2>1. Local(w)'
      BY <1>1, <1>2 DEF Local
  <2> QED
      BY <1>1, <1>2, <2>1, LocalsNext
<1>5. SendTurns' /\ RecvTurns'
  <2>1. SendTurns'
    <3>1. \A r \in Sessions :
              overlapped'[r] = IF r = s THEN "none" ELSE overlapped[r]
        BY <1>1, <1>2 DEF QueueOK, Set
    <3> SUFFICES ASSUME NEW r \in Sessions PROVE SendTurn(r)'
        BY DEF SendTurns
    <3>2. SendTurn(r)
        BY <1>1 DEF SendTurns
    <3>3. \A u \in Threads : SendsFor(u, r)' <=> SendsFor(u, r)
        BY <1>2 DEF SendsFor
    <3> QED
        BY <1>2, <3>1, <3>2, <3>3 DEF SendTurn
  <2>2. RecvTurns'
      BY <1>1, <1>2, RecvTurnsKept
  <2> QED
      BY <2>1, <2>2
<1>6. \A p : /\ References(p, "all")' = References(p, "all")
             /\ References(p, "unread")' <= References(p, "unread")
  <2> TAKE p
  <2>1. ThreadBalanced(p, w)
      BY <1>2, <1>3, <1>4, ThreadBalance
  <2>2. pc'[w] = "idle"
      BY <1>2
  <2> QED
      BY <1>2, <2>1, <2>2 DEF ThreadBalanced, TallyAt
<1>7. \A e \in Entries : KeptOut(e) /\ KeptIn(e)
    BY <1>1, <1>2, SameKept
<1>8. OutThread(w)' /\ InThread(w)'
    BY <1>2 DEF OutThread, InThread
<1>9. \A r \in Sessions : SameQueues(r)
    BY <1>2 DEF QueuesKept
<1> QED
    BY <1>2, <1>3, <1>4, <1>5, <1>6, <1>7, <1>8, <1>9, MoveNext

\* The kernel's step, and a step that changes nothing.
LEMMA KernelStep ==
    ASSUME FlowInv,
           \/ overlapped' = overlapped
           \/ \E s \in Sessions : overlapped[s] = "sending"
                 /\ \E how \in {"sent", "failed"} :
                        overlapped' = Set(overlapped, s, how),
           UNCHANGED <<packet, pool, isValid, receiver, sendFlag, sendQueue,
                       sentPacketArray, JobQueue, made, pc, mine, targets, at,
                       left>>
    PROVE  FlowInv'
<1>1. /\ TypeOK /\ PacketOK /\ QueueOK /\ LocalOK
      /\ Locals /\ SendTurns /\ RecvTurns /\ RefInv /\ OutInv /\ InInv
    BY InvParts
<1>2. overlapped' \in [Sessions -> {"none", "sending", "sent", "failed"}]
      /\ \A s \in Sessions : overlapped'[s] # "none" <=> overlapped[s] # "none"
    BY <1>1 DEF QueueOK, Set
<1>3. TypeOK'
  <2>1. PacketOK'
      BY <1>1, PacketSame
  <2>2. QueueOK'
      BY <1>1, <1>2 DEF QueueOK
  <2>3. LocalOK'
      BY <1>1 DEF LocalOK
  <2> QED
      BY <2>1, <2>2, <2>3, TypePartsNext
<1>4. Locals' /\ RecvTurns'
    BY <1>1 DEF Locals, Local, RecvTurns
<1>5. SendTurns'
  <2> SUFFICES ASSUME NEW s \in Sessions PROVE SendTurn(s)'
      BY DEF SendTurns
  <2>1. SendTurn(s)
      BY <1>1 DEF SendTurns
  <2>2. \A u \in Threads : SendsFor(u, s)' <=> SendsFor(u, s)
      BY DEF SendsFor
  <2> QED
      BY <1>2, <2>1, <2>2 DEF SendTurn
<1>6. \A p : Freeing(p)' = Freeing(p)
    BY DEF Freeing, Mine
<1>7. \A p : Holders(p)' = Holders(p)
    BY DEF Holders, Mine, Freeing, Sent
<1>8. \A p, which : References(p, which)' = References(p, which)
    BY <1>7 DEF References, Counted
<1>9. RefInv'
  <2> SUFFICES ASSUME NEW p \in Packets PROVE RefOK(p)'
      BY DEF RefInv
  <2>1. RefOK(p) /\ Freeing(p)' = Freeing(p)
        /\ References(p, "all")' = References(p, "all")
      BY <1>1, <1>6, <1>8 DEF RefInv
  <2> QED
      BY <2>1, RefStay
<1>10. \A e : /\ Outgoing(e)' <=> Outgoing(e)
              /\ Encoded(e)' <=> Encoded(e)
              /\ Incoming(e)' <=> Incoming(e)
              /\ Buffer(e)' = Buffer(e)
    BY DEF Outgoing, Encoded, Incoming, Buffer
<1>11. OutInv' /\ InInv'
  <2>1. \A u \in Threads : OutThread(u)' /\ InThread(u)'
      BY <1>1, <1>10 DEF OutInv, InInv, OutThread, InThread, Outgoing, Encoded,
         Incoming
  <2>2. \A s \in Sessions : OutSession(s)' /\ InSession(s)'
      BY <1>1, <1>10 DEF OutInv, InInv, OutSession, InSession, Outgoing,
         Encoded, Incoming, Buffer
  <2>3. \A p \in Packets : References(p, "unread")' <= 1
      BY <1>1, <1>8 DEF InInv
  <2> QED
      BY <2>1, <2>2, <2>3 DEF OutInv, InInv
<1> QED
    BY <1>3, <1>4, <1>5, <1>9, <1>11 DEF FlowInv

-----------------------------------------------------------------------------
(* Counting a reference. *)

LEMMA AddRefPacket ==
    ASSUME QueueOK, PacketOK, made' = made, NEW p \in Packets,
           packet' = Set(packet, p, addRef(packet[p], 1))
    PROVE  /\ PacketOK'
           /\ packet'[p].refCount = packet[p].refCount + 1
           /\ \A q \in Packets \ {p} : packet'[q] = packet[q]
           /\ \A e \in Entries : KeptOut(e) /\ KeptIn(e)
<1> DEFINE o == packet[p]
           n == addRef(o, 1)
<1>1. Good(o) /\ packet' = Set(packet, p, n)
    BY DEF PacketOK
<1> HIDE DEF o
<1>2. Good(n) /\ n.refCount = o.refCount + 1 /\ SameContent(o, n)
  <2>1. 1 \in Nat
      OBVIOUS
  <2> QED
      BY <1>1, <2>1, AddRefGood DEF SameContent
<1> HIDE DEF n
<1>3. /\ PacketOK' /\ packet'[p] = n
      /\ \A q \in Packets \ {p} : packet'[q] = packet[q]
    BY <1>1, <1>2, PacketStep
<1>4. SameContent(packet[p], n)
    BY <1>2 DEF o
<1>5. \A e \in Entries : KeptOut(e) /\ KeptIn(e)
    BY <1>1, <1>4, CountingKept
<1> QED
    BY <1>2, <1>3, <1>5 DEF o

LEMMA CountNext ==
    ASSUME FlowInv, NEW t \in Threads, Elsewhere(t), TypeOK', Locals',
           SendTurns', RecvTurns', pc[t] # "free", pc'[t] # "free",
           pool' = pool, QueuesKept, made' = made,
           NEW p \in Packets, References(p, "all") # 0,
           packet' = Set(packet, p, addRef(packet[p], 1)),
           \A q \in Packets :
               /\ References(q, "all")' = References(q, "all") + One(q = p)
               /\ References(q, "unread")' = References(q, "unread"),
           OutThread(t)', InThread(t)'
    PROVE  FlowInv'
<1>1. PacketOK /\ QueueOK /\ RefInv /\ InInv
    BY InvParts
<1>2. /\ packet'[p].refCount = packet[p].refCount + 1
      /\ \A q \in Packets \ {p} : packet'[q] = packet[q]
      /\ \A e \in Entries : KeptOut(e) /\ KeptIn(e)
    BY <1>1, AddRefPacket
<1>3. RefInv'
  <2> SUFFICES ASSUME NEW q \in Packets PROVE RefOK(q)'
      BY DEF RefInv
  <2>1. RefOK(q) /\ References(q, "all") \in Nat /\ Freeing(q)' = Freeing(q)
        /\ References(q, "all")' = References(q, "all") + One(q = p)
      BY <1>1, PoolFree, FreeingKept DEF RefInv
  <2>2. CASE q = p
    <3>1. /\ References(q, "all")' = References(q, "all") + 1
          /\ References(q, "all") # 0
          /\ packet'[q].refCount = packet[q].refCount + 1
        BY <1>2, <2>1, <2>2 DEF One
    <3> QED
        BY <2>1, <3>1, RefMore
  <2>3. CASE q # p
    <3>1. /\ References(q, "all")' = References(q, "all")
          /\ packet'[q].refCount = packet[q].refCount
        BY <1>2, <2>1, <2>3 DEF One
    <3> QED
        BY <2>1, <3>1, RefStay
  <2> QED
      BY <2>2, <2>3
<1>4. \A q \in Packets : References(q, "unread")' <= 1
    BY <1>1 DEF InInv
<1>5. \A s \in Sessions : SameQueues(s)
    BY DEF QueuesKept
<1>6. OutInv' /\ InInv'
    BY <1>2, <1>4, <1>5, ContentStays
<1> QED
    BY <1>3, <1>6 DEF FlowInv

LEMMA SendRefStep ==
    ASSUME FlowInv, NEW g \in Threads, SendRef(g)
    PROVE  FlowInv'
<1> DEFINE x == mine[g].packet
           s == Head(targets[g])
<1>1. /\ TypeOK /\ PacketOK /\ QueueOK /\ LocalOK /\ Local(g)
      /\ Locals /\ SendTurns /\ RecvTurns /\ RefInv /\ OutInv /\ InInv
    BY InvParts DEF Locals
<1>2. /\ pc[g] = "send" /\ pc'[g] = "encode"
      /\ mine[g] \in Entries /\ x \in Packets
      /\ targets[g] # << >> /\ s \in Sessions /\ isValid[s] /\ at'[g] = s
      /\ packet' = Set(packet, x, addRef(packet[x], 1))
      /\ UNCHANGED <<pool, isValid, receiver, sendFlag, sendQueue,
                     sentPacketArray, overlapped, JobQueue, made, mine,
                     targets, left>>
      /\ Elsewhere(g) /\ QueuesKept
  <2>1. pc[g] = "send" /\ targets[g] # << >> /\ mine[g] # Nobody
      BY <1>1 DEF SendRef, Goto, Local
  <2>2. mine[g] \in Entries /\ targets[g] \in Seq(Sessions)
      BY <1>1, <2>1 DEF LocalOK
  <2>3. s \in Sessions
      BY <2>1, <2>2
  <2> QED
      BY <1>1, <2>1, <2>2, <2>3, EntryType DEF SendRef, Goto, Set, LocalOK,
         Elsewhere, QueuesKept, SameQueues, sessionVars, sendVars
<1>3. TypeOK'
  <2>1. PacketOK'
      BY <1>1, <1>2, AddRefPacket
  <2>2. QueueOK'
      BY <1>1, <1>2 DEF QueueOK
  <2>3. LocalOK'
      BY <1>1, <1>2 DEF LocalOK, SendRef, Goto, Set
  <2> QED
      BY <2>1, <2>2, <2>3, TypePartsNext
<1>4. Locals'
  <2>1. Local(g)'
    <3>1. s # Nobody
        BY <1>2, FlowAssumption
    <3> QED
        BY <1>1, <1>2, <3>1 DEF Local
  <2> QED
      BY <1>1, <1>2, <2>1, LocalsNext
<1>5. SendTurns' /\ RecvTurns'
  <2>1. \A r \in Sessions : ~ SendsFor(g, r)'
      BY <1>2 DEF SendsFor
  <2>2. isValid[at'[g]]
      BY <1>2
  <2>3. SendTurns'
      BY <1>1, <1>2, <2>1, <2>2, SendTurnsKept
  <2>4. RecvTurns'
      BY <1>1, <1>2, RecvTurnsKept
  <2> QED
      BY <2>3, <2>4
<1>6. \A p : /\ References(p, "all")' = References(p, "all") + One(p = x)
             /\ References(p, "unread")' = References(p, "unread")
  <2> TAKE p
  <2>1. ThreadBalanced(p, g)
      BY <1>2, <1>3, <1>4, ThreadBalance
  <2>2. left'[g] = left[g] /\ Mined(p, g)' = Mined(p, g)
        /\ Mined(p, g) = One(p = x)
      BY <1>2 DEF Mined, One
  <2> QED
      BY <1>2, <2>1, <2>2 DEF ThreadBalanced, TallyAt
<1>7. References(x, "all") # 0
    BY <1>1, <1>2, OwnReferenced DEF HasOwn
<1>8. OutThread(g)' /\ InThread(g)'
  <2>1. Outgoing(mine[g]) /\ KeptOut(mine[g])
      BY <1>1, <1>2, AddRefPacket DEF OutInv, OutThread
  <2>2. mine' = mine
      BY <1>2
  <2> QED
      BY <1>2, <2>1, <2>2 DEF OutThread, InThread, KeptOut, Outgoing
<1>9. \A q \in Packets :
          /\ References(q, "all")' = References(q, "all") + One(q = x)
          /\ References(q, "unread")' = References(q, "unread")
    BY <1>6
<1> QED
  <2> HIDE DEF x
  <2> QED
      BY <1>2, <1>3, <1>4, <1>5, <1>7, <1>8, <1>9, CountNext

LEMMA SendEncodeStep ==
    ASSUME FlowInv, NEW g \in Threads, SendEncode(g)
    PROVE  FlowInv'
<1> DEFINE x == mine[g].packet
           o == packet[x]
<1>1. /\ TypeOK /\ PacketOK /\ QueueOK /\ LocalOK /\ Local(g)
      /\ Locals /\ SendTurns /\ RecvTurns /\ RefInv /\ OutInv /\ InInv
    BY InvParts DEF Locals
<1>2. /\ pc[g] = "encode" /\ pc'[g] = "enqueue"
      /\ mine[g] \in Entries /\ x \in Packets
      /\ packet' = IF o.encodeFlag THEN packet ELSE Set(packet, x, Encode(o))
      /\ UNCHANGED <<pool, isValid, receiver, sendFlag, sendQueue,
                     sentPacketArray, overlapped, JobQueue, made, mine,
                     targets, at, left>>
      /\ Elsewhere(g) /\ QueuesKept
  <2>1. pc[g] = "encode" /\ mine[g] # Nobody
      BY <1>1 DEF SendEncode, Goto, Local
  <2>2. mine[g] \in Entries
      BY <1>1, <2>1 DEF LocalOK
  <2> QED
      BY <1>1, <2>1, <2>2, EntryType DEF SendEncode, Goto, Set, LocalOK,
         Elsewhere, QueuesKept, SameQueues, sessionVars, sendVars
<1>3. Good(o) /\ Outgoing(mine[g]) /\ o.readPos = 0 /\ o.writePos > 1
  <2>1. Outgoing(mine[g])
      BY <1>1, <1>2 DEF OutInv, OutThread
  <2> QED
      BY <1>1, <1>2, <2>1, Bounds DEF Outgoing, Sendable, PacketOK
<1>4. /\ PacketOK' /\ \A q \in Packets : packet'[q].refCount = packet[q].refCount
      /\ \A e \in Entries : KeptOut(e) /\ KeptIn(e)
      /\ packet'[x].encodeFlag
  <2>1. CASE o.encodeFlag
    <3>1. packet' = packet
        BY <1>2, <2>1
    <3>2. \A e \in Entries : KeptOut(e) /\ KeptIn(e)
        BY <1>1, <1>2, <3>1, SameKept
    <3> QED
        BY <1>1, <2>1, <3>1, <3>2, PacketSame
  <2>2. CASE ~ o.encodeFlag
    <3> DEFINE n == Encode(o)
    <3>1. packet' = Set(packet, x, n) /\ x \in Packets
        BY <1>2, <2>2
    <3>2. /\ Good(n) /\ n.refCount = o.refCount /\ n.encodeFlag = TRUE
          /\ n.readPos = 0 /\ n.writePos = o.writePos
          /\ n.bytes[0] = Header(o.writePos - 1)
          /\ \A i \in Position : i > 0 => n.bytes[i] = o.bytes[i]
      <4> HIDE DEF o
      <4> QED
          BY <1>3, EncodeGood
    <3> HIDE DEF n, o
    <3>3. /\ PacketOK' /\ packet'[x] = n
          /\ \A q \in Packets \ {x} : packet'[q] = packet[q]
      <4> HIDE DEF x
      <4> QED
          BY <1>1, <3>1, <3>2, PacketStep
    <3>4. ASSUME NEW k PROVE Sendable(o, k, made) => Sendable(n, k, made)
      <4>1. \A i \in Position : 1 <= i => i > 0
          BY Bounds
      <4>2. dfNETWORK_HEADER_SIZE = 1 /\ begin = 0
          BY Bounds
      <4> QED
          BY <1>3, <3>2, <4>1, <4>2 DEF Sendable
    <3>5. ASSUME NEW e \in Entries PROVE KeptOut(e) /\ KeptIn(e)
      <4>1. CASE e.packet = x
        <5>1. packet[e.packet] = o /\ packet'[e.packet] = n /\ made' = made
            BY <1>2, <3>3, <4>1 DEF o
        <5>2. Outgoing(e) => Outgoing(e)'
            BY <3>4, <5>1 DEF Outgoing
        <5>3. Buffer(e)' = Buffer(e)
            BY <1>3, <3>2, <5>1 DEF Buffer, GetReadBufferPtr, GetDataSize
        <5>4. ~ Incoming(e)
            BY <1>3, <5>1, Bounds DEF Incoming, Readable
        <5>5. packet'[e.packet].encodeFlag
            BY <3>2, <5>1
        <5> QED
            BY <5>2, <5>3, <5>4, <5>5 DEF KeptOut, KeptIn, Encoded
      <4>2. CASE e.packet # x
        <5>1. packet'[e.packet] = packet[e.packet]
            BY <3>3, <4>2, EntryType
        <5>2. SameContent(packet[e.packet], packet'[e.packet])
            BY <5>1 DEF SameContent
        <5>3. MadeGrows
            BY <1>1, <1>2, MadeSame
        <5> QED
            BY <5>2, <5>3, ContentKept
      <4> QED
          BY <4>1, <4>2
    <3>6. \A q \in Packets : packet'[q].refCount = packet[q].refCount
        BY <3>2, <3>3 DEF o
    <3> QED
        BY <3>2, <3>3, <3>5, <3>6
  <2> QED
      BY <2>1, <2>2
<1>5. TypeOK'
  <2>1. QueueOK'
      BY <1>1, <1>2 DEF QueueOK
  <2>2. LocalOK'
      BY <1>1, <1>2 DEF LocalOK, SendEncode, Goto, Set
  <2> QED
      BY <1>4, <2>1, <2>2, TypePartsNext
<1>6. Locals'
  <2>1. Local(g)'
      BY <1>1, <1>2 DEF Local
  <2> QED
      BY <1>1, <1>2, <2>1, LocalsNext
<1>7. SendTurns' /\ RecvTurns'
  <2>1. \A r \in Sessions : ~ SendsFor(g, r)'
      BY <1>2 DEF SendsFor
  <2>2. SendTurns'
      BY <1>1, <1>2, <2>1, SendTurnsKept
  <2>3. RecvTurns'
      BY <1>1, <1>2, RecvTurnsKept
  <2> QED
      BY <2>2, <2>3
<1>8. \A p : /\ References(p, "all")' = References(p, "all")
             /\ References(p, "unread")' <= References(p, "unread")
  <2> TAKE p
  <2>1. ThreadBalanced(p, g)
      BY <1>2, <1>5, <1>6, ThreadBalance
  <2>2. left'[g] = left[g] /\ Mined(p, g)' = Mined(p, g)
      BY <1>2 DEF Mined
  <2> QED
      BY <1>2, <2>1, <2>2 DEF ThreadBalanced, TallyAt
<1>9. OutThread(g)' /\ InThread(g)'
  <2>1. Outgoing(mine[g]) /\ KeptOut(mine[g]) /\ packet'[x].encodeFlag
      BY <1>2, <1>3, <1>4
  <2>2. mine' = mine
      BY <1>2
  <2> QED
      BY <1>2, <2>1, <2>2 DEF OutThread, InThread, KeptOut, Outgoing, Encoded
<1>10. \A s \in Sessions : SameQueues(s)
    BY <1>2 DEF QueuesKept
<1> QED
    BY <1>2, <1>4, <1>5, <1>6, <1>7, <1>8, <1>9, <1>10, MoveNext

-----------------------------------------------------------------------------
(* Moving references from place to place. *)

LEMMA SendEnqueueStep ==
    ASSUME FlowInv, NEW g \in Threads, SendEnqueue(g)
    PROVE  FlowInv'
<1>1. /\ TypeOK /\ PacketOK /\ QueueOK /\ LocalOK /\ Local(g)
      /\ Locals /\ SendTurns /\ RecvTurns /\ RefInv /\ OutInv /\ InInv
    BY InvParts DEF Locals
<1>0. PICK s \in Sessions : s = at[g]
  <2>1. at[g] # Nobody
      BY <1>1 DEF SendEnqueue, Goto, Local
  <2> QED
      BY <1>1, <2>1 DEF LocalOK
<1> DEFINE q == sendQueue[s]
           m == mine[g]
<1>2. /\ pc[g] = "enqueue" /\ pc'[g] = "send" /\ at'[g] = Nobody
      /\ m \in Entries /\ s \in Sessions /\ mine'[g] = m
      /\ q \in Seq(Entries) /\ sendQueue'[s] = Append(q, m)
      /\ targets[g] # << >> /\ targets[g] \in Seq(Sessions)
      /\ UNCHANGED <<packet, pool, isValid, receiver, sendFlag,
                     sentPacketArray, overlapped, JobQueue, made, mine, left>>
      /\ Elsewhere(g) /\ QueuesElsewhere(s)
  <2>1. pc[g] = "enqueue" /\ targets[g] # << >> /\ m # Nobody
      BY <1>1 DEF SendEnqueue, Goto, Local
  <2>2. m \in Entries /\ targets[g] \in Seq(Sessions)
      BY <1>1, <2>1 DEF LocalOK
  <2>3. q \in Seq(Entries)
      BY <1>1, <2>2 DEF QueueOK
  <2> QED
      BY <1>0, <1>1, <2>1, <2>2, <2>3 DEF SendEnqueue, Goto, Set, LocalOK, QueueOK,
         Elsewhere, QueuesElsewhere, SameQueues
<1>3. TypeOK'
  <2>1. PacketOK'
      BY <1>1, <1>2, PacketSame
  <2>2. QueueOK'
    <3>1. Append(q, m) \in Seq(Entries)
        BY <1>2
    <3>2. sendQueue' = Set(sendQueue, s, Append(q, m))
        BY <1>0 DEF SendEnqueue
    <3> HIDE DEF q, m
    <3>3. sendQueue' \in [Sessions -> Seq(Entries)]
        BY <1>1, <3>1, <3>2 DEF QueueOK, Set
    <3> QED
        BY <1>1, <1>2, <3>3 DEF QueueOK
  <2>3. LocalOK'
    <3>1. Tail(targets[g]) \in Seq(Sessions)
        BY <1>2
    <3> QED
        BY <1>1, <1>2, <3>1 DEF LocalOK, SendEnqueue, Goto, Set
  <2> QED
      BY <2>1, <2>2, <2>3, TypePartsNext
<1>4. Locals'
  <2>1. Local(g)'
      BY <1>1, <1>2 DEF Local
  <2> QED
      BY <1>1, <1>2, <2>1, LocalsNext
<1>5. SendTurns' /\ RecvTurns'
  <2>1. \A r \in Sessions : ~ SendsFor(g, r)'
      BY <1>2 DEF SendsFor
  <2>2. SendTurns'
      BY <1>1, <1>2, <2>1, SendTurnsKept
  <2>3. RecvTurns'
      BY <1>1, <1>2, RecvTurnsKept
  <2> QED
      BY <2>2, <2>3
<1>6. \A p : /\ References(p, "all")' = References(p, "all")
             /\ References(p, "unread")' <= References(p, "unread")
  <2> TAKE p
  <2>1. SessionBalanced(p, g, s)
      BY <1>2, <1>3, <1>4, SessionBalance
  <2>2. left'[g] = left[g] /\ Mined(p, g)' = Mined(p, g)
      BY <1>2 DEF Mined
  <2>3. Queued(p, s)' = Queued(p, s) + Mined(p, g)
    <3>1. Count(p, Append(q, m)) = Count(p, q) + Mined(p, g)
        BY <1>2, CountAppend DEF Mined
    <3>2. Sent(s)' = Sent(s)
        BY <1>2 DEF Sent
    <3>3. Queued(p, s)' = Count(p, Append(q, m)) + Count(p, Sent(s))
        BY <1>2, <3>2 DEF Queued
    <3>4. Count(p, q) \in Nat /\ Count(p, Sent(s)) \in Nat
          /\ Mined(p, g) \in Nat
      <4>1. Sent(s) \in Seq(Entries)
          BY <1>1, <1>2, SentSeq
      <4> QED
          BY <1>2, <4>1, CountType DEF Mined, One
    <3> QED
        BY <3>1, <3>3, <3>4 DEF Queued
  <2>4. Jobs(p, s)' = Jobs(p, s)
      BY <1>2 DEF Jobs
  <2> DEFINE c == Count(p, left[g])
             d == Mined(p, g)
  <2>5. /\ ThreadTally(p, g, "all") = d + d + c
        /\ ThreadTally(p, g, "unread") = 0
        /\ ThreadTally(p, g, "all")' = d + c /\ ThreadTally(p, g, "unread")' = 0
        /\ d \in Nat /\ c \in Nat
    <3>1. Count(p, left[g])' = c /\ Mined(p, g)' = d
        BY <2>2
    <3>2. TallyAt(p, g)
        BY <2>1 DEF SessionBalanced
    <3>3. TallyAt(p, g)'
        BY <2>1 DEF SessionBalanced
    <3>4. /\ ThreadTally(p, g, "all") = d + d + c
          /\ ThreadTally(p, g, "unread") = 0 /\ d \in Nat /\ c \in Nat
        BY <1>2, <3>2 DEF TallyAt
    <3>5. /\ ThreadTally(p, g, "all")' = Mined(p, g)' + Count(p, left[g])'
          /\ ThreadTally(p, g, "unread")' = 0
        BY <1>2, <3>3 DEF TallyAt
    <3> QED
        BY <3>1, <3>4, <3>5
  <2> HIDE DEF c, d
  <2>6. Queued(p, s)' = Queued(p, s) + d
      BY <2>3 DEF d
  <2> QED
      BY <2>1, <2>4, <2>5, <2>6 DEF SessionBalanced
<1>7. \A e \in Entries : KeptOut(e) /\ KeptIn(e)
    BY <1>1, <1>2, SameKept
<1>8. Encoded(m) /\ Encoded(m)'
  <2>1. Encoded(m)
      BY <1>1, <1>2 DEF OutInv, OutThread
  <2> QED
      BY <1>2, <1>7, <2>1 DEF KeptOut
<1>9. OutThread(g)' /\ InThread(g)'
    BY <1>2, <1>8 DEF OutThread, InThread, Encoded, Outgoing
<1>10. OutSession(s)' /\ InSession(s)'
  <2>1. OutSession(s) /\ InSession(s)
      BY <1>1, <1>2 DEF OutInv, InInv
  <2>2. \A i \in 1 .. Len(sendQueue'[s]) : Encoded(sendQueue[s][i])'
    <3> SUFFICES ASSUME NEW i \in 1 .. Len(sendQueue'[s])
                 PROVE  Encoded(sendQueue[s][i])'
        OBVIOUS
    <3>1. CASE i = Len(q) + 1
      <4>1. sendQueue'[s][i] = mine'[g]
          BY <1>2, <3>1
      <4> QED
          BY <1>8, <4>1 DEF Encoded, Outgoing
    <3>2. CASE i # Len(q) + 1
      <4>1. i \in 1 .. Len(q) /\ sendQueue'[s][i] = sendQueue[s][i]
          BY <1>2, <3>2
      <4>2. Encoded(sendQueue[s][i])
          BY <2>1, <4>1 DEF OutSession
      <4> QED
          BY <1>2, <4>1, <4>2 DEF Encoded, Outgoing
    <3> QED
        BY <3>1, <3>2
  <2>3. \A i \in 1 .. Len(sentPacketArray'[s]) :
            /\ Encoded(sentPacketArray[s][i].entry)'
            /\ sentPacketArray'[s][i] = Buffer(sentPacketArray[s][i].entry)'
      BY <1>2, <2>1 DEF OutSession, Encoded, Outgoing, Buffer
  <2>4. InSession(s)'
      BY <1>2, <2>1 DEF InSession, Incoming
  <2> QED
      BY <2>2, <2>3, <2>4 DEF OutSession
<1>11. \A r \in Sessions : SameQueues(r) \/ (OutSession(r)' /\ InSession(r)')
  <2>1. OutSession(s)' /\ InSession(s)' /\ QueuesElsewhere(s)
      BY <1>2, <1>10
  <2> QED
      BY <2>1 DEF QueuesElsewhere
<1> QED
    BY <1>2, <1>3, <1>4, <1>5, <1>6, <1>7, <1>9, <1>11, MoveNext

LEMMA PopJobStep ==
    ASSUME FlowInv, NEW g \in Threads, NEW s \in Sessions, PopJob(g, s)
    PROVE  FlowInv'
<1> DEFINE q == JobQueue[s]
           h == Head(q)
<1>1. /\ TypeOK /\ PacketOK /\ QueueOK /\ LocalOK /\ Local(g)
      /\ Locals /\ SendTurns /\ RecvTurns /\ RefInv /\ OutInv /\ InInv
    BY InvParts DEF Locals
<1>2. /\ pc[g] = "idle" /\ pc'[g] = "job" /\ left'[g] = <<h>>
      /\ mine[g] = Nobody /\ at[g] = Nobody
      /\ q \in Seq(Entries) /\ q # << >> /\ h \in Entries
      /\ Tail(q) \in Seq(Entries) /\ JobQueue'[s] = Tail(q)
      /\ UNCHANGED <<packet, pool, isValid, receiver, sendFlag, sendQueue,
                     sentPacketArray, overlapped, made, mine, targets, at>>
      /\ Elsewhere(g) /\ QueuesElsewhere(s)
  <2>1. q \in Seq(Entries) /\ q # << >>
      BY <1>1 DEF PopJob, QueueOK
  <2>2. h \in Entries /\ Tail(q) \in Seq(Entries)
      BY <2>1
  <2> QED
      BY <1>1, <2>1, <2>2 DEF PopJob, Goto, Set, LocalOK, QueueOK, Local,
         Elsewhere, QueuesElsewhere, SameQueues, sendVars
<1>3. TypeOK'
  <2>1. PacketOK'
      BY <1>1, <1>2, PacketSame
  <2>2. QueueOK'
    <3>1. JobQueue' = Set(JobQueue, s, Tail(q))
        BY DEF PopJob
    <3> HIDE DEF q
    <3>2. JobQueue' \in [Sessions -> Seq(Entries)]
        BY <1>1, <1>2, <3>1 DEF QueueOK, Set
    <3> QED
        BY <1>1, <1>2, <3>2 DEF QueueOK
  <2>3. LocalOK'
    <3>1. <<h>> \in Seq(Entries) /\ left' = Set(left, g, <<h>>)
        BY <1>2 DEF PopJob
    <3> HIDE DEF h
    <3> QED
        BY <1>1, <1>2, <3>1 DEF LocalOK, PopJob, Goto, Set
  <2> QED
      BY <2>1, <2>2, <2>3, TypePartsNext
<1>4. Locals'
  <2>1. Local(g)'
    <3>1. Len(left'[g]) = 1
        BY <1>2
    <3> HIDE DEF h
    <3> QED
        BY <1>1, <1>2, <3>1 DEF Local
  <2> QED
      BY <1>1, <1>2, <2>1, LocalsNext
<1>5. SendTurns' /\ RecvTurns'
  <2>1. \A r \in Sessions : ~ SendsFor(g, r)'
      BY <1>2 DEF SendsFor
  <2>2. SendTurns'
      BY <1>1, <1>2, <2>1, SendTurnsKept
  <2>3. RecvTurns'
      BY <1>1, <1>2, RecvTurnsKept
  <2> QED
      BY <2>2, <2>3
<1>6. \A p : /\ References(p, "all")' = References(p, "all")
             /\ References(p, "unread")' <= References(p, "unread")
  <2> TAKE p
  <2>1. SessionBalanced(p, g, s)
      BY <1>2, <1>3, <1>4, SessionBalance
  <2>2. Count(p, left'[g]) = One(h.packet = p) /\ One(h.packet = p) \in Nat
      BY <1>2, CountOne DEF One
  <2>3. Jobs(p, s) = One(h.packet = p) + Jobs(p, s)'
      BY <1>2, CountTail DEF Jobs
  <2>4. Queued(p, s)' = Queued(p, s)
    <3>1. Sent(s)' = Sent(s)
        BY <1>2 DEF Sent
    <3> QED
        BY <1>2, <3>1 DEF Queued
  <2>5. /\ ThreadTally(p, g, "all") = 0 /\ ThreadTally(p, g, "unread") = 0
        /\ ThreadTally(p, g, "all")' = One(h.packet = p)
        /\ ThreadTally(p, g, "unread")' = One(h.packet = p)
      BY <1>2, <2>1, <2>2 DEF SessionBalanced, TallyAt
  <2> HIDE DEF h, q
  <2> QED
      BY <2>1, <2>2, <2>3, <2>4, <2>5 DEF SessionBalanced
<1>7. \A e \in Entries : KeptOut(e) /\ KeptIn(e)
    BY <1>1, <1>2, SameKept
<1>8. OutSession(s) /\ InSession(s)
    BY <1>1 DEF OutInv, InInv
<1>9. OutThread(g)' /\ InThread(g)'
  <2>1. 1 \in 1 .. Len(q) /\ q[1] = h
      BY <1>2
  <2>2. Incoming(h)
      BY <1>8, <2>1 DEF InSession
  <2>3. left'[g][1] = h
      BY <1>2
  <2>4. Incoming(left[g][1])'
      BY <1>2, <2>2, <2>3 DEF Incoming
  <2> QED
      BY <1>2, <2>4 DEF OutThread, InThread
<1>10. OutSession(s)' /\ InSession(s)'
  <2>1. OutSession(s)'
      BY <1>2, <1>8 DEF OutSession, Encoded, Outgoing, Buffer
  <2>2. ASSUME NEW i \in 1 .. Len(JobQueue'[s])
        PROVE  Incoming(JobQueue[s][i])'
    <3>1. i + 1 \in 1 .. Len(q) /\ JobQueue'[s][i] = q[i + 1]
        BY <1>2
    <3>2. Incoming(q[i + 1])
        BY <1>8, <3>1 DEF InSession
    <3> QED
        BY <1>2, <3>1, <3>2 DEF Incoming
  <2> QED
      BY <2>1, <2>2 DEF InSession
<1>11. \A r \in Sessions : SameQueues(r) \/ (OutSession(r)' /\ InSession(r)')
    BY <1>2, <1>10 DEF QueuesElsewhere
<1> QED
    BY <1>2, <1>3, <1>4, <1>5, <1>6, <1>7, <1>9, <1>11, MoveNext

LEMMA ReadJobStep ==
    ASSUME FlowInv, NEW g \in Threads, ReadJob(g)
    PROVE  FlowInv'
<1>1. /\ TypeOK /\ PacketOK /\ QueueOK /\ LocalOK /\ Local(g)
      /\ Locals /\ SendTurns /\ RecvTurns /\ RefInv /\ OutInv /\ InInv
    BY InvParts DEF Locals
<1>0. PICK n \in Payloads, e \in {Head(left[g])},
               x \in {Head(left[g]).packet} :
          /\ x = e.packet /\ Goto(g, "job", "handled")
          /\ packet' = Set(packet, x, GetData(packet[x], n))
          /\ UNCHANGED <<pool, isValid, receiver, sendFlag, sendQueue,
                         sentPacketArray, overlapped, JobQueue, made, mine,
                         targets, at, left>>
    BY DEF ReadJob, sessionVars, sendVars
<1> DEFINE o == packet[x]
<1>2. /\ pc[g] = "job" /\ pc'[g] = "handled"
      /\ left[g] \in Seq(Entries) /\ Len(left[g]) = 1 /\ e = left[g][1]
      /\ e \in Entries /\ x \in Packets /\ left'[g] = left[g]
      /\ mine[g] = Nobody /\ at[g] = Nobody
      /\ Elsewhere(g) /\ QueuesKept
  <2>1. pc[g] = "job" /\ left[g] \in Seq(Entries) /\ Len(left[g]) = 1
      BY <1>0, <1>1 DEF Goto, Local, LocalOK
  <2>2. e \in Entries /\ e = left[g][1]
      BY <1>0, <2>1
  <2> QED
      BY <1>0, <1>1, <2>1, <2>2, EntryType DEF Goto, LocalOK, Local,
         Elsewhere, QueuesKept, SameQueues
<1>3. Good(o) /\ Incoming(e) /\ (o.readPos = 1 \/ o.writePos = 0)
  <2>1. Incoming(e)
      BY <1>1, <1>2 DEF InInv, InThread
  <2> QED
      BY <1>1, <1>2, <2>1, Bounds DEF Incoming, Readable, PacketOK
<1>4. /\ PacketOK' /\ \A q \in Packets : packet'[q].refCount = packet[q].refCount
      /\ \A q \in Packets \ {x} : packet'[q] = packet[q]
  <2> DEFINE r == GetData(o, n)
  <2>1. n \in Nat
      BY PayloadType
  <2>2. packet' = Set(packet, x, r) /\ o = packet[x]
      BY <1>0
  <2> HIDE DEF o
  <2>3. Good(r) /\ r.refCount = o.refCount
      BY <1>3, <2>1, GetDataGood
  <2> HIDE DEF r
  <2>4. /\ PacketOK' /\ packet'[x] = r
        /\ \A q \in Packets \ {x} : packet'[q] = packet[q]
      BY <1>1, <1>2, <2>2, <2>3, PacketStep
  <2> QED
      BY <2>2, <2>3, <2>4
<1>5. TypeOK'
  <2>1. QueueOK'
      BY <1>0, <1>1 DEF QueueOK
  <2>2. LocalOK'
      BY <1>0, <1>1, <1>2 DEF LocalOK, Goto
  <2> QED
      BY <1>4, <2>1, <2>2, TypePartsNext
<1>6. Locals'
  <2>1. Local(g)'
      BY <1>0, <1>1, <1>2 DEF Local
  <2> QED
      BY <1>1, <1>2, <2>1, LocalsNext
<1>7. SendTurns' /\ RecvTurns'
  <2>1. \A s \in Sessions : ~ SendsFor(g, s)'
      BY <1>2 DEF SendsFor
  <2>2. at'[g] = at[g]
      BY <1>0
  <2>3. SendTurns'
      BY <1>0, <1>1, <1>2, <2>1, <2>2, SendTurnsKept
  <2>4. RecvTurns'
      BY <1>0, <1>1, <1>2, RecvTurnsKept
  <2> QED
      BY <2>3, <2>4
<1>8. \A p : /\ References(p, "all")' = References(p, "all")
             /\ References(p, "unread")' + One(x = p) = References(p, "unread")
             /\ References(p, "unread")' \in Nat /\ References(p, "unread") \in Nat
  <2> TAKE p
  <2>1. ThreadBalanced(p, g)
      BY <1>2, <1>5, <1>6, ThreadBalance
  <2>2. Count(p, left[g]) = One(x = p)
    <3>1. left[g] = <<e>>
        BY <1>2
    <3>2. \A y : Count(p, <<y>>) = One(y.packet = p)
        BY CountOne
    <3> QED
        BY <3>1, <3>2
  <2>3. left'[g] = left[g] /\ One(x = p) \in Nat
      BY <1>2 DEF One
  <2> QED
      BY <1>2, <2>1, <2>2, <2>3 DEF ThreadBalanced, TallyAt
<1>9. RefInv'
  <2> SUFFICES ASSUME NEW p \in Packets PROVE RefOK(p)'
      BY DEF RefInv
  <2>1. RefOK(p)
      BY <1>1 DEF RefInv
  <2>2. Freeing(p)' = Freeing(p)
      BY <1>2, FreeingKept
  <2> QED
      BY <1>0, <1>4, <1>8, <2>1, <2>2, RefStay
<1>10. \A p \in Packets : References(p, "unread")' <= 1
  <2> SUFFICES ASSUME NEW p \in Packets PROVE References(p, "unread")' <= 1
      OBVIOUS
  <2>1. References(p, "unread") <= 1 /\ One(x = p) \in Nat
      BY <1>1 DEF InInv, One
  <2> QED
      BY <1>8, <2>1
<1>11. References(x, "unread")' = 0
  <2>1. References(x, "unread") <= 1 /\ One(x = x) = 1
      BY <1>1, <1>2 DEF InInv, One
  <2>2. /\ References(x, "unread")' + One(x = x) = References(x, "unread")
        /\ References(x, "unread")' \in Nat /\ References(x, "unread") \in Nat
      BY <1>8
  <2> QED
      BY <2>1, <2>2
<1>12. \A y \in Entries : y.packet # x => KeptOut(y) /\ KeptIn(y)
  <2> SUFFICES ASSUME NEW y \in Entries, y.packet # x
               PROVE  KeptOut(y) /\ KeptIn(y)
      OBVIOUS
  <2>1. packet'[y.packet] = packet[y.packet]
      BY <1>4, EntryType
  <2>2. SameContent(packet[y.packet], packet'[y.packet]) /\ MadeGrows
      BY <1>0, <1>1, <2>1, MadeSame DEF SameContent
  <2> QED
      BY <2>2, ContentKept
<1>13. \A y \in Entries : KeptOut(y)
  <2> SUFFICES ASSUME NEW y \in Entries, y.packet = x PROVE KeptOut(y)
      BY <1>12
  <2>1. ~ Outgoing(y)
      BY <1>3, Bounds DEF Outgoing, Sendable
  <2> QED
      BY <2>1 DEF KeptOut, Encoded
<1>14. \A y \in Entries : References(y.packet, "unread")' # 0 => KeptIn(y)
  <2> SUFFICES ASSUME NEW y \in Entries, References(y.packet, "unread")' # 0
               PROVE  KeptIn(y)
      OBVIOUS
  <2>1. y.packet # x
      BY <1>11
  <2> QED
      BY <1>12, <2>1
<1>15. OutInv' /\ InInv'
  <2>1. OutThread(g)' /\ InThread(g)'
      BY <1>2 DEF OutThread, InThread
  <2>2. \A s \in Sessions : SameQueues(s)
      BY <1>2 DEF QueuesKept
  <2>3. Elsewhere(g)
      BY <1>2
  <2> QED
      BY <1>5, <1>6, <1>10, <1>13, <1>14, <2>1, <2>2, <2>3, ContentNext
<1> QED
    BY <1>5, <1>6, <1>7, <1>9, <1>15 DEF FlowInv

-----------------------------------------------------------------------------
(* Senders, releases and the next session of a slot. *)

\* A session loses packets to the thread that is to drop them.
LEMMA DropMoves ==
    ASSUME NEW p, NEW t \in Threads, NEW s \in Sessions,
           SessionBalanced(p, t, s), pc[t] \in {"idle", "post"},
           pc'[t] = "drop" \/ (pc'[t] = "idle" /\ left'[t] = << >>),
           JobQueue'[s] = JobQueue[s],
           Count(p, left'[t]) + Queued(p, s)' = Queued(p, s)
    PROVE  /\ References(p, "all")' = References(p, "all")
           /\ References(p, "unread")' = References(p, "unread")
<1>1. TallyAt(p, t)
    BY DEF SessionBalanced
<1>2. TallyAt(p, t)'
    BY DEF SessionBalanced
<1>3. ThreadTally(p, t, "all") = 0 /\ ThreadTally(p, t, "unread") = 0
    BY <1>1 DEF TallyAt
<1>4. /\ Count(p, left'[t]) \in Nat
      /\ ThreadTally(p, t, "all")' = Count(p, left'[t])
      /\ ThreadTally(p, t, "unread")' = 0
  <2>1. CASE pc'[t] = "drop"
      BY <1>2, <2>1 DEF TallyAt
  <2>2. CASE pc'[t] = "idle" /\ left'[t] = << >>
    <3>1. Count(p, left'[t]) = 0
        BY <2>2, CountEmpty
    <3> QED
        BY <1>2, <2>2, <3>1 DEF TallyAt
  <2> QED
      BY <2>1, <2>2
<1>5. Jobs(p, s)' = Jobs(p, s)
    BY DEF Jobs
<1> QED
    BY <1>3, <1>4, <1>5 DEF SessionBalanced

LEMMA OutLess ==
    ASSUME NEW s \in Sessions, OutSession(s), InSession(s),
           packet' = packet, made' = made, JobQueue'[s] = JobQueue[s],
           sendQueue'[s] \in {sendQueue[s], << >>},
           sentPacketArray'[s] \in {sentPacketArray[s], << >>}
    PROVE  OutSession(s)' /\ InSession(s)'
<1>1. InSession(s)'
    BY DEF InSession, Incoming
<1>2. \A i \in 1 .. Len(sendQueue'[s]) : Encoded(sendQueue[s][i])'
  <2>1. CASE sendQueue'[s] = << >>
      BY <2>1
  <2>2. CASE sendQueue'[s] = sendQueue[s]
      BY <2>2 DEF OutSession, Encoded, Outgoing
  <2> QED
      BY <2>1, <2>2
<1>3. \A i \in 1 .. Len(sentPacketArray'[s]) :
          /\ Encoded(sentPacketArray[s][i].entry)'
          /\ sentPacketArray'[s][i] = Buffer(sentPacketArray[s][i].entry)'
  <2>1. CASE sentPacketArray'[s] = << >>
      BY <2>1
  <2>2. CASE sentPacketArray'[s] = sentPacketArray[s]
      BY <2>2 DEF OutSession, Encoded, Outgoing, Buffer
  <2> QED
      BY <2>1, <2>2
<1> QED
    BY <1>1, <1>2, <1>3 DEF OutSession

\* A thread with nothing to send or read.
LEMMA OutNothing ==
    ASSUME NEW t \in Threads,
           pc'[t] \in {"idle", "post", "drop", "free", "handled"}
    PROVE  OutThread(t)' /\ InThread(t)'
BY DEF OutThread, InThread

LEMMA EmptyCounts ==
    ASSUME NEW p, NEW s \in Sessions, sentPacketArray[s] = << >>
    PROVE  Sent(s) = << >> /\ Count(p, Sent(s)) = 0
<1>1. Sent(s) = << >>
    BY DEF Sent
<1> QED
    BY <1>1, CountEmpty

LEMMA WSASendFailsStep ==
    ASSUME FlowInv, NEW w \in Threads, WSASendFails(w)
    PROVE  FlowInv'
<1>1. /\ TypeOK /\ PacketOK /\ QueueOK /\ LocalOK /\ Local(w)
      /\ Locals /\ SendTurns /\ RecvTurns /\ RefInv /\ OutInv /\ InInv
    BY InvParts DEF Locals
<1>0. PICK s \in Sessions : s = at[w]
  <2>1. at[w] # Nobody
      BY <1>1 DEF WSASendFails, Goto, Local
  <2> QED
      BY <1>1, <2>1 DEF LocalOK
<1>2. /\ pc[w] = "post" /\ pc'[w] = "drop" /\ at[w] = s /\ at'[w] = s
      /\ left'[w] = Sent(s) /\ sentPacketArray'[s] = << >>
      /\ \A r \in Sessions :
            sentPacketArray'[r] = IF r = s THEN << >> ELSE sentPacketArray[r]
      /\ sendQueue'[s] = sendQueue[s]
      /\ JobQueue'[s] = JobQueue[s] /\ mine[w] = Nobody /\ left[w] = << >>
      /\ sendQueue[s] \in Seq(Entries) /\ Sent(s) \in Seq(Entries)
      /\ UNCHANGED <<packet, pool, isValid, receiver, sendFlag, sendQueue,
                     overlapped, JobQueue, made, mine, targets, at>>
      /\ Elsewhere(w) /\ QueuesElsewhere(s)
  <2>1. Sent(s) \in Seq(Entries) /\ sendQueue[s] \in Seq(Entries)
      BY <1>1, SentSeq DEF QueueOK
  <2> QED
      BY <1>0, <1>1, <2>1 DEF WSASendFails, Goto, Set, LocalOK, QueueOK, Local,
         Elsewhere, QueuesElsewhere, SameQueues
<1>3. TypeOK'
  <2>1. PacketOK'
      BY <1>1, <1>2, PacketSame
  <2>2. QueueOK'
      BY <1>1, <1>2 DEF QueueOK, Set, WSASendFails
  <2>3. LocalOK'
      BY <1>1, <1>2 DEF LocalOK, WSASendFails, Goto, Set
  <2> QED
      BY <2>1, <2>2, <2>3, TypePartsNext
<1>4. Locals'
  <2>1. Local(w)'
      BY <1>1, <1>2, FlowAssumption DEF Local
  <2> QED
      BY <1>1, <1>2, <2>1, LocalsNext
<1>5. SendTurns' /\ RecvTurns'
  <2>1. SendTurns'
    <3> SUFFICES ASSUME NEW r \in Sessions PROVE SendTurn(r)'
        BY DEF SendTurns
    <3>1. SendTurn(r) /\ SendTurn(s) /\ r # Nobody /\ s # Nobody
        BY <1>1, <1>2, FlowAssumption DEF SendTurns
    <3>2. \A u \in Threads : u # w => (SendsFor(u, r)' <=> SendsFor(u, r))
        BY <1>2 DEF SendsFor, Elsewhere
    <3>3. \A u \in Threads : u # w => pc'[u] = pc[u] /\ at'[u] = at[u]
        BY <1>2 DEF Elsewhere
    <3>4. SendsFor(w, r)' <=> r = s /\ SendsFor(w, r)
        BY <1>2 DEF SendsFor
    <3>5. \A u \in Threads : SendsFor(u, r)' =>
             /\ sendFlag'[r] = 1 /\ overlapped'[r] = "none"
             /\ pc'[u] \in {"drop", "free"} => sentPacketArray'[r] = << >>
             /\ \A v \in Threads : SendsFor(v, r)' => v = u
        BY <1>2, <3>1, <3>2, <3>3, <3>4 DEF SendTurn
    <3>6. ~isValid'[r] => /\ overlapped'[r] = "none"
                          /\ sentPacketArray'[r] = << >>
                          /\ \A u \in Threads : at'[u] # r
        BY <1>2, <3>1, <3>2, <3>3, <3>4 DEF SendTurn
    <3>7. /\ sendFlag'[r] = 0 => sentPacketArray'[r] = << >>
          /\ overlapped'[r] # "none" => sendFlag'[r] = 1
        BY <1>2, <3>1, <3>2, <3>3, <3>4 DEF SendTurn
    <3> QED
        BY <3>5, <3>6, <3>7 DEF SendTurn
  <2>2. RecvTurns'
      BY <1>1, <1>2, RecvTurnsKept
  <2> QED
      BY <2>1, <2>2
<1>6. \A p : /\ References(p, "all")' = References(p, "all")
             /\ References(p, "unread")' = References(p, "unread")
  <2> TAKE p
  <2>1. SessionBalanced(p, w, s)
      BY <1>2, <1>3, <1>4, SessionBalance
  <2>2. Count(p, sendQueue[s]) \in Nat /\ Count(p, Sent(s)) \in Nat
      BY <1>2, CountType
  <2>3. Count(p, left'[w]) + Queued(p, s)' = Queued(p, s)
    <3>1. Count(p, Sent(s)') = 0
        BY <1>2, CountEmpty DEF Sent
    <3>2. Queued(p, s)' = Count(p, sendQueue[s]) + Count(p, Sent(s)')
        BY <1>2 DEF Queued
    <3>3. Count(p, left'[w]) = Count(p, Sent(s))
        BY <1>2
    <3> QED
        BY <2>2, <3>1, <3>2, <3>3 DEF Queued
  <2>4. /\ pc[w] \in {"idle", "post"}
        /\ pc'[w] = "drop" \/ (pc'[w] = "idle" /\ left'[w] = << >>)
        /\ JobQueue'[s] = JobQueue[s]
      BY <1>2
  <2> QED
      BY <2>1, <2>3, <2>4, DropMoves
<1>7. \A p \in Packets : References(p, "unread")' <= References(p, "unread")
  <2> TAKE p \in Packets
  <2>1. References(p, "unread") \in Nat
      BY PoolFree
  <2> QED
      BY <1>6, <2>1
<1>8. \A e \in Entries : KeptOut(e) /\ KeptIn(e)
    BY <1>1, <1>2, SameKept
<1>9. OutThread(w)' /\ InThread(w)'
    BY <1>2, OutNothing
<1>10. OutSession(s)' /\ InSession(s)'
  <2>1. OutSession(s) /\ InSession(s)
      BY <1>1, <1>2 DEF OutInv, InInv
  <2> QED
      BY <1>2, <2>1, OutLess
<1>11. \A r \in Sessions : SameQueues(r) \/ (OutSession(r)' /\ InSession(r)')
    BY <1>2, <1>10 DEF QueuesElsewhere
<1> QED
    BY <1>2, <1>3, <1>4, <1>5, <1>6, <1>7, <1>8, <1>9, <1>11, MoveNext

LEMMA SendCompletedStep ==
    ASSUME FlowInv, NEW w \in Threads, NEW s \in Sessions, SendCompleted(w, s)
    PROVE  FlowInv'
<1>1. /\ TypeOK /\ PacketOK /\ QueueOK /\ LocalOK /\ Local(w)
      /\ Locals /\ SendTurns /\ RecvTurns /\ RefInv /\ OutInv /\ InInv
    BY InvParts DEF Locals
<1>2. /\ pc[w] = "idle" /\ pc'[w] = "drop" /\ at[w] = Nobody /\ at'[w] = s
      /\ left'[w] = Sent(s) /\ sentPacketArray'[s] = << >>
      /\ overlapped[s] = "sent"
      /\ \A r \in Sessions :
            sentPacketArray'[r] = IF r = s THEN << >> ELSE sentPacketArray[r]
      /\ \A r \in Sessions :
            overlapped'[r] = IF r = s THEN "none" ELSE overlapped[r]
      /\ sendQueue'[s] = sendQueue[s]
      /\ JobQueue'[s] = JobQueue[s] /\ mine[w] = Nobody /\ left[w] = << >>
      /\ sendQueue[s] \in Seq(Entries) /\ Sent(s) \in Seq(Entries)
      /\ UNCHANGED <<packet, pool, isValid, receiver, sendFlag, sendQueue,
                     JobQueue, made, mine, targets>>
      /\ Elsewhere(w) /\ QueuesElsewhere(s)
  <2>1. Sent(s) \in Seq(Entries) /\ sendQueue[s] \in Seq(Entries)
      BY <1>1, SentSeq DEF QueueOK
  <2> QED
      BY <1>1, <2>1 DEF SendCompleted, Goto, Set, LocalOK, QueueOK, Local,
         Elsewhere, QueuesElsewhere, SameQueues
<1>3. TypeOK'
  <2>1. PacketOK'
      BY <1>1, <1>2, PacketSame
  <2>2. QueueOK'
      BY <1>1, <1>2 DEF QueueOK, Set, SendCompleted
  <2>3. LocalOK'
      BY <1>1, <1>2 DEF LocalOK, SendCompleted, Goto, Set
  <2> QED
      BY <2>1, <2>2, <2>3, TypePartsNext
<1>4. Locals'
  <2>1. Local(w)'
      BY <1>1, <1>2, FlowAssumption DEF Local
  <2> QED
      BY <1>1, <1>2, <2>1, LocalsNext
<1>5. SendTurns' /\ RecvTurns'
  <2>1. SendTurns'
    <3> SUFFICES ASSUME NEW r \in Sessions PROVE SendTurn(r)'
        BY DEF SendTurns
    <3>1. SendTurn(r) /\ SendTurn(s) /\ r # Nobody /\ s # Nobody
        BY <1>1, <1>2, FlowAssumption DEF SendTurns
    <3>2. \A u \in Threads : u # w => (SendsFor(u, r)' <=> SendsFor(u, r))
        BY <1>2 DEF SendsFor, Elsewhere
    <3>3. \A u \in Threads : u # w => pc'[u] = pc[u] /\ at'[u] = at[u]
        BY <1>2 DEF Elsewhere
    <3>4. (SendsFor(w, r)' <=> r = s) /\ sendFlag[s] = 1 /\ isValid[s]
          /\ \A u \in Threads : ~ SendsFor(u, s)
        BY <1>2, <3>1 DEF SendsFor, SendTurn
    <3>5. \A u \in Threads : SendsFor(u, r)' =>
             /\ sendFlag'[r] = 1 /\ overlapped'[r] = "none"
             /\ pc'[u] \in {"drop", "free"} => sentPacketArray'[r] = << >>
             /\ \A v \in Threads : SendsFor(v, r)' => v = u
        BY <1>2, <3>1, <3>2, <3>3, <3>4 DEF SendTurn
    <3>6. ~isValid'[r] => /\ overlapped'[r] = "none"
                          /\ sentPacketArray'[r] = << >>
                          /\ \A u \in Threads : at'[u] # r
        BY <1>2, <3>1, <3>2, <3>3, <3>4 DEF SendTurn
    <3>7. /\ sendFlag'[r] = 0 => sentPacketArray'[r] = << >>
          /\ overlapped'[r] # "none" => sendFlag'[r] = 1
        BY <1>2, <3>1, <3>2, <3>3, <3>4 DEF SendTurn
    <3> QED
        BY <3>5, <3>6, <3>7 DEF SendTurn
  <2>2. RecvTurns'
      BY <1>1, <1>2, RecvTurnsKept
  <2> QED
      BY <2>1, <2>2
<1>6. \A p : /\ References(p, "all")' = References(p, "all")
             /\ References(p, "unread")' = References(p, "unread")
  <2> TAKE p
  <2>1. SessionBalanced(p, w, s)
      BY <1>2, <1>3, <1>4, SessionBalance
  <2>2. Count(p, sendQueue[s]) \in Nat /\ Count(p, Sent(s)) \in Nat
      BY <1>2, CountType
  <2>3. Count(p, left'[w]) + Queued(p, s)' = Queued(p, s)
    <3>1. Count(p, Sent(s)') = 0
        BY <1>2, CountEmpty DEF Sent
    <3>2. Queued(p, s)' = Count(p, sendQueue[s]) + Count(p, Sent(s)')
        BY <1>2 DEF Queued
    <3>3. Count(p, left'[w]) = Count(p, Sent(s))
        BY <1>2
    <3> QED
        BY <2>2, <3>1, <3>2, <3>3 DEF Queued
  <2>4. /\ pc[w] \in {"idle", "post"}
        /\ pc'[w] = "drop" \/ (pc'[w] = "idle" /\ left'[w] = << >>)
        /\ JobQueue'[s] = JobQueue[s]
      BY <1>2
  <2> QED
      BY <2>1, <2>3, <2>4, DropMoves
<1>7. \A p \in Packets : References(p, "unread")' <= References(p, "unread")
  <2> TAKE p \in Packets
  <2>1. References(p, "unread") \in Nat
      BY PoolFree
  <2> QED
      BY <1>6, <2>1
<1>8. \A e \in Entries : KeptOut(e) /\ KeptIn(e)
    BY <1>1, <1>2, SameKept
<1>9. OutThread(w)' /\ InThread(w)'
    BY <1>2, OutNothing
<1>10. OutSession(s)' /\ InSession(s)'
  <2>1. OutSession(s) /\ InSession(s)
      BY <1>1, <1>2 DEF OutInv, InInv
  <2> QED
      BY <1>2, <2>1, OutLess
<1>11. \A r \in Sessions : SameQueues(r) \/ (OutSession(r)' /\ InSession(r)')
    BY <1>2, <1>10 DEF QueuesElsewhere
<1> QED
    BY <1>2, <1>3, <1>4, <1>5, <1>6, <1>7, <1>8, <1>9, <1>11, MoveNext

LEMMA releaseSessionStep ==
    ASSUME FlowInv, NEW w \in Threads, NEW s \in Sessions, releaseSession(w, s)
    PROVE  FlowInv'
<1>1. /\ TypeOK /\ PacketOK /\ QueueOK /\ LocalOK /\ Local(w)
      /\ Locals /\ SendTurns /\ RecvTurns /\ RefInv /\ OutInv /\ InInv
    BY InvParts DEF Locals
<1>2. /\ pc[w] = "idle" /\ pc'[w] = "drop" /\ at[w] = Nobody /\ at'[w] = at[w]
      /\ left'[w] = sendQueue[s] \o Sent(s)
      /\ sendQueue'[s] = << >> /\ sentPacketArray'[s] = << >>
      /\ overlapped[s] = "none" /\ \A u \in Threads : at[u] # s
      /\ \A r \in Sessions :
            sentPacketArray'[r] = IF r = s THEN << >> ELSE sentPacketArray[r]
      /\ \A r \in Sessions : isValid'[r] = IF r = s THEN FALSE ELSE isValid[r]
      /\ JobQueue'[s] = JobQueue[s] /\ mine[w] = Nobody /\ left[w] = << >>
      /\ sendQueue[s] \in Seq(Entries) /\ Sent(s) \in Seq(Entries)
      /\ UNCHANGED <<packet, pool, receiver, sendFlag, overlapped, JobQueue,
                     made, mine, targets, at>>
      /\ Elsewhere(w) /\ QueuesElsewhere(s)
  <2>1. Sent(s) \in Seq(Entries) /\ sendQueue[s] \in Seq(Entries)
      BY <1>1, SentSeq DEF QueueOK
  <2> QED
      BY <1>1, <2>1 DEF releaseSession, Goto, Set, LocalOK, QueueOK, Local,
         Elsewhere, QueuesElsewhere, SameQueues
<1>3. TypeOK'
  <2>1. PacketOK'
      BY <1>1, <1>2, PacketSame
  <2>2. QueueOK'
      BY <1>1, <1>2 DEF QueueOK, Set, releaseSession
  <2>3. LocalOK'
      BY <1>1, <1>2 DEF LocalOK, releaseSession, Goto, Set
  <2> QED
      BY <2>1, <2>2, <2>3, TypePartsNext
<1>4. Locals'
  <2>1. Local(w)'
      BY <1>1, <1>2, FlowAssumption DEF Local
  <2> QED
      BY <1>1, <1>2, <2>1, LocalsNext
<1>5. SendTurns' /\ RecvTurns'
  <2>1. SendTurns'
    <3> SUFFICES ASSUME NEW r \in Sessions PROVE SendTurn(r)'
        BY DEF SendTurns
    <3>1. SendTurn(r) /\ SendTurn(s) /\ r # Nobody /\ s # Nobody
        BY <1>1, <1>2, FlowAssumption DEF SendTurns
    <3>2. \A u \in Threads : u # w => (SendsFor(u, r)' <=> SendsFor(u, r))
        BY <1>2 DEF SendsFor, Elsewhere
    <3>3. \A u \in Threads : u # w => pc'[u] = pc[u] /\ at'[u] = at[u]
        BY <1>2 DEF Elsewhere
    <3>4. ~ SendsFor(w, r)' /\ \A u \in Threads : ~ SendsFor(u, s)
        BY <1>2, <3>1 DEF SendsFor
    <3>5. \A u \in Threads : SendsFor(u, r)' =>
             /\ sendFlag'[r] = 1 /\ overlapped'[r] = "none"
             /\ pc'[u] \in {"drop", "free"} => sentPacketArray'[r] = << >>
             /\ \A v \in Threads : SendsFor(v, r)' => v = u
        BY <1>2, <3>1, <3>2, <3>3, <3>4 DEF SendTurn
    <3>6. ~isValid'[r] => /\ overlapped'[r] = "none"
                          /\ sentPacketArray'[r] = << >>
                          /\ \A u \in Threads : at'[u] # r
        BY <1>2, <3>1, <3>2, <3>3, <3>4 DEF SendTurn
    <3>7. /\ sendFlag'[r] = 0 => sentPacketArray'[r] = << >>
          /\ overlapped'[r] # "none" => sendFlag'[r] = 1
        BY <1>2, <3>1, <3>2, <3>3, <3>4 DEF SendTurn
    <3> QED
        BY <3>5, <3>6, <3>7 DEF SendTurn
  <2>2. RecvTurns'
      BY <1>1, <1>2, RecvTurnsKept
  <2> QED
      BY <2>1, <2>2
<1>6. \A p : /\ References(p, "all")' = References(p, "all")
             /\ References(p, "unread")' = References(p, "unread")
  <2> TAKE p
  <2>1. SessionBalanced(p, w, s)
      BY <1>2, <1>3, <1>4, SessionBalance
  <2>2. Count(p, sendQueue[s]) \in Nat /\ Count(p, Sent(s)) \in Nat
      BY <1>2, CountType
  <2>3. Count(p, left'[w]) + Queued(p, s)' = Queued(p, s)
    <3>1. Count(p, Sent(s)') = 0 /\ Count(p, << >>) = 0
        BY <1>2, CountEmpty DEF Sent
    <3>2. Queued(p, s)' = 0
        BY <1>2, <3>1 DEF Queued
    <3>3. Count(p, left'[w]) = Count(p, sendQueue[s]) + Count(p, Sent(s))
        BY <1>2, CountConcat
    <3> QED
        BY <2>2, <3>2, <3>3 DEF Queued
  <2>4. /\ pc[w] \in {"idle", "post"}
        /\ pc'[w] = "drop" \/ (pc'[w] = "idle" /\ left'[w] = << >>)
        /\ JobQueue'[s] = JobQueue[s]
      BY <1>2
  <2> QED
      BY <2>1, <2>3, <2>4, DropMoves
<1>7. \A p \in Packets : References(p, "unread")' <= References(p, "unread")
  <2> TAKE p \in Packets
  <2>1. References(p, "unread") \in Nat
      BY PoolFree
  <2> QED
      BY <1>6, <2>1
<1>8. \A e \in Entries : KeptOut(e) /\ KeptIn(e)
    BY <1>1, <1>2, SameKept
<1>9. OutThread(w)' /\ InThread(w)'
    BY <1>2, OutNothing
<1>10. OutSession(s)' /\ InSession(s)'
  <2>1. OutSession(s) /\ InSession(s)
      BY <1>1, <1>2 DEF OutInv, InInv
  <2> QED
      BY <1>2, <2>1, OutLess
<1>11. \A r \in Sessions : SameQueues(r) \/ (OutSession(r)' /\ InSession(r)')
    BY <1>2, <1>10 DEF QueuesElsewhere
<1> QED
    BY <1>2, <1>3, <1>4, <1>5, <1>6, <1>7, <1>8, <1>9, <1>11, MoveNext

LEMMA AcceptStep ==
    ASSUME FlowInv, NEW a \in Threads, NEW s \in Sessions, Accept(a, s)
    PROVE  FlowInv'
<1>1. /\ TypeOK /\ PacketOK /\ QueueOK /\ LocalOK /\ Local(a)
      /\ Locals /\ SendTurns /\ RecvTurns /\ RefInv /\ OutInv /\ InInv
    BY InvParts DEF Locals
<1>2. /\ pc[a] = "idle" /\ at[a] = Nobody /\ at'[a] = at[a]
      /\ pc'[a] = "drop" \/ (pc'[a] = "idle" /\ left'[a] = << >>)
      /\ left'[a] = sendQueue[s] /\ ~ isValid[s]
      /\ sendQueue'[s] = << >> /\ sentPacketArray'[s] = sentPacketArray[s]
      /\ \A r \in Sessions : sendFlag'[r] = IF r = s THEN 0 ELSE sendFlag[r]
      /\ \A r \in Sessions : isValid'[r] = IF r = s THEN TRUE ELSE isValid[r]
      /\ JobQueue'[s] = JobQueue[s] /\ mine[a] = Nobody /\ left[a] = << >>
      /\ sendQueue[s] \in Seq(Entries) /\ Sent(s) \in Seq(Entries)
      /\ UNCHANGED <<packet, pool, receiver, sentPacketArray, overlapped,
                     JobQueue, made, mine, targets, at>>
      /\ Elsewhere(a) /\ QueuesElsewhere(s)
  <2>1. Sent(s) \in Seq(Entries) /\ sendQueue[s] \in Seq(Entries)
      BY <1>1, SentSeq DEF QueueOK
  <2> QED
      BY <1>1, <2>1 DEF Accept, Goto, Set, LocalOK, QueueOK, Local,
         Elsewhere, QueuesElsewhere, SameQueues
<1>3. TypeOK'
  <2>1. PacketOK'
      BY <1>1, <1>2, PacketSame
  <2>2. QueueOK'
      BY <1>1, <1>2 DEF QueueOK, Set, Accept
  <2>3. LocalOK'
      BY <1>1, <1>2 DEF LocalOK, Accept, Goto, Set
  <2> QED
      BY <2>1, <2>2, <2>3, TypePartsNext
<1>4. Locals'
  <2>1. Local(a)'
      BY <1>1, <1>2, FlowAssumption DEF Local
  <2> QED
      BY <1>1, <1>2, <2>1, LocalsNext
<1>5. SendTurns' /\ RecvTurns'
  <2>1. SendTurns'
    <3> SUFFICES ASSUME NEW r \in Sessions PROVE SendTurn(r)'
        BY DEF SendTurns
    <3>1. SendTurn(r) /\ SendTurn(s) /\ r # Nobody /\ s # Nobody
        BY <1>1, <1>2, FlowAssumption DEF SendTurns
    <3>2. \A u \in Threads : u # a => (SendsFor(u, r)' <=> SendsFor(u, r))
        BY <1>2 DEF SendsFor, Elsewhere
    <3>3. \A u \in Threads : u # a => pc'[u] = pc[u] /\ at'[u] = at[u]
        BY <1>2 DEF Elsewhere
    <3>4. /\ ~ SendsFor(a, r)' /\ \A u \in Threads : ~ SendsFor(u, s)
          /\ sentPacketArray[s] = << >> /\ overlapped[s] = "none"
        BY <1>2, <3>1 DEF SendsFor, SendTurn
    <3>5. \A u \in Threads : SendsFor(u, r)' =>
             /\ sendFlag'[r] = 1 /\ overlapped'[r] = "none"
             /\ pc'[u] \in {"drop", "free"} => sentPacketArray'[r] = << >>
             /\ \A v \in Threads : SendsFor(v, r)' => v = u
        BY <1>2, <3>1, <3>2, <3>3, <3>4 DEF SendTurn
    <3>6. ~isValid'[r] => /\ overlapped'[r] = "none"
                          /\ sentPacketArray'[r] = << >>
                          /\ \A u \in Threads : at'[u] # r
        BY <1>2, <3>1, <3>2, <3>3, <3>4 DEF SendTurn
    <3>7. /\ sendFlag'[r] = 0 => sentPacketArray'[r] = << >>
          /\ overlapped'[r] # "none" => sendFlag'[r] = 1
        BY <1>2, <3>1, <3>2, <3>3, <3>4 DEF SendTurn
    <3> QED
        BY <3>5, <3>6, <3>7 DEF SendTurn
  <2>2. RecvTurns'
      BY <1>1, <1>2, RecvTurnsKept
  <2> QED
      BY <2>1, <2>2
<1>6. \A p : /\ References(p, "all")' = References(p, "all")
             /\ References(p, "unread")' = References(p, "unread")
  <2> TAKE p
  <2>1. SessionBalanced(p, a, s)
      BY <1>2, <1>3, <1>4, SessionBalance
  <2>2. Count(p, sendQueue[s]) \in Nat /\ Count(p, Sent(s)) \in Nat
      BY <1>2, CountType
  <2>3. Count(p, left'[a]) + Queued(p, s)' = Queued(p, s)
    <3>1. Sent(s)' = Sent(s)
        BY <1>2 DEF Sent
    <3>2. Queued(p, s)' = Count(p, << >>) + Count(p, Sent(s))
        BY <1>2, <3>1 DEF Queued
    <3>3. Count(p, left'[a]) = Count(p, sendQueue[s]) /\ Count(p, << >>) = 0
        BY <1>2, CountEmpty
    <3> QED
        BY <2>2, <3>2, <3>3 DEF Queued
  <2>4. /\ pc[a] \in {"idle", "post"}
        /\ pc'[a] = "drop" \/ (pc'[a] = "idle" /\ left'[a] = << >>)
        /\ JobQueue'[s] = JobQueue[s]
      BY <1>2
  <2> QED
      BY <2>1, <2>3, <2>4, DropMoves
<1>7. \A p \in Packets : References(p, "unread")' <= References(p, "unread")
  <2> TAKE p \in Packets
  <2>1. References(p, "unread") \in Nat
      BY PoolFree
  <2> QED
      BY <1>6, <2>1
<1>8. \A e \in Entries : KeptOut(e) /\ KeptIn(e)
    BY <1>1, <1>2, SameKept
<1>9. OutThread(a)' /\ InThread(a)'
    BY <1>2, OutNothing
<1>10. OutSession(s)' /\ InSession(s)'
  <2>1. OutSession(s) /\ InSession(s)
      BY <1>1, <1>2 DEF OutInv, InInv
  <2> QED
      BY <1>2, <2>1, OutLess
<1>11. \A r \in Sessions : SameQueues(r) \/ (OutSession(r)' /\ InSession(r)')
    BY <1>2, <1>10 DEF QueuesElsewhere
<1> QED
    BY <1>2, <1>3, <1>4, <1>5, <1>6, <1>7, <1>8, <1>9, <1>11, MoveNext

-----------------------------------------------------------------------------
(* A sender takes packets; a worker counts the job's reference and queues
   it. *)

LEMMA OnRecvStep ==
    ASSUME FlowInv, NEW w \in Threads, OnRecv(w)
    PROVE  FlowInv'
<1> DEFINE x == mine[w].packet
<1>1. /\ TypeOK /\ PacketOK /\ QueueOK /\ LocalOK /\ Local(w)
      /\ Locals /\ SendTurns /\ RecvTurns /\ RefInv /\ OutInv /\ InInv
    BY InvParts DEF Locals
<1>2. /\ pc[w] = "recv" /\ pc'[w] = "push"
      /\ mine[w] \in Entries /\ x \in Packets
      /\ packet' = Set(packet, x, addRef(packet[x], 1))
      /\ UNCHANGED <<pool, isValid, receiver, sendFlag, sendQueue,
                     sentPacketArray, overlapped, JobQueue, made, mine,
                     targets, at, left>>
      /\ Elsewhere(w) /\ QueuesKept
  <2>1. pc[w] = "recv" /\ mine[w] # Nobody
      BY <1>1 DEF OnRecv, Goto, Local
  <2>2. mine[w] \in Entries
      BY <1>1, <2>1 DEF LocalOK
  <2> QED
      BY <1>1, <2>1, <2>2, EntryType DEF OnRecv, Goto, Set, LocalOK,
         Elsewhere, QueuesKept, SameQueues, sessionVars, sendVars
<1>3. TypeOK'
  <2>1. PacketOK'
      BY <1>1, <1>2, AddRefPacket
  <2>2. QueueOK'
      BY <1>1, <1>2 DEF QueueOK
  <2>3. LocalOK'
      BY <1>1, <1>2 DEF LocalOK, OnRecv, Goto, Set
  <2> QED
      BY <2>1, <2>2, <2>3, TypePartsNext
<1>4. Locals'
  <2>1. Local(w)'
      BY <1>1, <1>2 DEF Local
  <2> QED
      BY <1>1, <1>2, <2>1, LocalsNext
<1>5. SendTurns' /\ RecvTurns'
  <2>1. \A r \in Sessions : ~ SendsFor(w, r)'
      BY <1>2 DEF SendsFor
  <2>2. SendTurns'
      BY <1>1, <1>2, <2>1, SendTurnsKept
  <2>3. RecvTurns'
      BY <1>1, <1>2, RecvTurnsKept
  <2> QED
      BY <2>2, <2>3
<1>6. \A p : /\ References(p, "all")' = References(p, "all") + One(p = x)
             /\ References(p, "unread")' = References(p, "unread")
  <2> TAKE p
  <2>1. ThreadBalanced(p, w)
      BY <1>2, <1>3, <1>4, ThreadBalance
  <2>2. Mined(p, w)' = Mined(p, w) /\ Mined(p, w) = One(p = x)
      BY <1>2 DEF Mined, One
  <2>3. /\ ThreadTally(p, w, "all") = Mined(p, w)
        /\ ThreadTally(p, w, "unread") = Mined(p, w) /\ Mined(p, w) \in {0, 1}
      BY <1>2, <2>1 DEF ThreadBalanced, TallyAt
  <2>4. TallyAt(p, w)'
      BY <2>1 DEF ThreadBalanced
  <2>5. /\ ThreadTally(p, w, "all")' = Mined(p, w)' + Mined(p, w)'
        /\ ThreadTally(p, w, "unread")' = Mined(p, w)'
      BY <1>2, <2>4 DEF TallyAt
  <2> QED
      BY <2>1, <2>2, <2>3, <2>5 DEF ThreadBalanced
<1>7. References(x, "all") # 0
    BY <1>1, <1>2, OwnReferenced DEF HasOwn
<1>8. OutThread(w)' /\ InThread(w)'
  <2>1. Incoming(mine[w]) /\ KeptIn(mine[w])
      BY <1>1, <1>2, AddRefPacket DEF InInv, InThread
  <2>2. mine' = mine
      BY <1>2
  <2> QED
      BY <1>2, <2>1, <2>2 DEF OutThread, InThread, KeptIn, Incoming
<1>9. \A q \in Packets :
          /\ References(q, "all")' = References(q, "all") + One(q = x)
          /\ References(q, "unread")' = References(q, "unread")
    BY <1>6
<1> QED
  <2> HIDE DEF x
  <2> QED
      BY <1>2, <1>3, <1>4, <1>5, <1>7, <1>8, <1>9, CountNext

LEMMA sendPostStep ==
    ASSUME FlowInv, NEW w \in Threads, NEW s \in Sessions, sendPost(w, s)
    PROVE  FlowInv'
<1> DEFINE q == sendQueue[s]
           n == Min({dfMAX_PACKET, Len(q)})
           front == [i \in 1 .. n |-> q[i]]
           back == SubSeq(q, n + 1, Len(q))
           buffers == [i \in 1 .. n |-> Buffer(q[i])]
<1>1. /\ TypeOK /\ PacketOK /\ QueueOK /\ LocalOK /\ Local(w)
      /\ Locals /\ SendTurns /\ RecvTurns /\ RefInv /\ OutInv /\ InInv
    BY InvParts DEF Locals
<1>0. q \in Seq(Entries) /\ n \in 1 .. Len(q) /\ back \in Seq(Entries)
      /\ Len(back) = Len(q) - n
      /\ \A i \in 1 .. Len(q) - n : i + n \in 1 .. Len(q) /\ back[i] = q[i + n]
  <2>1. q \in Seq(Entries) /\ n > 0
      BY <1>1 DEF QueueOK, sendPost
  <2>2. dfMAX_PACKET \in Nat /\ Len(q) \in Nat
      BY <2>1, FlowAssumption
  <2>3. n \in {dfMAX_PACKET, Len(q)} /\ n <= Len(q)
    <3> HIDE DEF q
    <3>1. CASE dfMAX_PACKET <= Len(q)
        BY <2>2, <3>1 DEF Min
    <3>2. CASE Len(q) <= dfMAX_PACKET
        BY <2>2, <3>2 DEF Min
    <3> QED
        BY <2>2, <3>1, <3>2
  <2>4. Len(q) \in Nat /\ n \in Nat /\ n <= Len(q) /\ n \in 1 .. Len(q)
      BY <2>1, <2>2, <2>3
  <2> HIDE DEF q, n
  <2>5. back \in Seq(Entries)
      BY <2>1, <2>4
  <2>6. Len(back) = Len(q) - n
        /\ \A i \in 1 .. Len(q) - n : back[i] = q[i + n]
      BY <2>1, <2>4
  <2> QED
      BY <2>1, <2>4, <2>5, <2>6
<1>2. /\ pc[w] = "idle" /\ pc'[w] = "post" /\ at[w] = Nobody /\ at'[w] = s
      /\ isValid[s] /\ sendFlag[s] = 0
      /\ \A r \in Sessions : sendFlag'[r] = IF r = s THEN 1 ELSE sendFlag[r]
      /\ sendQueue'[s] = back /\ sentPacketArray'[s] = buffers
      /\ \A r \in Sessions \ {s} : sentPacketArray'[r] = sentPacketArray[r]
      /\ left[w] = << >> /\ left'[w] = << >> /\ mine[w] = Nobody
      /\ JobQueue'[s] = JobQueue[s]
      /\ UNCHANGED <<packet, pool, isValid, receiver, overlapped, JobQueue,
                     made, mine, targets, left>>
      /\ Elsewhere(w) /\ QueuesElsewhere(s)
  <2>1. /\ at' = Set(at, w, s) /\ sendFlag' = Set(sendFlag, s, 1)
        /\ sendQueue' = Set(sendQueue, s, back)
        /\ sentPacketArray' = Set(sentPacketArray, s, buffers)
        /\ isValid[s] /\ sendFlag[s] = 0 /\ Goto(w, "idle", "post")
        /\ UNCHANGED <<packet, pool, isValid, receiver, overlapped, JobQueue,
                       made, mine, targets, left>>
      BY DEF sendPost
  <2> HIDE DEF back, buffers
  <2> QED
      BY <1>1, <2>1 DEF Goto, Set, LocalOK, QueueOK, Local, Elsewhere,
         QueuesElsewhere, SameQueues
<1>3. TypeOK'
  <2>1. PacketOK'
      BY <1>1, <1>2, PacketSame
  <2>2. back \in Seq(Entries) /\ buffers \in Seq(Buffers)
    <3>1. \A i \in 1 .. n : Buffer(q[i]) \in Buffers
      <4> SUFFICES ASSUME NEW i \in 1 .. n PROVE Buffer(q[i]) \in Buffers
          OBVIOUS
      <4> DEFINE e == q[i]
                 o == packet[e.packet]
      <4>1. e \in Entries
          BY <1>0
      <4>2. Good(o)
          BY <1>1, <4>1, EntryType DEF PacketOK
      <4> HIDE DEF e
      <4>3. /\ o.readPos \in Position /\ o.DataSize \in 0 .. end
            /\ o.DataSize = o.writePos - o.readPos
        <5> HIDE DEF o
        <5>1. /\ o.readPos \in Nat /\ o.writePos \in Nat
              /\ o.readPos <= o.writePos /\ o.writePos <= end
              /\ o.DataSize = o.writePos - o.readPos /\ o.readPos \in Position
            BY <4>2, GoodFields
        <5>2. end \in Nat
            BY Bounds
        <5> QED
            BY <5>1, <5>2
      <4>4. Buffer(e) = [entry |-> e, buf |-> o.readPos, len |-> o.writePos - o.readPos]
          BY DEF Buffer, GetReadBufferPtr, GetDataSize
      <4> HIDE DEF o
      <4>5. Buffer(e) \in Buffers
          BY <4>1, <4>3, <4>4 DEF Buffers
      <4> QED
          BY <4>5 DEF e
    <3>2. back \in Seq(Entries)
        BY <1>0
    <3>3. buffers \in Seq(Buffers)
      <4>1. n \in Nat
          BY <1>0
      <4> DEFINE B(i) == Buffer(q[i])
      <4>2. \A i \in 1 .. n : B(i) \in Buffers
          BY <3>1
      <4> HIDE DEF B, n
      <4>3. [i \in 1 .. n |-> B(i)] \in Seq(Buffers)
          BY <4>1, <4>2
      <4> QED
          BY <4>3 DEF B
    <3> QED
        BY <3>2, <3>3
  <2>3. QueueOK'
    <3>1. /\ sendFlag' = Set(sendFlag, s, 1)
          /\ sendQueue' = Set(sendQueue, s, back)
          /\ sentPacketArray' = Set(sentPacketArray, s, buffers)
        BY DEF sendPost
    <3> HIDE DEF back, buffers
    <3>2. /\ sendFlag' \in [Sessions -> 0 .. 1]
          /\ sendQueue' \in [Sessions -> Seq(Entries)]
          /\ sentPacketArray' \in [Sessions -> Seq(Buffers)]
        BY <1>1, <2>2, <3>1 DEF QueueOK, Set
    <3> QED
        BY <1>1, <1>2, <3>2 DEF QueueOK
  <2>4. LocalOK'
      BY <1>1, <1>2 DEF LocalOK, sendPost, Goto, Set
  <2> QED
      BY <2>1, <2>3, <2>4, TypePartsNext
<1>4. Locals'
  <2>1. Local(w)'
    <3>1. s # Nobody
        BY FlowAssumption
    <3> QED
        BY <1>1, <1>2, <3>1 DEF Local
  <2> QED
      BY <1>1, <1>2, <2>1, LocalsNext
<1>5. SendTurns' /\ RecvTurns'
  <2>1. SendTurns'
    <3> SUFFICES ASSUME NEW r \in Sessions PROVE SendTurn(r)'
        BY DEF SendTurns
    <3>1. SendTurn(r) /\ SendTurn(s) /\ r # Nobody /\ s # Nobody
        BY <1>1, <1>2, FlowAssumption DEF SendTurns
    <3>2. \A u \in Threads : u # w => (SendsFor(u, r)' <=> SendsFor(u, r))
        BY <1>2 DEF SendsFor, Elsewhere
    <3>3. \A u \in Threads : u # w => pc'[u] = pc[u] /\ at'[u] = at[u]
        BY <1>2 DEF Elsewhere
    <3>4. /\ ~ SendsFor(w, r) /\ (SendsFor(w, r)' <=> r = s)
          /\ \A u \in Threads : ~ SendsFor(u, s)
          /\ isValid[s] /\ overlapped[s] = "none"
        BY <1>2, <3>1 DEF SendsFor, SendTurn
    <3>5. \A u \in Threads : SendsFor(u, r)' =>
             /\ sendFlag'[r] = 1 /\ overlapped'[r] = "none"
             /\ pc'[u] \in {"drop", "free"} => sentPacketArray'[r] = << >>
             /\ \A v \in Threads : SendsFor(v, r)' => v = u
      <4>1. CASE r = s
          BY <1>2, <3>2, <3>3, <3>4, <4>1
      <4>2. CASE r # s
          BY <1>2, <3>1, <3>2, <3>3, <3>4, <4>2 DEF SendTurn
      <4> QED
          BY <4>1, <4>2
    <3>6. ~isValid'[r] => /\ overlapped'[r] = "none"
                          /\ sentPacketArray'[r] = << >>
                          /\ \A u \in Threads : at'[u] # r
      <4>1. CASE r = s
          BY <1>2, <4>1
      <4>2. CASE r # s
          BY <1>2, <3>1, <3>3, <4>2 DEF SendTurn
      <4> QED
          BY <4>1, <4>2
    <3>7. /\ sendFlag'[r] = 0 => sentPacketArray'[r] = << >>
          /\ overlapped'[r] # "none" => sendFlag'[r] = 1
        BY <1>2, <3>1 DEF SendTurn
    <3> QED
        BY <3>5, <3>6, <3>7 DEF SendTurn
  <2>2. RecvTurns'
      BY <1>1, <1>2, RecvTurnsKept
  <2> QED
      BY <2>1, <2>2
<1>6. \A p : /\ References(p, "all")' = References(p, "all")
             /\ References(p, "unread")' = References(p, "unread")
  <2> TAKE p
  <2>1. SessionBalanced(p, w, s)
      BY <1>2, <1>3, <1>4, SessionBalance
  <2>2. /\ Count(p, q) = Count(p, front) + Count(p, back)
        /\ Count(p, front) \in Nat /\ Count(p, back) \in Nat
    <3>1. n \in 0 .. Len(q)
        BY <1>0
    <3> HIDE DEF q, n
    <3>2. /\ front \in Seq(Entries) /\ back \in Seq(Entries)
          /\ Count(p, q) = Count(p, front) + Count(p, back)
        BY <1>0, <3>1, CountSplit
    <3> HIDE DEF front, back
    <3> QED
        BY <3>2, CountType
  <2>3. Queued(p, s) = Count(p, q)
    <3>1. sentPacketArray[s] = << >>
        BY <1>1, <1>2 DEF SendTurns, SendTurn
    <3>2. Count(p, Sent(s)) = 0
        BY <3>1, EmptyCounts
    <3> QED
        BY <2>2, <3>2 DEF Queued
  <2>4. Queued(p, s)' = Count(p, back) + Count(p, front)
    <3>1. Sent(s)' = front
      <4>1. Sent(s)' = [i \in DOMAIN sentPacketArray'[s] |->
                           sentPacketArray'[s][i].entry]
          BY DEF Sent
      <4>2. DOMAIN buffers = 1 .. n /\ \A i \in 1 .. n : buffers[i].entry = q[i]
          BY DEF Buffer
      <4> HIDE DEF buffers
      <4> QED
          BY <1>2, <4>1, <4>2
    <3> QED
        BY <1>2, <3>1 DEF Queued
  <2>5. Jobs(p, s)' = Jobs(p, s)
      BY <1>2 DEF Jobs
  <2>6. ThreadTally(p, w, "all") = 0 /\ ThreadTally(p, w, "unread") = 0
      BY <1>2, <2>1 DEF SessionBalanced, TallyAt
  <2>7. ThreadTally(p, w, "all")' = 0 /\ ThreadTally(p, w, "unread")' = 0
    <3>1. TallyAt(p, w)'
        BY <2>1 DEF SessionBalanced
    <3> QED
        BY <1>2, <3>1 DEF TallyAt
  <2> HIDE DEF q, front, back
  <2>8. Queued(p, s)' = Queued(p, s)
      BY <2>2, <2>3, <2>4
  <2> QED
      BY <2>1, <2>5, <2>6, <2>7, <2>8 DEF SessionBalanced
<1>7. \A e \in Entries : KeptOut(e) /\ KeptIn(e)
    BY <1>1, <1>2, SameKept
<1>8. OutSession(s) /\ InSession(s)
    BY <1>1 DEF OutInv, InInv
<1>9. OutThread(w)' /\ InThread(w)'
    BY <1>2, OutNothing
<1>10. OutSession(s)' /\ InSession(s)'
  <2>1. ASSUME NEW i \in 1 .. Len(sendQueue'[s])
        PROVE  Encoded(sendQueue[s][i])'
    <3>1. i + n \in 1 .. Len(q) /\ sendQueue'[s][i] = q[i + n]
      <4>1. Len(q) \in Nat
          BY <1>0
      <4> HIDE DEF q, n, back
      <4> QED
          BY <1>0, <1>2, <4>1
    <3>2. Encoded(q[i + n])
        BY <1>8, <3>1 DEF OutSession
    <3> QED
        BY <1>2, <3>1, <3>2 DEF Encoded, Outgoing
  <2>2. ASSUME NEW i \in 1 .. Len(sentPacketArray'[s])
        PROVE  /\ Encoded(sentPacketArray[s][i].entry)'
               /\ sentPacketArray'[s][i] = Buffer(sentPacketArray[s][i].entry)'
    <3>1. i \in 1 .. n /\ i \in 1 .. Len(q)
      <4> HIDE DEF q, n
      <4> QED
          BY <1>0, <1>2
    <3>2. Encoded(q[i])
        BY <1>8, <3>1 DEF OutSession
    <3>3. sentPacketArray'[s][i] = Buffer(q[i])
        BY <1>2, <3>1
    <3>4. sentPacketArray'[s][i].entry = q[i]
        BY <3>3 DEF Buffer
    <3> QED
        BY <1>2, <3>2, <3>3, <3>4 DEF Encoded, Outgoing, Buffer
  <2>3. InSession(s)'
      BY <1>2, <1>8 DEF InSession, Incoming
  <2> QED
      BY <2>1, <2>2, <2>3 DEF OutSession
<1>11. \A r \in Sessions : SameQueues(r) \/ (OutSession(r)' /\ InSession(r)')
    BY <1>2, <1>10 DEF QueuesElsewhere
<1>12. \A p \in Packets : References(p, "unread")' <= References(p, "unread")
  <2> TAKE p \in Packets
  <2>1. References(p, "unread") \in Nat
      BY PoolFree
  <2> QED
      BY <1>6, <2>1
<1> QED
    BY <1>2, <1>3, <1>4, <1>5, <1>6, <1>7, <1>9, <1>11, <1>12, MoveNext

LEMMA PushJobStep ==
    ASSUME FlowInv, NEW w \in Threads, PushJob(w)
    PROVE  FlowInv'
<1> DEFINE m == mine[w]
<1>1. /\ TypeOK /\ PacketOK /\ QueueOK /\ LocalOK /\ Local(w)
      /\ Locals /\ SendTurns /\ RecvTurns /\ RefInv /\ OutInv /\ InInv
    BY InvParts DEF Locals
<1>0. PICK s \in Sessions : receiver[s] = w
    BY <1>1 DEF RecvTurns, PushJob, Goto
<1> DEFINE q == JobQueue[s]
<1>2. /\ pc[w] = "push" /\ pc'[w] = "drop" /\ left[w] = << >>
      /\ m \in Entries /\ m # Nobody /\ mine'[w] = Nobody /\ left'[w] = <<m>>
      /\ q \in Seq(Entries) /\ JobQueue'[s] = Append(q, m)
      /\ \A r \in Sessions : r # s => JobQueue'[r] = JobQueue[r]
      /\ at[w] = Nobody /\ at'[w] = Nobody
      /\ sendQueue'[s] = sendQueue[s] /\ sentPacketArray'[s] = sentPacketArray[s]
      /\ UNCHANGED <<packet, pool, isValid, receiver, sendFlag, sendQueue,
                     sentPacketArray, overlapped, made, targets, at>>
      /\ Elsewhere(w) /\ QueuesElsewhere(s)
  <2>1. pc[w] = "push" /\ m # Nobody
      BY <1>1 DEF PushJob, Goto, Local
  <2>2. m \in Entries
      BY <1>1, <2>1 DEF LocalOK
  <2>3. q \in Seq(Entries)
      BY <1>1 DEF QueueOK
  <2>4. \A r \in Sessions : r # s => receiver[r] # w
      BY <1>0, <1>1, FlowAssumption DEF RecvTurns
  <2>5. JobQueue'[s] = Append(q, m)
      BY <1>0 DEF PushJob
  <2>6. \A r \in Sessions : r # s => JobQueue'[r] = JobQueue[r]
      BY <2>4 DEF PushJob
  <2>7. /\ left' = Set(left, w, <<m>>) /\ mine' = Set(mine, w, Nobody)
        /\ Goto(w, "push", "drop")
        /\ UNCHANGED <<packet, pool, isValid, receiver, sendFlag, sendQueue,
                       sentPacketArray, overlapped, made, targets, at>>
      BY DEF PushJob, sendVars
  <2> HIDE DEF q, m
  <2> QED
      BY <1>1, <2>1, <2>2, <2>3, <2>5, <2>6, <2>7 DEF Goto, Set, LocalOK, Local,
         Elsewhere, QueuesElsewhere, SameQueues
<1>3. TypeOK'
  <2>1. PacketOK'
      BY <1>1, <1>2, PacketSame
  <2>2. QueueOK'
    <3>1. Append(q, m) \in Seq(Entries)
        BY <1>2
    <3>2. \A r \in Sessions : JobQueue'[r] \in Seq(Entries)
      <4> HIDE DEF q, m
      <4> QED
          BY <1>1, <1>2, <3>1 DEF QueueOK
    <3>3. JobQueue' = [r \in Sessions |-> JobQueue'[r]]
        BY Zenon DEF PushJob
    <3>4. JobQueue' \in [Sessions -> Seq(Entries)]
        BY <3>2, <3>3
    <3> QED
        BY <1>1, <1>2, <3>4 DEF QueueOK
  <2>3. LocalOK'
    <3>1. <<m>> \in Seq(Entries) /\ left' = Set(left, w, <<m>>)
        BY <1>2 DEF PushJob
    <3> HIDE DEF m
    <3> QED
        BY <1>1, <1>2, <3>1 DEF LocalOK, PushJob, Goto, Set
  <2> QED
      BY <2>1, <2>2, <2>3, TypePartsNext
<1>4. Locals'
  <2>1. Local(w)'
      BY <1>1, <1>2 DEF Local
  <2> QED
      BY <1>1, <1>2, <2>1, LocalsNext
<1>5. SendTurns' /\ RecvTurns'
  <2>1. \A r \in Sessions : ~ SendsFor(w, r)'
      BY <1>2, FlowAssumption DEF SendsFor
  <2>2. SendTurns'
      BY <1>1, <1>2, <2>1, SendTurnsKept
  <2>3. RecvTurns'
      BY <1>1, <1>2, RecvTurnsKept
  <2> QED
      BY <2>2, <2>3
<1>6. \A p : /\ References(p, "all")' = References(p, "all")
             /\ References(p, "unread")' = References(p, "unread")
  <2> TAKE p
  <2>1. SessionBalanced(p, w, s)
      BY <1>2, <1>3, <1>4, SessionBalance
  <2>2. Count(p, left'[w]) = Mined(p, w) /\ Mined(p, w) \in Nat
      BY <1>2, CountOne DEF Mined, One
  <2>3. Jobs(p, s)' = Jobs(p, s) + Mined(p, w)
    <3>1. Count(p, Append(q, m)) = Count(p, q) + Mined(p, w)
        BY <1>2, CountAppend DEF Mined
    <3> QED
        BY <1>2, <3>1 DEF Jobs
  <2>4. Queued(p, s)' = Queued(p, s)
    <3>1. Sent(s)' = Sent(s)
        BY <1>2 DEF Sent
    <3> QED
        BY <1>2, <3>1 DEF Queued
  <2>5. /\ ThreadTally(p, w, "all") = Mined(p, w) + Mined(p, w)
        /\ ThreadTally(p, w, "unread") = Mined(p, w)
      BY <1>2, <2>1 DEF SessionBalanced, TallyAt
  <2>6. /\ ThreadTally(p, w, "all")' = Mined(p, w)
        /\ ThreadTally(p, w, "unread")' = 0
    <3>1. TallyAt(p, w)'
        BY <2>1 DEF SessionBalanced
    <3> QED
        BY <1>2, <2>2, <3>1 DEF TallyAt
  <2> HIDE DEF m, q
  <2> QED
      BY <2>1, <2>2, <2>3, <2>4, <2>5, <2>6 DEF SessionBalanced
<1>7. \A e \in Entries : KeptOut(e) /\ KeptIn(e)
    BY <1>1, <1>2, SameKept
<1>8. OutSession(s) /\ InSession(s) /\ Incoming(m)
    BY <1>1, <1>2 DEF OutInv, InInv, InThread
<1>9. OutThread(w)' /\ InThread(w)'
    BY <1>2, OutNothing
<1>10. OutSession(s)' /\ InSession(s)'
  <2>1. OutSession(s)'
      BY <1>2, <1>8 DEF OutSession, Encoded, Outgoing, Buffer
  <2>2. ASSUME NEW i \in 1 .. Len(JobQueue'[s])
        PROVE  Incoming(JobQueue[s][i])'
    <3>1. CASE i = Len(q) + 1
      <4>1. JobQueue'[s][i] = m
          BY <1>2, <3>1
      <4> QED
          BY <1>2, <1>8, <4>1 DEF Incoming
    <3>2. CASE i # Len(q) + 1
      <4>1. i \in 1 .. Len(q) /\ JobQueue'[s][i] = JobQueue[s][i]
          BY <1>2, <3>2
      <4>2. Incoming(JobQueue[s][i])
          BY <1>8, <4>1 DEF InSession
      <4> QED
          BY <1>2, <4>1, <4>2 DEF Incoming
    <3> QED
        BY <3>1, <3>2
  <2> QED
      BY <2>1, <2>2 DEF InSession
<1>11. \A r \in Sessions : SameQueues(r) \/ (OutSession(r)' /\ InSession(r)')
    BY <1>2, <1>10 DEF QueuesElsewhere
<1>12. \A p \in Packets : References(p, "unread")' <= References(p, "unread")
  <2> TAKE p \in Packets
  <2>1. References(p, "unread") \in Nat
      BY PoolFree
  <2> QED
      BY <1>6, <2>1
<1> QED
    BY <1>2, <1>3, <1>4, <1>5, <1>6, <1>7, <1>9, <1>11, <1>12, MoveNext

-----------------------------------------------------------------------------
(* A packet taken from the pool. *)

LEMMA FreshNext ==
    ASSUME FlowInv, NEW t \in Threads, Elsewhere(t), TypeOK', Locals',
           SendTurns', RecvTurns', pc[t] # "free", pc'[t] # "free",
           NEW p \in Packets, p \in pool, pool' = pool \ {p}, QueuesKept,
           MadeGrows, NEW o, packet' = Set(packet, p, o), o.refCount = 1,
           \A q \in Packets :
               /\ References(q, "all")' = References(q, "all") + One(q = p)
               /\ References(q, "unread")'
                    <= References(q, "unread") + One(q = p),
           OutThread(t)', InThread(t)'
    PROVE  FlowInv'
<1>1. TypeOK /\ PacketOK /\ QueueOK /\ RefInv /\ InInv
    BY InvParts
<1>2. packet'[p] = o /\ \A q \in Packets \ {p} : packet'[q] = packet[q]
    BY <1>1 DEF PacketOK, Set
<1>3. /\ References(p, "all") = 0 /\ References(p, "unread") = 0
    BY PoolFree
<1>4. \A e \in Entries :
          References(e.packet, "all") # 0 => KeptOut(e) /\ KeptIn(e)
    BY <1>1, <1>3, OthersContent
<1>5. RefInv'
  <2> SUFFICES ASSUME NEW q \in Packets PROVE RefOK(q)'
      BY DEF RefInv
  <2>1. RefOK(q) /\ References(q, "all") \in Nat /\ Freeing(q)' = Freeing(q)
        /\ References(q, "all")' = References(q, "all") + One(q = p)
      BY <1>1, PoolFree, FreeingKept DEF RefInv
  <2>2. CASE q = p
    <3>1. /\ References(q, "all")' = 1 /\ packet'[q].refCount = 1
          /\ q \in pool /\ q \notin pool'
        BY <1>2, <1>3, <2>1, <2>2 DEF One
    <3> QED
        BY <2>1, <3>1, RefNew
  <2>3. CASE q # p
    <3>1. /\ References(q, "all")' = References(q, "all")
          /\ packet'[q].refCount = packet[q].refCount
          /\ q \in pool' <=> q \in pool
        BY <1>2, <2>1, <2>3 DEF One
    <3> QED
        BY <2>1, <3>1, RefStay
  <2> QED
      BY <2>2, <2>3
<1>6. \A q \in Packets : References(q, "unread")' <= 1
  <2> TAKE q \in Packets
  <2>1. /\ References(q, "unread") \in Nat /\ References(q, "unread") <= 1
        /\ References(q, "unread")' <= References(q, "unread") + One(q = p)
      BY <1>1, PoolFree DEF InInv
  <2>2. References(q, "unread")' \in Nat
      BY <1>1, ReferencesTypeNext DEF HasPart
  <2>3. CASE q = p
      BY <1>3, <2>1, <2>2, <2>3 DEF One
  <2>4. CASE q # p
      BY <2>1, <2>2, <2>4 DEF One
  <2> QED
      BY <2>3, <2>4
<1>7. \A s \in Sessions : SameQueues(s)
    BY DEF QueuesKept
<1>8. OutInv' /\ InInv'
    BY <1>4, <1>6, <1>7, ContentNext
<1> QED
    BY <1>5, <1>8 DEF FlowInv

LEMMA PermutationType ==
    \A to \in SetToAllKPermutations(Sessions) : to \in Seq(Sessions)
<1> SUFFICES ASSUME NEW S \in SUBSET Sessions, NEW to \in SetToSeqs(S)
             PROVE  to \in Seq(Sessions)
    BY DEF SetToAllKPermutations
<1>1. Cardinality(S) \in Nat
    BY FlowAssumption, FS_Subset, FS_CardinalityType
<1>2. to \in [1 .. Cardinality(S) -> S]
    BY DEF SetToSeqs
<1> QED
    BY <1>1, <1>2

LEMMA BuildStep ==
    ASSUME FlowInv, NEW g \in Threads, Build(g)
    PROVE  FlowInv'
<1>1. /\ TypeOK /\ PacketOK /\ QueueOK /\ LocalOK /\ Local(g)
      /\ Locals /\ SendTurns /\ RecvTurns /\ RefInv /\ OutInv /\ InInv
    BY InvParts DEF Locals
<1>a. PICK p \in pool, message \in Messages,
           to \in SetToAllKPermutations(Sessions) \ {<< >>} :
          /\ pc[g] \in {"idle", "handled"}
          /\ pc' = [pc EXCEPT ![g] = "send"]
          /\ pool' = pool \ {p}
          /\ NewMessage(Length(message))
          /\ packet' = Set(packet, p,
                Fill(addRef(Clear(mAlloc(packet[p])), 1), message, Number))
          /\ mine' = Set(mine, g, Entry(p, Number))
          /\ targets' = Set(targets, g, to)
          /\ UNCHANGED <<sessionVars, at, left>>
    BY DEF Build
<1>b. PICK o : o = Fill(addRef(Clear(mAlloc(packet[p])), 1), message, Number)
    OBVIOUS
<1>c. to \in Seq(Sessions)
    BY PermutationType
<1>0. /\ o = Fill(addRef(Clear(mAlloc(packet[p])), 1), message, Number)
      /\ pc[g] \in {"idle", "handled"}
      /\ pc' = [pc EXCEPT ![g] = "send"]
      /\ pool' = pool \ {p}
      /\ NewMessage(Length(message))
      /\ packet' = Set(packet, p, o)
      /\ mine' = Set(mine, g, Entry(p, Number))
      /\ targets' = Set(targets, g, to) /\ to \in Seq(Sessions)
      /\ UNCHANGED <<isValid, receiver, sendFlag, sendQueue,
                     sentPacketArray, overlapped, JobQueue, at, left>>
    BY <1>a, <1>b, <1>c DEF sessionVars, sendVars
<1> DEFINE k == Number
           n == Length(message)
           m == Entry(p, k)
<1>2. /\ pc[g] \in {"idle", "handled"} /\ pc'[g] = "send" /\ mine[g] = Nobody
      /\ mine'[g] = m /\ left'[g] = left[g] /\ p \in Packets
      /\ left[g] \in Seq(Entries) /\ at[g] = Nobody /\ at'[g] = Nobody
      /\ UNCHANGED <<isValid, receiver, sendFlag, sendQueue,
                     sentPacketArray, overlapped, JobQueue, at, left>>
      /\ Elsewhere(g) /\ QueuesKept
  <2> HIDE DEF m
  <2> QED
      BY <1>0, <1>1 DEF Set, LocalOK, QueueOK, Local, Elsewhere, QueuesKept,
         SameQueues, m
<1>3. k \in 1 .. MaxMessages /\ m \in Entries /\ m.packet = p /\ m.number = k
      /\ m # Nobody
    BY <1>0, <1>1, <1>2, NewEntry, EntryType
<1>4. BuiltFor(o, k, n) /\ n \in Nat
  <2>1. Good(packet[p])
      BY <1>1, <1>2 DEF PacketOK
  <2> HIDE DEF k, n
  <2>2. BuiltFor(Fill(addRef(Clear(mAlloc(packet[p])), 1), message, k), k,
                 Length(message))
      BY <1>3, <2>1, BuildObject
  <2> QED
      BY <1>0, <2>2 DEF k, n, BuiltFor
<1>5. /\ MadeGrows /\ made' \in Seq(Nat) /\ Len(made') <= MaxMessages
      /\ Len(made') = k /\ made'[k] = n
    BY <1>0, <1>1, <1>4, MadeMore, NewMade
<1> HIDE DEF k, n, m
<1>6. TypeOK'
  <2>1. PacketOK'
      BY <1>0, <1>1, <1>2, <1>4, PacketStep DEF BuiltFor
  <2>2. QueueOK'
      BY <1>0, <1>1, <1>2, <1>5 DEF QueueOK
  <2>3. LocalOK'
      BY <1>0, <1>1, <1>2, <1>3 DEF LocalOK, Set, m, k
  <2> QED
      BY <2>1, <2>2, <2>3, TypePartsNext
<1>7. Locals'
  <2>1. Local(g)'
      BY <1>1, <1>2, <1>3 DEF Local
  <2> QED
      BY <1>1, <1>2, <2>1, LocalsNext
<1>8. SendTurns' /\ RecvTurns'
  <2>1. \A r \in Sessions : ~ SendsFor(g, r)'
      BY <1>2 DEF SendsFor
  <2>2. SendTurns'
      BY <1>1, <1>2, <2>1, SendTurnsKept
  <2>3. RecvTurns'
      BY <1>1, <1>2, RecvTurnsKept
  <2> QED
      BY <2>2, <2>3
<1>9. \A q \in Packets :
          /\ References(q, "all")' = References(q, "all") + One(q = p)
          /\ References(q, "unread")' <= References(q, "unread") + One(q = p)
  <2> TAKE q \in Packets
  <2>1. ThreadBalanced(q, g)
      BY <1>2, <1>6, <1>7, ThreadBalance
  <2>2. Mined(q, g)' = One(q = p) /\ One(q = p) \in {0, 1}
      BY <1>2, <1>3 DEF Mined, One
  <2>3. /\ ThreadTally(q, g, "all") = Count(q, left[g])
        /\ ThreadTally(q, g, "unread") = 0 /\ Count(q, left[g]) \in Nat
    <3>1. TallyAt(q, g)
        BY <2>1 DEF ThreadBalanced
    <3>2. CASE pc[g] = "idle"
      <4>1. left[g] = << >>
          BY <1>1, <3>2 DEF Local
      <4> QED
          BY <3>1, <3>2, <4>1, CountEmpty DEF TallyAt
    <3>3. CASE pc[g] = "handled"
        BY <3>1, <3>3 DEF TallyAt
    <3> QED
        BY <1>2, <3>2, <3>3
  <2>4. TallyAt(q, g)'
      BY <2>1 DEF ThreadBalanced
  <2>5. /\ ThreadTally(q, g, "all")' = Mined(q, g)' + Count(q, left[g])
        /\ ThreadTally(q, g, "unread")' = 0
      BY <1>2, <2>4 DEF TallyAt
  <2> QED
      BY <2>1, <2>2, <2>3, <2>5 DEF ThreadBalanced
<1>10. packet'[p] = o
    BY <1>0, <1>1, <1>2 DEF PacketOK, Set
<1>11. OutThread(g)' /\ InThread(g)'
  <2>1. Sendable(o, k, made')
    <3>1. k \in 1 .. Len(made')
        BY <1>3, <1>5
    <3>2. begin = 0 /\ dfNETWORK_HEADER_SIZE = 1
        BY Bounds
    <3> QED
        BY <1>4, <1>5, <3>1, <3>2 DEF Sendable, BuiltFor
  <2>2. Outgoing(mine[g])'
    <3>1. mine'[g].packet = p /\ mine'[g].number = k
        BY <1>2, <1>3
    <3> QED
        BY <1>10, <2>1, <3>1 DEF Outgoing
  <2> QED
      BY <1>2, <2>2 DEF OutThread, InThread
<1>12. p \in pool /\ pool' = pool \ {p} /\ packet' = Set(packet, p, o)
       /\ o.refCount = 1 /\ pc[g] # "free" /\ pc'[g] # "free"
    BY <1>0, <1>2, <1>4 DEF BuiltFor
<1> QED
    BY <1>2, <1>5, <1>6, <1>7, <1>8, <1>9, <1>11, <1>12, FreshNext

LEMMA RecvMessageStep ==
    ASSUME FlowInv, NEW w \in Threads, w \in Workers, NEW s \in Sessions,
           RecvMessage(w, s)
    PROVE  FlowInv'
<1>1. /\ TypeOK /\ PacketOK /\ QueueOK /\ LocalOK /\ Local(w)
      /\ Locals /\ SendTurns /\ RecvTurns /\ RefInv /\ OutInv /\ InInv
    BY InvParts DEF Locals
<1>0. PICK p, n, o :
          /\ p \in pool /\ n \in Payloads
          /\ o = Received(packet[p], n, Number)
          /\ receiver[s] = Nobody /\ Goto(w, "idle", "recv")
          /\ receiver' = Set(receiver, s, w)
          /\ pool' = pool \ {p}
          /\ NewMessage(n)
          /\ packet' = Set(packet, p, o)
          /\ mine' = Set(mine, w, Entry(p, Number))
          /\ UNCHANGED <<isValid, sendFlag, sendQueue, sentPacketArray,
                         overlapped, JobQueue, targets, at, left>>
    BY DEF RecvMessage, sendVars
<1> DEFINE k == Number
           m == Entry(p, k)
<1>2. /\ pc[w] = "idle" /\ pc'[w] = "recv" /\ mine[w] = Nobody
      /\ mine'[w] = m /\ left'[w] = << >> /\ left[w] = << >> /\ p \in Packets
      /\ at[w] = Nobody /\ at'[w] = Nobody
      /\ UNCHANGED <<isValid, sendFlag, sendQueue, sentPacketArray,
                     overlapped, JobQueue, targets, at, left>>
      /\ Elsewhere(w) /\ QueuesKept
  <2> HIDE DEF m
  <2> QED
      BY <1>0, <1>1 DEF Goto, Set, LocalOK, QueueOK, Local, Elsewhere,
         QueuesKept, SameQueues, m
<1>3. k \in 1 .. MaxMessages /\ m \in Entries /\ m.packet = p /\ m.number = k
      /\ m # Nobody
    BY <1>0, <1>1, <1>2, NewEntry, EntryType
<1>4. ReceivedAs(o, k, n) /\ n \in Nat
  <2>1. p \in pool /\ n \in Payloads
      BY <1>0
  <2>2. Good(packet[p]) /\ n \in Nat
      BY <1>1, <1>2, <2>1, PayloadType DEF PacketOK
  <2> HIDE DEF k
  <2>3. ReceivedAs(Received(packet[p], n, k), k, n)
      BY <1>3, <2>2, <2>1, ReceiveObject
  <2> QED
      BY <1>0, <2>2, <2>3 DEF k
<1>5. /\ MadeGrows /\ made' \in Seq(Nat) /\ Len(made') <= MaxMessages
      /\ Len(made') = k /\ made'[k] = n
    BY <1>0, <1>1, <1>4, MadeMore, NewMade
<1> HIDE DEF k, m
<1>6. TypeOK'
  <2>1. PacketOK'
      BY <1>0, <1>1, <1>2, <1>4, PacketStep DEF ReceivedAs
  <2>2. receiver' \in [Sessions -> Workers \cup {Nobody}]
      BY <1>0, <1>1 DEF QueueOK, Set
  <2>3. QueueOK'
      BY <1>0, <1>1, <1>2, <1>5, <2>2 DEF QueueOK
  <2>4. LocalOK'
      BY <1>0, <1>1, <1>2, <1>3 DEF LocalOK, Goto, Set, m, k
  <2> QED
      BY <2>1, <2>3, <2>4, TypePartsNext
<1>7. Locals'
  <2>1. Local(w)'
      BY <1>1, <1>2, <1>3 DEF Local
  <2> QED
      BY <1>1, <1>2, <2>1, LocalsNext
<1>8. SendTurns' /\ RecvTurns'
  <2>1. \A r \in Sessions : ~ SendsFor(w, r)'
      BY <1>2 DEF SendsFor
  <2>2. SendTurns'
      BY <1>1, <1>2, <2>1, SendTurnsKept
  <2>3. \A r \in Sessions : receiver'[r] = IF r = s THEN w ELSE receiver[r]
      BY <1>0, <1>1 DEF QueueOK, Set
  <2>4. w # Nobody /\ \A r \in Sessions : receiver[r] # w
      BY <1>1, <1>2, FlowAssumption DEF RecvTurns
  <2>5. \A r \in Sessions : receiver'[r] # Nobody =>
            pc'[receiver'[r]] \in {"recv", "push", "drop", "free"}
    <3> TAKE r \in Sessions
    <3>1. CASE r = s
        BY <1>2, <2>3, <3>1
    <3>2. CASE r # s
      <4>1. receiver'[r] = receiver[r] /\ receiver[r] # w
          BY <2>3, <2>4, <3>2
      <4>2. receiver[r] # Nobody => receiver[r] \in Threads
          BY <1>1 DEF QueueOK, Threads
      <4> QED
          BY <1>1, <1>2, <4>1, <4>2 DEF RecvTurns, Elsewhere
    <3> QED
        BY <3>1, <3>2
  <2>6. \A r, x \in Sessions :
            receiver'[r] # Nobody /\ receiver'[r] = receiver'[x] => r = x
      BY <1>1, <2>3, <2>4 DEF RecvTurns
  <2>7. \A t \in Threads : pc'[t] \in {"recv", "push"} =>
            \E r \in Sessions : receiver'[r] = t
    <3> TAKE t \in Threads
    <3>1. CASE t = w
        BY <2>3, <3>1
    <3>2. CASE t # w
      <4>1. pc'[t] = pc[t]
          BY <1>2, <3>2 DEF Elsewhere
      <4>2. ASSUME NEW r \in Sessions, receiver[r] = t PROVE receiver'[r] = t
          BY <1>0, <2>3, <4>2, FlowAssumption
      <4> QED
          BY <1>1, <4>1, <4>2 DEF RecvTurns
    <3> QED
        BY <3>1, <3>2
  <2> QED
      BY <2>2, <2>5, <2>6, <2>7 DEF RecvTurns
<1>9. \A q \in Packets :
          /\ References(q, "all")' = References(q, "all") + One(q = p)
          /\ References(q, "unread")' <= References(q, "unread") + One(q = p)
  <2> TAKE q \in Packets
  <2>1. ThreadBalanced(q, w)
      BY <1>2, <1>6, <1>7, ThreadBalance
  <2>2. Mined(q, w)' = One(q = p) /\ One(q = p) \in {0, 1}
      BY <1>2, <1>3 DEF Mined, One
  <2>3. ThreadTally(q, w, "all") = 0 /\ ThreadTally(q, w, "unread") = 0
      BY <1>2, <2>1 DEF ThreadBalanced, TallyAt
  <2>4. TallyAt(q, w)'
      BY <2>1 DEF ThreadBalanced
  <2>5. /\ ThreadTally(q, w, "all")' = Mined(q, w)'
        /\ ThreadTally(q, w, "unread")' = Mined(q, w)'
      BY <1>2, <2>4 DEF TallyAt
  <2> QED
      BY <2>1, <2>2, <2>3, <2>5 DEF ThreadBalanced
<1>10. packet'[p] = o
    BY <1>0, <1>1, <1>2 DEF PacketOK, Set
<1>11. OutThread(w)' /\ InThread(w)'
  <2>1. Readable(o, k, made')
    <3>1. k \in 1 .. Len(made')
        BY <1>3, <1>5
    <3>2. dfNETWORK_HEADER_SIZE = 1 /\ begin = 0 /\ end \in Nat
        BY Bounds
    <3> QED
        BY <1>4, <1>5, <3>1, <3>2 DEF Readable, ReceivedAs
  <2>2. Incoming(mine[w])'
    <3>1. mine'[w].packet = p /\ mine'[w].number = k
        BY <1>2, <1>3
    <3> QED
        BY <1>10, <2>1, <3>1 DEF Incoming
  <2> QED
      BY <1>2, <2>2 DEF OutThread, InThread
<1>12. p \in pool /\ pool' = pool \ {p} /\ packet' = Set(packet, p, o)
       /\ o.refCount = 1 /\ pc[w] # "free" /\ pc'[w] # "free"
    BY <1>0, <1>2, <1>4 DEF ReceivedAs
<1> QED
    BY <1>2, <1>5, <1>6, <1>7, <1>8, <1>9, <1>11, <1>12, FreshNext

LEMMA DatagramStep ==
    ASSUME FlowInv, NEW u \in Threads, Datagram(u)
    PROVE  FlowInv'
<1>1. /\ TypeOK /\ PacketOK /\ QueueOK /\ LocalOK /\ Local(u)
      /\ Locals /\ SendTurns /\ RecvTurns /\ RefInv /\ OutInv /\ InInv
    BY InvParts DEF Locals
<1>0. PICK p, n, new, o :
          /\ p \in pool /\ n \in Payloads /\ n <= GetLeftUsableSize(new)
          /\ new = addRef(ClearNetwork(mAlloc(packet[p])), 1)
          /\ o = Get([new EXCEPT !.bytes =
                        Written(@, GetWriteBufferPtr(new), n, Garbage)], 1)
          /\ Goto(u, "idle", "drop")
          /\ pool' = pool \ {p}
          /\ packet' = Set(packet, p, o)
          /\ left' = Set(left, u, <<Entry(p, 0)>>)
          /\ UNCHANGED <<isValid, receiver, sendFlag, sendQueue,
                         sentPacketArray, overlapped, JobQueue, made, mine,
                         targets, at>>
    BY DEF Datagram, sessionVars, sendVars
<1> DEFINE m == Entry(p, 0)
<1>3. p \in Packets /\ m \in Entries /\ m.packet = p
  <2>1. p \in Packets /\ 0 \in 0 .. MaxMessages
      BY <1>0, <1>1, FlowAssumption DEF QueueOK
  <2> QED
      BY <2>1 DEF Entry, Entries
<1>4. Good(o) /\ o.refCount = 1
  <2>1. Good(packet[p])
      BY <1>1, <1>3 DEF PacketOK
  <2> QED
      BY <1>0, <2>1, DatagramObject
<1> HIDE DEF m
<1>2. /\ pc[u] = "idle" /\ pc'[u] = "drop" /\ mine[u] = Nobody
      /\ mine'[u] = Nobody /\ left'[u] = <<m>> /\ left[u] = << >>
      /\ at[u] = Nobody /\ at'[u] = Nobody
      /\ UNCHANGED <<isValid, receiver, sendFlag, sendQueue,
                     sentPacketArray, overlapped, JobQueue, made, mine,
                     targets, at>>
      /\ Elsewhere(u) /\ QueuesKept
  <2>1. left' = Set(left, u, <<m>>)
      BY <1>0 DEF m
  <2> QED
      BY <1>0, <1>1, <2>1 DEF Goto, Set, LocalOK, QueueOK, Local, Elsewhere,
         QueuesKept, SameQueues
<1>5. MadeGrows
    BY <1>1, <1>2, MadeSame
<1>6. TypeOK'
  <2>1. PacketOK'
      BY <1>0, <1>1, <1>3, <1>4, PacketStep
  <2>2. QueueOK'
      BY <1>0, <1>1, <1>2 DEF QueueOK
  <2>3. LocalOK'
    <3>1. <<m>> \in Seq(Entries) /\ left' = Set(left, u, <<m>>)
        BY <1>0, <1>3 DEF m
    <3> QED
        BY <1>0, <1>1, <1>2, <3>1 DEF LocalOK, Goto, Set
  <2> QED
      BY <2>1, <2>2, <2>3, TypePartsNext
<1>7. Locals'
  <2>1. Local(u)'
      BY <1>1, <1>2 DEF Local
  <2> QED
      BY <1>1, <1>2, <2>1, LocalsNext
<1>8. SendTurns' /\ RecvTurns'
  <2>1. \A r \in Sessions : ~ SendsFor(u, r)'
      BY <1>2, FlowAssumption DEF SendsFor
  <2>2. SendTurns'
      BY <1>1, <1>2, <2>1, SendTurnsKept
  <2>3. RecvTurns'
      BY <1>1, <1>2, RecvTurnsKept
  <2> QED
      BY <2>2, <2>3
<1>9. \A q \in Packets :
          /\ References(q, "all")' = References(q, "all") + One(q = p)
          /\ References(q, "unread")' <= References(q, "unread") + One(q = p)
  <2> TAKE q \in Packets
  <2>1. ThreadBalanced(q, u)
      BY <1>2, <1>6, <1>7, ThreadBalance
  <2>2. Count(q, left'[u]) = One(q = p) /\ One(q = p) \in {0, 1}
      BY <1>2, <1>3, CountOne DEF One
  <2>3. ThreadTally(q, u, "all") = 0 /\ ThreadTally(q, u, "unread") = 0
      BY <1>2, <2>1 DEF ThreadBalanced, TallyAt
  <2>4. TallyAt(q, u)'
      BY <2>1 DEF ThreadBalanced
  <2>5. /\ ThreadTally(q, u, "all")' = Count(q, left'[u])
        /\ ThreadTally(q, u, "unread")' = 0
      BY <1>2, <2>4 DEF TallyAt
  <2> QED
      BY <2>1, <2>2, <2>3, <2>5 DEF ThreadBalanced
<1>11. OutThread(u)' /\ InThread(u)'
    BY <1>2, OutNothing
<1>12. p \in pool /\ pool' = pool \ {p} /\ packet' = Set(packet, p, o)
       /\ o.refCount = 1 /\ pc[u] # "free" /\ pc'[u] # "free"
    BY <1>0, <1>2, <1>4
<1> QED
    BY <1>2, <1>3, <1>5, <1>6, <1>7, <1>8, <1>9, <1>11, <1>12, FreshNext

-----------------------------------------------------------------------------
(* The theorems. *)

LEMMA CountedFinite ==
    TypeOK => \A p, which : IsFiniteSet(Counted(p, which))
<1> SUFFICES ASSUME TypeOK, NEW p, NEW which
             PROVE  IsFiniteSet(Counted(p, which))
    OBVIOUS
<1> DEFINE A == UNION {ThreadHolds(p, t, which) : t \in Threads}
           B == UNION {SessionHolds(p, s, which) : s \in Sessions}
<1>1. IsFiniteSet(A) /\ IsFiniteSet(B)
    BY ThreadsFinite, SessionsFinite
<1>2. Counted(p, which) = A \cup B
    BY CountedIs
<1> HIDE DEF A, B
<1> QED
    BY <1>1, <1>2, FS_Union

LEMMA AllHolders == \A p : References(p, "all") = Cardinality(Holders(p))
                           /\ Counted(p, "all") = Holders(p)
<1> TAKE p
<1>1. Counted(p, "all") = Holders(p)
    BY DEF Counted
<1> QED
    BY <1>1 DEF References

LEMMA InitInv == Init => FlowInv
<1> SUFFICES ASSUME Init PROVE FlowInv
    OBVIOUS
<1>1. TypeOK
  <2>1. PacketOK
    <3>1. Good(Constructed) /\ Constructed \in Objects
        BY ConstructedGood, GoodFields
    <3> QED
        BY <3>1 DEF Init, PacketOK
  <2>2. QueueOK
    <3>1. << >> \in Seq(Entries) /\ << >> \in Seq(Buffers) /\ << >> \in Seq(Nat)
          /\ Len(<< >>) = 0 /\ MaxMessages \in Nat
        BY FlowAssumption
    <3> DEFINE none == << >>
    <3>2. /\ none \in Seq(Entries) /\ none \in Seq(Buffers)
          /\ none \in Seq(Nat) /\ Len(none) = 0
        BY <3>1
    <3>3. /\ pool = Packets /\ isValid = [s \in Sessions |-> TRUE]
          /\ receiver = [s \in Sessions |-> Nobody]
          /\ sendFlag = [s \in Sessions |-> 0]
          /\ sendQueue = [s \in Sessions |-> none]
          /\ sentPacketArray = [s \in Sessions |-> none]
          /\ overlapped = [s \in Sessions |-> "none"]
          /\ JobQueue = [s \in Sessions |-> none]
          /\ made = none
        BY DEF Init
    <3> HIDE DEF none
    <3> QED
        BY <3>1, <3>2, <3>3 DEF QueueOK
  <2>3. LocalOK
    <3> DEFINE none == << >>
    <3>1. none \in Seq(Entries) /\ none \in Seq(Sessions)
        OBVIOUS
    <3>2. /\ pc = [t \in Threads |-> "idle"]
          /\ mine = [t \in Threads |-> Nobody]
          /\ targets = [t \in Threads |-> none]
          /\ at = [t \in Threads |-> Nobody]
          /\ left = [t \in Threads |-> none]
        BY DEF Init
    <3> HIDE DEF none
    <3> QED
        BY <3>1, <3>2 DEF LocalOK
  <2> QED
      BY <2>1, <2>2, <2>3, TypeParts
<1>2. Locals
    BY DEF Init, Locals, Local
<1>3. SendTurns /\ RecvTurns
    BY FlowAssumption DEF Init, SendTurns, SendTurn, SendsFor, RecvTurns
<1>4. \A p : Holders(p) = {} /\ Freeing(p) = {}
  <2> TAKE p
  <2>1. Freeing(p) = {}
      BY DEF Init, Freeing, Mine
  <2>2. \A place, x : In(p, place, x, << >>) = {}
      BY DEF In
  <2>3. \A t \in Threads : ~ Owns(p, t) /\ ~ Takes(p, t) /\ left[t] = << >>
      BY DEF Init, Owns, Takes
  <2>4. \A s \in Sessions : /\ sendQueue[s] = << >> /\ JobQueue[s] = << >>
                            /\ Sent(s) = << >>
    <3> TAKE s \in Sessions
    <3>1. sentPacketArray[s] = << >>
        BY DEF Init
    <3>2. Sent(s) = << >>
        BY <3>1, EmptyCounts
    <3> QED
        BY <3>2 DEF Init
  <2>5. \A h : h \notin Holders(p)
      BY <2>2, <2>3, <2>4, HolderIs
  <2> QED
      BY <2>1, <2>5
<1>5. \A p, which : References(p, which) = 0
  <2> TAKE p, which
  <2>1. Counted(p, which) = {}
      BY <1>4 DEF Counted
  <2> QED
      BY <2>1, FS_EmptySet DEF References
<1>6. RefInv
    BY <1>4, <1>5 DEF Init, RefInv, RefOK
<1>7. OutInv /\ InInv
  <2>1. \A t \in Threads : OutThread(t) /\ InThread(t)
      BY DEF Init, OutThread, InThread
  <2>2. \A s \in Sessions : OutSession(s) /\ InSession(s)
      BY DEF Init, OutSession, InSession
  <2> QED
      BY <1>5, <2>1, <2>2 DEF OutInv, InInv
<1> QED
    BY <1>1, <1>2, <1>3, <1>6, <1>7 DEF FlowInv

LEMMA NextInv == FlowInv /\ [Next]_vars => FlowInv'
<1> SUFFICES ASSUME FlowInv, [Next]_vars PROVE FlowInv'
    OBVIOUS
<1>0. /\ Contents \subseteq Threads /\ Workers \subseteq Threads
      /\ UdpThreads \subseteq Threads /\ Acceptors \subseteq Threads
    BY DEF Threads
<1>1. ASSUME NEW t \in Threads, Dropping(t) PROVE FlowInv'
    BY <1>1, SubRefStep, MFreeStep, DropDoneStep DEF Dropping
<1>2. ASSUME NEW g \in Threads, Content(g) PROVE FlowInv'
  <2>1. CASE \E s \in Sessions : PopJob(g, s)
      BY <2>1, PopJobStep
  <2> QED
      BY <1>2, <2>1, BuildStep, SendSkipStep, SendRefStep, SendEncodeStep,
         SendEnqueueStep, SendDoneStep, ReadJobStep, JobDoneStep DEF Content
<1>3. ASSUME NEW w \in Workers, Worker(w) PROVE FlowInv'
  <2>1. w \in Threads
      BY <1>0
  <2>2. ASSUME NEW s \in Sessions,
               \/ sendPost(w, s) \/ SendCompleted(w, s) \/ SendAborted(w, s)
               \/ RecvMessage(w, s) \/ releaseSession(w, s)
        PROVE  FlowInv'
      BY <2>1, <2>2, sendPostStep, SendCompletedStep, SendAbortedStep,
         RecvMessageStep, releaseSessionStep
  <2> QED
      BY <1>3, <2>1, <2>2, WSASendStep, WSASendFailsStep, OnRecvStep,
         PushJobStep DEF Worker
<1>4. ASSUME NEW u \in Threads, Datagram(u) PROVE FlowInv'
    BY <1>4, DatagramStep
<1>5. ASSUME NEW s \in Sessions, Kernel(s) PROVE FlowInv'
    BY <1>5, KernelStep DEF Kernel
<1>6. ASSUME NEW s \in Sessions, NEW a \in Threads, Accept(a, s) PROVE FlowInv'
    BY <1>6, AcceptStep
<1>7. CASE UNCHANGED vars
  <2>1. /\ overlapped' = overlapped
        /\ UNCHANGED <<packet, pool, isValid, receiver, sendFlag, sendQueue,
                       sentPacketArray, JobQueue, made, pc, mine, targets, at,
                       left>>
      BY <1>7 DEF vars, sessionVars, sendVars
  <2> QED
      BY <2>1, KernelStep
<1>8. CASE Next
  <2>1. \/ \E t \in Threads : Dropping(t)
        \/ \E g \in Threads : Content(g)
        \/ \E w \in Workers : Worker(w)
        \/ \E u \in Threads : Datagram(u)
        \/ \E s \in Sessions : Kernel(s)
        \/ \E s \in Sessions, a \in Threads : Accept(a, s)
      BY <1>0, <1>8 DEF Next
  <2> QED
      BY <2>1, <1>1, <1>2, <1>3, <1>4, <1>5, <1>6
<1> QED
    BY <1>7, <1>8

\* The inductive invariant holds in every state.
THEOREM FlowInvariant == Spec => []FlowInv
BY InitInv, NextInv, PTL DEF Spec

\* The types, and the positions of a packet within its buffer (CPacket).
THEOREM FlowTypes == Spec => []TypeOK
<1>1. FlowInv => TypeOK
    BY DEF FlowInv
<1> QED
    BY <1>1, FlowInvariant, PTL

\* refCount of a packet that is out of PacketPool is the number of places
\* that own a reference to it, whoever builds, sends, releases and reads
\* (CPacket::addRef, subRef and their callers), and exactly one thread frees
\* a packet that nobody holds.
THEOREM ReferencesExact == Spec => []RefsExact
<1>1. FlowInv => RefsExact
  <2> SUFFICES ASSUME FlowInv, NEW p \in Packets
               PROVE  IF p \in pool THEN Holders(p) = {} /\ Freeing(p) = {}
                      ELSE /\ packet[p].refCount = Cardinality(Holders(p))
                           /\ Cardinality(Freeing(p)) =
                                 (IF Holders(p) = {} THEN 1 ELSE 0)
      BY DEF RefsExact
  <2>1. RefOK(p) /\ TypeOK
      BY DEF FlowInv, RefInv
  <2>2. References(p, "all") = Cardinality(Holders(p))
        /\ IsFiniteSet(Holders(p))
      BY <2>1, CountedFinite, AllHolders
  <2>3. References(p, "all") = 0 <=> Holders(p) = {}
      BY <2>2, FS_EmptySet
  <2>4. CASE p \in pool
      BY <2>1, <2>3, <2>4 DEF RefOK
  <2>5. CASE p \notin pool
    <3>1. packet[p].refCount = Cardinality(Holders(p))
        BY <2>1, <2>2, <2>5 DEF RefOK
    <3>2. /\ Holders(p) = {} <=> Freeing(p) # {}
          /\ \A t, u \in Freeing(p) : t = u
        BY <2>1, <2>3, <2>5 DEF RefOK
    <3>3. CASE Holders(p) = {}
      <4>1. PICK t : t \in Freeing(p)
          BY <3>2, <3>3
      <4>2. Freeing(p) = {t}
          BY <3>2, <4>1
      <4>3. Cardinality(Freeing(p)) = 1
          BY <4>2, FS_Singleton
      <4> QED
          BY <2>5, <3>1, <3>3, <4>3
    <3>4. CASE Holders(p) # {}
      <4>1. Freeing(p) = {}
          BY <3>2, <3>4
      <4>2. Cardinality(Freeing(p)) = 0
          BY <4>1, FS_EmptySet
      <4> QED
          BY <2>5, <3>1, <3>4, <4>2
    <3> QED
        BY <3>3, <3>4
  <2> QED
      BY <2>4, <2>5
<1> QED
    BY <1>1, FlowInvariant, PTL

\* What WSASend has of a session is, buffer by buffer, the header and the
\* payload of the message that was queued (sendPost, CPacket::Encode): no
\* thread writes to a packet that is on the wire.
THEOREM BuffersWhole == Spec => []WholeOnWire
<1>1. FlowInv => WholeOnWire
  <2> SUFFICES ASSUME FlowInv, NEW s \in Sessions,
                      NEW i \in DOMAIN sentPacketArray[s]
               PROVE  LET b == sentPacketArray[s][i]
                          p == b.entry.packet
                          number == b.entry.number
                          payload == b.len - dfNETWORK_HEADER_SIZE
                      IN
                      /\ b.buf = begin
                      /\ packet[p].bytes[begin] = Header(payload)
                      /\ Holds(p, begin + dfNETWORK_HEADER_SIZE, payload,
                               number)
                      /\ made[number] < BufferSize - dfNETWORK_HEADER_SIZE
                            => payload = made[number]
      BY DEF WholeOnWire
  <2> DEFINE e == sentPacketArray[s][i].entry
             o == packet[e.packet]
             k == e.number
  <2>1. sentPacketArray[s] \in Seq(Buffers) /\ OutSession(s) /\ PacketOK
        /\ QueueOK
      BY InvParts DEF QueueOK, OutInv
  <2>2. i \in 1 .. Len(sentPacketArray[s])
      BY <2>1
  <2>3. Encoded(e) /\ sentPacketArray[s][i] = Buffer(e)
      BY <2>1, <2>2 DEF OutSession
  <2>4. e \in Entries
    <3> DEFINE q == sentPacketArray[s]
    <3>1. q \in Seq(Buffers) /\ i \in 1 .. Len(q)
        BY <2>1, <2>2
    <3> HIDE DEF q
    <3>2. q[i] \in Buffers
        BY <3>1
    <3>3. q[i].entry \in Entries
        BY <3>2 DEF Buffers
    <3> QED
        BY <3>3 DEF q
  <2>5. Good(o)
      BY <2>1, <2>4, EntryType DEF PacketOK
  <2>6. Sendable(o, k, made) /\ o.encodeFlag
      BY <2>3 DEF Encoded, Outgoing
  <2>7. /\ sentPacketArray[s][i].buf = o.readPos
        /\ sentPacketArray[s][i].len = o.writePos - o.readPos
      BY <2>3 DEF Buffer, GetReadBufferPtr, GetDataSize
  <2>8. /\ k \in 1 .. Len(made) /\ made[k] \in Nat
        /\ o.writePos \in Nat /\ o.writePos <= end
    <3>1. made \in Seq(Nat)
        BY <2>1 DEF QueueOK
    <3>2. k \in 1 .. Len(made)
        BY <2>6 DEF Sendable
    <3> HIDE DEF o, k
    <3> QED
        BY <2>5, <3>1, <3>2, GoodFields
  <2> HIDE DEF o, k
  <2>9. /\ begin = 0 /\ dfNETWORK_HEADER_SIZE = 1 /\ Position = 0 .. end
        /\ BufferSize \in Nat /\ end \in Nat
      BY Bounds
  <2>10. /\ sentPacketArray[s][i].buf = begin
         /\ sentPacketArray[s][i].len - dfNETWORK_HEADER_SIZE = o.writePos - 1
         /\ o.bytes[begin] = Header(o.writePos - 1)
         /\ made[k] < BufferSize - 1 => o.writePos - 1 = made[k]
      BY <2>6, <2>7, <2>8, <2>9 DEF Sendable
  <2>11. \A j \in 1 .. 1 + (o.writePos - 1) - 1 : o.bytes[j] = Byte(k)
    <3> TAKE j \in 1 .. 1 + (o.writePos - 1) - 1
    <3>1. j \in Position /\ 1 <= j /\ j < o.writePos
        BY <2>8, <2>9
    <3> QED
        BY <2>6, <2>9, <3>1 DEF Sendable
  <2>12. /\ packet[sentPacketArray[s][i].entry.packet] = o
         /\ sentPacketArray[s][i].entry.number = k
      BY DEF o, k
  <2>13. Holds(e.packet, 1, o.writePos - 1, k)
      BY <2>11, <2>12 DEF Holds
  <2>14. begin + dfNETWORK_HEADER_SIZE = 1
      BY <2>9
  <2> QED
      BY <2>9, <2>10, <2>12, <2>13, <2>14
<1> QED
    BY <1>1, FlowInvariant, PTL

\* A packet in a job queue, and the one a content thread has popped and not
\* yet read, has the payload it was received with and no more; or nothing at
\* all, when the message was accepted but did not fit in it
\* (CNetServer::recvPost and OnRecv, CThreadManager).
THEOREM JobsWhole == Spec => []ReadsOwnMessage
<1>1. FlowInv => ReadsOwnMessage
  <2> SUFFICES ASSUME FlowInv PROVE ReadsOwnMessage
      OBVIOUS
  <2>1. /\ InInv /\ Locals /\ PacketOK /\ QueueOK /\ LocalOK
      BY InvParts
  <2>2. ASSUME NEW e \in Entries, Incoming(e)
        PROVE  IF made[e.number] + dfNETWORK_HEADER_SIZE <= end - begin
               THEN /\ GetDataSize(packet[e.packet]) = made[e.number]
                    /\ Holds(e.packet, packet[e.packet].readPos,
                             made[e.number], e.number)
               ELSE GetDataSize(packet[e.packet]) = 0
    <3> DEFINE o == packet[e.packet]
               k == e.number
    <3>1. Good(o) /\ Readable(o, k, made)
        BY <2>1, <2>2, EntryType DEF PacketOK, Incoming
    <3>2. made[k] \in Nat
      <4>1. made \in Seq(Nat) /\ k \in 1 .. Len(made)
          BY <2>1, <3>1 DEF QueueOK, Readable
      <4> HIDE DEF k
      <4> QED
          BY <4>1
    <3>6. CASE ~(made[k] + dfNETWORK_HEADER_SIZE <= end - begin)
      <4>1. GetDataSize(o) = 0
        <5> HIDE DEF o, k
        <5> QED
            BY <3>1, <3>6, Bounds DEF Readable, GetDataSize
      <4> QED
          BY <3>6, <4>1
    <3>7. SUFFICES ASSUME made[k] + dfNETWORK_HEADER_SIZE <= end - begin
                   PROVE  /\ GetDataSize(o) = made[k]
                          /\ Holds(e.packet, o.readPos, made[k], k)
        BY <3>6
    <3>3. /\ o.readPos = 1 /\ o.writePos \in Nat /\ o.writePos <= end
          /\ Position = 0 .. end /\ end \in Nat
      <4> HIDE DEF o, k
      <4> QED
          BY <3>1, <3>7, GoodFields, Bounds DEF Readable
    <3>4. GetDataSize(o) = made[k]
      <4> HIDE DEF o, k
      <4> QED
          BY <3>1, <3>2, <3>3, <3>7 DEF Readable, GetDataSize
    <3>5. \A j \in o.readPos .. o.readPos + made[k] - 1 : o.bytes[j] = Byte(k)
      <4> HIDE DEF o, k
      <4> TAKE j \in o.readPos .. o.readPos + made[k] - 1
      <4>1. o.writePos = o.readPos + made[k]
          BY <3>1, <3>7 DEF Readable
      <4>2. j \in Position /\ o.readPos <= j /\ j < o.writePos
          BY <3>2, <3>3, <4>1
      <4> QED
          BY <3>1, <3>7, <4>2 DEF Readable
    <3> QED
        BY <3>4, <3>5 DEF Holds
  <2>3. ASSUME NEW s \in Sessions, NEW i \in DOMAIN JobQueue[s]
        PROVE  JobQueue[s][i] \in Entries /\ Incoming(JobQueue[s][i])
    <3>1. JobQueue[s] \in Seq(Entries) /\ i \in 1 .. Len(JobQueue[s])
        BY <2>1 DEF QueueOK
    <3> QED
        BY <2>1, <3>1 DEF InInv, InSession
  <2>4. ASSUME NEW g \in Contents, pc[g] = "job"
        PROVE  left[g][1] \in Entries /\ Incoming(left[g][1])
    <3>1. g \in Threads
        BY DEF Threads
    <3>2. left[g] \in Seq(Entries) /\ Len(left[g]) = 1
        BY <2>1, <2>4, <3>1 DEF Locals, Local, LocalOK
    <3> QED
        BY <2>1, <2>4, <3>1, <3>2 DEF InInv, InThread
  <2> QED
      BY <2>2, <2>3, <2>4 DEF ReadsOwnMessage
<1> QED
    BY <1>1, FlowInvariant, PTL
=============================================================================
