------------------------------ MODULE PacketFlow ------------------------------
(***************************************************************************)
(* The life of packets in the server: content threads build them and send  *)
(* them to one session or to a set, senders hand them to WSASend and drop  *)
(* them when it is done, releases drop what is left; workers make packets  *)
(* of what the peers send, content threads read them; the UDP thread uses  *)
(* one for each datagram.  Whoever drops the last reference frees the      *)
(* packet (CNetServer.cpp, CThreadManager.cpp, GameServer.cpp).            *)
(*                                                                         *)
(* Of the session engine this module takes what NetServer shows: sendFlag  *)
(* lets one sender in, and one worker at a time receives for a session.    *)
(* It also takes it that nobody is inside a session when it is released.   *)
(* The code does not guarantee that: the run released_in_use shows a       *)
(* reference taken while the session is being claimed, which is left out   *)
(* here.                                                                   *)
(***************************************************************************)
EXTENDS Packet, FiniteSets, SequencesExt

CONSTANTS
    Packets,      \* bound: objects of PacketPool
    Sessions,
    Contents,     \* login and game threads
    Workers,
    UdpThreads,
    Acceptors,    \* AcceptThread
    Nobody,
    Messages,     \* what content threads build: the sizes of the values put
    Payloads,     \* payload lengths the peers send, those that are not refused
    dfMAX_PACKET, \* packets of one WSASend
    MaxMessages   \* bound: messages built and received

Threads == Contents \cup Workers \cup UdpThreads \cup Acceptors

ASSUME FlowAssumption ==
    /\ IsFiniteSet(Sessions) /\ IsFiniteSet(Threads)
    /\ Nobody \notin Packets \cup Sessions \cup Threads
    /\ Nobody \notin [packet : Packets, number : Nat]
    /\ \A m \in Messages : m \in Seq(Nat \ {0}) /\ m # << >>
                           /\ m[1] < BufferSize - dfNETWORK_HEADER_SIZE
    /\ Payloads \subseteq 0 .. BufferSize
    /\ dfMAX_PACKET \in Nat \ {0} /\ MaxMessages \in Nat

VARIABLES
    packet,        \* the objects
    pool,          \* those in PacketPool
    isValid,       \* sessions that are not released
    receiver,      \* the worker that has the session's receive
    sendFlag, sendQueue, sentPacketArray,
    overlapped,    \* the WSASend of the session, as the kernel has it
    JobQueue,
    made,          \* the length of the payload of each message
    pc,
    mine,          \* the packet the thread has made, until it drops it
    targets,       \* sessions it is still to be sent to
    at,            \* the session the thread sends to
    left           \* packets the thread has still to subRef

sendVars == <<sendFlag, sendQueue, sentPacketArray, overlapped>>
sessionVars == <<isValid, receiver, sendVars, JobQueue>>
vars == <<packet, pool, sessionVars, made, pc, mine, targets, at, left>>

Goto(t, from, to) == pc[t] = from /\ pc' = [pc EXCEPT ![t] = to]
Set(f, x, v) == [f EXCEPT ![x] = v]

Init ==
    /\ packet = [p \in Packets |-> Constructed]
    /\ pool = Packets
    /\ isValid = [s \in Sessions |-> TRUE]
    /\ receiver = [s \in Sessions |-> Nobody]
    /\ sendFlag = [s \in Sessions |-> 0]
    /\ sendQueue = [s \in Sessions |-> << >>]
    /\ sentPacketArray = [s \in Sessions |-> << >>]
    /\ overlapped = [s \in Sessions |-> "none"]
    /\ JobQueue = [s \in Sessions |-> << >>]
    /\ made = << >>
    /\ pc = [t \in Threads |-> "idle"]
    /\ mine = [t \in Threads |-> Nobody]
    /\ targets = [t \in Threads |-> << >>]
    /\ at = [t \in Threads |-> Nobody]
    /\ left = [t \in Threads |-> << >>]

\* A packet on its way, with the message it was given that way for.
Entry(p, number) == [packet |-> p, number |-> number]

\* A message of n bytes of payload gets the next number.
NewMessage(n) == /\ Len(made) < MaxMessages
                 /\ made' = Append(made, n)
Number == Len(made) + 1

-----------------------------------------------------------------------------
(* Dropping references: subRef, and mFree by whoever gets 0. *)

SubRef(t) ==
    LET e == Head(left[t])
        last == packet[e.packet].refCount = 1
    IN
    /\ left[t] # << >>
    /\ Goto(t, "drop", IF last THEN "free" ELSE "drop")
    /\ packet' = Set(packet, e.packet, subRef(packet[e.packet]))
    /\ left' = Set(left, t, Tail(left[t]))
    /\ mine' = Set(mine, t, IF last THEN e ELSE Nobody)
    /\ UNCHANGED <<pool, sessionVars, made, targets, at>>

MFree(t) ==
    /\ Goto(t, "free", "drop")
    /\ pool' = pool \cup {mine[t].packet}
    /\ mine' = Set(mine, t, Nobody)
    /\ UNCHANGED <<packet, sessionVars, made, targets, at, left>>

\* Where the thread goes on: a sender gives sendFlag back, a receiver leaves
\* the session.
DropDone(t) ==
    /\ left[t] = << >>
    /\ Goto(t, "drop", "idle")
    /\ sendFlag' = IF at[t] = Nobody THEN sendFlag ELSE Set(sendFlag, at[t], 0)
    /\ at' = Set(at, t, Nobody)
    /\ receiver' = [s \in Sessions |->
                      IF receiver[s] = t THEN Nobody ELSE receiver[s]]
    /\ UNCHANGED <<packet, pool, isValid, sendQueue, sentPacketArray,
                   overlapped, JobQueue, made, mine, targets, left>>

-----------------------------------------------------------------------------
(* Content threads: CS_GAME_RES_... and sendPacket. *)

\* The values of a message, put with << or with PutData.
Fill(p, message, number) ==
    LET filled[i \in 0 .. Len(message)] ==
            IF i = 0 THEN p
            ELSE PutData(filled[i - 1], message[i], Byte(number))
    IN  filled[Len(message)]

Length(message) ==
    LET sum[i \in 0 .. Len(message)] ==
            IF i = 0 THEN 0 ELSE sum[i - 1] + message[i]
    IN  sum[Len(message)]

\* A thread sends from its own loop, or answers a job, whose packet it holds
\* until it has answered.
Build(g) ==
    \E p \in pool, message \in Messages,
       to \in SetToAllKPermutations(Sessions) \ {<< >>} :
        /\ pc[g] \in {"idle", "handled"}
        /\ pc' = [pc EXCEPT ![g] = "send"]
        /\ pool' = pool \ {p}
        /\ NewMessage(Length(message))
        /\ packet' = Set(packet, p,
                Fill(addRef(Clear(mAlloc(packet[p])), 1), message, Number))
        /\ mine' = Set(mine, g, Entry(p, Number))
        /\ targets' = Set(targets, g, to)
        /\ UNCHANGED <<sessionVars, at, left>>

\* findSession fails, or the session is to be disconnected.
SendSkip(g) ==
    /\ pc[g] = "send" /\ targets[g] # << >>
    /\ targets' = Set(targets, g, Tail(targets[g]))
    /\ UNCHANGED <<packet, pool, sessionVars, made, pc, mine, at, left>>

SendRef(g) ==
    LET p == mine[g].packet
        s == Head(targets[g])
    IN
    /\ targets[g] # << >> /\ isValid[s]
    /\ Goto(g, "send", "encode")
    /\ packet' = Set(packet, p, addRef(packet[p], 1))
    /\ at' = Set(at, g, s)
    /\ UNCHANGED <<pool, sessionVars, made, mine, targets, left>>

SendEncode(g) ==
    LET p == mine[g].packet IN
    /\ Goto(g, "encode", "enqueue")
    /\ packet' = IF packet[p].encodeFlag THEN packet
                 ELSE Set(packet, p, Encode(packet[p]))
    /\ UNCHANGED <<pool, sessionVars, made, mine, targets, at, left>>

SendEnqueue(g) ==
    LET s == at[g] IN
    /\ Goto(g, "enqueue", "send")
    /\ sendQueue' = Set(sendQueue, s, Append(sendQueue[s], mine[g]))
    /\ targets' = Set(targets, g, Tail(targets[g]))
    /\ at' = Set(at, g, Nobody)
    /\ UNCHANGED <<packet, pool, isValid, receiver, sendFlag,
                   sentPacketArray, overlapped, JobQueue, made, mine, left>>

SendDone(g) ==
    /\ targets[g] = << >>
    /\ Goto(g, "send", "drop")
    /\ left' = Set(left, g, <<mine[g]>> \o left[g])
    /\ mine' = Set(mine, g, Nobody)
    /\ UNCHANGED <<packet, pool, sessionVars, made, targets, at>>

-----------------------------------------------------------------------------
(* Content threads: the jobs of a session. *)

\* PopJobItem
PopJob(g, s) ==
    /\ JobQueue[s] # << >>
    /\ Goto(g, "idle", "job")
    /\ left' = Set(left, g, <<Head(JobQueue[s])>>)
    /\ JobQueue' = Set(JobQueue, s, Tail(JobQueue[s]))
    /\ UNCHANGED <<packet, pool, isValid, receiver, sendVars, made, mine,
                   targets, at>>

\* OnRecv: the values are read from the packet.  Each is n bytes long.
ReadJob(g) ==
    LET p == Head(left[g]).packet IN
    \E n \in Payloads :
        /\ Goto(g, "job", "handled")
        /\ packet' = Set(packet, p, GetData(packet[p], n))
        /\ UNCHANGED <<pool, sessionVars, made, mine, targets, at, left>>

\* The player is leaving, or the message has no answer.
JobDone(g) ==
    /\ pc[g] \in {"job", "handled"}
    /\ pc' = [pc EXCEPT ![g] = "drop"]
    /\ UNCHANGED <<packet, pool, sessionVars, made, mine, targets, at, left>>

-----------------------------------------------------------------------------
(* Workers: sendPost, and the completion of a send. *)

\* WSABUF: what the kernel is to send is fixed now, its bytes are not.
Buffer(e) == [entry |-> e, buf |-> GetReadBufferPtr(packet[e.packet]),
              len |-> GetDataSize(packet[e.packet])]

sendPost(w, s) ==
    LET q == sendQueue[s]
        n == Min({dfMAX_PACKET, Len(q)})
    IN
    /\ isValid[s] /\ sendFlag[s] = 0 /\ n > 0
    /\ Goto(w, "idle", "post")
    /\ at' = Set(at, w, s)
    /\ sendFlag' = Set(sendFlag, s, 1)
    /\ sendQueue' = Set(sendQueue, s, SubSeq(q, n + 1, Len(q)))
    /\ sentPacketArray' = Set(sentPacketArray, s,
                              [i \in 1 .. n |-> Buffer(q[i])])
    /\ UNCHANGED <<packet, pool, isValid, receiver, overlapped, JobQueue,
                   made, mine, targets, left>>

\* WSASend takes the buffers.
WSASend(w) ==
    /\ Goto(w, "post", "idle")
    /\ overlapped' = Set(overlapped, at[w], "sending")
    /\ at' = Set(at, w, Nobody)
    /\ UNCHANGED <<packet, pool, isValid, receiver, sendFlag, sendQueue,
                   sentPacketArray, JobQueue, made, mine, targets, left>>

Sent(s) == [i \in DOMAIN sentPacketArray[s] |-> sentPacketArray[s][i].entry]

\* WSASend fails: what was taken is dropped.
WSASendFails(w) ==
    /\ Goto(w, "post", "drop")
    /\ left' = Set(left, w, Sent(at[w]))
    /\ sentPacketArray' = Set(sentPacketArray, at[w], << >>)
    /\ UNCHANGED <<packet, pool, isValid, receiver, sendFlag, sendQueue,
                   overlapped, JobQueue, made, mine, targets, at>>

\* The kernel: the bytes have been sent, or the connection is gone.
Kernel(s) ==
    /\ overlapped[s] = "sending"
    /\ \E how \in {"sent", "failed"} : overlapped' = Set(overlapped, s, how)
    /\ UNCHANGED <<packet, pool, isValid, receiver, sendFlag, sendQueue,
                   sentPacketArray, JobQueue, made, pc, mine, targets, at,
                   left>>

\* A slip: sendPacketCount is not reset.
SentKept(w, s) ==
    /\ overlapped[s] = "sent"
    /\ Goto(w, "idle", "drop")
    /\ left' = Set(left, w, Sent(s))
    /\ overlapped' = Set(overlapped, s, "none")
    /\ at' = Set(at, w, s)
    /\ UNCHANGED <<packet, pool, isValid, receiver, sendFlag, sendQueue,
                   sentPacketArray, JobQueue, made, mine, targets>>

SendCompleted(w, s) ==
    /\ overlapped[s] = "sent"
    /\ Goto(w, "idle", "drop")
    /\ left' = Set(left, w, Sent(s))
    /\ sentPacketArray' = Set(sentPacketArray, s, << >>)
    /\ overlapped' = Set(overlapped, s, "none")
    /\ at' = Set(at, w, s)
    /\ UNCHANGED <<packet, pool, isValid, receiver, sendFlag, sendQueue,
                   JobQueue, made, mine, targets>>

\* A failed completion is only counted out: the release drops the packets.
SendAborted(w, s) ==
    /\ overlapped[s] = "failed" /\ pc[w] = "idle"
    /\ overlapped' = Set(overlapped, s, "none")
    /\ UNCHANGED <<packet, pool, isValid, receiver, sendFlag, sendQueue,
                   sentPacketArray, JobQueue, made, pc, mine, targets, at,
                   left>>

-----------------------------------------------------------------------------
(* Workers: the receive completion. *)

\* The packet is made of the bytes of one message.  The length is checked
\* against the whole buffer, so header and payload may be more than the packet
\* lets in: then no position moves and the packet is empty.  (Bytes past the
\* end of the allocation meet nothing of this module; RecvFraming has the
\* process that does not survive them.)
Received(p, n, number) ==
    LET new == addRef(ClearNetwork(mAlloc(p)), 1)
        from == GetWriteBufferPtr(new)
        filled == [new EXCEPT !.bytes =
            Written(Written(@, from, dfNETWORK_HEADER_SIZE, Header(n)),
                    from + dfNETWORK_HEADER_SIZE, n, Byte(number))]
    IN MoveReadPos(MoveWritePos(filled, n + dfNETWORK_HEADER_SIZE),
                   dfNETWORK_HEADER_SIZE)

RecvMessage(w, s) ==
    \E p \in pool, n \in Payloads :
        /\ isValid[s] /\ receiver[s] = Nobody
        /\ Goto(w, "idle", "recv")
        /\ receiver' = Set(receiver, s, w)
        /\ pool' = pool \ {p}
        /\ NewMessage(n)
        /\ packet' = Set(packet, p, Received(packet[p], n, Number))
        /\ mine' = Set(mine, w, Entry(p, Number))
        /\ UNCHANGED <<isValid, sendVars, JobQueue, targets, at, left>>

\* A slip: the job lives on the reference of the worker.
OnRecvUncounted(w) ==
    /\ Goto(w, "recv", "push")
    /\ UNCHANGED <<packet, pool, sessionVars, made, mine, targets, at, left>>

OnRecv(w) ==
    LET p == mine[w].packet IN
    /\ Goto(w, "recv", "push")
    /\ packet' = Set(packet, p, addRef(packet[p], 1))
    /\ UNCHANGED <<pool, sessionVars, made, mine, targets, at, left>>

PushJob(w) ==
    /\ Goto(w, "push", "drop")
    /\ JobQueue' = [s \in Sessions |->
                      IF receiver[s] = w THEN Append(JobQueue[s], mine[w])
                      ELSE JobQueue[s]]
    /\ left' = Set(left, w, <<mine[w]>>)
    /\ mine' = Set(mine, w, Nobody)
    /\ UNCHANGED <<packet, pool, isValid, receiver, sendVars, made, targets,
                   at>>

-----------------------------------------------------------------------------
(* The end of a session and the next one in its slot. *)

releaseSession(w, s) ==
    /\ isValid[s]
    /\ receiver[s] = Nobody /\ overlapped[s] = "none"
    /\ \A t \in Threads : at[t] # s
    /\ Goto(w, "idle", "drop")
    /\ isValid' = Set(isValid, s, FALSE)
    /\ left' = Set(left, w, sendQueue[s] \o Sent(s))
    /\ sendQueue' = Set(sendQueue, s, << >>)
    /\ sentPacketArray' = Set(sentPacketArray, s, << >>)
    /\ UNCHANGED <<packet, pool, receiver, sendFlag, overlapped, JobQueue,
                   made, mine, targets, at>>

\* AcceptThread: the slot is free again when the content threads have
\* handled its jobs.  A packet still in the queue is dropped.
Accept(a, s) ==
    /\ ~isValid[s] /\ JobQueue[s] = << >>
    /\ Goto(a, "idle", IF sendQueue[s] = << >> THEN "idle" ELSE "drop")
    /\ isValid' = Set(isValid, s, TRUE)
    /\ sendFlag' = Set(sendFlag, s, 0)
    /\ left' = Set(left, a, sendQueue[s])
    /\ sendQueue' = Set(sendQueue, s, << >>)
    /\ UNCHANGED <<packet, pool, receiver, sentPacketArray, overlapped,
                   JobQueue, made, mine, targets, at>>

-----------------------------------------------------------------------------
(* UDPThread: the write position is not moved, so nothing can be read. *)

Datagram(u) ==
    \E p \in pool, n \in Payloads \ {0} :
        LET new == addRef(ClearNetwork(mAlloc(packet[p])), 1) IN
        /\ n <= GetLeftUsableSize(new)
        /\ Goto(u, "idle", "drop")
        /\ pool' = pool \ {p}
        /\ packet' = Set(packet, p,
               Get([new EXCEPT !.bytes = Written(@, GetWriteBufferPtr(new),
                                                 n, Garbage)], 1))
        /\ left' = Set(left, u, <<Entry(p, 0)>>)
        /\ UNCHANGED <<sessionVars, made, mine, targets, at>>

-----------------------------------------------------------------------------
Dropping(t) == SubRef(t) \/ MFree(t) \/ DropDone(t)

Content(g) ==
    \/ Build(g) \/ SendSkip(g) \/ SendRef(g) \/ SendEncode(g)
    \/ SendEnqueue(g) \/ SendDone(g)
    \/ \E s \in Sessions : PopJob(g, s)
    \/ ReadJob(g) \/ JobDone(g)

Worker(w) ==
    \/ \E s \in Sessions :
          \/ sendPost(w, s) \/ SendCompleted(w, s) \/ SendAborted(w, s)
          \/ RecvMessage(w, s) \/ releaseSession(w, s)
    \/ WSASend(w) \/ WSASendFails(w) \/ OnRecv(w) \/ PushJob(w)

Next ==
    \/ \E t \in Threads : Dropping(t)
    \/ \E g \in Contents : Content(g)
    \/ \E w \in Workers : Worker(w)
    \/ \E u \in UdpThreads : Datagram(u)
    \/ \E s \in Sessions : Kernel(s) \/ \E a \in Acceptors : Accept(a, s)

Spec == Init /\ [][Next]_vars

-----------------------------------------------------------------------------
Cells == {Garbage}
    \cup {Header(n) : n \in 0 .. BufferSize}
    \cup {Byte(k) : k \in 1 .. MaxMessages}
Objects == [refCount : Nat, encodeFlag : BOOLEAN, DataSize : 0 .. end,
            readPos : Position, writePos : Position,
            bytes : [Position -> Cells]]
Entries == [packet : Packets, number : 0 .. MaxMessages]
Buffers == [entry : Entries, buf : Position, len : 0 .. end]

\* The variables keep their types; the positions of a packet stay in its
\* buffer, and DataSize is what lies between them.
TypeOK ==
    /\ packet \in [Packets -> Objects]
    /\ \A p \in Packets :
          /\ packet[p].readPos <= packet[p].writePos
          /\ packet[p].DataSize = packet[p].writePos - packet[p].readPos
    /\ pool \subseteq Packets
    /\ isValid \in [Sessions -> BOOLEAN]
    /\ receiver \in [Sessions -> Workers \cup {Nobody}]
    /\ sendFlag \in [Sessions -> 0 .. 1]
    /\ sendQueue \in [Sessions -> Seq(Entries)]
    /\ sentPacketArray \in [Sessions -> Seq(Buffers)]
    /\ overlapped \in [Sessions -> {"none", "sending", "sent", "failed"}]
    /\ JobQueue \in [Sessions -> Seq(Entries)]
    /\ made \in Seq(Nat) /\ Len(made) <= MaxMessages
    /\ pc \in [Threads -> {"idle", "send", "encode", "enqueue", "job",
                           "handled", "post", "recv", "push", "drop", "free"}]
    /\ mine \in [Threads -> Entries \cup {Nobody}]
    /\ targets \in [Threads -> Seq(Sessions)]
    /\ at \in [Threads -> Sessions \cup {Nobody}]
    /\ left \in [Threads -> Seq(Entries)]

In(p, place, x, entries) ==
    {<<place, x, i>> : i \in {j \in DOMAIN entries : entries[j].packet = p}}

Mine(p) == {t \in Threads : mine[t] # Nobody /\ mine[t].packet = p}
Freeing(p) == {t \in Mine(p) : pc[t] = "free"}

\* The places that own a reference: the thread that made the packet, the
\* place it is just about to be put in, the queues, and what a thread has
\* still to drop.
Holders(p) ==
    {<<"own", t, 0>> : t \in Mine(p) \ Freeing(p)}
    \cup {<<"next", t, 0>> :
            t \in {u \in Mine(p) : pc[u] \in {"encode", "enqueue", "push"}}}
    \cup (UNION {In(p, "queue", s, sendQueue[s]) : s \in Sessions})
    \cup (UNION {In(p, "sent", s, Sent(s)) : s \in Sessions})
    \cup (UNION {In(p, "job", s, JobQueue[s]) : s \in Sessions})
    \cup (UNION {In(p, "left", t, left[t]) : t \in Threads})

\* The reference count is the number of places that own one, in whatever
\* order builders, senders, releases and readers come and go: nobody holds a
\* packet that is in the pool, and one that nobody holds is being freed, by
\* one thread.
RefsExact ==
    \A p \in Packets :
        IF p \in pool THEN Holders(p) = {} /\ Freeing(p) = {}
        ELSE /\ packet[p].refCount = Cardinality(Holders(p))
             /\ Cardinality(Freeing(p)) =
                   (IF Holders(p) = {} THEN 1 ELSE 0)

Holds(p, from, n, number) ==
    \A i \in from .. from + n - 1 : packet[p].bytes[i] = Byte(number)

\* As long as WSASend has a buffer, the buffer is the header and the payload
\* of the message it was queued for, and the header says how long that is:
\* nobody writes to a packet on the wire, and a header of an earlier life is
\* never sent.
WholeOnWire ==
    \A s \in Sessions : overlapped[s] # "none" =>
        \A i \in DOMAIN sentPacketArray[s] :
            LET b == sentPacketArray[s][i]
                p == b.entry.packet
                number == b.entry.number
                payload == b.len - dfNETWORK_HEADER_SIZE
            IN
            /\ b.buf = begin
            /\ packet[p].bytes[begin] = Header(payload)
            /\ Holds(p, begin + dfNETWORK_HEADER_SIZE, payload, number)
            /\ made[number] < BufferSize - dfNETWORK_HEADER_SIZE
                  => payload = made[number]

\* A job's packet has the payload of the message it was received for, all of
\* it and nothing else, until a content thread reads it; when header and
\* payload do not fit in a packet it has nothing, and never a part, nor what
\* an earlier life of the packet left there.
ReadsOwnMessage ==
    LET Whole(e) ==
            IF made[e.number] + dfNETWORK_HEADER_SIZE <= end - begin
            THEN /\ GetDataSize(packet[e.packet]) = made[e.number]
                 /\ Holds(e.packet, packet[e.packet].readPos, made[e.number],
                          e.number)
            ELSE GetDataSize(packet[e.packet]) = 0
    IN
    /\ \A s \in Sessions : \A i \in DOMAIN JobQueue[s] : Whole(JobQueue[s][i])
    /\ \A g \in Contents : pc[g] = "job" => Whole(left[g][1])
=============================================================================
