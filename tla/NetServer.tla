------------------------------ MODULE NetServer ------------------------------
(***************************************************************************)
(* The session engine of POMainServer (CNetServer.cpp, CNetServer.h).      *)
(*                                                                         *)
(* A fixed table of session slots is shared by one accept thread, a pool   *)
(* of I/O completion port workers, the content threads that call the       *)
(* engine's API and the UDP thread.  No lock protects a slot: it is kept   *)
(* alive by the reference count IOcount, and reclaimed by the worker that  *)
(* wins a compare-and-swap on releaseFlag.  Every access another thread    *)
(* can disturb is a step of its own; two accesses share a step only where  *)
(* one of them commutes with everything the others can do in between (a    *)
(* completion posted later is a completion that waits longer in the port). *)
(*                                                                         *)
(* External to the repository, and modelled from how the code uses them:   *)
(* the completion port (a bag of completions per slot: a worker can stall  *)
(* right after it dequeued, so the order carries no promise), the sockets, *)
(* and the content that owns a player.                                     *)
(***************************************************************************)
EXTENDS Integers, Sequences, FiniteSets

CONSTANTS
    MaxSession,   \* slots of the table (20000 in main.cpp)
    Acceptor,     \* the accept thread
    Workers,      \* the completion port workers (3 in main.cpp)
    Users,        \* the content threads: login thread, game thread
    UdpThreads,   \* threads running UDPThread (Start() creates none)
    Calls,        \* the API calls the content threads make
    Faults,       \* what the environment may do beyond ordinary traffic
    MaxPacket,    \* packets one WSASend takes (dfMAX_PACKET, 950)
    MaxAlloc,     \* bound: connections accepted in a behaviour
    MaxQueue,     \* bound: packets waiting in a sendQueue
    MaxPost,      \* bound: SENDPOST, and RELEASE, requests waiting for a slot
    MaxJobs,      \* bound: jobs waiting in a JobQueue
    MaxLeak       \* bound: references getUDPAddress loses per slot

\* The calls a content thread may make, and the environment's extras: a
\* connection that arrives when no index is free; a first WSARecv that fails
\* at once; a PostQueuedCompletionStatus that fails in sendPacket.
AllCalls == {"sendPacket", "sendLast", "disconnect", "getUDP"}
AllFaults == {"tableFull", "firstRecvFails", "postFails"}

Thread == {Acceptor} \cup Workers \cup Users \cup UdpThreads
Slot == 0 .. MaxSession - 1

ASSUME ConstAssumption ==
    /\ MaxSession \in Nat \ {0} /\ MaxPacket \in Nat \ {0}
    /\ MaxAlloc \in Nat /\ MaxQueue \in Nat /\ MaxPost \in Nat
    /\ MaxJobs \in Nat /\ MaxLeak \in Nat
    /\ Calls \subseteq AllCalls
    /\ Faults \subseteq AllFaults

ASSUME ThreadAssumption ==
    /\ IsFiniteSet(Workers) /\ IsFiniteSet(Users) /\ IsFiniteSet(UdpThreads)
    /\ Acceptor \notin Workers \cup Users \cup UdpThreads
    /\ Workers \cap Users = {}
    /\ Workers \cap UdpThreads = {}
    /\ Users \cap UdpThreads = {}

-----------------------------------------------------------------------------
(* A session ID packs the allocation number and the slot index; the code   *)
(* gets the index back by truncating the ID to a short.                    *)

SessionID == (0 .. MaxAlloc) \X Slot
ZeroID == <<0, 0>>
IndexOf(id) == id[2]

DELFLAG_OFF == 0
DELFLAG_ON == -1

Step == {"NORMAL", "SENDPACKET_LAST", "SENDPOST_LAST", "DISCONNECT"}

\* What a worker can get from the completion port, and which of it carries
\* a reference of the session.
Completion == {"recvOk", "recvErr", "sendOk", "sendErr",
               "SENDPOST", "RELEASE", "LEAVE"}

VARIABLES
    (* st_Session, per slot *)
    sessionID, isValid, releaseFlag, IOcount, disconnectStep,
    sock,            \* the connection behind the socket handle
    udpKnown,        \* UDPPort # -1
    sendFlag, sendQueue,
    sentPacketArray, \* its first sendPacketCount entries
    JobQueue,
    (* CNetServer *)
    emptyIndexStack, \* how many copies of each index are on the stack
    sessionAllocNum,
    (* Windows *)
    recvIO, sendIO,  \* overlapped operations pending in the kernel, per slot
    hcp,             \* completions waiting in the port, per slot and kind
    (* content *)
    players,         \* sessions a content thread owns a player for
    (* threads *)
    pc, slot, sid, tempCount, op,
    (* history *)
    issued,          \* session IDs that went through OnClientJoin
    leaked,          \* references to a slot nobody will ever drop
    raced            \* a session was claimed while somebody was using it

idVars == <<sessionID, sessionAllocNum, emptyIndexStack>>
flagVars == <<isValid, releaseFlag>>
connVars == <<disconnectStep, sock, udpKnown>>
sendVars == <<sendFlag, sendQueue, sentPacketArray>>
ioVars == <<recvIO, sendIO, hcp>>
contentVars == <<JobQueue, players, issued>>
localVars == <<slot, sid, tempCount, op>>
historyVars == <<leaked, raced>>

otherVars == <<idVars, contentVars, historyVars>>
sharedVars == <<otherVars, flagVars, IOcount, connVars, sendVars, ioVars>>

vars == <<sharedVars, pc, localVars>>

-----------------------------------------------------------------------------
(* Helpers.  A thread that goes idle forgets its local variables.          *)

Begin(t, p, s, id, o) ==
    /\ pc' = [pc EXCEPT ![t] = p]
    /\ slot' = [slot EXCEPT ![t] = s]
    /\ sid' = [sid EXCEPT ![t] = id]
    /\ op' = [op EXCEPT ![t] = o]
    /\ tempCount' = [tempCount EXCEPT ![t] = 0]
Goto(t, p) ==
    IF p = "idle" THEN Begin(t, "idle", 0, ZeroID, "none")
    ELSE pc' = [pc EXCEPT ![t] = p] /\ UNCHANGED localVars

\* A step that only looks at the shared state to decide where to go on.
Look(t, from, to) == pc[t] = from /\ Goto(t, to) /\ UNCHANGED sharedVars

AddRef(s) == IOcount' = [IOcount EXCEPT ![s] = @ + 1]
DropRef(s) == IOcount' = [IOcount EXCEPT ![s] = @ - 1]
Post(s, c) == hcp' = [hcp EXCEPT ![s][c] = @ + 1]
Without(s, c) == [hcp EXCEPT ![s][c] = @ - 1]
Take(s, c) == hcp[s][c] > 0 /\ hcp' = Without(s, c)
SetStep(s, d) == disconnectStep' = [disconnectStep EXCEPT ![s] = d]

\* CancelIoEx: what is pending on an open handle completes with an error.
\* port is what the completion port holds otherwise.
CancelIo(s, kinds, port) ==
    LET pending(k, n) == IF k \in kinds /\ sock[s] # "closed" THEN n ELSE 0
        r == pending("recv", recvIO[s])
        q == pending("send", sendIO[s])
    IN  /\ recvIO' = [recvIO EXCEPT ![s] = @ - r]
        /\ sendIO' = [sendIO EXCEPT ![s] = @ - q]
        /\ hcp' = [port EXCEPT ![s]["recvErr"] = @ + r,
                               ![s]["sendErr"] = @ + q]
CancelAll(s) == CancelIo(s, {"recv", "send"}, hcp)

\* disconnectSession(pSession): the flag first, then the cancellation.
Disconnect(s, port) ==
    /\ disconnectStep' = [disconnectStep EXCEPT ![s] = "DISCONNECT"]
    /\ CancelIo(s, {"recv", "send"}, port)

\* Slips used for mutation testing, here and below the helpers: packets that
\* stay in the array; a LEAVE job that is never queued.
KeepSent(s) == UNCHANGED sentPacketArray
PushRecvOnly(s, type) ==
    IF type = "LEAVE" THEN UNCHANGED JobQueue
    ELSE JobQueue' = [JobQueue EXCEPT ![s] =
                          Append(@, [type |-> type, id |-> sessionID[s]])]

\* subRef on every packet of the array, and sendPacketCount = 0.
FreeSent(s) == sentPacketArray' = [sentPacketArray EXCEPT ![s] = << >>]

\* A packet is the session it is addressed to, and whether it is the last.
Packet == [id : SessionID, last : BOOLEAN]
Job == [type : {"RECV", "LEAVE"}, id : SessionID]
JobOf(type, id) == [type |-> type, id |-> id]
PushJob(s, type) ==
    JobQueue' = [JobQueue EXCEPT ![s] = Append(@, JobOf(type, sessionID[s]))]

Init ==
    /\ sessionID = [s \in Slot |-> ZeroID]
    /\ sessionAllocNum = 0
    /\ emptyIndexStack = [s \in Slot |-> 1]
    /\ isValid = [s \in Slot |-> FALSE]
    /\ releaseFlag = [s \in Slot |-> DELFLAG_OFF]
    /\ IOcount = [s \in Slot |-> 0]
    /\ disconnectStep = [s \in Slot |-> "NORMAL"]
    /\ sock = [s \in Slot |-> "closed"]
    /\ udpKnown = [s \in Slot |-> FALSE]
    /\ sendFlag = [s \in Slot |-> 0]
    /\ sendQueue = [s \in Slot |-> << >>]
    /\ sentPacketArray = [s \in Slot |-> << >>]
    /\ JobQueue = [s \in Slot |-> << >>]
    /\ recvIO = [s \in Slot |-> 0]
    /\ sendIO = [s \in Slot |-> 0]
    /\ hcp = [s \in Slot |-> [c \in Completion |-> 0]]
    /\ players = {} /\ issued = {}
    /\ pc = [t \in Thread |-> "idle"]
    /\ slot = [t \in Thread |-> 0]
    /\ sid = [t \in Thread |-> ZeroID]
    /\ tempCount = [t \in Thread |-> 0]
    /\ op = [t \in Thread |-> "none"]
    /\ leaked = [s \in Slot |-> 0]
    /\ raced = FALSE

-----------------------------------------------------------------------------
(* Slips a change of this code could introduce.  No action uses them: the  *)
(* mutation tests put each in the place of the operator it is a variant of.*)

\* releaseFlag is cleared before the session is valid.
AcceptRefAndFlag ==
    /\ pc[Acceptor] = "a.ref"
    /\ AddRef(slot[Acceptor])
    /\ releaseFlag' = [releaseFlag EXCEPT ![slot[Acceptor]] = DELFLAG_OFF]
    /\ Goto(Acceptor, "a.valid")
    /\ UNCHANGED <<otherVars, isValid, connVars, sendVars, ioVars>>

\* recvPost takes no reference for the receive.
RecvPostCheckNoRef(w) ==
    Look(w, "rp.check", IF disconnectStep[slot[w]] = "DISCONNECT"
                        THEN "w.deref" ELSE "rp.recv")

\* recvPost does not look for a disconnect again.
RecvPostNoCancel(w) == Look(w, "rp.cancel", "w.deref")

\* The second send of a worker does not stand for election.
SendPostUnelected(w) == Look(w, "sp.flag", "sp.look")

\* The exchange is an increment.
SendRequestedCounted(w, s) ==
    /\ pc[w] = "idle"
    /\ Take(s, "SENDPOST")
    /\ sendFlag' = [sendFlag EXCEPT ![s] = @ + 1]
    /\ Begin(w, IF sendFlag[s] = 0 THEN "sp.look" ELSE "w.deref",
             s, ZeroID, "none")
    /\ UNCHANGED <<otherVars, flagVars, IOcount, connVars, sendQueue,
                   sentPacketArray, recvIO, sendIO>>

\* A send that fails does not cut the session.
SendPostFailSilently(w) ==
    LET s == slot[w] IN
    /\ pc[w] = "sp.fail"
    /\ sendFlag' = [sendFlag EXCEPT ![s] = 0]
    /\ DropRef(s)
    /\ Goto(w, "sp.cancel")
    /\ UNCHANGED <<otherVars, flagVars, connVars, sendQueue, sentPacketArray,
                   ioVars>>

\* The last worker out does not release.
ReadNoID(w) == Look(w, "w.readid", "idle")

\* The outcome of the compare-and-swap is not looked at.
ReleaseNoCas(w) == Look(w, "r.cas", "r.id")

\* The slot is free before the content has seen the LEAVE job.
ReleaseLeaveAndPush(w) ==
    LET s == slot[w] IN
    /\ pc[w] = "r.leave"
    /\ sendQueue' = [sendQueue EXCEPT ![s] = << >>]
    /\ FreeSent(s)
    /\ PushJob(s, "LEAVE")
    /\ emptyIndexStack' = [emptyIndexStack EXCEPT ![s] = @ + 1]
    /\ Goto(w, "idle")
    /\ UNCHANGED <<sessionID, sessionAllocNum, flagVars, IOcount, connVars,
                   sendFlag, ioVars, players, issued, historyVars>>

\* findSession forgets its reference when the session is being released.
FindFlagNoDeref(u) ==
    Look(u, "f.flag", IF releaseFlag[slot[u]] = DELFLAG_ON THEN "idle"
                                                           ELSE "f.id")

-----------------------------------------------------------------------------
(* AcceptThread.  When no index is free the new socket is closed but the   *)
(* loop goes on with index 0, whose session is overwritten.                *)

Accept(i) ==
    /\ pc[Acceptor] = "idle"
    /\ sessionAllocNum < MaxAlloc
    /\ \/ /\ emptyIndexStack[i] > 0
          /\ emptyIndexStack' = [emptyIndexStack EXCEPT ![i] = @ - 1]
          /\ Begin(Acceptor, "a.ref", i, ZeroID, "open")
       \/ /\ "tableFull" \in Faults
          /\ i = 0
          /\ \A s \in Slot : emptyIndexStack[s] = 0
          /\ Begin(Acceptor, "a.ref", i, ZeroID, "closed")
          /\ UNCHANGED emptyIndexStack
    /\ sessionID' = [sessionID EXCEPT ![i] = <<sessionAllocNum, i>>]
    /\ sessionAllocNum' = sessionAllocNum + 1
    /\ UNCHANGED <<flagVars, IOcount, connVars, sendVars, ioVars, contentVars,
                   historyVars>>

AcceptRef ==
    /\ pc[Acceptor] = "a.ref"
    /\ AddRef(slot[Acceptor])
    /\ Goto(Acceptor, "a.valid")
    /\ UNCHANGED <<otherVars, flagVars, connVars, sendVars, ioVars>>

AcceptValid ==
    /\ pc[Acceptor] = "a.valid"
    /\ isValid' = [isValid EXCEPT ![slot[Acceptor]] = TRUE]
    /\ Goto(Acceptor, "a.flag")
    /\ UNCHANGED <<otherVars, releaseFlag, IOcount, connVars, sendVars,
                   ioVars>>

AcceptFlag ==
    /\ pc[Acceptor] = "a.flag"
    /\ releaseFlag' = [releaseFlag EXCEPT ![slot[Acceptor]] = DELFLAG_OFF]
    /\ Goto(Acceptor, "a.reset")
    /\ UNCHANGED <<otherVars, isValid, IOcount, connVars, sendVars, ioVars>>

\* The plain stores and the drained queue that start the session afresh.
AcceptReset ==
    LET s == slot[Acceptor] IN
    /\ pc[Acceptor] = "a.reset"
    /\ sock' = [sock EXCEPT
                   ![s] = IF op[Acceptor] = "open" THEN "open" ELSE "closed"]
    /\ sendFlag' = [sendFlag EXCEPT ![s] = 0]
    /\ SetStep(s, "NORMAL")
    /\ udpKnown' = [udpKnown EXCEPT ![s] = FALSE]
    /\ sendQueue' = [sendQueue EXCEPT ![s] = << >>]
    /\ Goto(Acceptor, "a.join")
    /\ UNCHANGED <<otherVars, flagVars, IOcount, sentPacketArray, ioVars>>

\* OnClientJoin: the ID goes to the login thread, which makes a player of it.
AcceptJoin ==
    /\ pc[Acceptor] = "a.join"
    /\ players' = players \cup {sessionID[slot[Acceptor]]}
    /\ issued' = issued \cup {sessionID[slot[Acceptor]]}
    /\ Goto(Acceptor, "a.recv")
    /\ UNCHANGED <<idVars, flagVars, IOcount, connVars, sendVars, ioVars,
                   JobQueue, historyVars>>

\* The first WSARecv.  When it fails the reference is dropped, unchecked.
AcceptRecv ==
    LET s == slot[Acceptor] IN
    /\ pc[Acceptor] = "a.recv"
    /\ \/ /\ sock[s] = "open"
          /\ recvIO' = [recvIO EXCEPT ![s] = @ + 1]
          /\ UNCHANGED IOcount
       \/ /\ sock[s] # "open"
          /\ DropRef(s)
          /\ UNCHANGED recvIO
    /\ Goto(Acceptor, "idle")
    /\ UNCHANGED <<otherVars, flagVars, connVars, sendVars, sendIO, hcp>>

AcceptStep == \/ AcceptRef \/ AcceptValid \/ AcceptFlag
              \/ AcceptReset \/ AcceptJoin \/ AcceptRecv

-----------------------------------------------------------------------------
(* The peer.  It sends data, takes what was sent, closes its side (a       *)
(* receive of 0 bytes), or resets the connection, which fails everything   *)
(* pending and every later operation.                                      *)

Complete(s) ==
    /\ \/ /\ recvIO[s] > 0
          /\ recvIO' = [recvIO EXCEPT ![s] = @ - 1]
          /\ Post(s, "recvOk") \/ Post(s, "recvErr")
          /\ UNCHANGED sendIO
       \/ /\ sendIO[s] > 0
          /\ sendIO' = [sendIO EXCEPT ![s] = @ - 1]
          /\ Post(s, "sendOk")
          /\ UNCHANGED recvIO
    /\ UNCHANGED <<otherVars, flagVars, IOcount, connVars, sendVars, pc,
                   localVars>>

PeerReset(s) ==
    /\ sock[s] = "open"
    /\ \/ "firstRecvFails" \in Faults
       \/ ~(slot[Acceptor] = s /\ pc[Acceptor] \in {"a.join", "a.recv"})
    /\ sock' = [sock EXCEPT ![s] = "reset"]
    /\ CancelAll(s)
    /\ UNCHANGED <<otherVars, flagVars, IOcount, disconnectStep, udpKnown,
                   sendVars, pc, localVars>>

-----------------------------------------------------------------------------
(* WorkerThread.  An idle worker takes a completion and makes the first    *)
(* step of its branch.  The error completions skip the handler.            *)

\* The messages of one receive: none complete, one for the content (bound:
\* one message per receive), or a malformed one, which disconnects.
RecvDone(w, s) ==
    /\ pc[w] = "idle"
    /\ hcp[s]["recvOk"] > 0
    /\ \/ /\ \/ UNCHANGED JobQueue
             \/ Len(JobQueue[s]) < MaxJobs /\ PushJob(s, "RECV")
          /\ Take(s, "recvOk")
          /\ UNCHANGED <<disconnectStep, recvIO, sendIO>>
       \/ Disconnect(s, Without(s, "recvOk")) /\ UNCHANGED JobQueue
    /\ Begin(w, "rp.check", s, ZeroID, "none")
    /\ UNCHANGED <<idVars, flagVars, IOcount, sock, udpKnown, sendVars,
                   players, issued, historyVars>>

\* The last send cuts the session; then its packets are freed.
SendDone(w, s) ==
    /\ pc[w] = "idle"
    /\ hcp[s]["sendOk"] > 0
    /\ IF disconnectStep[s] = "SENDPOST_LAST"
       THEN Disconnect(s, Without(s, "sendOk"))
       ELSE /\ Take(s, "sendOk")
            /\ UNCHANGED <<disconnectStep, recvIO, sendIO>>
    /\ FreeSent(s)
    /\ Begin(w, "w.unflag", s, ZeroID, "none")
    /\ UNCHANGED <<otherVars, flagVars, IOcount, sock, udpKnown, sendFlag,
                   sendQueue>>

IoFailed(w, s, c) ==
    /\ pc[w] = "idle"
    /\ c \in {"recvErr", "sendErr"}
    /\ Take(s, c)
    /\ DropRef(s)
    /\ IF IOcount[s] = 1
       THEN Begin(w, "w.readid", s, ZeroID, "none")
       ELSE UNCHANGED <<pc, localVars>>
    /\ UNCHANGED <<otherVars, flagVars, connVars, sendVars, recvIO, sendIO>>

\* dfSENDPOST_REQ, up to the exchange that elects the session's sender.
SendRequested(w, s) ==
    /\ pc[w] = "idle"
    /\ Take(s, "SENDPOST")
    /\ sendFlag' = [sendFlag EXCEPT ![s] = 1]
    /\ Begin(w, IF sendFlag[s] = 0 THEN "sp.look" ELSE "w.deref",
             s, ZeroID, "none")
    /\ UNCHANGED <<otherVars, flagVars, IOcount, connVars, sendQueue,
                   sentPacketArray, recvIO, sendIO>>

ReleaseRequested(w, s) ==
    /\ pc[w] = "idle"
    /\ Take(s, "RELEASE")
    /\ Begin(w, "r.valid", s, sessionID[s], "none")
    /\ UNCHANGED <<otherVars, flagVars, IOcount, connVars, sendVars, recvIO,
                   sendIO>>

\* dfONCLIENTLEAVE_SUCESS: only now does the index go back on the stack.
LeaveDone(w, s) ==
    /\ pc[w] = "idle"
    /\ Take(s, "LEAVE")
    /\ emptyIndexStack' =
           [emptyIndexStack EXCEPT ![IndexOf(sessionID[s])] = @ + 1]
    /\ UNCHANGED <<sessionID, sessionAllocNum, flagVars, IOcount, connVars,
                   sendVars, recvIO, sendIO, contentVars, pc, localVars,
                   historyVars>>

\* recvPost: the session is looked at before and after the WSARecv, so that
\* a disconnect in between finds the receive or is found by the poster.
RecvPostCheck(w) ==
    LET s == slot[w] IN
    /\ pc[w] = "rp.check"
    /\ IF disconnectStep[s] = "DISCONNECT"
       THEN Goto(w, "w.deref") /\ UNCHANGED IOcount
       ELSE Goto(w, "rp.recv") /\ AddRef(s)
    /\ UNCHANGED <<otherVars, flagVars, connVars, sendVars, ioVars>>

RecvPostRecv(w) ==
    LET s == slot[w] IN
    /\ pc[w] = "rp.recv"
    /\ \/ /\ sock[s] = "open"
          /\ recvIO' = [recvIO EXCEPT ![s] = @ + 1]
          /\ UNCHANGED IOcount
       \/ DropRef(s) /\ UNCHANGED recvIO
    /\ Goto(w, "rp.cancel")
    /\ UNCHANGED <<otherVars, flagVars, connVars, sendVars, sendIO, hcp>>

RecvPostCancel(w) ==
    LET s == slot[w] IN
    /\ pc[w] = "rp.cancel"
    /\ IF disconnectStep[s] = "DISCONNECT"
       THEN CancelIo(s, {"recv"}, hcp)
       ELSE UNCHANGED ioVars
    /\ Goto(w, "w.deref")
    /\ UNCHANGED <<otherVars, flagVars, IOcount, connVars, sendVars>>

RecvPost(w) == RecvPostCheck(w) \/ RecvPostRecv(w) \/ RecvPostCancel(w)

-----------------------------------------------------------------------------
(* sendPost: sendFlag elects the one sender of the session.                *)

\* The exchange, when a completed send found more to send.
SendPostFlag(w) ==
    LET s == slot[w] IN
    /\ pc[w] = "sp.flag"
    /\ sendFlag' = [sendFlag EXCEPT ![s] = 1]
    /\ Goto(w, IF sendFlag[s] = 0 THEN "sp.look" ELSE "w.deref")
    /\ UNCHANGED <<otherVars, flagVars, IOcount, connVars, sendQueue,
                   sentPacketArray, ioVars>>

\* The session is to be cut, or there is nothing to send: the sender's place
\* is given up, in a step of its own.
SendPostLook(w) ==
    LET s == slot[w] IN
    Look(w, "sp.look",
         IF disconnectStep[s] = "DISCONNECT" \/ sendQueue[s] = << >>
         THEN "sp.unflag" ELSE "sp.take")

SendPostUnflag(w) ==
    /\ pc[w] = "sp.unflag"
    /\ sendFlag' = [sendFlag EXCEPT ![slot[w]] = 0]
    /\ Goto(w, "w.deref")
    /\ UNCHANGED <<otherVars, flagVars, IOcount, connVars, sendQueue,
                   sentPacketArray, ioVars>>

\* The dequeue loop, and the reference the send will carry.
SendPostTake(w) ==
    LET s == slot[w]
        n == IF Len(sendQueue[s]) < MaxPacket THEN Len(sendQueue[s])
                                              ELSE MaxPacket
    IN
    /\ pc[w] = "sp.take"
    /\ sentPacketArray' =
           [sentPacketArray EXCEPT ![s] = SubSeq(sendQueue[s], 1, n)]
    /\ sendQueue' =
           [sendQueue EXCEPT ![s] = SubSeq(@, n + 1, Len(@))]
    /\ AddRef(s)
    /\ Goto(w, "sp.send")
    /\ UNCHANGED <<otherVars, flagVars, connVars, sendFlag, ioVars>>

\* The packet that was last when the queue was emptied is the last one sent.
\* When WSASend fails the packets are freed.
SendPostSend(w) ==
    LET s == slot[w] IN
    /\ pc[w] = "sp.send"
    /\ IF disconnectStep[s] = "SENDPACKET_LAST"
       THEN SetStep(s, "SENDPOST_LAST")
       ELSE UNCHANGED disconnectStep
    /\ \/ /\ sock[s] = "open"
          /\ sendIO' = [sendIO EXCEPT ![s] = @ + 1]
          /\ Goto(w, "sp.cancel")
          /\ UNCHANGED sentPacketArray
       \/ /\ FreeSent(s)
          /\ Goto(w, "sp.fail")
          /\ UNCHANGED sendIO
    /\ UNCHANGED <<otherVars, flagVars, IOcount, sock, udpKnown, sendFlag,
                   sendQueue, recvIO, hcp>>

\* ... and the session is cut, the flag and the reference given back.
SendPostFail(w) ==
    LET s == slot[w] IN
    /\ pc[w] = "sp.fail"
    /\ Disconnect(s, hcp)
    /\ sendFlag' = [sendFlag EXCEPT ![s] = 0]
    /\ DropRef(s)
    /\ Goto(w, "sp.cancel")
    /\ UNCHANGED <<otherVars, flagVars, sock, udpKnown, sendQueue,
                   sentPacketArray>>

SendPostCancel(w) ==
    LET s == slot[w] IN
    /\ pc[w] = "sp.cancel"
    /\ IF disconnectStep[s] = "DISCONNECT"
       THEN CancelIo(s, {"send"}, hcp)
       ELSE UNCHANGED ioVars
    /\ Goto(w, "w.deref")
    /\ UNCHANGED <<otherVars, flagVars, IOcount, connVars, sendVars>>

SendPost(w) == \/ SendPostFlag(w) \/ SendPostLook(w) \/ SendPostUnflag(w)
               \/ SendPostTake(w) \/ SendPostSend(w) \/ SendPostFail(w)
               \/ SendPostCancel(w)

-----------------------------------------------------------------------------
(* After a completed send the sender's place is given up before the queue  *)
(* is looked at again.                                                     *)

SentUnflag(w) ==
    /\ pc[w] = "w.unflag"
    /\ sendFlag' = [sendFlag EXCEPT ![slot[w]] = 0]
    /\ Goto(w, "w.more")
    /\ UNCHANGED <<otherVars, flagVars, IOcount, connVars, sendQueue,
                   sentPacketArray, ioVars>>

SentMore(w) ==
    Look(w, "w.more", IF sendQueue[slot[w]] = << >> THEN "w.deref"
                                                    ELSE "sp.flag")

\* The completion's reference is dropped; the last one out releases the
\* session, by the ID it reads from the slot.
WorkerDeref(w) ==
    LET s == slot[w] IN
    /\ pc[w] = "w.deref"
    /\ DropRef(s)
    /\ Goto(w, IF IOcount[s] = 1 THEN "w.readid" ELSE "idle")
    /\ UNCHANGED <<otherVars, flagVars, connVars, sendVars, ioVars>>

ReadID(w) ==
    /\ pc[w] = "w.readid"
    /\ Begin(w, "r.valid", slot[w], sessionID[slot[w]], "none")
    /\ UNCHANGED sharedVars

-----------------------------------------------------------------------------
(* releaseSession.  The count is read, then compared with releaseFlag: the *)
(* swap succeeds when the count was 0 and the flag is DELFLAG_OFF (0).     *)

ReleaseValid(w) ==
    Look(w, "r.valid", IF isValid[slot[w]] THEN "r.count" ELSE "idle")

ReleaseCount(w) ==
    /\ pc[w] = "r.count"
    /\ tempCount' = [tempCount EXCEPT ![w] = IOcount[slot[w]]]
    /\ pc' = [pc EXCEPT ![w] = "r.cas"]
    /\ UNCHANGED <<sharedVars, slot, sid, op>>

\* The threads that hold a reference to the slot but will give it back
\* without touching the session: they are before findSession's checks and
\* will fail them, or on their way out.
Passing(s) ==
    {t \in Thread : /\ slot[t] = s
                    /\ \/ pc[t] \in {"f.flag", "u.deref", "w.deref"}
                       \/ pc[t] = "f.id" /\ sid[t] # sessionID[s]}

ReleaseCas(w) ==
    LET s == slot[w] IN
    /\ pc[w] = "r.cas"
    /\ IF releaseFlag[s] = tempCount[w]
       THEN /\ releaseFlag' = [releaseFlag EXCEPT ![s] = DELFLAG_ON]
            /\ raced' = (raced \/ /\ sid[w] = sessionID[s]
                                  /\ IOcount[s] > Cardinality(Passing(s)))
            /\ Goto(w, "r.id")
       ELSE Goto(w, "idle") /\ UNCHANGED <<releaseFlag, raced>>
    /\ UNCHANGED <<idVars, isValid, IOcount, connVars, sendVars, ioVars,
                   contentVars, leaked>>

\* The swap may have hit a session the slot was given to meanwhile.
ReleaseID(w) ==
    LET s == slot[w] IN
    /\ pc[w] = "r.id"
    /\ IF sid[w] = sessionID[s]
       THEN Goto(w, "r.close") /\ UNCHANGED IOcount
       ELSE AddRef(s) /\ Begin(w, "r.off", s, sessionID[s], "none")
    /\ UNCHANGED <<otherVars, flagVars, connVars, sendVars, ioVars>>

ReleaseOff(w) ==
    /\ pc[w] = "r.off"
    /\ releaseFlag' = [releaseFlag EXCEPT ![slot[w]] = DELFLAG_OFF]
    /\ Goto(w, "r.undo")
    /\ UNCHANGED <<otherVars, isValid, IOcount, connVars, sendVars, ioVars>>

ReleaseUndo(w) ==
    LET s == slot[w] IN
    /\ pc[w] = "r.undo"
    /\ DropRef(s)
    /\ Goto(w, IF IOcount[s] = 1 THEN "r.valid" ELSE "idle")
    /\ UNCHANGED <<otherVars, flagVars, connVars, sendVars, ioVars>>

\* closesocket completes what is pending with an error.
ReleaseClose(w) ==
    LET s == slot[w] IN
    /\ pc[w] = "r.close"
    /\ isValid' = [isValid EXCEPT ![s] = FALSE]
    /\ CancelAll(s)
    /\ sock' = [sock EXCEPT ![s] = "closed"]
    /\ Goto(w, "r.leave")
    /\ UNCHANGED <<otherVars, releaseFlag, IOcount, disconnectStep, udpKnown,
                   sendVars>>

\* The packets are freed and OnClientLeave tells the content, through the
\* session's JobQueue.
ReleaseLeave(w) ==
    LET s == slot[w] IN
    /\ pc[w] = "r.leave"
    /\ sendQueue' = [sendQueue EXCEPT ![s] = << >>]
    /\ FreeSent(s)
    /\ PushJob(s, "LEAVE")
    /\ Goto(w, "idle")
    /\ UNCHANGED <<idVars, flagVars, IOcount, connVars, sendFlag, ioVars,
                   players, issued, historyVars>>

ReleaseSession(w) ==
    \/ ReleaseValid(w) \/ ReleaseCount(w) \/ ReleaseCas(w)
    \/ ReleaseID(w) \/ ReleaseOff(w) \/ ReleaseUndo(w)
    \/ ReleaseClose(w) \/ ReleaseLeave(w)

TakeCompletion(w, s) ==
    \/ RecvDone(w, s) \/ SendDone(w, s)
    \/ \E c \in Completion : IoFailed(w, s, c)
    \/ SendRequested(w, s) \/ ReleaseRequested(w, s) \/ LeaveDone(w, s)

\* Everything a worker does once it took a completion.
WorkerStep(w) ==
    \/ RecvPost(w) \/ SendPost(w) \/ SentUnflag(w) \/ SentMore(w)
    \/ WorkerDeref(w) \/ ReadID(w) \/ ReleaseSession(w)

-----------------------------------------------------------------------------
(* The API.  A call names a session by its ID; findSession turns it into a *)
(* reference to the slot, or fails.  A player belongs to one content       *)
(* thread at a time, so no two threads call for the same session.          *)

\* The first step of findSession: a slot that is not valid is refused.
\* (MaxPost: a call that fails may leave one more RELEASE request.)
FindValid(u, id, o) ==
    /\ hcp[IndexOf(id)]["RELEASE"] < MaxPost
    /\ IF isValid[IndexOf(id)]
       THEN Begin(u, "f.ref", IndexOf(id), id, o)
       ELSE UNCHANGED <<pc, localVars>>
    /\ UNCHANGED sharedVars

UserCall(u, id, o) ==
    /\ pc[u] = "idle"
    /\ o \in Calls
    /\ id \in players
    /\ \A v \in Users : pc[v] # "idle" => sid[v] # id
    /\ o \in {"sendPacket", "sendLast"} =>
           /\ Len(sendQueue[IndexOf(id)]) < MaxQueue
           /\ hcp[IndexOf(id)]["SENDPOST"] < MaxPost
    /\ o = "getUDP" => leaked[IndexOf(id)] < MaxLeak
    /\ FindValid(u, id, o)

\* UDPThread: a datagram names any session there ever was.
UdpReceive(u, id) ==
    /\ pc[u] = "idle"
    /\ id \in issued
    /\ FindValid(u, id, "udp")

FindRef(u) ==
    /\ pc[u] = "f.ref"
    /\ AddRef(slot[u])
    /\ Goto(u, "f.flag")
    /\ UNCHANGED <<otherVars, flagVars, connVars, sendVars, ioVars>>

FindFlag(u) ==
    Look(u, "f.flag", IF releaseFlag[slot[u]] = DELFLAG_ON THEN "u.deref"
                                                           ELSE "f.id")

Body(o) == CASE o \in {"sendPacket", "sendLast"} -> "s.enq"
             [] o = "disconnect" -> "d.cut"
             [] o = "getUDP" -> "g.read"
             [] OTHER -> "p.write"

FindID(u) ==
    Look(u, "f.id", IF sid[u] = sessionID[slot[u]] THEN Body(op[u])
                                                   ELSE "u.deref")

\* The end of every call; whoever drops the last reference asks a worker
\* for the release (releaseRequest).
UserDeref(u) ==
    LET s == slot[u] IN
    /\ pc[u] = "u.deref"
    /\ DropRef(s)
    /\ IF IOcount[s] = 1 THEN Post(s, "RELEASE") ELSE UNCHANGED hcp
    /\ Goto(u, "idle")
    /\ UNCHANGED <<otherVars, flagVars, connVars, sendVars, recvIO, sendIO>>

\* A session to be cut takes no packet.
SendPacketEnqueue(u) ==
    LET s == slot[u]
        last == op[u] = "sendLast"
    IN
    /\ pc[u] = "s.enq"
    /\ IF disconnectStep[s] = "DISCONNECT"
       THEN Goto(u, "u.deref") /\ UNCHANGED sendQueue
       ELSE /\ sendQueue' =
                   [sendQueue EXCEPT
                       ![s] = Append(@, [id |-> sid[u], last |-> last])]
            /\ Goto(u, IF last THEN "s.last" ELSE "s.post")
    /\ UNCHANGED <<otherVars, flagVars, IOcount, connVars, sendFlag,
                   sentPacketArray, ioVars>>

SendPacketLast(u) ==
    LET s == slot[u] IN
    /\ pc[u] = "s.last"
    /\ IF disconnectStep[s] = "NORMAL" THEN SetStep(s, "SENDPACKET_LAST")
                                       ELSE UNCHANGED disconnectStep
    /\ Goto(u, "s.post")
    /\ UNCHANGED <<otherVars, flagVars, IOcount, sock, udpKnown, sendVars,
                   ioVars>>

\* The request carries a reference of its own.
SendPacketPost(u) ==
    LET s == slot[u] IN
    /\ pc[u] = "s.post"
    /\ \/ AddRef(s) /\ Post(s, "SENDPOST")
       \/ "postFails" \in Faults /\ UNCHANGED <<IOcount, hcp>>
    /\ Goto(u, "u.deref")
    /\ UNCHANGED <<otherVars, flagVars, connVars, sendVars, recvIO, sendIO>>

\* disconnectSession(SessionID).
DisconnectCut(u) ==
    /\ pc[u] = "d.cut"
    /\ Disconnect(slot[u], hcp)
    /\ Goto(u, "u.deref")
    /\ UNCHANGED <<otherVars, flagVars, IOcount, sock, udpKnown, sendVars>>

\* getUDPAddress returns without dropping its reference when no address is
\* known yet, and also when one is and wcscmp answers 1, "true": all the C
\* standard says of its answer there is that it is not 0.
GetUDPRead(u) ==
    LET s == slot[u] IN
    /\ pc[u] = "g.read"
    /\ \/ udpKnown[s] /\ Goto(u, "u.deref") /\ UNCHANGED leaked
       \/ Goto(u, "idle") /\ leaked' = [leaked EXCEPT ![s] = @ + 1]
    /\ UNCHANGED <<idVars, flagVars, IOcount, connVars, sendVars, ioVars,
                   contentVars, raced>>

UdpWrite(u) ==
    /\ pc[u] = "p.write"
    /\ udpKnown' = [udpKnown EXCEPT ![slot[u]] = TRUE]
    /\ Goto(u, "u.deref")
    /\ UNCHANGED <<otherVars, flagVars, IOcount, disconnectStep, sock,
                   sendVars, ioVars>>

CallStep(u) ==
    \/ FindRef(u) \/ FindFlag(u) \/ FindID(u) \/ UserDeref(u)
    \/ SendPacketEnqueue(u) \/ SendPacketLast(u) \/ SendPacketPost(u)
    \/ DisconnectCut(u) \/ GetUDPRead(u) \/ UdpWrite(u)

-----------------------------------------------------------------------------
(* The owner of a player takes the jobs of its session, in order.  It may  *)
(* stop after any message: one that moves the player ends the loop, and    *)
(* the handler of one may call the API before the next is taken.  A LEAVE  *)
(* job does not stop it; it ends the player and gives the slot back        *)
(* (PostLeaveCompletion).                                                  *)

HandleJobs(u, id) ==
    LET s == IndexOf(id)
        size == Len(JobQueue[s])
    IN
    /\ pc[u] = "idle"
    /\ id \in players
    /\ \A v \in Users : pc[v] # "idle" => sid[v] # id
    /\ \E n \in 1 .. size :
        LET leaves == {i \in 1 .. n : JobQueue[s][i].type = "LEAVE"} IN
        /\ leaves # {} => n = size
        /\ JobQueue' = [JobQueue EXCEPT ![s] = SubSeq(@, n + 1, size)]
        /\ hcp' = [hcp EXCEPT ![s]["LEAVE"] = @ + Cardinality(leaves)]
        /\ players' = IF leaves = {} THEN players ELSE players \ {id}
    /\ UNCHANGED <<idVars, flagVars, IOcount, connVars, sendVars, recvIO,
                   sendIO, issued, pc, localVars, historyVars>>


-----------------------------------------------------------------------------

Next ==
    \/ \E i \in Slot : Accept(i)
    \/ AcceptStep
    \/ \E s \in Slot : Complete(s) \/ PeerReset(s)
    \/ \E w \in Workers, s \in Slot : TakeCompletion(w, s)
    \/ \E w \in Workers : WorkerStep(w)
    \/ \E u \in Users, id \in SessionID :
           HandleJobs(u, id) \/ \E o \in AllCalls : UserCall(u, id, o)
    \/ \E u \in UdpThreads, id \in SessionID : UdpReceive(u, id)
    \/ \E u \in Users \cup UdpThreads : CallStep(u)

Spec == Init /\ [][Next]_vars

\* A thread that can take a step is scheduled.  The port hands completions
\* out in order to a pool that always has a thread left, so none waits
\* forever; the content looks at every JobQueue each frame.  Neither the
\* peer, nor the arrival of connections, nor the calls are fair.
Fairness ==
    /\ WF_vars(AcceptStep)
    /\ \A w \in Workers : WF_vars(WorkerStep(w))
    /\ \A u \in Users \cup UdpThreads : WF_vars(CallStep(u))
    /\ \A s \in Slot :
        /\ SF_vars(\E w \in Workers : RecvDone(w, s))
        /\ SF_vars(\E w \in Workers : SendRequested(w, s))
        /\ SF_vars(\E w \in Workers : ReleaseRequested(w, s))
        /\ SF_vars(\E w \in Workers :
                       \/ SendDone(w, s) \/ LeaveDone(w, s)
                       \/ \E c \in Completion : IoFailed(w, s, c))
        /\ SF_vars(\E u \in Users, n \in 0 .. MaxAlloc :
                       HandleJobs(u, <<n, s>>))

FairSpec == Spec /\ Fairness
=============================================================================
