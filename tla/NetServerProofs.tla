--------------------------- MODULE NetServerProofs ---------------------------
(* Theorems about the session engine, for every number of slots, threads   *)
(* and connections: the types of its variables, and that the reference     *)
(* count of a session is exact.                                            *)
EXTENDS NetServerProperties, FiniteSetTheorems, TLAPS

-----------------------------------------------------------------------------
(* The constants, and the helpers of the model.                            *)

LEMMA Constants ==
    /\ 0 \in Slot
    /\ ZeroID \in SessionID
    /\ \A s \in Slot, n \in 0 .. MaxAlloc : <<n, s>> \in SessionID
    /\ \A id \in SessionID : IndexOf(id) \in Slot
    BY ConstAssumption DEF Slot, ZeroID, SessionID, IndexOf

LEMMA InitType == Init => TypeOK
<1> SUFFICES ASSUME Init PROVE TypeOK
    OBVIOUS
<1> USE Constants DEF Init
<1>1. IdType
    BY ConstAssumption DEF IdType
<1>2. FlagType
    BY DEF FlagType
<1>3. CountType
    BY DEF CountType
<1>4. ConnType
    BY DEF ConnType, Step
<1>5. SendType
    BY DEF SendType
<1>6. IoType
    BY DEF IoType, Port
<1>7. ContentType
    BY DEF ContentType
<1>8. LocalType
    BY DEF LocalType, ControlPoint, Operation
<1>9. HistoryType
    BY DEF HistoryType
<1> QED
    BY <1>1, <1>2, <1>3, <1>4, <1>5, <1>6, <1>7, <1>8, <1>9 DEF TypeOK

\* A step keeps the type of every group of variables it leaves alone.
LEMMA Frame ==
    /\ IdType /\ UNCHANGED idVars => IdType'
    /\ FlagType /\ UNCHANGED flagVars => FlagType'
    /\ CountType /\ UNCHANGED IOcount => CountType'
    /\ ConnType /\ UNCHANGED connVars => ConnType'
    /\ SendType /\ UNCHANGED sendVars => SendType'
    /\ IoType /\ UNCHANGED ioVars => IoType'
    /\ ContentType /\ UNCHANGED contentVars => ContentType'
    /\ LocalType /\ UNCHANGED <<pc, localVars>> => LocalType'
    /\ HistoryType /\ UNCHANGED historyVars => HistoryType'
    BY DEF IdType, idVars, FlagType, flagVars, CountType, ConnType, connVars,
           SendType, sendVars, IoType, Port, ioVars, ContentType, contentVars,
           LocalType, localVars, HistoryType, historyVars

LEMMA NoPackets == << >> \in Seq(Packet)
    OBVIOUS

LEMMA BeginType ==
    ASSUME LocalType, NEW t \in Thread, NEW p \in ControlPoint,
           NEW s \in Slot, NEW id \in SessionID, NEW o \in Operation,
           Begin(t, p, s, id, o)
    PROVE LocalType'
    BY DEF LocalType, Begin

LEMMA GotoType ==
    ASSUME LocalType, NEW t \in Thread, NEW p \in ControlPoint, Goto(t, p)
    PROVE LocalType'
<1>1. CASE p = "idle"
    BY <1>1, BeginType, Constants DEF Goto, Operation
<1>2. CASE p # "idle"
    BY <1>2 DEF Goto, LocalType, localVars
<1> QED
    BY <1>1, <1>2

LEMMA CountTypes ==
    ASSUME CountType, NEW s \in Slot, AddRef(s) \/ DropRef(s)
    PROVE CountType'
    BY DEF CountType, AddRef, DropRef

LEMMA PortTypes ==
    ASSUME IoType, NEW s \in Slot, NEW c \in Completion
    PROVE /\ hcp[s][c] > 0 => Without(s, c) \in Port
          /\ Take(s, c) \/ Post(s, c) => hcp' \in Port
<1>1. hcp \in Port /\ hcp[s] \in [Completion -> Nat] /\ hcp[s][c] \in Nat
    BY DEF IoType, Port
<1>2. ASSUME NEW n \in Nat
      PROVE  [hcp EXCEPT ![s][c] = n] \in Port
    BY <1>1 DEF Port
<1>3. ASSUME hcp[s][c] > 0 PROVE Without(s, c) \in Port
  <2>1. hcp[s][c] - 1 \in Nat
      BY <1>1, <1>3
  <2> QED
      BY <1>2, <2>1 DEF Without
<1>4. ASSUME Post(s, c) PROVE hcp' \in Port
  <2>1. hcp[s][c] + 1 \in Nat
      BY <1>1
  <2> QED
      BY <1>2, <1>4, <2>1 DEF Post
<1> QED
    BY <1>3, <1>4 DEF Take

LEMMA CancelType ==
    ASSUME IoType, NEW s \in Slot, NEW kinds, NEW port \in Port,
           CancelIo(s, kinds, port)
    PROVE IoType'
<1> DEFINE pending(k, n) ==
               IF k \in kinds /\ sock[s] # "closed" THEN n ELSE 0
           r == pending("recv", recvIO[s])
           q == pending("send", sendIO[s])
<1>1. /\ recvIO' = [recvIO EXCEPT ![s] = @ - r]
      /\ sendIO' = [sendIO EXCEPT ![s] = @ - q]
      /\ hcp' = [port EXCEPT ![s]["recvErr"] = @ + r, ![s]["sendErr"] = @ + q]
    BY DEF CancelIo
<1>2. /\ r \in Nat /\ recvIO[s] - r \in Nat
      /\ q \in Nat /\ sendIO[s] - q \in Nat
    BY DEF IoType
<1> HIDE DEF r, q
<1>3. hcp' \in Port
    BY <1>1, <1>2 DEF Port, Completion
<1> QED
    BY <1>1, <1>2, <1>3 DEF IoType

-----------------------------------------------------------------------------
(* Type correctness, action by action: the groups of variables a step      *)
(* changes are typed by a step of the proof each, the others by Frame.     *)

LEMMA LookType ==
    ASSUME TypeOK, NEW t \in Thread, NEW from, NEW to \in ControlPoint,
           Look(t, from, to)
    PROVE TypeOK'
    BY GotoType, Frame DEF TypeOK, Look, sharedVars, otherVars

LEMMA AcceptType ==
    ASSUME TypeOK, NEW i \in Slot, Accept(i)
    PROVE TypeOK'
<1>1. IdType'
  <2>1. /\ sessionAllocNum \in 0 .. MaxAlloc
        /\ sessionAllocNum + 1 \in 0 .. MaxAlloc
      BY ConstAssumption DEF TypeOK, IdType, Accept
  <2>2. <<sessionAllocNum, i>> \in SessionID
      BY <2>1, Constants
  <2> QED
      BY <2>1, <2>2 DEF TypeOK, IdType, Accept
<1>2. LocalType'
    BY BeginType, Constants
       DEF TypeOK, Accept, Thread, ControlPoint, Operation
<1> QED
    BY <1>1, <1>2, Frame DEF TypeOK, Accept

LEMMA AcceptStepType ==
    ASSUME TypeOK, AcceptStep
    PROVE TypeOK'
<1> DEFINE s == slot[Acceptor]
<1>s. Acceptor \in Thread /\ s \in Slot
    BY DEF TypeOK, LocalType, Thread
<1> HIDE DEF s
<1>l. LocalType'
    BY <1>s, GotoType
       DEF TypeOK, AcceptStep, AcceptRef, AcceptValid, AcceptFlag, AcceptReset,
           AcceptJoin, AcceptRecv, ControlPoint
<1>1. CASE AcceptRef
  <2>1. CountType'
      BY <1>1, <1>s, CountTypes DEF TypeOK, AcceptRef, s
  <2> QED
      BY <1>1, <1>l, <2>1, Frame DEF TypeOK, AcceptRef, otherVars
<1>2. CASE AcceptValid
  <2>1. FlagType'
      BY <1>2 DEF TypeOK, AcceptValid, FlagType
  <2> QED
      BY <1>2, <1>l, <2>1, Frame DEF TypeOK, AcceptValid, otherVars
<1>3. CASE AcceptFlag
  <2>1. FlagType'
      BY <1>3 DEF TypeOK, AcceptFlag, FlagType
  <2> QED
      BY <1>3, <1>l, <2>1, Frame DEF TypeOK, AcceptFlag, otherVars
<1>4. CASE AcceptReset
  <2>1. ConnType'
      BY <1>4 DEF TypeOK, AcceptReset, ConnType, SetStep, Step
  <2>2. SendType'
      BY <1>4, NoPackets DEF TypeOK, AcceptReset, SendType
  <2> QED
      BY <1>4, <1>l, <2>1, <2>2, Frame DEF TypeOK, AcceptReset, otherVars
<1>5. CASE AcceptJoin
  <2>1. ContentType'
      BY <1>5, <1>s DEF TypeOK, AcceptJoin, ContentType, IdType, s
  <2> QED
      BY <1>5, <1>l, <2>1, Frame DEF TypeOK, AcceptJoin
<1>6. CASE AcceptRecv
  <2>1. CountType'
      BY <1>6, <1>s, CountTypes, Frame DEF TypeOK, AcceptRecv, s
  <2>2. IoType'
      BY <1>6 DEF TypeOK, AcceptRecv, IoType
  <2> QED
      BY <1>6, <1>l, <2>1, <2>2, Frame DEF TypeOK, AcceptRecv, otherVars
<1> QED
    BY <1>1, <1>2, <1>3, <1>4, <1>5, <1>6 DEF AcceptStep

LEMMA PeerType ==
    ASSUME TypeOK, NEW s \in Slot, Complete(s) \/ PeerReset(s)
    PROVE TypeOK'
<1>1. CASE Complete(s)
  <2>1. hcp' \in Port
      BY <1>1, PortTypes DEF TypeOK, Complete, Completion
  <2>2. IoType'
      BY <1>1, <2>1 DEF TypeOK, Complete, IoType
  <2> QED
      BY <1>1, <2>2, Frame DEF TypeOK, Complete, otherVars
<1>2. CASE PeerReset(s)
  <2>1. IoType'
      BY <1>2, CancelType DEF TypeOK, PeerReset, CancelAll, IoType
  <2>2. ConnType'
      BY <1>2 DEF TypeOK, PeerReset, ConnType
  <2> QED
      BY <1>2, <2>1, <2>2, Frame DEF TypeOK, PeerReset, otherVars
<1> QED
    BY <1>1, <1>2

LEMMA PushJobType ==
    ASSUME IdType, ContentType, NEW s \in Slot, NEW type \in {"RECV", "LEAVE"},
           PushJob(s, type), UNCHANGED <<players, issued>>
    PROVE ContentType'
<1>1. JobOf(type, sessionID[s]) \in Job
    BY DEF JobOf, Job, IdType
<1> QED
    BY <1>1 DEF PushJob, ContentType

LEMMA DisconnectType ==
    ASSUME IoType, ConnType, NEW s \in Slot, NEW port \in Port,
           Disconnect(s, port), UNCHANGED <<sock, udpKnown>>
    PROVE IoType' /\ ConnType'
<1>1. IoType'
    BY CancelType DEF Disconnect
<1>2. ConnType'
    BY DEF Disconnect, ConnType, Step
<1> QED
    BY <1>1, <1>2

LEMMA FreeSentType ==
    ASSUME SendType, NEW s \in Slot, FreeSent(s), UNCHANGED sendFlag,
           sendQueue' \in [Slot -> Seq(Packet)]
    PROVE SendType'
    BY NoPackets DEF SendType, FreeSent

LEMMA TakeCompletionType ==
    ASSUME TypeOK, NEW w \in Workers, NEW s \in Slot, TakeCompletion(w, s)
    PROVE TypeOK'
<1>w. w \in Thread
    BY DEF Thread
<1>c. {"recvOk", "sendOk", "recvErr", "sendErr", "SENDPOST", "RELEASE",
       "LEAVE"} \subseteq Completion
    BY DEF Completion
<1>p. {"idle", "rp.check", "w.unflag", "w.readid", "sp.look", "w.deref",
       "r.valid"} \subseteq ControlPoint
    BY DEF ControlPoint
<1>o. "none" \in Operation /\ sessionID[s] \in SessionID
    BY DEF Operation, TypeOK, IdType
<1>1. CASE RecvDone(w, s)
  <2>1. LocalType'
      BY <1>1, <1>w, <1>p, <1>o, BeginType, Constants DEF TypeOK, RecvDone
  <2>2. CASE Disconnect(s, Without(s, "recvOk")) /\ UNCHANGED JobQueue
    <3>1. IoType' /\ ConnType'
        BY <1>1, <1>c, <2>2, PortTypes, DisconnectType DEF TypeOK, RecvDone
    <3> QED
        BY <1>1, <2>1, <2>2, <3>1, Frame
           DEF TypeOK, RecvDone, contentVars
  <2>3. CASE /\ UNCHANGED JobQueue \/ PushJob(s, "RECV")
             /\ Take(s, "recvOk")
             /\ UNCHANGED <<disconnectStep, recvIO, sendIO>>
    <3>1. ContentType'
        BY <1>1, <2>3, PushJobType, Frame DEF TypeOK, RecvDone, contentVars
    <3>2. IoType'
        BY <1>c, <2>3, PortTypes DEF TypeOK, IoType
    <3> QED
        BY <1>1, <2>1, <2>3, <3>1, <3>2, Frame DEF TypeOK, RecvDone, connVars
  <2> QED
      BY <1>1, <2>2, <2>3 DEF RecvDone
<1>2. CASE SendDone(w, s)
  <2>1. LocalType'
      BY <1>2, <1>w, <1>p, <1>o, BeginType, Constants DEF TypeOK, SendDone
  <2>2. SendType'
      BY <1>2, FreeSentType DEF TypeOK, SendDone, SendType
  <2>3. IoType' /\ ConnType'
    <3>1. CASE Disconnect(s, Without(s, "sendOk"))
        BY <1>2, <1>c, <3>1, PortTypes, DisconnectType DEF TypeOK, SendDone
    <3>2. CASE /\ Take(s, "sendOk")
               /\ UNCHANGED <<disconnectStep, recvIO, sendIO>>
      <4>1. IoType'
          BY <1>c, <3>2, PortTypes DEF TypeOK, IoType
      <4> QED
          BY <1>2, <3>2, <4>1, Frame DEF TypeOK, SendDone, connVars
    <3> QED
        BY <1>2, <3>1, <3>2 DEF SendDone
  <2> QED
      BY <1>2, <2>1, <2>2, <2>3, Frame DEF TypeOK, SendDone, otherVars
<1>3. ASSUME NEW c \in Completion, IoFailed(w, s, c)
      PROVE  TypeOK'
  <2>1. LocalType'
      BY <1>3, <1>w, <1>p, <1>o, BeginType, Frame, Constants
         DEF TypeOK, IoFailed
  <2>2. CountType'
      BY <1>3, CountTypes DEF TypeOK, IoFailed
  <2>3. IoType'
      BY <1>3, PortTypes DEF TypeOK, IoFailed, IoType
  <2> QED
      BY <1>3, <2>1, <2>2, <2>3, Frame DEF TypeOK, IoFailed, otherVars
<1>4. CASE SendRequested(w, s)
  <2>1. LocalType'
      BY <1>4, <1>w, <1>p, <1>o, BeginType, Constants DEF TypeOK, SendRequested
  <2>2. SendType'
      BY <1>4 DEF TypeOK, SendRequested, SendType
  <2>3. IoType'
      BY <1>4, <1>c, PortTypes DEF TypeOK, SendRequested, IoType
  <2> QED
      BY <1>4, <2>1, <2>2, <2>3, Frame DEF TypeOK, SendRequested, otherVars
<1>5. CASE ReleaseRequested(w, s)
  <2>1. LocalType'
      BY <1>5, <1>w, <1>p, <1>o, BeginType DEF TypeOK, ReleaseRequested
  <2>2. IoType'
      BY <1>5, <1>c, PortTypes DEF TypeOK, ReleaseRequested, IoType
  <2> QED
      BY <1>5, <2>1, <2>2, Frame DEF TypeOK, ReleaseRequested, otherVars
<1>6. CASE LeaveDone(w, s)
  <2>1. IdType'
      BY <1>6, <1>o, Constants DEF TypeOK, LeaveDone, IdType
  <2>2. IoType'
      BY <1>6, <1>c, PortTypes DEF TypeOK, LeaveDone, IoType
  <2> QED
      BY <1>6, <2>1, <2>2, Frame DEF TypeOK, LeaveDone
<1> QED
    BY <1>1, <1>2, <1>3, <1>4, <1>5, <1>6 DEF TakeCompletion

LEMMA WorkerContext ==
    ASSUME TypeOK, NEW t \in Thread
    PROVE  /\ slot[t] \in Slot /\ sid[t] \in SessionID
           /\ sessionID[slot[t]] \in SessionID
    BY DEF TypeOK, LocalType, IdType

LEMMA RecvPostType ==
    ASSUME TypeOK, NEW w \in Workers, RecvPost(w)
    PROVE TypeOK'
<1> DEFINE s == slot[w]
<1>w. w \in Thread /\ s \in Slot
    BY WorkerContext DEF Thread
<1> HIDE DEF s
<1>l. LocalType'
    BY <1>w, GotoType
       DEF TypeOK, RecvPost, RecvPostCheck, RecvPostRecv, RecvPostCancel,
           ControlPoint
<1>1. CASE RecvPostCheck(w)
  <2>1. CountType'
      BY <1>1, <1>w, CountTypes, Frame DEF TypeOK, RecvPostCheck, s
  <2> QED
      BY <1>1, <1>l, <2>1, Frame DEF TypeOK, RecvPostCheck, otherVars
<1>2. CASE RecvPostRecv(w)
  <2>1. CountType'
      BY <1>2, <1>w, CountTypes, Frame DEF TypeOK, RecvPostRecv, s
  <2>2. IoType'
      BY <1>2 DEF TypeOK, RecvPostRecv, IoType
  <2> QED
      BY <1>2, <1>l, <2>1, <2>2, Frame DEF TypeOK, RecvPostRecv, otherVars
<1>3. CASE RecvPostCancel(w)
  <2>1. IoType'
      BY <1>3, <1>w, CancelType, Frame DEF TypeOK, RecvPostCancel, IoType, s
  <2> QED
      BY <1>3, <1>l, <2>1, Frame DEF TypeOK, RecvPostCancel, otherVars
<1> QED
    BY <1>1, <1>2, <1>3 DEF RecvPost

LEMMA TakeType ==
    ASSUME NEW q \in Seq(Packet)
    PROVE /\ \A n \in 0 .. Len(q) :
                 SubSeq(q, 1, n) \in Seq(Packet)
                 /\ SubSeq(q, n + 1, Len(q)) \in Seq(Packet)
          /\ \A p \in Packet : Append(q, p) \in Seq(Packet)
    OBVIOUS

LEMMA SendPostType ==
    ASSUME TypeOK, NEW w \in Workers, SendPost(w)
    PROVE TypeOK'
<1> DEFINE s == slot[w]
<1>w. w \in Thread /\ s \in Slot
    BY WorkerContext DEF Thread
<1> HIDE DEF s
<1>1. CASE SendPostLook(w)
    BY <1>1, <1>w, LookType DEF SendPostLook, ControlPoint
<1>2. CASE SendPostFlag(w) \/ SendPostUnflag(w)
  <2>1. LocalType'
      BY <1>2, <1>w, GotoType
         DEF TypeOK, SendPostFlag, SendPostUnflag, ControlPoint
  <2>2. SendType'
      BY <1>2 DEF TypeOK, SendPostFlag, SendPostUnflag, SendType
  <2> QED
      BY <1>2, <2>1, <2>2, Frame
         DEF TypeOK, SendPostFlag, SendPostUnflag, otherVars
<1>3. CASE SendPostTake(w)
  <2>1. LocalType'
      BY <1>3, <1>w, GotoType DEF TypeOK, SendPostTake, ControlPoint
  <2>2. CountType'
      BY <1>3, <1>w, CountTypes DEF TypeOK, SendPostTake, s
  <2>3. SendType'
    <3>1. sendQueue[s] \in Seq(Packet)
        BY <1>w DEF TypeOK, SendType
    <3> DEFINE q == sendQueue[s]
               n == IF Len(q) < MaxPacket THEN Len(q) ELSE MaxPacket
    <3>2. n \in 0 .. Len(q)
        BY <3>1, ConstAssumption
    <3>3. /\ sentPacketArray' =
                 [sentPacketArray EXCEPT ![s] = SubSeq(q, 1, n)]
          /\ sendQueue' = [sendQueue EXCEPT ![s] = SubSeq(q, n + 1, Len(q))]
        BY <1>3, <1>w DEF SendPostTake, TypeOK, SendType, s
    <3> HIDE DEF n
    <3>4. /\ SubSeq(q, 1, n) \in Seq(Packet)
          /\ SubSeq(q, n + 1, Len(q)) \in Seq(Packet)
        BY <3>1, <3>2, TakeType
    <3>5. sendFlag' = sendFlag
        BY <1>3 DEF SendPostTake
    <3> HIDE DEF q
    <3> QED
        BY <3>3, <3>4, <3>5 DEF TypeOK, SendType
  <2> QED
      BY <1>3, <2>1, <2>2, <2>3, Frame DEF TypeOK, SendPostTake, otherVars
<1>4. CASE SendPostSend(w)
  <2>1. LocalType'
      BY <1>4, <1>w, GotoType DEF TypeOK, SendPostSend, ControlPoint
  <2>2. ConnType'
      BY <1>4 DEF TypeOK, SendPostSend, SetStep, ConnType, Step
  <2>3. SendType'
      BY <1>4, <1>w, FreeSentType, Frame
         DEF TypeOK, SendPostSend, SendType, sendVars, s
  <2>4. IoType'
      BY <1>4 DEF TypeOK, SendPostSend, IoType
  <2> QED
      BY <1>4, <2>1, <2>2, <2>3, <2>4, Frame
         DEF TypeOK, SendPostSend, otherVars
<1>5. CASE SendPostFail(w)
  <2>1. LocalType'
      BY <1>5, <1>w, GotoType DEF TypeOK, SendPostFail, ControlPoint
  <2>2. IoType' /\ ConnType'
      BY <1>5, <1>w, DisconnectType DEF TypeOK, SendPostFail, IoType, s
  <2>3. CountType'
      BY <1>5, <1>w, CountTypes DEF TypeOK, SendPostFail, s
  <2>4. SendType'
      BY <1>5 DEF TypeOK, SendPostFail, SendType
  <2> QED
      BY <1>5, <2>1, <2>2, <2>3, <2>4, Frame
         DEF TypeOK, SendPostFail, otherVars
<1>6. CASE SendPostCancel(w)
  <2>1. LocalType'
      BY <1>6, <1>w, GotoType DEF TypeOK, SendPostCancel, ControlPoint
  <2>2. IoType'
      BY <1>6, <1>w, CancelType, Frame DEF TypeOK, SendPostCancel, IoType, s
  <2> QED
      BY <1>6, <2>1, <2>2, Frame DEF TypeOK, SendPostCancel, otherVars
<1> QED
    BY <1>1, <1>2, <1>3, <1>4, <1>5, <1>6 DEF SendPost

LEMMA ReleaseSessionType ==
    ASSUME TypeOK, NEW w \in Workers, ReleaseSession(w)
    PROVE TypeOK'
<1> DEFINE s == slot[w]
<1>w. w \in Thread /\ s \in Slot /\ sessionID[s] \in SessionID
    BY WorkerContext DEF Thread
<1> HIDE DEF s
<1>p. {"r.count", "idle", "r.id", "r.close", "r.off", "r.undo", "r.valid",
       "r.leave"} \subseteq ControlPoint
    BY DEF ControlPoint
<1>1. CASE ReleaseValid(w)
    BY <1>1, <1>w, <1>p, LookType DEF ReleaseValid
<1>2. CASE ReleaseCount(w)
  <2>1. LocalType'
      BY <1>2, <1>w
         DEF TypeOK, ReleaseCount, LocalType, CountType, ControlPoint, s
  <2> QED
      BY <1>2, <2>1, Frame DEF TypeOK, ReleaseCount, sharedVars, otherVars
<1>3. CASE ReleaseCas(w)
  <2>1. LocalType'
      BY <1>3, <1>w, <1>p, GotoType DEF TypeOK, ReleaseCas
  <2>2. FlagType'
      BY <1>3 DEF TypeOK, ReleaseCas, FlagType
  <2>3. HistoryType'
      BY <1>3 DEF TypeOK, ReleaseCas, HistoryType
  <2> QED
      BY <1>3, <2>1, <2>2, <2>3, Frame DEF TypeOK, ReleaseCas
<1>4. CASE ReleaseID(w)
  <2>1. LocalType'
      BY <1>4, <1>w, <1>p, GotoType, BeginType
         DEF TypeOK, ReleaseID, Operation, s
  <2>2. CountType'
      BY <1>4, <1>w, CountTypes, Frame DEF TypeOK, ReleaseID, s
  <2> QED
      BY <1>4, <2>1, <2>2, Frame DEF TypeOK, ReleaseID, otherVars
<1>5. CASE ReleaseOff(w)
  <2>1. LocalType'
      BY <1>5, <1>w, <1>p, GotoType DEF TypeOK, ReleaseOff
  <2>2. FlagType'
      BY <1>5 DEF TypeOK, ReleaseOff, FlagType
  <2> QED
      BY <1>5, <2>1, <2>2, Frame DEF TypeOK, ReleaseOff, otherVars
<1>6. CASE ReleaseUndo(w)
  <2>1. LocalType'
      BY <1>6, <1>w, <1>p, GotoType DEF TypeOK, ReleaseUndo
  <2>2. CountType'
      BY <1>6, <1>w, CountTypes DEF TypeOK, ReleaseUndo, s
  <2> QED
      BY <1>6, <2>1, <2>2, Frame DEF TypeOK, ReleaseUndo, otherVars
<1>7. CASE ReleaseClose(w)
  <2>1. LocalType'
      BY <1>7, <1>w, <1>p, GotoType DEF TypeOK, ReleaseClose
  <2>2. FlagType'
      BY <1>7 DEF TypeOK, ReleaseClose, FlagType
  <2>3. ConnType'
      BY <1>7 DEF TypeOK, ReleaseClose, ConnType
  <2>4. IoType'
      BY <1>7, <1>w, CancelType DEF TypeOK, ReleaseClose, CancelAll, IoType, s
  <2> QED
      BY <1>7, <2>1, <2>2, <2>3, <2>4, Frame
         DEF TypeOK, ReleaseClose, otherVars
<1>8. CASE ReleaseLeave(w)
  <2>1. LocalType'
      BY <1>8, <1>w, <1>p, GotoType DEF TypeOK, ReleaseLeave
  <2>2. SendType'
      BY <1>8, <1>w, NoPackets, FreeSentType
         DEF TypeOK, ReleaseLeave, SendType, s
  <2>3. ContentType'
      BY <1>8, <1>w, PushJobType DEF TypeOK, ReleaseLeave, s
  <2> QED
      BY <1>8, <2>1, <2>2, <2>3, Frame DEF TypeOK, ReleaseLeave
<1> QED
    BY <1>1, <1>2, <1>3, <1>4, <1>5, <1>6, <1>7, <1>8 DEF ReleaseSession

LEMMA WorkerStepType ==
    ASSUME TypeOK, NEW w \in Workers, WorkerStep(w)
    PROVE TypeOK'
<1> DEFINE s == slot[w]
<1>w. w \in Thread /\ s \in Slot /\ sessionID[s] \in SessionID
    BY WorkerContext DEF Thread
<1> HIDE DEF s
<1>1. CASE SentMore(w)
    BY <1>1, <1>w, LookType DEF SentMore, ControlPoint
<1>2. CASE SentUnflag(w)
  <2>1. LocalType'
      BY <1>2, <1>w, GotoType DEF TypeOK, SentUnflag, ControlPoint
  <2>2. SendType'
      BY <1>2 DEF TypeOK, SentUnflag, SendType
  <2> QED
      BY <1>2, <2>1, <2>2, Frame DEF TypeOK, SentUnflag, otherVars
<1>3. CASE WorkerDeref(w)
  <2>1. LocalType'
      BY <1>3, <1>w, GotoType DEF TypeOK, WorkerDeref, ControlPoint
  <2>2. CountType'
      BY <1>3, <1>w, CountTypes DEF TypeOK, WorkerDeref, s
  <2> QED
      BY <1>3, <2>1, <2>2, Frame DEF TypeOK, WorkerDeref, otherVars
<1>4. CASE ReadID(w)
  <2>1. LocalType'
      BY <1>4, <1>w, BeginType DEF TypeOK, ReadID, ControlPoint, Operation, s
  <2> QED
      BY <1>4, <2>1, Frame DEF TypeOK, ReadID, sharedVars, otherVars
<1> QED
    BY <1>1, <1>2, <1>3, <1>4, RecvPostType, SendPostType, ReleaseSessionType
       DEF WorkerStep

LEMMA FindValidType ==
    ASSUME TypeOK, NEW u \in Thread, NEW id \in SessionID,
           NEW o \in AllCalls \cup {"udp"}, FindValid(u, id, o)
    PROVE TypeOK'
<1>1. LocalType'
    BY BeginType, Frame, Constants
       DEF TypeOK, FindValid, ControlPoint, Operation
<1> QED
    BY <1>1, Frame DEF TypeOK, FindValid, sharedVars, otherVars

LEMMA CallType ==
    ASSUME TypeOK, NEW u \in Users \cup UdpThreads, CallStep(u)
    PROVE TypeOK'
<1> DEFINE s == slot[u]
<1>w. u \in Thread /\ s \in Slot /\ sid[u] \in SessionID
    BY WorkerContext DEF Thread
<1> HIDE DEF s
<1>p. {"f.flag", "u.deref", "f.id", "s.enq", "d.cut", "g.read", "p.write",
       "idle", "s.last", "s.post"} \subseteq ControlPoint
    BY DEF ControlPoint
<1>1. CASE FindRef(u)
  <2>1. LocalType'
      BY <1>1, <1>w, <1>p, GotoType DEF TypeOK, FindRef
  <2>2. CountType'
      BY <1>1, <1>w, CountTypes DEF TypeOK, FindRef, s
  <2> QED
      BY <1>1, <2>1, <2>2, Frame DEF TypeOK, FindRef, otherVars
<1>2. CASE FindFlag(u)
    BY <1>2, <1>w, <1>p, LookType DEF FindFlag
<1>3. CASE UserDeref(u)
  <2>1. LocalType'
      BY <1>3, <1>w, <1>p, GotoType DEF TypeOK, UserDeref
  <2>2. CountType'
      BY <1>3, <1>w, CountTypes DEF TypeOK, UserDeref, s
  <2>3. IoType'
      BY <1>3, <1>w, PortTypes DEF TypeOK, UserDeref, IoType, Completion, s
  <2> QED
      BY <1>3, <2>1, <2>2, <2>3, Frame DEF TypeOK, UserDeref, otherVars
<1>4. CASE SendPacketEnqueue(u)
  <2>1. LocalType'
      BY <1>4, <1>w, <1>p, GotoType DEF TypeOK, SendPacketEnqueue
  <2>2. SendType'
    <3> DEFINE pkt == [id |-> sid[u], last |-> op[u] = "sendLast"]
    <3>1. pkt \in Packet
        BY <1>w DEF Packet
    <3> HIDE DEF pkt
    <3>2. Append(sendQueue[s], pkt) \in Seq(Packet)
        BY <1>w, <3>1 DEF TypeOK, SendType
    <3> QED
        BY <1>4, <1>w, <3>2 DEF TypeOK, SendPacketEnqueue, SendType, pkt, s
  <2> QED
      BY <1>4, <2>1, <2>2, Frame DEF TypeOK, SendPacketEnqueue, otherVars
<1>5. CASE SendPacketLast(u)
  <2>1. LocalType'
      BY <1>5, <1>w, <1>p, GotoType DEF TypeOK, SendPacketLast
  <2>2. ConnType'
      BY <1>5 DEF TypeOK, SendPacketLast, SetStep, ConnType, Step
  <2> QED
      BY <1>5, <2>1, <2>2, Frame DEF TypeOK, SendPacketLast, otherVars
<1>6. CASE SendPacketPost(u)
  <2>1. LocalType'
      BY <1>6, <1>w, <1>p, GotoType DEF TypeOK, SendPacketPost
  <2>2. CountType'
      BY <1>6, <1>w, CountTypes, Frame DEF TypeOK, SendPacketPost, s
  <2>3. IoType'
      BY <1>6, <1>w, PortTypes
         DEF TypeOK, SendPacketPost, IoType, Completion, s
  <2> QED
      BY <1>6, <2>1, <2>2, <2>3, Frame DEF TypeOK, SendPacketPost, otherVars
<1>7. CASE DisconnectCut(u)
  <2>1. LocalType'
      BY <1>7, <1>w, <1>p, GotoType DEF TypeOK, DisconnectCut
  <2>2. IoType' /\ ConnType'
      BY <1>7, <1>w, DisconnectType DEF TypeOK, DisconnectCut, IoType, s
  <2> QED
      BY <1>7, <2>1, <2>2, Frame DEF TypeOK, DisconnectCut, otherVars
<1>8. CASE GetUDPRead(u)
  <2>1. LocalType'
      BY <1>8, <1>w, <1>p, GotoType DEF TypeOK, GetUDPRead
  <2>2. HistoryType'
      BY <1>8 DEF TypeOK, GetUDPRead, HistoryType
  <2> QED
      BY <1>8, <2>1, <2>2, Frame DEF TypeOK, GetUDPRead
<1>9. CASE UdpWrite(u)
  <2>1. LocalType'
      BY <1>9, <1>w, <1>p, GotoType DEF TypeOK, UdpWrite
  <2>2. ConnType'
      BY <1>9 DEF TypeOK, UdpWrite, ConnType
  <2> QED
      BY <1>9, <2>1, <2>2, Frame DEF TypeOK, UdpWrite, otherVars
<1>10. CASE FindID(u)
  <2>1. Body(op[u]) \in ControlPoint
      BY <1>p DEF Body
  <2> QED
      BY <1>10, <1>w, <1>p, <2>1, LookType DEF FindID
<1> QED
    BY <1>1, <1>2, <1>3, <1>4, <1>5, <1>6, <1>7, <1>8, <1>9, <1>10
       DEF CallStep

LEMMA PortRises ==
    ASSUME IoType, NEW s \in Slot, NEW c \in Completion, NEW n \in Nat
    PROVE  [hcp EXCEPT ![s][c] = @ + n] \in Port
<1>1. hcp \in Port /\ hcp[s] \in [Completion -> Nat] /\ hcp[s][c] + n \in Nat
    BY DEF IoType, Port
<1>2. ASSUME NEW m \in Nat
      PROVE  [hcp EXCEPT ![s][c] = m] \in Port
    BY <1>1 DEF Port
<1> QED
    BY <1>1, <1>2

LEMMA JobsLeft ==
    ASSUME NEW q \in Seq(Job), NEW n \in 1 .. Len(q)
    PROVE  SubSeq(q, n + 1, Len(q)) \in Seq(Job)
OBVIOUS

LEMMA HandleJobsType ==
    ASSUME TypeOK, NEW u \in Users, NEW id \in SessionID, HandleJobs(u, id)
    PROVE TypeOK'
<1> DEFINE s == IndexOf(id)
           size == Len(JobQueue[s])
           leaves(n) == {i \in 1 .. n : JobQueue[s][i].type = "LEAVE"}
<1>1. s \in Slot /\ JobQueue[s] \in Seq(Job)
    BY Constants DEF TypeOK, ContentType
<1>2. PICK n \in 1 .. size :
          /\ JobQueue' = [JobQueue EXCEPT ![s] = SubSeq(@, n + 1, size)]
          /\ hcp' = [hcp EXCEPT ![s]["LEAVE"] = @ + Cardinality(leaves(n))]
          /\ players' = IF leaves(n) = {} THEN players ELSE players \ {id}
    BY DEF HandleJobs
<1>3. Cardinality(leaves(n)) \in Nat
  <2>1. IsFiniteSet(1 .. n)
      BY <1>1, FS_Interval
  <2>2. IsFiniteSet(leaves(n))
      BY <2>1, FS_Subset
  <2> QED
      BY <2>2, FS_CardinalityType
<1>4. SubSeq(JobQueue[s], n + 1, size) \in Seq(Job)
    BY <1>1, JobsLeft
<1>5. IoType'
  <2>1. UNCHANGED <<recvIO, sendIO>>
      BY DEF HandleJobs
  <2>2. "LEAVE" \in Completion /\ IoType
      BY DEF Completion, TypeOK
  <2>3. hcp' \in Port
      BY <1>1, <1>2, <1>3, <2>2, PortRises
  <2> QED
      BY <2>1, <2>2, <2>3 DEF IoType
<1>6. ContentType'
  <2>1. UNCHANGED issued
      BY DEF HandleJobs
  <2> HIDE DEF leaves, s, size
  <2> QED
      BY <1>1, <1>2, <1>4, <2>1 DEF TypeOK, ContentType
<1> QED
    BY <1>5, <1>6, Frame DEF TypeOK, HandleJobs

LEMMA NextType == TypeOK /\ [Next]_vars => TypeOK'
<1> SUFFICES ASSUME TypeOK, [Next]_vars PROVE TypeOK'
    OBVIOUS
<1>1. ASSUME NEW u \in Users, NEW id \in SessionID, NEW o \in AllCalls,
             UserCall(u, id, o)
      PROVE  TypeOK'
    BY <1>1, FindValidType DEF UserCall, Thread
<1>2. ASSUME NEW u \in UdpThreads, NEW id \in SessionID, UdpReceive(u, id)
      PROVE  TypeOK'
    BY <1>2, FindValidType DEF UdpReceive, Thread
<1>3. CASE UNCHANGED vars
    BY <1>3, Frame DEF TypeOK, vars, sharedVars, otherVars
<1> QED
    BY <1>1, <1>2, <1>3, AcceptType, AcceptStepType, PeerType,
       TakeCompletionType, WorkerStepType, HandleJobsType, CallType DEF Next

\* Every variable of the session engine keeps its type, whatever the number
\* of slots, threads and connections: no counter of pending operations, of
\* completions or of free indexes goes below zero.
THEOREM TypeCorrect == Spec => []TypeOK
<1> QED
    BY InitType, NextType, PTL DEF Spec

-----------------------------------------------------------------------------
(* How many references the threads hold, and how a step of one thread      *)
(* changes it.                                                             *)

\* The references a thread holds at a control point.
Weight(p) == (IF p \in Holding THEN 1 ELSE 0)
             + (IF p \in HoldingTwo THEN 1 ELSE 0)

LEMMA Weights ==
    /\ \A p \in {"idle", "a.ref", "w.readid", "r.valid", "r.count", "r.cas",
                 "r.id", "r.close", "r.leave", "f.ref"} : Weight(p) = 0
    /\ \A p \in {"a.valid", "a.flag", "a.reset", "a.join", "a.recv",
                 "rp.check", "rp.cancel", "sp.flag", "sp.look", "sp.unflag",
                 "sp.take", "sp.cancel", "w.unflag", "w.more", "w.deref",
                 "r.off", "r.undo", "f.flag", "f.id", "s.enq", "s.last",
                 "s.post", "d.cut", "g.read", "p.write", "u.deref"} :
           Weight(p) = 1
    /\ \A p \in {"rp.recv", "sp.send", "sp.fail"} : Weight(p) = 2
    /\ \A p : Weight(p) \in 0 .. 2
    BY DEF Weight, Holding, HoldingTwo

LEMMA ThreadsFinite == IsFiniteSet(Thread)
<1>1. IsFiniteSet({Acceptor})
    BY FS_Singleton
<1>2. IsFiniteSet({Acceptor} \cup Workers)
    BY <1>1, FS_Union, ThreadAssumption
<1>3. IsFiniteSet({Acceptor} \cup Workers \cup Users)
    BY <1>2, FS_Union, ThreadAssumption
<1> QED
    BY <1>3, FS_Union, ThreadAssumption DEF Thread

\* When only thread t moves, only t can enter or leave a set of threads.
LEMMA OneMoves ==
    ASSUME NEW t \in Thread, NEW s, NEW points,
           \A v \in Thread \ {t} : pc'[v] = pc[v] /\ slot'[v] = slot[v]
    PROVE  /\ Cardinality(At(s, points)) \in Nat
           /\ Cardinality(At(s, points)') =
                  Cardinality(At(s, points))
                  - (IF slot[t] = s /\ pc[t] \in points THEN 1 ELSE 0)
                  + (IF slot'[t] = s /\ pc'[t] \in points THEN 1 ELSE 0)
<1> DEFINE A == At(s, points)
           B == At(s, points)'
<1>1. IsFiniteSet(A) /\ IsFiniteSet(B)
    BY ThreadsFinite, FS_Subset DEF At
<1>2. A \ {t} = B \ {t}
    BY DEF At
<1>3. /\ t \in A <=> slot[t] = s /\ pc[t] \in points
      /\ t \in B <=> slot'[t] = s /\ pc'[t] \in points
    BY DEF At
<1> HIDE DEF A, B
<1>4. /\ Cardinality(A) \in Nat
      /\ Cardinality(A \ {t}) =
             IF t \in A THEN Cardinality(A) - 1 ELSE Cardinality(A)
    BY <1>1, FS_RemoveElement, FS_CardinalityType
<1>5. /\ Cardinality(B) \in Nat
      /\ Cardinality(B \ {t}) =
             IF t \in B THEN Cardinality(B) - 1 ELSE Cardinality(B)
    BY <1>1, FS_RemoveElement, FS_CardinalityType
<1>6. Cardinality(B) = Cardinality(A) - (IF t \in A THEN 1 ELSE 0)
                                      + (IF t \in B THEN 1 ELSE 0)
    BY <1>2, <1>4, <1>5
<1>7. /\ Cardinality(At(s, points)) \in Nat
      /\ Cardinality(At(s, points)') =
             Cardinality(At(s, points))
             - (IF t \in A THEN 1 ELSE 0) + (IF t \in B THEN 1 ELSE 0)
    BY <1>4, <1>6 DEF A, B
<1> QED
    BY <1>3, <1>7

LEMMA HeldMoves ==
    ASSUME NEW t \in Thread, NEW s \in Slot,
           \A v \in Thread \ {t} : pc'[v] = pc[v] /\ slot'[v] = slot[v]
    PROVE  /\ Held(s) \in Nat
           /\ Held(s)' = Held(s) - (IF slot[t] = s THEN Weight(pc[t]) ELSE 0)
                                 + (IF slot'[t] = s THEN Weight(pc'[t]) ELSE 0)
<1>1. /\ Cardinality(At(s, Holding)) \in Nat
      /\ Cardinality(At(s, Holding)') =
             Cardinality(At(s, Holding))
             - (IF slot[t] = s /\ pc[t] \in Holding THEN 1 ELSE 0)
             + (IF slot'[t] = s /\ pc'[t] \in Holding THEN 1 ELSE 0)
    BY OneMoves
<1>2. /\ Cardinality(At(s, HoldingTwo)) \in Nat
      /\ Cardinality(At(s, HoldingTwo)') =
             Cardinality(At(s, HoldingTwo))
             - (IF slot[t] = s /\ pc[t] \in HoldingTwo THEN 1 ELSE 0)
             + (IF slot'[t] = s /\ pc'[t] \in HoldingTwo THEN 1 ELSE 0)
    BY OneMoves
<1>3. Held(s)' = Cardinality(At(s, Holding)') + Cardinality(At(s, HoldingTwo)')
    BY DEF Held, Holding, HoldingTwo
<1> QED
    BY <1>1, <1>2, <1>3 DEF Held, Weight

LEMMA HeldNat ==
    ASSUME NEW s
    PROVE  Held(s) \in Nat
<1>1. IsFiniteSet(At(s, Holding)) /\ IsFiniteSet(At(s, HoldingTwo))
    BY ThreadsFinite, FS_Subset DEF At
<1> QED
    BY <1>1, FS_CardinalityType DEF Held

LEMMA GotoHeld ==
    ASSUME LocalType, NEW t \in Thread, NEW p, Goto(t, p), NEW s \in Slot
    PROVE  /\ Held(s) \in Nat
           /\ Held(s)' = IF s = slot[t]
                         THEN Held(s) - Weight(pc[t]) + Weight(p)
                         ELSE Held(s)
<1>1. \A v \in Thread \ {t} : pc'[v] = pc[v] /\ slot'[v] = slot[v]
    BY DEF Goto, Begin, LocalType, localVars
<1>2. pc'[t] = p /\ (p # "idle" => slot'[t] = slot[t])
    BY DEF Goto, Begin, LocalType, localVars
<1>3. Weight("idle") = 0 /\ Weight(p) \in 0 .. 2 /\ Weight(pc[t]) \in 0 .. 2
    BY Weights
<1> QED
    BY <1>1, <1>2, <1>3, HeldMoves

LEMMA BeginHeld ==
    ASSUME LocalType, NEW t \in Thread, Weight(pc[t]) = 0, NEW p,
           NEW a, NEW id, NEW o, Begin(t, p, a, id, o), NEW s \in Slot
    PROVE  /\ Held(s) \in Nat
           /\ Held(s)' = IF s = a THEN Held(s) + Weight(p) ELSE Held(s)
<1>1. \A v \in Thread \ {t} : pc'[v] = pc[v] /\ slot'[v] = slot[v]
    BY DEF Begin, LocalType
<1>2. pc'[t] = p /\ slot'[t] = a
    BY DEF Begin, LocalType
<1>3. Weight(p) \in 0 .. 2
    BY Weights
<1> QED
    BY <1>1, <1>2, <1>3, HeldMoves

LEMMA SameHeld ==
    ASSUME UNCHANGED <<pc, slot>>, NEW s \in Slot
    PROVE  Held(s)' = Held(s)
    BY DEF Held, At

-----------------------------------------------------------------------------
(* How a step changes the references that are under way.                   *)

Carrying == {"recvOk", "recvErr", "sendOk", "sendErr", "SENDPOST"}

LEMMA Counts ==
    ASSUME CountType, NEW r \in Slot, NEW s \in Slot
    PROVE  /\ IOcount[s] \in Int
           /\ AddRef(r) => IOcount'[s] = IF s = r THEN IOcount[s] + 1
                                                  ELSE IOcount[s]
           /\ DropRef(r) => IOcount'[s] = IF s = r THEN IOcount[s] - 1
                                                   ELSE IOcount[s]
    BY DEF CountType, AddRef, DropRef

LEMMA UnderWayNat ==
    ASSUME IoType, NEW s \in Slot
    PROVE  /\ recvIO[s] \in Nat /\ sendIO[s] \in Nat
           /\ \A port \in Port : Carried(port, s) \in Nat
           /\ UnderWay(s) \in Nat
    BY DEF IoType, Port, Completion, Carried, UnderWay

LEMMA SameUnderWay ==
    ASSUME UNCHANGED ioVars, NEW s \in Slot
    PROVE  UnderWay(s)' = UnderWay(s)
    BY DEF ioVars, UnderWay, Carried

LEMMA WithoutCarried ==
    ASSUME IoType, NEW r \in Slot, NEW c \in Completion, NEW s \in Slot
    PROVE  Carried(Without(r, c), s) =
               IF s = r /\ c \in Carrying THEN Carried(hcp, s) - 1
                                          ELSE Carried(hcp, s)
    BY DEF IoType, Port, Completion, Carrying, Carried, Without

LEMMA TakeUnderWay ==
    ASSUME IoType, NEW r \in Slot, NEW c \in Completion, NEW s \in Slot,
           Take(r, c), UNCHANGED <<recvIO, sendIO>>
    PROVE  UnderWay(s)' = IF s = r /\ c \in Carrying THEN UnderWay(s) - 1
                                                     ELSE UnderWay(s)
<1>1. UnderWay(s)' = recvIO[s] + sendIO[s] + Carried(Without(r, c), s)
    BY DEF UnderWay, Carried, Take
<1> QED
    BY <1>1, WithoutCarried, UnderWayNat DEF UnderWay, IoType

LEMMA PostUnderWay ==
    ASSUME IoType, NEW r \in Slot, NEW c \in Completion, NEW s \in Slot,
           Post(r, c), UNCHANGED <<recvIO, sendIO>>
    PROVE  UnderWay(s)' = IF s = r /\ c \in Carrying THEN UnderWay(s) + 1
                                                     ELSE UnderWay(s)
    BY DEF IoType, Port, Completion, Carrying, Carried, UnderWay, Post

\* Cancelling moves references from the kernel to the port: none is lost.
LEMMA CancelUnderWay ==
    ASSUME IoType, NEW r \in Slot, NEW kinds, NEW port \in Port,
           CancelIo(r, kinds, port), NEW s \in Slot
    PROVE  UnderWay(s)' = recvIO[s] + sendIO[s] + Carried(port, s)
<1> DEFINE pending(k, n) ==
               IF k \in kinds /\ sock[r] # "closed" THEN n ELSE 0
           a == pending("recv", recvIO[r])
           b == pending("send", sendIO[r])
<1>1. /\ recvIO' = [recvIO EXCEPT ![r] = @ - a]
      /\ sendIO' = [sendIO EXCEPT ![r] = @ - b]
      /\ hcp' = [port EXCEPT ![r]["recvErr"] = @ + a, ![r]["sendErr"] = @ + b]
    BY DEF CancelIo
<1>2. a \in Nat /\ b \in Nat
    BY DEF IoType
<1> HIDE DEF a, b
<1>3. recvIO'[s] + sendIO'[s] =
          recvIO[s] + sendIO[s] - (IF s = r THEN a + b ELSE 0)
    BY <1>1, <1>2 DEF IoType
<1>4. Carried(hcp', s) = Carried(port, s) + (IF s = r THEN a + b ELSE 0)
    BY <1>1, <1>2 DEF Port, Completion, Carried
<1>5. /\ Carried(port, s) \in Nat /\ recvIO[s] \in Nat /\ sendIO[s] \in Nat
      /\ recvIO'[s] \in Int /\ sendIO'[s] \in Int
    BY <1>1, <1>2, UnderWayNat DEF IoType
<1> QED
    BY <1>2, <1>3, <1>4, <1>5 DEF UnderWay, Carried

-----------------------------------------------------------------------------
(* RefAccounting is inductive: each step changes both sides of the         *)
(* equation by the same amount.                                            *)

Exact(s) == IOcount[s] = Held(s) + UnderWay(s) + leaked[s]

\* What every step starts from.
LEMMA Before ==
    ASSUME TypeOK, RefAccounting, NEW s \in Slot
    PROVE  /\ IOcount[s] = Held(s) + UnderWay(s) + leaked[s]
           /\ UnderWay(s) \in Nat /\ leaked[s] \in Nat /\ IOcount[s] \in Int
    BY UnderWayNat DEF TypeOK, RefAccounting, HistoryType, CountType

LEMMA InitExact == Init => RefAccounting
<1> SUFFICES ASSUME Init, NEW s \in Slot PROVE Exact(s)
    BY DEF RefAccounting, Exact
<1>1. At(s, Holding) = {} /\ At(s, HoldingTwo) = {}
    BY DEF Init, At, Holding, HoldingTwo
<1>2. Held(s) = 0
    BY <1>1, FS_EmptySet DEF Held
<1>3. UnderWay(s) = 0
    BY DEF Init, UnderWay, Carried, Completion
<1> QED
    BY <1>2, <1>3 DEF Init, Exact

\* A step that only looks moves between points of the same weight.
LEMMA LookExact ==
    ASSUME TypeOK, RefAccounting, NEW t \in Thread, NEW from, NEW to,
           Weight(from) = Weight(to), Look(t, from, to)
    PROVE  RefAccounting'
<1> SUFFICES ASSUME NEW s \in Slot PROVE Exact(s)'
    BY DEF RefAccounting, Exact
<1>1. Held(s)' = Held(s) /\ Held(s) \in Nat
    BY GotoHeld, Weights DEF TypeOK, Look
<1>2. UnderWay(s)' = UnderWay(s) /\ UNCHANGED <<IOcount, leaked>>
    BY SameUnderWay DEF Look, sharedVars, otherVars, historyVars
<1> QED
    BY <1>1, <1>2, Before DEF Exact

\* A step that moves its thread, leaves what is under way alone, and takes or
\* drops a reference when the weight of its point says so.
LEMMA MoveExact ==
    ASSUME TypeOK, RefAccounting, NEW t \in Thread, NEW to, Goto(t, to),
           UNCHANGED <<ioVars, leaked>>,
           \/ UNCHANGED IOcount /\ Weight(to) = Weight(pc[t])
           \/ AddRef(slot[t]) /\ Weight(to) = Weight(pc[t]) + 1
           \/ DropRef(slot[t]) /\ Weight(to) = Weight(pc[t]) - 1
    PROVE  RefAccounting'
<1> DEFINE r == slot[t]
<1> SUFFICES ASSUME NEW s \in Slot PROVE Exact(s)'
    BY DEF RefAccounting, Exact
<1>r. r \in Slot
    BY DEF TypeOK, LocalType
<1>1. /\ Held(s) \in Nat
      /\ Held(s)' = IF s = r THEN Held(s) - Weight(pc[t]) + Weight(to)
                             ELSE Held(s)
    BY GotoHeld DEF TypeOK
<1>2. UnderWay(s)' = UnderWay(s) /\ leaked'[s] = leaked[s]
    BY SameUnderWay
<1>3. Weight(pc[t]) \in 0 .. 2 /\ Weight(to) \in 0 .. 2
    BY Weights
<1>4. IOcount'[s] = IF s = r THEN IOcount[s] - Weight(pc[t]) + Weight(to)
                             ELSE IOcount[s]
    BY <1>r, <1>3, Counts DEF TypeOK
<1> QED
    BY <1>1, <1>2, <1>3, <1>4, Before DEF Exact

LEMMA AcceptExact ==
    ASSUME TypeOK, RefAccounting, NEW i \in Slot, Accept(i)
    PROVE  RefAccounting'
<1> SUFFICES ASSUME NEW s \in Slot PROVE Exact(s)'
    BY DEF RefAccounting, Exact
<1>1. Held(s)' = Held(s) /\ Held(s) \in Nat
    BY BeginHeld, Weights DEF TypeOK, Accept, Thread
<1>2. UnderWay(s)' = UnderWay(s) /\ UNCHANGED <<IOcount, leaked>>
    BY SameUnderWay DEF Accept, historyVars
<1> QED
    BY <1>1, <1>2, Before DEF Exact

LEMMA AcceptStepExact ==
    ASSUME TypeOK, RefAccounting, AcceptStep
    PROVE  RefAccounting'
<1>t. Acceptor \in Thread
    BY DEF Thread
<1>1. CASE AcceptRef
    BY <1>1, <1>t, MoveExact, Weights DEF AcceptRef, otherVars, historyVars
<1>2. CASE AcceptValid
    BY <1>2, <1>t, MoveExact, Weights DEF AcceptValid, otherVars, historyVars
<1>3. CASE AcceptFlag
    BY <1>3, <1>t, MoveExact, Weights DEF AcceptFlag, otherVars, historyVars
<1>4. CASE AcceptReset
    BY <1>4, <1>t, MoveExact, Weights DEF AcceptReset, otherVars, historyVars
<1>5. CASE AcceptJoin
    BY <1>5, <1>t, MoveExact, Weights DEF AcceptJoin, historyVars
<1>6. CASE AcceptRecv
  <2> DEFINE r == slot[Acceptor]
  <2>1. CASE DropRef(r) /\ UNCHANGED recvIO
      BY <1>6, <1>t, <2>1, MoveExact, Weights
         DEF AcceptRecv, otherVars, historyVars, ioVars
  <2>2. CASE recvIO' = [recvIO EXCEPT ![r] = @ + 1] /\ UNCHANGED IOcount
    <3> SUFFICES ASSUME NEW s \in Slot PROVE Exact(s)'
        BY DEF RefAccounting, Exact
    <3>1. /\ Held(s) \in Nat
          /\ Held(s)' = IF s = r THEN Held(s) - 1 ELSE Held(s)
        BY <1>6, <1>t, GotoHeld, Weights DEF TypeOK, AcceptRecv
    <3>2. UnderWay(s)' = IF s = r THEN UnderWay(s) + 1 ELSE UnderWay(s)
      <4>1. Carried(hcp, s)' = Carried(hcp, s) /\ sendIO' = sendIO
          BY <1>6 DEF AcceptRecv, Carried
      <4>2. Carried(hcp, s) \in Nat /\ sendIO[s] \in Nat
          BY UnderWayNat DEF TypeOK, IoType
      <4> QED
          BY <2>2, <4>1, <4>2 DEF TypeOK, IoType, UnderWay
    <3>3. UNCHANGED <<IOcount, leaked>>
        BY <1>6, <2>2 DEF AcceptRecv, otherVars, historyVars
    <3> QED
        BY <3>1, <3>2, <3>3, Before DEF Exact
  <2> QED
      BY <1>6, <2>1, <2>2 DEF AcceptRecv
<1> QED
    BY <1>1, <1>2, <1>3, <1>4, <1>5, <1>6 DEF AcceptStep

LEMMA PeerExact ==
    ASSUME TypeOK, RefAccounting, NEW r \in Slot, Complete(r) \/ PeerReset(r)
    PROVE  RefAccounting'
<1> SUFFICES ASSUME NEW s \in Slot PROVE Exact(s)'
    BY DEF RefAccounting, Exact
<1>1. Held(s)' = Held(s) /\ UNCHANGED <<IOcount, leaked>>
    BY SameHeld
       DEF Complete, PeerReset, localVars, otherVars, historyVars
<1>2. UnderWay(s)' = UnderWay(s)
  <2>1. CASE Complete(r)
    <3>1. PICK c \in {"recvOk", "recvErr", "sendOk"} : Post(r, c)
        BY <2>1 DEF Complete
    <3>2. Carried(hcp, s)' = Carried(hcp, s) + (IF s = r THEN 1 ELSE 0)
        BY <3>1 DEF TypeOK, IoType, Port, Completion, Carried, Post
    <3>3. Carried(hcp, s) \in Nat
        BY UnderWayNat DEF TypeOK, IoType
    <3>4. recvIO'[s] + sendIO'[s] =
              recvIO[s] + sendIO[s] - (IF s = r THEN 1 ELSE 0)
        BY <2>1 DEF TypeOK, IoType, Complete
    <3>5. recvIO'[s] \in Int /\ sendIO'[s] \in Int
        BY <2>1 DEF TypeOK, IoType, Complete
    <3> QED
        BY <3>2, <3>3, <3>4, <3>5 DEF TypeOK, IoType, UnderWay
  <2>2. CASE PeerReset(r)
      BY <2>2, CancelUnderWay
         DEF TypeOK, IoType, PeerReset, CancelAll, UnderWay
  <2> QED
      BY <2>1, <2>2
<1> QED
    BY <1>1, <1>2, Before DEF Exact

\* A worker that takes a completion takes over its reference, or drops it.
LEMMA TakeCompletionExact ==
    ASSUME TypeOK, RefAccounting, NEW w \in Workers, NEW r \in Slot,
           TakeCompletion(w, r)
    PROVE  RefAccounting'
<1> SUFFICES ASSUME NEW s \in Slot PROVE Exact(s)'
    BY DEF RefAccounting, Exact
<1>w. w \in Thread
    BY DEF Thread
<1>c. /\ Carrying \subseteq Completion
      /\ {"RELEASE", "LEAVE"} \subseteq Completion \ Carrying
    BY DEF Carrying, Completion
<1>l. leaked' = leaked
    BY DEF TakeCompletion, RecvDone, SendDone, IoFailed, SendRequested,
           ReleaseRequested, LeaveDone, otherVars, historyVars
<1>h. Held(s) \in Nat
    BY HeldNat
<1>d. ASSUME NEW c \in Carrying, Disconnect(r, Without(r, c)), hcp[r][c] > 0
      PROVE  UnderWay(s)' = IF s = r THEN UnderWay(s) - 1 ELSE UnderWay(s)
  <2>1. UnderWay(s)' = recvIO[s] + sendIO[s] + Carried(Without(r, c), s)
      BY <1>c, <1>d, PortTypes, CancelUnderWay DEF TypeOK, Disconnect
  <2>2. Carried(Without(r, c), s) =
            IF s = r THEN Carried(hcp, s) - 1 ELSE Carried(hcp, s)
      BY <1>c, WithoutCarried DEF TypeOK
  <2>3. /\ recvIO[s] \in Nat /\ sendIO[s] \in Nat
        /\ Carried(hcp, s) \in Nat
      BY UnderWayNat DEF TypeOK, IoType
  <2>4. UnderWay(s) = recvIO[s] + sendIO[s] + Carried(hcp, s)
      BY DEF UnderWay
  <2> QED
      BY <2>1, <2>2, <2>3, <2>4
<1>1. CASE RecvDone(w, r)
  <2>1. Held(s)' = IF s = r THEN Held(s) + 1 ELSE Held(s)
      BY <1>1, <1>w, BeginHeld, Weights DEF TypeOK, RecvDone
  <2>2. UnderWay(s)' = IF s = r THEN UnderWay(s) - 1 ELSE UnderWay(s)
      BY <1>1, <1>c, <1>d, TakeUnderWay DEF TypeOK, RecvDone, Carrying
  <2> QED
      BY <1>1, <1>l, <1>h, <2>1, <2>2, Before DEF RecvDone, Exact
<1>2. CASE SendDone(w, r)
  <2>1. Held(s)' = IF s = r THEN Held(s) + 1 ELSE Held(s)
      BY <1>2, <1>w, BeginHeld, Weights DEF TypeOK, SendDone
  <2>2. UnderWay(s)' = IF s = r THEN UnderWay(s) - 1 ELSE UnderWay(s)
      BY <1>2, <1>c, <1>d, TakeUnderWay DEF TypeOK, SendDone, Carrying
  <2> QED
      BY <1>2, <1>l, <1>h, <2>1, <2>2, Before DEF SendDone, Exact
<1>3. ASSUME NEW c \in Completion, IoFailed(w, r, c) PROVE Exact(s)'
  <2>1. Held(s)' = Held(s)
      BY <1>3, <1>w, BeginHeld, SameHeld, Weights
         DEF TypeOK, IoFailed, localVars
  <2>2. UnderWay(s)' = IF s = r THEN UnderWay(s) - 1 ELSE UnderWay(s)
      BY <1>3, <1>c, TakeUnderWay DEF TypeOK, IoFailed, Carrying
  <2>3. IOcount'[s] = IF s = r THEN IOcount[s] - 1 ELSE IOcount[s]
      BY <1>3, Counts DEF TypeOK, IoFailed
  <2> QED
      BY <1>l, <1>h, <2>1, <2>2, <2>3, Before DEF Exact
<1>4. CASE SendRequested(w, r)
  <2>1. Held(s)' = IF s = r THEN Held(s) + 1 ELSE Held(s)
      BY <1>4, <1>w, BeginHeld, Weights DEF TypeOK, SendRequested
  <2>2. UnderWay(s)' = IF s = r THEN UnderWay(s) - 1 ELSE UnderWay(s)
      BY <1>4, <1>c, TakeUnderWay DEF TypeOK, SendRequested, Carrying
  <2> QED
      BY <1>4, <1>l, <1>h, <2>1, <2>2, Before DEF SendRequested, Exact
<1>5. CASE ReleaseRequested(w, r)
  <2>1. Held(s)' = Held(s)
      BY <1>5, <1>w, BeginHeld, Weights DEF TypeOK, ReleaseRequested
  <2>2. UnderWay(s)' = UnderWay(s)
      BY <1>5, <1>c, TakeUnderWay DEF TypeOK, ReleaseRequested
  <2> QED
      BY <1>5, <1>l, <1>h, <2>1, <2>2, Before DEF ReleaseRequested, Exact
<1>6. CASE LeaveDone(w, r)
  <2>1. Held(s)' = Held(s)
      BY <1>6, SameHeld DEF LeaveDone, localVars
  <2>2. UnderWay(s)' = UnderWay(s)
      BY <1>6, <1>c, TakeUnderWay DEF TypeOK, LeaveDone
  <2> QED
      BY <1>6, <1>l, <1>h, <2>1, <2>2, Before DEF LeaveDone, Exact
<1> QED
    BY <1>1, <1>2, <1>3, <1>4, <1>5, <1>6 DEF TakeCompletion

\* A thread that moves and cancels keeps the sum of kernel and port.
LEMMA CancelExact ==
    ASSUME TypeOK, RefAccounting, NEW t \in Thread, NEW to, Goto(t, to),
           NEW kinds, CancelIo(slot[t], kinds, hcp), UNCHANGED leaked,
           \/ UNCHANGED IOcount /\ Weight(to) = Weight(pc[t])
           \/ DropRef(slot[t]) /\ Weight(to) = Weight(pc[t]) - 1
    PROVE  RefAccounting'
<1> DEFINE r == slot[t]
<1> SUFFICES ASSUME NEW s \in Slot PROVE Exact(s)'
    BY DEF RefAccounting, Exact
<1>r. r \in Slot
    BY DEF TypeOK, LocalType
<1>1. /\ Held(s) \in Nat
      /\ Held(s)' = IF s = r THEN Held(s) - Weight(pc[t]) + Weight(to)
                             ELSE Held(s)
    BY GotoHeld DEF TypeOK
<1>2. UnderWay(s)' = UnderWay(s)
    BY <1>r, CancelUnderWay DEF TypeOK, IoType, UnderWay
<1>3. Weight(pc[t]) \in 0 .. 2 /\ Weight(to) \in 0 .. 2
    BY Weights
<1>4. IOcount'[s] = IF s = r THEN IOcount[s] - Weight(pc[t]) + Weight(to)
                             ELSE IOcount[s]
    BY <1>r, <1>3, Counts DEF TypeOK
<1> QED
    BY <1>1, <1>2, <1>3, <1>4, Before DEF Exact

\* A reference is handed to the kernel, or to the port, by the thread that
\* holds it.
LEMMA HandOver ==
    ASSUME TypeOK, RefAccounting, NEW t \in Thread, NEW to, Goto(t, to),
           Weight(to) = Weight(pc[t]) - 1, UNCHANGED <<IOcount, leaked>>,
           \/ /\ recvIO' = [recvIO EXCEPT ![slot[t]] = @ + 1]
              /\ UNCHANGED <<sendIO, hcp>>
           \/ /\ sendIO' = [sendIO EXCEPT ![slot[t]] = @ + 1]
              /\ UNCHANGED <<recvIO, hcp>>
    PROVE  RefAccounting'
<1> DEFINE r == slot[t]
<1> SUFFICES ASSUME NEW s \in Slot PROVE Exact(s)'
    BY DEF RefAccounting, Exact
<1>r. r \in Slot
    BY DEF TypeOK, LocalType
<1>1. /\ Held(s) \in Nat
      /\ Held(s)' = IF s = r THEN Held(s) - 1 ELSE Held(s)
    BY GotoHeld, Weights DEF TypeOK
<1>2. UnderWay(s)' = IF s = r THEN UnderWay(s) + 1 ELSE UnderWay(s)
  <2>1. Carried(hcp, s)' = Carried(hcp, s) /\ Carried(hcp, s) \in Nat
      BY UnderWayNat DEF TypeOK, IoType, Carried
  <2>2. /\ recvIO'[s] + sendIO'[s] =
               recvIO[s] + sendIO[s] + (IF s = r THEN 1 ELSE 0)
        /\ recvIO'[s] \in Nat /\ sendIO'[s] \in Nat
      BY <1>r DEF TypeOK, IoType
  <2> QED
      BY <2>1, <2>2 DEF TypeOK, IoType, UnderWay
<1> QED
    BY <1>1, <1>2, Before DEF Exact

LEMMA RecvPostExact ==
    ASSUME TypeOK, RefAccounting, NEW w \in Workers, RecvPost(w)
    PROVE  RefAccounting'
<1>w. w \in Thread
    BY DEF Thread
<1>1. CASE RecvPostCheck(w)
    BY <1>1, <1>w, MoveExact, Weights
       DEF RecvPostCheck, otherVars, historyVars
<1>2. CASE RecvPostRecv(w)
  <2>1. CASE recvIO' = [recvIO EXCEPT ![slot[w]] = @ + 1] /\ UNCHANGED IOcount
    <3>1. Goto(w, "rp.cancel") /\ Weight("rp.cancel") = Weight(pc[w]) - 1
        BY <1>2, Weights DEF RecvPostRecv
    <3>2. UNCHANGED <<sendIO, hcp, IOcount, leaked>>
        BY <1>2, <2>1 DEF RecvPostRecv, otherVars, historyVars
    <3> QED
        BY <1>w, <2>1, <3>1, <3>2, HandOver
  <2>2. CASE DropRef(slot[w]) /\ UNCHANGED recvIO
      BY <1>2, <1>w, <2>2, MoveExact, Weights
         DEF RecvPostRecv, otherVars, historyVars, ioVars
  <2> QED
      BY <1>2, <2>1, <2>2 DEF RecvPostRecv
<1>3. CASE RecvPostCancel(w)
    BY <1>3, <1>w, MoveExact, CancelExact, Weights
       DEF RecvPostCancel, otherVars, historyVars
<1> QED
    BY <1>1, <1>2, <1>3 DEF RecvPost

LEMMA SendPostExact ==
    ASSUME TypeOK, RefAccounting, NEW w \in Workers, SendPost(w)
    PROVE  RefAccounting'
<1>w. w \in Thread
    BY DEF Thread
<1>1. CASE SendPostFlag(w)
    BY <1>1, <1>w, MoveExact, Weights
       DEF SendPostFlag, otherVars, historyVars
<1>2. CASE SendPostLook(w)
    BY <1>2, <1>w, LookExact, Weights DEF SendPostLook
<1>3. CASE SendPostUnflag(w)
    BY <1>3, <1>w, MoveExact, Weights
       DEF SendPostUnflag, otherVars, historyVars
<1>4. CASE SendPostTake(w)
    BY <1>4, <1>w, MoveExact, Weights
       DEF SendPostTake, otherVars, historyVars
<1>5. CASE SendPostSend(w)
  <2>1. CASE /\ sendIO' = [sendIO EXCEPT ![slot[w]] = @ + 1]
             /\ Goto(w, "sp.cancel")
    <3>1. Weight("sp.cancel") = Weight(pc[w]) - 1
        BY <1>5, Weights DEF SendPostSend
    <3>2. UNCHANGED <<recvIO, hcp, IOcount, leaked>>
        BY <1>5 DEF SendPostSend, otherVars, historyVars
    <3> QED
        BY <1>w, <2>1, <3>1, <3>2, HandOver
  <2>2. CASE Goto(w, "sp.fail") /\ UNCHANGED sendIO
      BY <1>5, <1>w, <2>2, MoveExact, Weights
         DEF SendPostSend, otherVars, historyVars, ioVars
  <2> QED
      BY <1>5, <2>1, <2>2 DEF SendPostSend
<1>6. CASE SendPostFail(w)
    BY <1>6, <1>w, CancelExact, Weights
       DEF SendPostFail, Disconnect, otherVars, historyVars
<1>7. CASE SendPostCancel(w)
    BY <1>7, <1>w, MoveExact, CancelExact, Weights
       DEF SendPostCancel, otherVars, historyVars
<1> QED
    BY <1>1, <1>2, <1>3, <1>4, <1>5, <1>6, <1>7 DEF SendPost

LEMMA ReleaseExact ==
    ASSUME TypeOK, RefAccounting, NEW w \in Workers, ReleaseSession(w)
    PROVE  RefAccounting'
<1>w. w \in Thread
    BY DEF Thread
<1>1. CASE ReleaseValid(w)
    BY <1>1, <1>w, LookExact, Weights DEF ReleaseValid
<1>2. CASE ReleaseCount(w)
  <2> SUFFICES ASSUME NEW s \in Slot PROVE Exact(s)'
      BY DEF RefAccounting, Exact
  <2>1. /\ \A v \in Thread \ {w} : pc'[v] = pc[v] /\ slot'[v] = slot[v]
        /\ pc[w] = "r.count" /\ pc'[w] = "r.cas"
      BY <1>2, <1>w DEF TypeOK, LocalType, ReleaseCount
  <2>2. Held(s)' = Held(s)
      BY <1>w, <2>1, HeldMoves, Weights
  <2>3. UnderWay(s)' = UnderWay(s) /\ UNCHANGED <<IOcount, leaked>>
      BY <1>2, SameUnderWay
         DEF ReleaseCount, sharedVars, otherVars, historyVars
  <2> QED
      BY <2>2, <2>3, Before DEF Exact
<1>3. CASE ReleaseCas(w)
    BY <1>3, <1>w, MoveExact, Weights DEF ReleaseCas
<1>4. CASE ReleaseID(w)
  <2>1. CASE Goto(w, "r.close") /\ UNCHANGED IOcount
      BY <1>4, <1>w, <2>1, MoveExact, Weights
         DEF ReleaseID, otherVars, historyVars
  <2>2. CASE /\ AddRef(slot[w])
             /\ Begin(w, "r.off", slot[w], sessionID[slot[w]], "none")
    <3> SUFFICES ASSUME NEW s \in Slot PROVE Exact(s)'
        BY DEF RefAccounting, Exact
    <3>r. slot[w] \in Slot
        BY <1>w DEF TypeOK, LocalType
    <3>1. Held(s)' = IF s = slot[w] THEN Held(s) + 1 ELSE Held(s)
        BY <1>4, <1>w, <2>2, BeginHeld, Weights DEF TypeOK, ReleaseID
    <3>2. UnderWay(s)' = UnderWay(s) /\ UNCHANGED leaked
        BY <1>4, SameUnderWay DEF ReleaseID, otherVars, historyVars
    <3>3. IOcount'[s] = IF s = slot[w] THEN IOcount[s] + 1 ELSE IOcount[s]
        BY <2>2, <3>r, Counts DEF TypeOK
    <3> QED
        BY <3>1, <3>2, <3>3, HeldNat, Before DEF Exact
  <2> QED
      BY <1>4, <2>1, <2>2 DEF ReleaseID
<1>5. CASE ReleaseOff(w)
    BY <1>5, <1>w, MoveExact, Weights DEF ReleaseOff, otherVars, historyVars
<1>6. CASE ReleaseUndo(w)
    BY <1>6, <1>w, MoveExact, Weights DEF ReleaseUndo, otherVars, historyVars
<1>7. CASE ReleaseClose(w)
    BY <1>7, <1>w, CancelExact, Weights
       DEF ReleaseClose, CancelAll, otherVars, historyVars
<1>8. CASE ReleaseLeave(w)
    BY <1>8, <1>w, MoveExact, Weights DEF ReleaseLeave, historyVars
<1> QED
    BY <1>1, <1>2, <1>3, <1>4, <1>5, <1>6, <1>7, <1>8 DEF ReleaseSession

LEMMA WorkerStepExact ==
    ASSUME TypeOK, RefAccounting, NEW w \in Workers, WorkerStep(w)
    PROVE  RefAccounting'
<1>w. w \in Thread
    BY DEF Thread
<1>1. CASE SentUnflag(w)
    BY <1>1, <1>w, MoveExact, Weights DEF SentUnflag, otherVars, historyVars
<1>2. CASE SentMore(w)
    BY <1>2, <1>w, LookExact, Weights DEF SentMore
<1>3. CASE WorkerDeref(w)
    BY <1>3, <1>w, MoveExact, Weights DEF WorkerDeref, otherVars, historyVars
<1>4. CASE ReadID(w)
  <2> SUFFICES ASSUME NEW s \in Slot PROVE Exact(s)'
      BY DEF RefAccounting, Exact
  <2>1. Held(s)' = Held(s)
      BY <1>4, <1>w, BeginHeld, HeldNat, Weights DEF TypeOK, ReadID
  <2>2. UnderWay(s)' = UnderWay(s) /\ UNCHANGED <<IOcount, leaked>>
      BY <1>4, SameUnderWay DEF ReadID, sharedVars, otherVars, historyVars
  <2> QED
      BY <2>1, <2>2, Before DEF Exact
<1> QED
    BY <1>1, <1>2, <1>3, <1>4, RecvPostExact, SendPostExact, ReleaseExact
       DEF WorkerStep

LEMMA FindValidExact ==
    ASSUME TypeOK, RefAccounting, NEW u \in Thread, pc[u] = "idle",
           NEW id \in SessionID, NEW o, FindValid(u, id, o)
    PROVE  RefAccounting'
<1> SUFFICES ASSUME NEW s \in Slot PROVE Exact(s)'
    BY DEF RefAccounting, Exact
<1>1. Held(s)' = Held(s)
    BY BeginHeld, SameHeld, HeldNat, Weights DEF TypeOK, FindValid, localVars
<1>2. UnderWay(s)' = UnderWay(s) /\ UNCHANGED <<IOcount, leaked>>
    BY SameUnderWay DEF FindValid, sharedVars, otherVars, historyVars
<1> QED
    BY <1>1, <1>2, Before DEF Exact

LEMMA CallStepExact ==
    ASSUME TypeOK, RefAccounting, NEW u \in Users \cup UdpThreads, CallStep(u)
    PROVE  RefAccounting'
<1>u. u \in Thread /\ slot[u] \in Slot
    BY DEF Thread, TypeOK, LocalType
<1>c. "RELEASE" \in Completion \ Carrying /\ "SENDPOST" \in Completion
      /\ "SENDPOST" \in Carrying
    BY DEF Completion, Carrying
<1>1. CASE FindRef(u)
    BY <1>1, <1>u, MoveExact, Weights DEF FindRef, otherVars, historyVars
<1>2. CASE FindFlag(u)
    BY <1>2, <1>u, LookExact, Weights DEF FindFlag
<1>3. CASE FindID(u)
    BY <1>3, <1>u, LookExact, Weights DEF FindID, Body
<1>4. CASE UserDeref(u)
  <2> SUFFICES ASSUME NEW s \in Slot PROVE Exact(s)'
      BY DEF RefAccounting, Exact
  <2>1. Held(s)' = IF s = slot[u] THEN Held(s) - 1 ELSE Held(s)
      BY <1>4, <1>u, GotoHeld, HeldNat, Weights DEF TypeOK, UserDeref
  <2>2. UnderWay(s)' = UnderWay(s)
    <3>1. CASE Post(slot[u], "RELEASE")
        BY <1>4, <1>u, <1>c, <3>1, PostUnderWay DEF TypeOK, UserDeref
    <3>2. CASE UNCHANGED hcp
        BY <1>4, <3>2, SameUnderWay DEF UserDeref, ioVars
    <3> QED
        BY <1>4, <3>1, <3>2 DEF UserDeref
  <2>3. IOcount'[s] = IF s = slot[u] THEN IOcount[s] - 1 ELSE IOcount[s]
      BY <1>4, <1>u, Counts DEF TypeOK, UserDeref
  <2>4. leaked' = leaked
      BY <1>4 DEF UserDeref, otherVars, historyVars
  <2> QED
      BY <2>1, <2>2, <2>3, <2>4, HeldNat, Before DEF Exact
<1>5. CASE SendPacketEnqueue(u)
    BY <1>5, <1>u, MoveExact, Weights
       DEF SendPacketEnqueue, otherVars, historyVars
<1>6. CASE SendPacketLast(u)
    BY <1>6, <1>u, MoveExact, Weights
       DEF SendPacketLast, otherVars, historyVars
<1>7. CASE SendPacketPost(u)
  <2> SUFFICES ASSUME NEW s \in Slot PROVE Exact(s)'
      BY DEF RefAccounting, Exact
  <2>1. Held(s)' = Held(s)
      BY <1>7, <1>u, GotoHeld, HeldNat, Weights DEF TypeOK, SendPacketPost
  <2>2. leaked' = leaked
      BY <1>7 DEF SendPacketPost, otherVars, historyVars
  <2>3. CASE AddRef(slot[u]) /\ Post(slot[u], "SENDPOST")
    <3>1. UnderWay(s)' =
              IF s = slot[u] THEN UnderWay(s) + 1 ELSE UnderWay(s)
        BY <1>7, <1>u, <1>c, <2>3, PostUnderWay DEF TypeOK, SendPacketPost
    <3>2. IOcount'[s] = IF s = slot[u] THEN IOcount[s] + 1 ELSE IOcount[s]
        BY <1>u, <2>3, Counts DEF TypeOK
    <3> QED
        BY <2>1, <2>2, <3>1, <3>2, HeldNat, Before DEF Exact
  <2>4. CASE UNCHANGED <<IOcount, hcp>>
    <3>1. UnderWay(s)' = UnderWay(s)
        BY <1>7, <2>4, SameUnderWay DEF SendPacketPost, ioVars
    <3> QED
        BY <2>1, <2>2, <2>4, <3>1, Before DEF Exact
  <2> QED
      BY <1>7, <2>3, <2>4 DEF SendPacketPost
<1>8. CASE DisconnectCut(u)
    BY <1>8, <1>u, CancelExact, Weights
       DEF DisconnectCut, Disconnect, otherVars, historyVars
<1>9. CASE GetUDPRead(u)
  <2>1. CASE Goto(u, "u.deref") /\ UNCHANGED leaked
      BY <1>9, <1>u, <2>1, MoveExact, Weights DEF GetUDPRead
  <2>2. CASE /\ Goto(u, "idle")
             /\ leaked' = [leaked EXCEPT ![slot[u]] = @ + 1]
    <3> SUFFICES ASSUME NEW s \in Slot PROVE Exact(s)'
        BY DEF RefAccounting, Exact
    <3>1. Held(s)' = IF s = slot[u] THEN Held(s) - 1 ELSE Held(s)
        BY <1>9, <1>u, <2>2, GotoHeld, HeldNat, Weights
           DEF TypeOK, GetUDPRead
    <3>2. UnderWay(s)' = UnderWay(s) /\ UNCHANGED IOcount
        BY <1>9, SameUnderWay DEF GetUDPRead
    <3>3. leaked'[s] = IF s = slot[u] THEN leaked[s] + 1 ELSE leaked[s]
        BY <1>u, <2>2 DEF TypeOK, HistoryType
    <3> QED
        BY <3>1, <3>2, <3>3, HeldNat, Before DEF Exact
  <2> QED
      BY <1>9, <2>1, <2>2 DEF GetUDPRead
<1>10. CASE UdpWrite(u)
    BY <1>10, <1>u, MoveExact, Weights DEF UdpWrite, otherVars, historyVars
<1> QED
    BY <1>1, <1>2, <1>3, <1>4, <1>5, <1>6, <1>7, <1>8, <1>9, <1>10
       DEF CallStep

LEMMA HandleJobsExact ==
    ASSUME TypeOK, RefAccounting, NEW u \in Users, NEW id \in SessionID,
           HandleJobs(u, id)
    PROVE  RefAccounting'
<1> SUFFICES ASSUME NEW s \in Slot PROVE Exact(s)'
    BY DEF RefAccounting, Exact
<1>1. Held(s)' = Held(s) /\ UNCHANGED <<IOcount, leaked>>
    BY SameHeld DEF HandleJobs, localVars, historyVars
<1>2. UnderWay(s)' = UnderWay(s)
  <2>1. PICK ended : hcp' = [hcp EXCEPT ![IndexOf(id)]["LEAVE"] = @ + ended]
      BY DEF HandleJobs
  <2>2. \A c \in Carrying : hcp'[s][c] = hcp[s][c]
      BY <2>1, Constants DEF TypeOK, IoType, Port, Completion, Carrying
  <2> QED
      BY <2>2 DEF HandleJobs, UnderWay, Carried, Carrying
<1> QED
    BY <1>1, <1>2, Before DEF Exact

LEMMA NextExact ==
    ASSUME TypeOK, RefAccounting, [Next]_vars
    PROVE  RefAccounting'
<1>1. CASE UNCHANGED vars
  <2> SUFFICES ASSUME NEW s \in Slot PROVE Exact(s)'
      BY DEF RefAccounting, Exact
  <2>1. Held(s)' = Held(s)
      BY <1>1, SameHeld DEF vars, localVars
  <2>2. UnderWay(s)' = UnderWay(s) /\ UNCHANGED <<IOcount, leaked>>
      BY <1>1, SameUnderWay DEF vars, sharedVars, otherVars, historyVars
  <2> QED
      BY <2>1, <2>2, Before DEF Exact
<1>2. CASE \E u \in Users, id \in SessionID :
               HandleJobs(u, id) \/ \E o \in AllCalls : UserCall(u, id, o)
    BY <1>2, HandleJobsExact, FindValidExact DEF UserCall, Thread
<1>3. CASE \E u \in UdpThreads, id \in SessionID : UdpReceive(u, id)
    BY <1>3, FindValidExact DEF UdpReceive, Thread
<1> QED
    BY <1>1, <1>2, <1>3, AcceptExact, AcceptStepExact, PeerExact,
       TakeCompletionExact, WorkerStepExact, CallStepExact DEF Next

\* The reference count that keeps a session alive (st_Session.IOcount) is
\* exact in every reachable state: no step of any thread, in any order, drops
\* a reference twice or forgets one, except those getUDPAddress leaks.
THEOREM RefExact == Spec => []RefAccounting
<1>1. Init => RefAccounting
    BY InitExact
<1>2. TypeOK /\ RefAccounting /\ [Next]_vars => RefAccounting'
    BY NextExact
<1> QED
    BY <1>1, <1>2, TypeCorrect, PTL DEF Spec

\* What releaseSession logs as a wrong use of IOcount (CNetServer.cpp, line
\* 480): a count below 0.  At -1 it would equal DELFLAG_ON, and the swap would
\* succeed on a session that is being released already.
CountNotNegative == \A s \in Slot : IOcount[s] >= 0

\* releaseSession never reads a wrong count: the error it logs is unreachable.
THEOREM CountNeverNegative == Spec => []CountNotNegative
<1>1. TypeOK /\ RefAccounting => CountNotNegative
  <2> SUFFICES ASSUME TypeOK, RefAccounting, NEW s \in Slot
               PROVE  IOcount[s] >= 0
      BY DEF CountNotNegative
  <2> QED
      BY Before, HeldNat
<1> QED
    BY <1>1, TypeCorrect, RefExact, PTL
=============================================================================
