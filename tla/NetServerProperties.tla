------------------------- MODULE NetServerProperties -------------------------
(***************************************************************************)
(* What makes the session engine of NetServer correct: its type invariant, *)
(* safety invariants and liveness.                                         *)
(***************************************************************************)
EXTENDS NetServer

ControlPoint ==
    {"idle", "a.ref", "a.valid", "a.flag", "a.reset", "a.join", "a.recv",
     "rp.check", "rp.recv", "rp.cancel", "sp.flag", "sp.look", "sp.unflag",
     "sp.take", "sp.send", "sp.fail", "sp.cancel", "w.unflag", "w.more",
     "w.deref", "w.readid", "r.valid", "r.count", "r.cas", "r.id", "r.off",
     "r.undo", "r.close", "r.leave", "f.ref", "f.flag", "f.id", "s.enq",
     "s.last", "s.post", "d.cut", "g.read", "p.write", "u.deref"}

Operation == AllCalls \cup {"none", "open", "closed", "udp"}

\* The types, one part for each group of variables of NetServer.
Port == [Slot -> [Completion -> Nat]]

IdType ==
    /\ sessionID \in [Slot -> SessionID]
    /\ sessionAllocNum \in 0 .. MaxAlloc
    /\ emptyIndexStack \in [Slot -> Nat]
FlagType ==
    /\ isValid \in [Slot -> BOOLEAN]
    /\ releaseFlag \in [Slot -> {DELFLAG_OFF, DELFLAG_ON}]
CountType == IOcount \in [Slot -> Int]
ConnType ==
    /\ disconnectStep \in [Slot -> Step]
    /\ sock \in [Slot -> {"open", "reset", "closed"}]
    /\ udpKnown \in [Slot -> BOOLEAN]
SendType ==
    /\ sendFlag \in [Slot -> {0, 1}]
    /\ sendQueue \in [Slot -> Seq(Packet)]
    /\ sentPacketArray \in [Slot -> Seq(Packet)]
IoType == recvIO \in [Slot -> Nat] /\ sendIO \in [Slot -> Nat] /\ hcp \in Port
ContentType ==
    /\ JobQueue \in [Slot -> Seq(Job)]
    /\ players \subseteq SessionID /\ issued \subseteq SessionID
LocalType ==
    /\ pc \in [Thread -> ControlPoint]
    /\ slot \in [Thread -> Slot]
    /\ sid \in [Thread -> SessionID]
    /\ tempCount \in [Thread -> Int]
    /\ op \in [Thread -> Operation]
HistoryType == leaked \in [Slot -> Nat] /\ raced \in BOOLEAN

\* Every variable has the type of the field it stands for.  IOcount is a
\* LONG: that it is never negative is RefAccounting's business.
TypeOK == /\ IdType /\ FlagType /\ CountType /\ ConnType /\ SendType
          /\ IoType /\ ContentType /\ LocalType /\ HistoryType

\* The threads at work on a slot, at one of the given points.
At(s, points) == {t \in Thread : slot[t] = s /\ pc[t] \in points}

\* Where a thread holds one reference to its slot, and where it holds two.
Holding ==
    {"a.valid", "a.flag", "a.reset", "a.join", "a.recv", "rp.check",
     "rp.recv", "rp.cancel", "sp.flag", "sp.look", "sp.unflag", "sp.take",
     "sp.send", "sp.fail", "sp.cancel", "w.unflag", "w.more", "w.deref",
     "r.off", "r.undo", "f.flag", "f.id", "s.enq", "s.last", "s.post",
     "d.cut", "g.read", "p.write", "u.deref"}
HoldingTwo == {"rp.recv", "sp.send", "sp.fail"}

Held(s) == Cardinality(At(s, Holding)) + Cardinality(At(s, HoldingTwo))

\* References that are under way: with the kernel, or with a completion.
Carried(port, s) == port[s]["recvOk"] + port[s]["recvErr"] + port[s]["sendOk"]
                    + port[s]["sendErr"] + port[s]["SENDPOST"]
UnderWay(s) == recvIO[s] + sendIO[s] + Carried(hcp, s)

\* IOcount counts exactly the threads inside the session, the operations
\* pending in the kernel, the completions that wait in the port and the
\* references getUDPAddress lost: no path drops a reference twice or forgets
\* one, also when a session is released, rolled back or reused meanwhile.
RefAccounting ==
    \A s \in Slot : IOcount[s] = Held(s) + UnderWay(s) + leaked[s]

Leaves(s) == {i \in 1 .. Len(JobQueue[s]) : JobQueue[s][i].type = "LEAVE"}

\* A slot is in exactly one place: on the free stack, with the accept thread,
\* a valid session, with the worker that cleans it up, or travelling back as
\* a LEAVE job and then a LEAVE completion.  A slot released twice would be
\* handed to two connections, one released by nobody is lost.
SlotCustody ==
    \A s \in Slot :
        emptyIndexStack[s]
        + Cardinality(At(s, {"a.ref", "a.valid"}))
        + (IF isValid[s] THEN 1 ELSE 0)
        + Cardinality(At(s, {"r.leave"}))
        + Cardinality(Leaves(s))
        + hcp[s]["LEAVE"] = 1

\* What the content sees of a session: its slot keeps its ID as long as the
\* player lives, all jobs in the queue are of that session, and nothing
\* follows LEAVE.  (LEAVE gives the slot away, and the jobs are found by slot
\* index alone.)
PlayerOwnsSlot ==
    /\ \A id \in players : sessionID[IndexOf(id)] = id
    /\ \A s \in Slot : \A i \in 1 .. Len(JobQueue[s]) :
           /\ JobQueue[s][i].id = sessionID[s] /\ sessionID[s] \in players
           /\ JobQueue[s][i].type = "LEAVE" => i = Len(JobQueue[s])

\* One worker receives for a session at a time (its ring buffer has no lock),
\* and none while the session is being cleaned up.
OneReceiver ==
    \A s \in Slot :
        /\ recvIO[s] + hcp[s]["recvOk"] + hcp[s]["recvErr"]
           + Cardinality(At(s, {"rp.check", "rp.recv"})) <= 1
        /\ At(s, {"r.close", "r.leave"}) # {}
           => /\ recvIO[s] + hcp[s]["recvOk"] = 0
              /\ At(s, {"rp.check", "rp.recv"}) = {}

Sender(s) ==
    sendIO[s] + hcp[s]["sendOk"] + hcp[s]["sendErr"]
    + Cardinality(At(s, {"sp.look", "sp.unflag", "sp.take", "sp.send",
                         "sp.fail", "w.unflag"}))

\* sendPacketArray has one writer: unless a session was released in use,
\* sendFlag lets one send at a time into a session, and the array is empty
\* when the next one fills it (else the packets in it would be lost).
OneSender ==
    ~raced => \A s \in Slot :
                  /\ Sender(s) <= 1
                  /\ At(s, {"sp.take"}) # {} => sentPacketArray[s] = << >>

\* A session that waits for its last send to complete has a send under way,
\* or its connection is lost: else nobody would ever cut it.
LastSendIsAwaited ==
    ~raced => \A s \in Slot :
        isValid[s] /\ disconnectStep[s] = "SENDPOST_LAST" /\ sock[s] = "open"
            => Sender(s) = 1

\* Unless a session was released in use, what is queued or being sent on a
\* connection is addressed to it, and a slot between two sessions holds no
\* packet at all.
PacketsStayInSession ==
    ~raced => \A s \in Slot :
        \A p \in {sendQueue[s][i] : i \in 1 .. Len(sendQueue[s])}
                 \cup {sentPacketArray[s][i] :
                           i \in 1 .. Len(sentPacketArray[s])} :
            p.id = sessionID[s] /\ sessionID[s] \in issued
            /\ (isValid[s] \/ At(s, {"r.leave"}) # {})

\* The releaseFlag of a slot that is set back to DELFLAG_OFF by the rollback
\* was taken from the session that is alive now, never from one that a worker
\* is cleaning up.
RollbackHitsLiveSession ==
    \A s \in Slot :
        /\ Cardinality(At(s, {"r.id", "r.off", "r.close", "r.leave"})) <= 1
        /\ At(s, {"r.off"}) # {} => isValid[s] /\ releaseFlag[s] = DELFLAG_ON

\* "IOcount 0: delete": a session is claimed for release only when nobody
\* is using it.
ReleasedUnreferenced == ~raced

\* A session whose count is 0 is not left alone: somebody takes it up again
\* or it is released.
ZeroIsReleased ==
    \A s \in Slot : (isValid[s] /\ IOcount[s] = 0)
                        ~> (~isValid[s] \/ IOcount[s] # 0)

\* A released session's slot comes back to the free stack.
SlotComesBack ==
    \A s \in Slot : At(s, {"r.close"}) # {} ~> emptyIndexStack[s] > 0

InCall(s) == \E u \in Users \cup UdpThreads : slot[u] = s /\ pc[u] # "idle"

\* A session in state DISCONNECT that has no receive pending is released,
\* whatever the peer does, once the content leaves it alone: no send is left
\* pending, and no receive is posted that the disconnect does not cancel.
\* (A content thread that called for it over and over could keep the count
\* above 0 whenever a worker looks.)
DisconnectReleases ==
    \A s \in Slot :
        (/\ isValid[s] /\ disconnectStep[s] = "DISCONNECT"
         /\ recvIO[s] = 0 /\ ~(slot[Acceptor] = s /\ pc[Acceptor] = "a.recv"))
            ~> (~isValid[s] \/ InCall(s) \/ leaked[s] > 0)

\* A packet queued on a live session gets a sender, or the session is cut.
QueuedPacketIsSent ==
    \A s \in Slot :
        (isValid[s] /\ sendQueue[s] # << >>)
            ~> (sendQueue[s] = << >> \/ sendIO[s] > 0 \/ ~isValid[s]
                \/ disconnectStep[s] = "DISCONNECT")
=============================================================================
