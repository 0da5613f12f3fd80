------------------------ MODULE NetServerSenderProofs ------------------------
(* Unless a session was released in use: one worker at a time sends for a  *)
(* session, the last send of one that is to be cut is not forgotten, and   *)
(* no packet goes from one session to the next, whatever the number of     *)
(* slots, threads, connections and packets, as long as no connection is    *)
(* accepted on a full table.                                               *)
EXTENDS NetServerReceiverProofs

-----------------------------------------------------------------------------
(* Who can name a session.                                                 *)

\* The steps of a call on the session, and those of a call before them.
InBody == {"s.enq", "s.last", "s.post", "d.cut", "g.read", "p.write"}
Finding == {"f.ref", "f.flag", "f.id"}
Calling == Finding \cup InBody

\* Before OnClientJoin nobody has heard of the session.
Arriving == {"a.ref", "a.valid", "a.flag", "a.reset", "a.join"}

Named ==
    /\ players \subseteq issued
    /\ \A id \in issued : id[1] < sessionAllocNum
    /\ \A t \in Thread : pc[t] \in Calling => sid[t] \in issued
    /\ \A t \in Thread : pc[t] \in Arriving =>
           /\ t = Acceptor /\ sessionID[slot[t]] \notin issued
           /\ sessionID[slot[t]][1] < sessionAllocNum

\* Nobody calls for a slot that was never used.
Uncalled(s) ==
    ~isValid[s] /\ releaseFlag[s] = DELFLAG_OFF => At(s, Finding) = {}

CallInv == Named /\ \A s \in Slot : Uncalled(s)

-----------------------------------------------------------------------------
(* What holds of a slot as long as no session was released in use.         *)

\* Where a thread uses the session it holds.
Using == InBody \cup
    {"a.join", "a.recv", "rp.check", "rp.recv", "rp.cancel", "sp.flag",
     "sp.look", "sp.unflag", "sp.take", "sp.send", "sp.fail", "sp.cancel",
     "w.unflag", "w.more"}

\* Where it begins or ends one.
Life == {"a.flag", "a.reset", "r.id", "r.close", "r.leave"}

Noticed == Using \cup Life \cup {"f.id"}

\* A worker has claimed the session that is in the slot.
Ending(s) ==
    \/ At(s, {"r.close", "r.leave"}) # {}
    \/ \E t \in At(s, {"r.id"}) : sid[t] = sessionID[s]

\* No session is in use: it is not valid, has not begun or is at its end.
Dead(s) == ~isValid[s] \/ At(s, {"a.flag", "a.reset"}) # {} \/ Ending(s)

\* Nothing is under way for the slot, and nobody uses it.
Still(s) ==
    /\ UnderWay(s) = 0 /\ At(s, Using) = {}
    /\ \A t \in At(s, {"f.id"}) : sid[t] # sessionID[s]

\* Between two sessions a slot has no packets and no connection.
Clean(s) ==
    /\ \/ ~isValid[s] /\ At(s, {"r.leave"}) = {}
       \/ At(s, {"a.flag", "a.reset"}) # {}
       => sendQueue[s] = << >> /\ sentPacketArray[s] = << >>
    /\ ~isValid[s] \/ At(s, {"a.flag", "a.reset"}) # {} => sock[s] # "open"

Quieted(s) == (Dead(s) => Still(s)) /\ Clean(s)

\* A send that is with the kernel or with a completion, and one of these
\* that did not fail.
Sending(s) == sendIO[s] + hcp[s]["sendOk"] + hcp[s]["sendErr"]
Coming(s) == sendIO[s] + hcp[s]["sendOk"]

SenderAt == {"sp.look", "sp.unflag", "sp.take", "sp.send", "sp.fail",
             "w.unflag"}

\* Where the sender has not filled the array yet, or has emptied it.
EmptyAt == {"sp.look", "sp.unflag", "sp.take", "sp.fail", "w.unflag"}

\* sendFlag is set as long as there is a sender.
Elected(s) == Sender(s) <= 1 /\ (sendFlag[s] = 0 => Sender(s) = 0)

Emptied(s) ==
    sendFlag[s] = 0 \/ At(s, EmptyAt) # {} => sentPacketArray[s] = << >>

Awaited(s) ==
    disconnectStep[s] = "SENDPOST_LAST" /\ sock[s] = "open" =>
        Coming(s) > 0 \/ At(s, {"sp.fail"}) # {}

\* A call that found its session is on that session.
Found(s) == \A t \in At(s, InBody) : sid[t] = sessionID[s]

Of(p, s) == p.id = sessionID[s]
Packets(s) ==
    /\ \A i \in 1 .. Len(sendQueue[s]) : Of(sendQueue[s][i], s)
    /\ \A i \in 1 .. Len(sentPacketArray[s]) : Of(sentPacketArray[s][i], s)
    /\ sendQueue[s] # << >> \/ sentPacketArray[s] # << >> =>
           sessionID[s] \in issued

Sends(s) == Elected(s) /\ Emptied(s) /\ Awaited(s) /\ Found(s) /\ Packets(s)

Sound(s) == Quieted(s) /\ Sends(s)

SoundInv == ~raced => \A s \in Slot : Sound(s)

SendInv == CallInv /\ SoundInv

-----------------------------------------------------------------------------
(* A step leaves the other slots alone.                                    *)

\* The thread stays where it is, or has nothing to do with the slot.
Stays(t, s, points) ==
    \/ pc'[t] = pc[t] /\ slot'[t] = slot[t] /\ sid'[t] = sid[t]
    \/ /\ ~(slot[t] = s /\ pc[t] \in points)
       /\ ~(slot'[t] = s /\ pc'[t] \in points)

\* The same threads are there, with the same ID.
LEMMA StaysAt ==
    ASSUME NEW s, NEW points, \A t \in Thread : Stays(t, s, points),
           NEW some \in SUBSET points
    PROVE  /\ At(s, some)' = At(s, some)
           /\ \A t \in At(s, some) : sid'[t] = sid[t]
    BY DEF Stays, At

IoSame(s) == /\ recvIO'[s] = recvIO[s] /\ sendIO'[s] = sendIO[s]
             /\ \A c \in Carrying : hcp'[s][c] = hcp[s][c]
LinkSame(s) == disconnectStep'[s] = disconnectStep[s] /\ sock'[s] = sock[s]
SendSame(s) == /\ sendFlag'[s] = sendFlag[s] /\ sendQueue'[s] = sendQueue[s]
               /\ sentPacketArray'[s] = sentPacketArray[s]
NameSame(s) == sessionID'[s] = sessionID[s] /\ isValid'[s] = isValid[s]

LEMMA IoSums ==
    ASSUME NEW s, IoSame(s)
    PROVE  /\ UnderWay(s)' = UnderWay(s) /\ Sending(s)' = Sending(s)
           /\ Coming(s)' = Coming(s)
    BY DEF IoSame, Carrying, UnderWay, Carried, Sending, Coming

LEMMA SenderSum ==
    /\ \A s : Sender(s) = Sending(s) + Cardinality(At(s, SenderAt))
    /\ \A s : Sender(s)' = Sending(s)' + Cardinality(At(s, SenderAt)')
    BY DEF Sender, Sending, SenderAt

\* What each part of the invariant depends on.
LEMMA PartsKept ==
    ASSUME NEW s, issued \subseteq issued', sessionID'[s] = sessionID[s]
    PROVE  /\ /\ Elected(s) /\ Sending(s)' = Sending(s)
              /\ sendFlag'[s] = sendFlag[s]
              /\ \A t \in Thread : Stays(t, s, SenderAt)
              => Elected(s)'
           /\ /\ Emptied(s) /\ sendFlag'[s] = sendFlag[s]
              /\ sentPacketArray'[s] = sentPacketArray[s]
              /\ \A t \in Thread : Stays(t, s, EmptyAt)
              => Emptied(s)'
           /\ /\ Awaited(s) /\ LinkSame(s) /\ Coming(s)' = Coming(s)
              /\ \A t \in Thread : Stays(t, s, {"sp.fail"})
              => Awaited(s)'
           /\ Found(s) /\ (\A t \in Thread : Stays(t, s, InBody))
              => Found(s)'
           /\ /\ Packets(s) /\ sendQueue'[s] = sendQueue[s]
              /\ sentPacketArray'[s] = sentPacketArray[s]
              => Packets(s)'
<1>1. ASSUME Elected(s), Sending(s)' = Sending(s), sendFlag'[s] = sendFlag[s],
             \A t \in Thread : Stays(t, s, SenderAt)
      PROVE  Elected(s)'
  <2>1. At(s, SenderAt)' = At(s, SenderAt)
      BY <1>1, StaysAt
  <2>2. Sender(s)' = Sender(s)
    <3>1. Cardinality(At(s, SenderAt)') = Cardinality(At(s, SenderAt))
        BY <2>1, Zenon
    <3> QED
        BY <1>1, <3>1, SenderSum
  <2> QED
      BY <1>1, <2>2 DEF Elected
<1>2. ASSUME Emptied(s), sendFlag'[s] = sendFlag[s],
             sentPacketArray'[s] = sentPacketArray[s],
             \A t \in Thread : Stays(t, s, EmptyAt)
      PROVE  Emptied(s)'
  <2>1. At(s, EmptyAt)' = At(s, EmptyAt)
      BY <1>2, StaysAt
  <2> QED
      BY <1>2, <2>1 DEF Emptied
<1>3. ASSUME Awaited(s), LinkSame(s), Coming(s)' = Coming(s),
             \A t \in Thread : Stays(t, s, {"sp.fail"})
      PROVE  Awaited(s)'
  <2>1. At(s, {"sp.fail"})' = At(s, {"sp.fail"})
      BY <1>3, StaysAt
  <2> QED
      BY <1>3, <2>1 DEF Awaited, LinkSame
<1>4. ASSUME Found(s), \A t \in Thread : Stays(t, s, InBody)
      PROVE  Found(s)'
  <2>1. /\ At(s, InBody)' = At(s, InBody)
        /\ \A t \in At(s, InBody) : sid'[t] = sid[t]
      BY <1>4, StaysAt
  <2> QED
      BY <1>4, <2>1 DEF Found
<1>5. ASSUME Packets(s), sendQueue'[s] = sendQueue[s],
             sentPacketArray'[s] = sentPacketArray[s]
      PROVE  Packets(s)'
    BY <1>5 DEF Packets, Of
<1> QED
    BY <1>1, <1>2, <1>3, <1>4, <1>5

\* Whether a session is in use does not change.
LEMMA DeadKept ==
    ASSUME NEW s, \A t \in Thread : Stays(t, s, Life), NameSame(s)
    PROVE  /\ Dead(s)' <=> Dead(s)
           /\ At(s, {"r.leave"})' = At(s, {"r.leave"})
           /\ At(s, {"a.flag", "a.reset"})' = At(s, {"a.flag", "a.reset"})
<1>1. /\ At(s, {"a.flag", "a.reset"})' = At(s, {"a.flag", "a.reset"})
      /\ At(s, {"r.close", "r.leave"})' = At(s, {"r.close", "r.leave"})
      /\ At(s, {"r.leave"})' = At(s, {"r.leave"})
      /\ At(s, {"r.id"})' = At(s, {"r.id"})
      /\ \A t \in At(s, {"r.id"}) : sid'[t] = sid[t]
    BY StaysAt DEF Life
<1> QED
    BY <1>1 DEF NameSame, Dead, Ending

\* A slot of which nothing was touched.
Unmoved(s) == /\ IoSame(s) /\ LinkSame(s) /\ SendSame(s) /\ NameSame(s)
              /\ \A t \in Thread : Stays(t, s, Noticed)

LEMMA SoundFrame ==
    ASSUME NEW s, Sound(s), Unmoved(s), issued \subseteq issued'
    PROVE  Sound(s)'
<1>1. ASSUME NEW points \in SUBSET Noticed
      PROVE  \A t \in Thread : Stays(t, s, points)
    BY DEF Unmoved, Stays
<1>2. /\ SenderAt \subseteq Noticed /\ EmptyAt \subseteq Noticed
      /\ InBody \subseteq Noticed /\ Life \subseteq Noticed
      /\ Using \subseteq Noticed
      /\ {"sp.fail"} \subseteq Noticed /\ {"f.id"} \subseteq Noticed
    BY DEF SenderAt, EmptyAt, Life, Noticed, Using
<1>3. Sends(s)'
    BY <1>1, <1>2, IoSums, PartsKept
       DEF Sound, Sends, Unmoved, SendSame, NameSame
<1>4. Quieted(s)'
  <2>1. /\ Dead(s)' <=> Dead(s)
        /\ At(s, {"r.leave"})' = At(s, {"r.leave"})
        /\ At(s, {"a.flag", "a.reset"})' = At(s, {"a.flag", "a.reset"})
      BY <1>1, <1>2, DeadKept DEF Unmoved
  <2>2. /\ At(s, Using)' = At(s, Using) /\ At(s, {"f.id"})' = At(s, {"f.id"})
        /\ \A t \in At(s, {"f.id"}) : sid'[t] = sid[t]
      BY <1>2, StaysAt DEF Unmoved
  <2>3. Still(s) => Still(s)'
      BY <2>2, IoSums DEF Still, Unmoved, NameSame
  <2>4. Clean(s)'
      BY <2>1 DEF Sound, Quieted, Clean, Unmoved, SendSame, LinkSame,
                  NameSame
  <2> QED
      BY <2>1, <2>3, <2>4 DEF Sound, Quieted
<1> QED
    BY <1>3, <1>4 DEF Sound

-----------------------------------------------------------------------------
(* Every step is about one slot.                                           *)

Local(r) == /\ issued \subseteq issued'
            /\ \A s \in Slot \ {r} : Unmoved(s)

LEMMA GotoStays ==
    ASSUME LocalType, NEW t \in Thread, NEW p, Goto(t, p)
    PROVE  \A s \in Slot \ {slot[t]} : \A v \in Thread : Stays(v, s, Noticed)
<1>1. "idle" \notin Noticed
    BY DEF Noticed, Using, InBody, Life
<1> QED
    BY <1>1 DEF Goto, Begin, LocalType, localVars, Stays

LEMMA BeginStays ==
    ASSUME LocalType, NEW t \in Thread, NEW p, NEW r, NEW id, NEW o,
           Begin(t, p, r, id, o), pc[t] \notin Noticed \/ slot[t] = r
    PROVE  \A s \in Slot \ {r} : \A v \in Thread : Stays(v, s, Noticed)
    BY DEF Begin, LocalType, Stays

LEMMA NobodyStays ==
    ASSUME UNCHANGED <<pc, localVars>>
    PROVE  \A s : \A v \in Thread : Stays(v, s, Noticed)
    BY DEF localVars, Stays

LEMMA IdleUnnoticed ==
    {"idle", "w.readid", "w.deref", "r.valid", "r.count", "r.cas", "r.off",
     "r.undo", "f.ref", "f.flag", "u.deref", "a.ref", "a.valid"}
        \cap Noticed = {}
    BY DEF Noticed, Using, InBody, Life

LEMMA PortLocal ==
    ASSUME IoType, NEW r \in Slot, NEW c \in Completion,
           Take(r, c) \/ Post(r, c)
    PROVE  \A s \in Slot \ {r} : hcp'[s] = hcp[s]
    BY DEF IoType, Port, Take, Without, Post

LEMMA CancelLocal ==
    ASSUME IoType, NEW r \in Slot, NEW kinds,
           \/ CancelIo(r, kinds, hcp)
           \/ \E c \in Completion : CancelIo(r, kinds, Without(r, c))
    PROVE  \A s \in Slot \ {r} : IoSame(s)
<1>1. PICK port : /\ CancelIo(r, kinds, port)
                  /\ port = hcp \/ \E c \in Completion : port = Without(r, c)
    OBVIOUS
<1>2. DOMAIN port = Slot /\ \A s \in Slot \ {r} : port[s] = hcp[s]
    BY <1>1 DEF IoType, Port, Without
<1>3. PICK a, b : /\ recvIO' = [recvIO EXCEPT ![r] = @ - a]
                  /\ sendIO' = [sendIO EXCEPT ![r] = @ - b]
                  /\ hcp' = [port EXCEPT ![r]["recvErr"] = @ + a,
                                         ![r]["sendErr"] = @ + b]
    BY <1>1 DEF CancelIo
<1> QED
    BY <1>2, <1>3 DEF IoType, IoSame

\* The ways of touching one slot, for each group of variables.
LEMMA VarsLocal ==
    ASSUME TypeOK, NEW r
    PROVE  /\ UNCHANGED ioVars => \A s \in Slot \ {r} : IoSame(s)
           /\ UNCHANGED connVars => \A s \in Slot \ {r} : LinkSame(s)
           /\ UNCHANGED sendVars => \A s \in Slot \ {r} : SendSame(s)
           /\ UNCHANGED <<sessionID, isValid>> =>
                  \A s \in Slot \ {r} : NameSame(s)
           /\ \A d : SetStep(r, d) /\ UNCHANGED sock
                  => \A s \in Slot \ {r} : LinkSame(s)
           /\ FreeSent(r) => \A s \in Slot \ {r} :
                                 sentPacketArray'[s] = sentPacketArray[s]
<1>1. UNCHANGED ioVars => \A s \in Slot \ {r} : IoSame(s)
    BY DEF ioVars, IoSame
<1>2. UNCHANGED connVars => \A s \in Slot \ {r} : LinkSame(s)
    BY DEF connVars, LinkSame
<1>3. UNCHANGED sendVars => \A s \in Slot \ {r} : SendSame(s)
    BY DEF sendVars, SendSame
<1>4. UNCHANGED <<sessionID, isValid>> =>
          \A s \in Slot \ {r} : NameSame(s)
    BY DEF NameSame
<1>5. \A d : SetStep(r, d) /\ UNCHANGED sock
             => \A s \in Slot \ {r} : LinkSame(s)
    BY DEF SetStep, TypeOK, ConnType, LinkSame
<1>6. FreeSent(r) => \A s \in Slot \ {r} :
                         sentPacketArray'[s] = sentPacketArray[s]
    BY DEF FreeSent, TypeOK, SendType
<1> QED
    BY <1>1, <1>2, <1>3, <1>4, <1>5, <1>6

LEMMA AcceptLocal ==
    ASSUME TypeOK, NEW i \in Slot, Accept(i)
    PROVE  Local(i)
<1>1. Acceptor \in Thread /\ LocalType /\ pc[Acceptor] \notin Noticed
    BY IdleUnnoticed DEF Thread, TypeOK, Accept
<1>2. \A s \in Slot \ {i} : \A v \in Thread : Stays(v, s, Noticed)
    BY <1>1, BeginStays DEF Accept
<1>3. \A s \in Slot \ {i} : IoSame(s) /\ LinkSame(s) /\ SendSame(s)
    BY VarsLocal DEF Accept
<1>4. \A s \in Slot \ {i} : NameSame(s)
    BY DEF Accept, TypeOK, IdType, flagVars, NameSame
<1>5. UNCHANGED issued
    BY DEF Accept, contentVars
<1> QED
    BY <1>2, <1>3, <1>4, <1>5 DEF Local, Unmoved

LEMMA AcceptStepLocal ==
    ASSUME TypeOK, AcceptStep
    PROVE  Local(slot[Acceptor])
<1> DEFINE a == Acceptor
<1>1. a \in Thread /\ LocalType /\ slot[a] \in Slot
    BY WorkerContext DEF Thread, TypeOK
<1>2. \A s \in Slot \ {slot[a]} : \A v \in Thread : Stays(v, s, Noticed)
  <2>1. \E p : Goto(a, p)
      BY DEF AcceptStep, AcceptRef, AcceptValid, AcceptFlag, AcceptReset,
             AcceptJoin, AcceptRecv
  <2> QED
      BY <1>1, <2>1, GotoStays
<1>3. \A s \in Slot \ {slot[a]} : IoSame(s)
  <2>1. CASE AcceptRecv
      BY <2>1 DEF AcceptRecv, TypeOK, IoType, IoSame
  <2>2. CASE ~AcceptRecv
      BY <2>2, VarsLocal DEF AcceptStep, AcceptRef, AcceptValid, AcceptFlag,
                             AcceptReset, AcceptJoin
  <2> QED
      BY <2>1, <2>2
<1>4. \A s \in Slot \ {slot[a]} : LinkSame(s) /\ SendSame(s)
  <2>1. CASE AcceptReset
      BY <1>1, <2>1 DEF AcceptReset, SetStep, TypeOK, ConnType, SendType,
                        LinkSame, SendSame
  <2>2. CASE ~AcceptReset
      BY <2>2, VarsLocal DEF AcceptStep, AcceptRef, AcceptValid, AcceptFlag,
                             AcceptJoin, AcceptRecv
  <2> QED
      BY <2>1, <2>2
<1>5. \A s \in Slot \ {slot[a]} : NameSame(s)
  <2>1. UNCHANGED sessionID
      BY DEF AcceptStep, AcceptRef, AcceptValid, AcceptFlag, AcceptReset,
             AcceptJoin, AcceptRecv, otherVars, idVars
  <2>2. CASE AcceptValid
      BY <2>1, <2>2 DEF AcceptValid, TypeOK, FlagType, NameSame
  <2>3. CASE ~AcceptValid
      BY <2>1, <2>3 DEF AcceptStep, AcceptRef, AcceptFlag, AcceptReset,
                        AcceptJoin, AcceptRecv, flagVars, NameSame
  <2> QED
      BY <2>2, <2>3
<1>6. issued \subseteq issued'
    BY DEF AcceptStep, AcceptRef, AcceptValid, AcceptFlag, AcceptReset,
           AcceptJoin, AcceptRecv, otherVars, contentVars
<1> QED
    BY <1>2, <1>3, <1>4, <1>5, <1>6 DEF Local, Unmoved

LEMMA PeerLocal ==
    ASSUME TypeOK, NEW r \in Slot, Complete(r) \/ PeerReset(r)
    PROVE  Local(r)
<1>1. /\ UNCHANGED <<pc, localVars>> /\ UNCHANGED sendVars
      /\ UNCHANGED <<sessionID, isValid>> /\ UNCHANGED issued
    BY DEF Complete, PeerReset, otherVars, idVars, contentVars, flagVars,
           sendVars
<1>2. \A s \in Slot \ {r} : IoSame(s)
  <2>1. CASE Complete(r)
    <3>1. \A s \in Slot \ {r} : hcp'[s] = hcp[s]
        BY <2>1, PortLocal DEF Complete, TypeOK, Completion
    <3> QED
        BY <2>1, <3>1 DEF Complete, TypeOK, IoType, IoSame
  <2>2. CASE PeerReset(r)
      BY <2>2, CancelLocal DEF PeerReset, CancelAll, TypeOK
  <2> QED
      BY <2>1, <2>2
<1>3. \A s \in Slot \ {r} : LinkSame(s)
    BY DEF Complete, PeerReset, TypeOK, ConnType, connVars, LinkSame
<1> QED
    BY <1>1, <1>2, <1>3, VarsLocal, NobodyStays DEF Local, Unmoved

LEMMA TakeCompletionLocal ==
    ASSUME TypeOK, NEW w \in Workers, NEW r \in Slot, TakeCompletion(w, r)
    PROVE  Local(r)
<1>1. w \in Thread /\ LocalType /\ pc[w] \notin Noticed
    BY IdleUnnoticed DEF Thread, TypeOK, TakeCompletion, RecvDone, SendDone,
                         IoFailed, SendRequested, ReleaseRequested, LeaveDone
<1>2. \A s \in Slot \ {r} : \A v \in Thread : Stays(v, s, Noticed)
  <2>1. \/ UNCHANGED <<pc, localVars>>
        \/ \E p, id, o : Begin(w, p, r, id, o)
      BY DEF TakeCompletion, RecvDone, SendDone, IoFailed, SendRequested,
             ReleaseRequested, LeaveDone
  <2> QED
      BY <1>1, <2>1, BeginStays, NobodyStays
<1>3. \A s \in Slot \ {r} : IoSame(s)
  <2>1. CASE \E c \in Completion : Take(r, c) /\ UNCHANGED <<recvIO, sendIO>>
    <3>1. \A s \in Slot \ {r} : hcp'[s] = hcp[s]
        BY <2>1, PortLocal DEF TypeOK
    <3> QED
        BY <2>1, <3>1 DEF IoSame
  <2>2. CASE \E c \in Completion : Disconnect(r, Without(r, c))
      BY <2>2, CancelLocal DEF Disconnect, TypeOK
  <2>3. \E c \in Completion : \/ Take(r, c) /\ UNCHANGED <<recvIO, sendIO>>
                              \/ Disconnect(r, Without(r, c))
      BY DEF TakeCompletion, RecvDone, SendDone, IoFailed, SendRequested,
             ReleaseRequested, LeaveDone, Completion
  <2> QED
      BY <2>1, <2>2, <2>3
<1>4. \A s \in Slot \ {r} : LinkSame(s)
  <2>1. UNCHANGED sock
      BY DEF TakeCompletion, RecvDone, SendDone, IoFailed, SendRequested,
             ReleaseRequested, LeaveDone, connVars
  <2>2. \/ UNCHANGED disconnectStep
        \/ \E c : Disconnect(r, Without(r, c))
      BY DEF TakeCompletion, RecvDone, SendDone, IoFailed, SendRequested,
             ReleaseRequested, LeaveDone, connVars
  <2> QED
      BY <2>1, <2>2 DEF Disconnect, TypeOK, ConnType, LinkSame
<1>5. \A s \in Slot \ {r} : SendSame(s)
  <2>1. CASE SendDone(w, r)
      BY <2>1, VarsLocal DEF SendDone, SendSame
  <2>2. CASE SendRequested(w, r)
      BY <2>2 DEF SendRequested, TypeOK, SendType, SendSame
  <2>3. CASE ~SendDone(w, r) /\ ~SendRequested(w, r)
      BY <2>3, VarsLocal DEF TakeCompletion, RecvDone, IoFailed,
                             ReleaseRequested, LeaveDone
  <2> QED
      BY <2>1, <2>2, <2>3
<1>6. UNCHANGED <<sessionID, isValid, issued>>
    BY DEF TakeCompletion, RecvDone, SendDone, IoFailed, SendRequested,
           ReleaseRequested, LeaveDone, otherVars, idVars, contentVars,
           flagVars
<1> QED
    BY <1>2, <1>3, <1>4, <1>5, <1>6, VarsLocal DEF Local, Unmoved

LEMMA RecvPostLocal ==
    ASSUME TypeOK, NEW w \in Workers, RecvPost(w)
    PROVE  Local(slot[w])
<1>1. w \in Thread /\ LocalType /\ slot[w] \in Slot
    BY WorkerContext DEF Thread, TypeOK
<1>2. \A s \in Slot \ {slot[w]} : \A v \in Thread : Stays(v, s, Noticed)
  <2>1. \E p : Goto(w, p)
      BY DEF RecvPost, RecvPostCheck, RecvPostRecv, RecvPostCancel
  <2> QED
      BY <1>1, <2>1, GotoStays
<1>3. \A s \in Slot \ {slot[w]} : IoSame(s)
  <2>1. CASE UNCHANGED ioVars
      BY <2>1, VarsLocal
  <2>2. CASE RecvPostRecv(w)
      BY <2>2 DEF RecvPostRecv, TypeOK, IoType, IoSame
  <2>3. CASE CancelIo(slot[w], {"recv"}, hcp)
      BY <1>1, <2>3, CancelLocal DEF TypeOK
  <2> QED
      BY <2>1, <2>2, <2>3 DEF RecvPost, RecvPostCheck, RecvPostCancel
<1>4. UNCHANGED <<sessionID, isValid, issued>> /\ UNCHANGED connVars
      /\ UNCHANGED sendVars
    BY DEF RecvPost, RecvPostCheck, RecvPostRecv, RecvPostCancel, otherVars,
           idVars, contentVars, flagVars
<1> QED
    BY <1>2, <1>3, <1>4, VarsLocal DEF Local, Unmoved

LEMMA SendPostLocal ==
    ASSUME TypeOK, NEW w \in Workers, SendPost(w)
    PROVE  Local(slot[w])
<1>1. w \in Thread /\ LocalType /\ slot[w] \in Slot
    BY WorkerContext DEF Thread, TypeOK
<1>2. \A s \in Slot \ {slot[w]} : \A v \in Thread : Stays(v, s, Noticed)
  <2>1. \E p : Goto(w, p)
      BY DEF SendPost, SendPostFlag, SendPostLook, SendPostUnflag,
             SendPostTake, SendPostSend, SendPostFail, SendPostCancel, Look
  <2> QED
      BY <1>1, <2>1, GotoStays
<1>3. \A s \in Slot \ {slot[w]} : IoSame(s)
  <2>1. CASE UNCHANGED ioVars
      BY <2>1, VarsLocal
  <2>2. CASE SendPostSend(w)
      BY <2>2 DEF SendPostSend, TypeOK, IoType, IoSame
  <2>3. CASE SendPostFail(w) \/ CancelIo(slot[w], {"send"}, hcp)
      BY <1>1, <2>3, CancelLocal DEF SendPostFail, Disconnect, TypeOK
  <2> QED
      BY <2>1, <2>2, <2>3
         DEF SendPost, SendPostFlag, SendPostLook, SendPostUnflag,
             SendPostTake, SendPostCancel, Look, sharedVars
<1>4. \A s \in Slot \ {slot[w]} : LinkSame(s)
  <2>1. \/ UNCHANGED connVars
        \/ /\ UNCHANGED sock
           /\ \/ UNCHANGED disconnectStep
              \/ \E d : SetStep(slot[w], d)
      BY DEF SendPost, SendPostFlag, SendPostLook, SendPostUnflag,
             SendPostTake, SendPostSend, SendPostFail, SendPostCancel, Look,
             sharedVars, Disconnect, SetStep
  <2> QED
      BY <2>1, VarsLocal DEF LinkSame
<1>5. \A s \in Slot \ {slot[w]} : SendSame(s)
  <2>1. CASE UNCHANGED sendVars
      BY <2>1, VarsLocal
  <2>2. CASE SendPostFlag(w) \/ SendPostUnflag(w) \/ SendPostFail(w)
      BY <2>2 DEF SendPostFlag, SendPostUnflag, SendPostFail, TypeOK,
                  SendType, SendSame
  <2>3. CASE SendPostTake(w)
      BY <2>3 DEF SendPostTake, TypeOK, SendType, SendSame
  <2>4. CASE SendPostSend(w)
      BY <2>4, VarsLocal DEF SendPostSend, SendSame
  <2> QED
      BY <2>1, <2>2, <2>3, <2>4
         DEF SendPost, SendPostLook, SendPostCancel, Look, sharedVars
<1>6. UNCHANGED <<sessionID, isValid, issued>>
    BY DEF SendPost, SendPostFlag, SendPostLook, SendPostUnflag,
           SendPostTake, SendPostSend, SendPostFail, SendPostCancel, Look,
           sharedVars, otherVars, idVars, contentVars, flagVars
<1> QED
    BY <1>2, <1>3, <1>4, <1>5, <1>6, VarsLocal DEF Local, Unmoved

LEMMA SentLocal ==
    ASSUME TypeOK, NEW w \in Workers,
           SentUnflag(w) \/ SentMore(w) \/ WorkerDeref(w) \/ ReadID(w)
    PROVE  Local(slot[w])
<1>1. w \in Thread /\ LocalType
    BY DEF Thread, TypeOK
<1>2. \A s \in Slot \ {slot[w]} : \A v \in Thread : Stays(v, s, Noticed)
  <2>1. \/ \E p : Goto(w, p)
        \/ \E p, id, o : Begin(w, p, slot[w], id, o)
      BY DEF SentUnflag, SentMore, WorkerDeref, ReadID, Look
  <2> QED
      BY <1>1, <2>1, GotoStays, BeginStays
<1>3. \A s \in Slot \ {slot[w]} : SendSame(s)
  <2>1. CASE SentUnflag(w)
      BY <2>1 DEF SentUnflag, TypeOK, SendType, SendSame
  <2>2. CASE ~SentUnflag(w)
      BY <2>2, VarsLocal DEF SentMore, WorkerDeref, ReadID, Look, sharedVars
  <2> QED
      BY <2>1, <2>2
<1>4. UNCHANGED <<sessionID, isValid, issued>> /\ UNCHANGED connVars
      /\ UNCHANGED ioVars
    BY DEF SentUnflag, SentMore, WorkerDeref, ReadID, Look, sharedVars,
           otherVars, idVars, contentVars, flagVars
<1> QED
    BY <1>2, <1>3, <1>4, VarsLocal DEF Local, Unmoved

LEMMA ReleaseLocal ==
    ASSUME TypeOK, NEW w \in Workers, ReleaseSession(w)
    PROVE  Local(slot[w])
<1>1. w \in Thread /\ LocalType /\ slot[w] \in Slot
    BY WorkerContext DEF Thread, TypeOK
<1>2. \A s \in Slot \ {slot[w]} : \A v \in Thread : Stays(v, s, Noticed)
  <2>1. CASE ReleaseCount(w)
      BY <2>1 DEF ReleaseCount, LocalType, Stays
  <2>2. CASE \/ \E p : Goto(w, p)
             \/ \E p, id, o : Begin(w, p, slot[w], id, o)
      BY <1>1, <2>2, GotoStays, BeginStays
  <2> QED
      BY <1>1, <2>1, <2>2
         DEF ReleaseSession, ReleaseValid, ReleaseCas, ReleaseID, ReleaseOff,
             ReleaseUndo, ReleaseClose, ReleaseLeave, Look, LocalType
<1>3. \A s \in Slot \ {slot[w]} : IoSame(s)
  <2>1. CASE ReleaseClose(w)
      BY <1>1, <2>1, CancelLocal DEF ReleaseClose, CancelAll, TypeOK
  <2>2. CASE ~ReleaseClose(w)
      BY <2>2, VarsLocal
         DEF ReleaseSession, ReleaseValid, ReleaseCount, ReleaseCas,
             ReleaseID, ReleaseOff, ReleaseUndo, ReleaseLeave, Look,
             sharedVars
  <2> QED
      BY <2>1, <2>2
<1>4. \A s \in Slot \ {slot[w]} : LinkSame(s) /\ NameSame(s)
  <2>1. CASE ReleaseClose(w)
      BY <2>1 DEF ReleaseClose, TypeOK, FlagType, ConnType, otherVars,
                  idVars, LinkSame, NameSame
  <2>2. CASE ~ReleaseClose(w)
    <3>1. UNCHANGED connVars /\ UNCHANGED <<sessionID, isValid>>
        BY <2>2 DEF ReleaseSession, ReleaseValid, ReleaseCount, ReleaseCas,
                    ReleaseID, ReleaseOff, ReleaseUndo, ReleaseLeave, Look,
                    sharedVars, otherVars, idVars, flagVars
    <3> QED
        BY <3>1, VarsLocal
  <2> QED
      BY <2>1, <2>2
<1>5. \A s \in Slot \ {slot[w]} : SendSame(s)
  <2>1. CASE ReleaseLeave(w)
      BY <2>1, VarsLocal DEF ReleaseLeave, TypeOK, SendType, SendSame
  <2>2. CASE ~ReleaseLeave(w)
      BY <2>2, VarsLocal
         DEF ReleaseSession, ReleaseValid, ReleaseCount, ReleaseCas,
             ReleaseID, ReleaseOff, ReleaseUndo, ReleaseClose, Look,
             sharedVars
  <2> QED
      BY <2>1, <2>2
<1>6. UNCHANGED issued
    BY DEF ReleaseSession, ReleaseValid, ReleaseCount, ReleaseCas, ReleaseID,
           ReleaseOff, ReleaseUndo, ReleaseClose, ReleaseLeave, Look,
           sharedVars, otherVars, contentVars
<1> QED
    BY <1>2, <1>3, <1>4, <1>5, <1>6 DEF Local, Unmoved

LEMMA CallLocal ==
    ASSUME TypeOK, NEW u \in Users \cup UdpThreads, CallStep(u)
    PROVE  Local(slot[u])
<1>1. u \in Thread /\ LocalType /\ slot[u] \in Slot
    BY WorkerContext DEF Thread, TypeOK
<1>2. \A s \in Slot \ {slot[u]} : \A v \in Thread : Stays(v, s, Noticed)
  <2>1. \E p : Goto(u, p)
      BY DEF CallStep, FindRef, FindFlag, FindID, UserDeref,
             SendPacketEnqueue, SendPacketLast, SendPacketPost,
             DisconnectCut, GetUDPRead, UdpWrite, Look
  <2> QED
      BY <1>1, <2>1, GotoStays
<1>3. \A s \in Slot \ {slot[u]} : IoSame(s)
  <2>1. CASE UNCHANGED ioVars
      BY <2>1, VarsLocal
  <2>2. CASE DisconnectCut(u)
      BY <1>1, <2>2, CancelLocal DEF DisconnectCut, Disconnect, TypeOK
  <2>3. CASE \E c \in Completion : Post(slot[u], c)
                                   /\ UNCHANGED <<recvIO, sendIO>>
    <3>1. \A s \in Slot \ {slot[u]} : hcp'[s] = hcp[s]
        BY <1>1, <2>3, PortLocal DEF TypeOK
    <3> QED
        BY <2>3, <3>1 DEF IoSame
  <2> QED
      BY <2>1, <2>2, <2>3
         DEF CallStep, FindRef, FindFlag, FindID, UserDeref,
             SendPacketEnqueue, SendPacketLast, SendPacketPost, GetUDPRead,
             UdpWrite, Look, sharedVars, ioVars, Completion
<1>4. \A s \in Slot \ {slot[u]} : LinkSame(s)
  <2>1. /\ UNCHANGED sock
        /\ UNCHANGED disconnectStep \/ \E d : SetStep(slot[u], d)
      BY DEF CallStep, FindRef, FindFlag, FindID, UserDeref,
             SendPacketEnqueue, SendPacketLast, SendPacketPost,
             DisconnectCut, GetUDPRead, UdpWrite, Look, sharedVars, connVars,
             Disconnect, SetStep
  <2> QED
      BY <2>1, VarsLocal DEF LinkSame
<1>5. \A s \in Slot \ {slot[u]} : SendSame(s)
  <2>1. CASE SendPacketEnqueue(u)
      BY <2>1 DEF SendPacketEnqueue, TypeOK, SendType, SendSame
  <2>2. CASE ~SendPacketEnqueue(u)
      BY <2>2, VarsLocal
         DEF CallStep, FindRef, FindFlag, FindID, UserDeref, SendPacketLast,
             SendPacketPost, DisconnectCut, GetUDPRead, UdpWrite, Look,
             sharedVars
  <2> QED
      BY <2>1, <2>2
<1>6. UNCHANGED <<sessionID, isValid, issued>>
    BY DEF CallStep, FindRef, FindFlag, FindID, UserDeref,
           SendPacketEnqueue, SendPacketLast, SendPacketPost, DisconnectCut,
           GetUDPRead, UdpWrite, Look, sharedVars, otherVars, idVars,
           contentVars, flagVars
<1> QED
    BY <1>2, <1>3, <1>4, <1>5, <1>6, VarsLocal DEF Local, Unmoved

\* A session's slot is the one its ID names.
LEMMA JobsLocal ==
    ASSUME TypeOK, NEW u \in Users, NEW id \in SessionID, HandleJobs(u, id),
           NEW s \in Slot
    PROVE  Unmoved(s)
<1>1. /\ UNCHANGED <<pc, localVars>> /\ UNCHANGED connVars
      /\ UNCHANGED sendVars /\ UNCHANGED <<sessionID, isValid>>
      /\ UNCHANGED <<recvIO, sendIO>>
    BY DEF HandleJobs, idVars, flagVars
<1>2. PICK n : hcp' = [hcp EXCEPT ![IndexOf(id)]["LEAVE"] = @ + n]
    BY DEF HandleJobs
<1>3. \A c \in Carrying : hcp'[s][c] = hcp[s][c]
    BY <1>2 DEF TypeOK, IoType, Port, Completion, Carrying
<1> QED
    BY <1>1, <1>3, NobodyStays
       DEF Unmoved, IoSame, connVars, LinkSame, sendVars, SendSame, NameSame

LEMMA FindValidLocal ==
    ASSUME TypeOK, NEW u \in Thread, NEW id, NEW o, FindValid(u, id, o),
           pc[u] = "idle", NEW s \in Slot
    PROVE  Unmoved(s)
<1>1. UNCHANGED sharedVars
    BY DEF FindValid
<1>2. /\ IoSame(s) /\ LinkSame(s) /\ SendSame(s) /\ NameSame(s)
    BY <1>1 DEF sharedVars, otherVars, idVars, flagVars, connVars, sendVars,
                ioVars, IoSame, LinkSame, SendSame, NameSame
<1>3. "idle" \notin Noticed /\ "f.ref" \notin Noticed
    BY IdleUnnoticed
<1>4. \A t \in Thread : Stays(t, s, Noticed)
    BY <1>3 DEF FindValid, Begin, localVars, TypeOK, LocalType, Stays
<1> QED
    BY <1>2, <1>4 DEF Unmoved

\* A step of one thread between points that do not matter.
LEMMA QuietMove ==
    ASSUME TypeOK, NEW t \in Thread, pc[t] \notin Noticed,
           \/ \E p : Goto(t, p) /\ p \notin Noticed
           \/ \E p, r, id, o : Begin(t, p, r, id, o) /\ p \notin Noticed
           \/ UNCHANGED <<pc, localVars>>
    PROVE  \A s : \A v \in Thread : Stays(v, s, Noticed)
<1>1. /\ \A v \in Thread \ {t} : /\ pc'[v] = pc[v] /\ slot'[v] = slot[v]
                                 /\ sid'[v] = sid[v]
      /\ pc'[t] \notin Noticed \/ pc'[t] = pc[t]
    BY DEF Goto, Begin, TypeOK, LocalType, localVars
<1> QED
    BY <1>1 DEF Stays

\* Taking or posting a request that carries no reference.
LEMMA RequestSame ==
    ASSUME IoType, NEW r \in Slot, NEW c \in {"RELEASE", "LEAVE"},
           UNCHANGED hcp \/ Take(r, c) \/ Post(r, c),
           UNCHANGED <<recvIO, sendIO>>
    PROVE  \A s \in Slot : IoSame(s)
    BY DEF IoType, Port, Completion, Carrying, Take, Without, Post, IoSame

LEMMA OthersSame ==
    ASSUME NEW s, UNCHANGED connVars, UNCHANGED sendVars,
           UNCHANGED <<sessionID, isValid>>
    PROVE  LinkSame(s) /\ SendSame(s) /\ NameSame(s)
    BY DEF connVars, LinkSame, sendVars, SendSame, NameSame

\* The steps that no part of the invariant notices.
LEMMA RequestUnmoved ==
    ASSUME TypeOK, NEW w \in Workers, NEW r \in Slot,
           ReleaseRequested(w, r) \/ LeaveDone(w, r), NEW s \in Slot
    PROVE  Unmoved(s)
<1>1. /\ w \in Thread /\ pc[w] \notin Noticed /\ "r.valid" \notin Noticed
    BY IdleUnnoticed DEF Thread, ReleaseRequested, LeaveDone
<1>2. \A v \in Thread : Stays(v, s, Noticed)
    BY <1>1, QuietMove DEF ReleaseRequested, LeaveDone
<1>3. IoSame(s)
    BY RequestSame DEF ReleaseRequested, LeaveDone, TypeOK
<1>4. UNCHANGED connVars /\ UNCHANGED sendVars
      /\ UNCHANGED <<sessionID, isValid>>
    BY DEF ReleaseRequested, LeaveDone, otherVars, idVars, flagVars
<1> QED
    BY <1>2, <1>3, <1>4, OthersSame DEF Unmoved

LEMMA ReleaseUnmoved ==
    ASSUME TypeOK, NEW w \in Workers,
           \/ WorkerDeref(w) \/ ReadID(w) \/ ReleaseValid(w)
           \/ ReleaseOff(w) \/ ReleaseUndo(w)
           \/ ReleaseCas(w) /\ releaseFlag[slot[w]] # tempCount[w],
           NEW s \in Slot
    PROVE  Unmoved(s)
<1>1. w \in Thread /\ pc[w] \notin Noticed
    BY IdleUnnoticed DEF Thread, WorkerDeref, ReadID, ReleaseValid, Look,
                         ReleaseOff, ReleaseUndo, ReleaseCas
<1>2. \A v \in Thread : Stays(v, s, Noticed)
    BY <1>1, IdleUnnoticed, QuietMove
       DEF WorkerDeref, ReadID, ReleaseValid, Look, ReleaseOff, ReleaseUndo,
           ReleaseCas
<1>3. /\ UNCHANGED connVars /\ UNCHANGED sendVars /\ UNCHANGED ioVars
      /\ UNCHANGED <<sessionID, isValid>>
    BY DEF WorkerDeref, ReadID, ReleaseValid, Look, ReleaseOff, ReleaseUndo,
           ReleaseCas, sharedVars, otherVars, idVars, flagVars
<1> QED
    BY <1>2, <1>3, OthersSame, VarsLocal DEF Unmoved, IoSame, ioVars

LEMMA CountUnmoved ==
    ASSUME TypeOK, NEW w \in Workers, ReleaseCount(w), NEW s \in Slot
    PROVE  Unmoved(s)
<1>1. /\ pc[w] \notin Noticed /\ "r.cas" \notin Noticed
      /\ UNCHANGED sharedVars
    BY IdleUnnoticed DEF ReleaseCount
<1>2. \A v \in Thread : Stays(v, s, Noticed)
    BY <1>1 DEF ReleaseCount, TypeOK, LocalType, Stays
<1>3. /\ UNCHANGED connVars /\ UNCHANGED sendVars /\ UNCHANGED ioVars
      /\ UNCHANGED <<sessionID, isValid>>
    BY <1>1 DEF sharedVars, otherVars, idVars, flagVars
<1> QED
    BY <1>2, <1>3, OthersSame DEF Unmoved, IoSame, ioVars

LEMMA CallUnmoved ==
    ASSUME TypeOK, NEW u \in Users \cup UdpThreads, FindRef(u) \/ UserDeref(u),
           NEW s \in Slot
    PROVE  Unmoved(s)
<1>1. u \in Thread /\ slot[u] \in Slot /\ pc[u] \notin Noticed
    BY IdleUnnoticed, WorkerContext DEF Thread, FindRef, UserDeref
<1>2. \A v \in Thread : Stays(v, s, Noticed)
    BY <1>1, IdleUnnoticed, QuietMove DEF FindRef, UserDeref
<1>3. IoSame(s)
    BY <1>1, RequestSame DEF FindRef, UserDeref, TypeOK, ioVars
<1>4. UNCHANGED connVars /\ UNCHANGED sendVars
      /\ UNCHANGED <<sessionID, isValid>>
    BY DEF FindRef, UserDeref, otherVars, idVars, flagVars
<1> QED
    BY <1>2, <1>3, <1>4, OthersSame DEF Unmoved

LEMMA AcceptRefUnmoved ==
    ASSUME TypeOK, AcceptRef, NEW s \in Slot
    PROVE  Unmoved(s)
<1>1. Acceptor \in Thread /\ pc[Acceptor] \notin Noticed
    BY IdleUnnoticed DEF Thread, AcceptRef
<1>2. \A v \in Thread : Stays(v, s, Noticed)
    BY <1>1, IdleUnnoticed, QuietMove DEF AcceptRef
<1>3. /\ UNCHANGED connVars /\ UNCHANGED sendVars /\ UNCHANGED ioVars
      /\ UNCHANGED <<sessionID, isValid>>
    BY DEF AcceptRef, otherVars, idVars, flagVars
<1> QED
    BY <1>2, <1>3, OthersSame DEF Unmoved, IoSame, ioVars

-----------------------------------------------------------------------------
(* Who can name a session: CallInv is inductive.                           *)

NamesKept ==
    /\ \A t \in Thread : pc'[t] \in Calling =>
           (pc[t] \in Calling /\ sid'[t] = sid[t]) \/ sid'[t] \in issued
    /\ \A t \in Thread : pc'[t] \in Arriving =>
           pc[t] \in Arriving /\ slot'[t] = slot[t]
    /\ \A t \in Thread : pc'[t] \in Finding =>
           (pc[t] \in Finding /\ slot'[t] = slot[t]) \/ isValid'[slot'[t]]
ContentKept == UNCHANGED issued /\ players' \subseteq players

LEMMA NamedStep ==
    ASSUME Named, UNCHANGED <<sessionID, sessionAllocNum>>, ContentKept,
           NamesKept
    PROVE  Named'
    BY DEF Named, NamesKept, ContentKept

LEMMA GotoNames ==
    ASSUME LocalType, NEW t \in Thread, NEW p, Goto(t, p),
           p \in Calling => pc[t] \in Calling,
           p \in Finding => pc[t] \in Finding,
           p \in Arriving => pc[t] \in Arriving
    PROVE  NamesKept
<1>1. "idle" \notin Calling /\ "idle" \notin Arriving
    BY DEF Calling, Finding, InBody, Arriving
<1>2. /\ Alone(t) /\ pc'[t] = p
      /\ p # "idle" => slot'[t] = slot[t] /\ sid'[t] = sid[t]
    BY GotoAlone
<1>3. \A v \in Thread : pc'[v] \in Calling =>
          pc[v] \in Calling /\ sid'[v] = sid[v]
    BY <1>1, <1>2 DEF Alone
<1>4. \A v \in Thread : pc'[v] \in Arriving =>
          pc[v] \in Arriving /\ slot'[v] = slot[v]
    BY <1>1, <1>2 DEF Alone
<1>5. \A v \in Thread : pc'[v] \in Finding =>
          pc[v] \in Finding /\ slot'[v] = slot[v]
    BY <1>1, <1>2 DEF Alone, Calling
<1> QED
    BY <1>3, <1>4, <1>5 DEF NamesKept

LEMMA BeginNames ==
    ASSUME LocalType, NEW t \in Thread, NEW p, NEW a, NEW id, NEW o,
           Begin(t, p, a, id, o), p \notin Arriving,
           p \in Calling => id \in issued, p \in Finding => isValid'[a]
    PROVE  NamesKept
    BY DEF Begin, LocalType, NamesKept

LEMMA NobodyNames ==
    ASSUME UNCHANGED <<pc, localVars>>
    PROVE  NamesKept
    BY DEF localVars, NamesKept

LEMMA NotAcceptor ==
    /\ Acceptor \in Thread
    /\ \A w \in Workers : w \in Thread /\ w # Acceptor
    /\ \A u \in Users \cup UdpThreads : u \in Thread /\ u # Acceptor
    BY ThreadAssumption DEF Thread

\* Where workers are, nobody calls.
WorkerAt ==
    {"idle", "rp.check", "rp.recv", "rp.cancel", "sp.flag", "sp.look",
     "sp.unflag", "sp.take", "sp.send", "sp.fail", "sp.cancel", "w.unflag",
     "w.more", "w.deref", "w.readid", "r.valid", "r.count", "r.cas", "r.id",
     "r.off", "r.undo", "r.close", "r.leave"}

LEMMA WorkerNames ==
    ASSUME LocalType, NEW w \in Workers,
           \/ UNCHANGED <<pc, localVars>>
           \/ \E p \in WorkerAt : Goto(w, p)
           \/ \E p \in WorkerAt : \E a, id, o : Begin(w, p, a, id, o)
    PROVE  NamesKept
<1>1. w \in Thread /\ w # Acceptor
    BY NotAcceptor
<1>2. WorkerAt \cap Calling = {} /\ WorkerAt \cap Arriving = {}
    BY DEF WorkerAt, Calling, Finding, InBody, Arriving
<1> QED
    BY <1>1, <1>2, GotoNames, BeginNames, NobodyNames DEF Calling

LEMMA CompletionNamed ==
    ASSUME TypeOK, NEW w \in Workers, NEW s \in Slot, TakeCompletion(w, s)
    PROVE  NamesKept /\ ContentKept
<1>1. \/ UNCHANGED <<pc, localVars>>
      \/ \E p \in WorkerAt : \E a, id, o : Begin(w, p, a, id, o)
    BY DEF TakeCompletion, RecvDone, SendDone, IoFailed, SendRequested,
           ReleaseRequested, LeaveDone, WorkerAt
<1>2. ContentKept
    BY DEF TakeCompletion, RecvDone, SendDone, IoFailed, SendRequested,
           ReleaseRequested, LeaveDone, otherVars, contentVars, ContentKept
<1> QED
    BY <1>1, <1>2, WorkerNames DEF TypeOK

LEMMA WorkerNamed ==
    ASSUME TypeOK, NEW w \in Workers, WorkerStep(w)
    PROVE  NamesKept /\ ContentKept
<1>1. w \in Thread /\ w # Acceptor /\ LocalType
    BY NotAcceptor DEF TypeOK
<1>2. CASE RecvPost(w) \/ SendPost(w)
  <2>1. \E p \in WorkerAt : Goto(w, p)
      BY <1>2 DEF RecvPost, RecvPostCheck, RecvPostRecv, RecvPostCancel,
                  SendPost, SendPostFlag, SendPostLook, SendPostUnflag,
                  SendPostTake, SendPostSend, SendPostFail, SendPostCancel,
                  Look, WorkerAt
  <2>2. ContentKept
      BY <1>2 DEF RecvPost, RecvPostCheck, RecvPostRecv, RecvPostCancel,
                  SendPost, SendPostFlag, SendPostLook, SendPostUnflag,
                  SendPostTake, SendPostSend, SendPostFail, SendPostCancel,
                  Look, sharedVars, otherVars, contentVars, ContentKept
  <2> QED
      BY <1>1, <2>1, <2>2, WorkerNames
<1>3. CASE SentUnflag(w) \/ SentMore(w) \/ WorkerDeref(w) \/ ReadID(w)
  <2>1. \/ \E p \in WorkerAt : Goto(w, p)
        \/ \E p \in WorkerAt : \E a, id, o : Begin(w, p, a, id, o)
      BY <1>3 DEF SentUnflag, SentMore, WorkerDeref, ReadID, Look, WorkerAt
  <2>2. ContentKept
      BY <1>3 DEF SentUnflag, SentMore, WorkerDeref, ReadID, Look,
                  sharedVars, otherVars, contentVars, ContentKept
  <2> QED
      BY <1>1, <2>1, <2>2, WorkerNames
<1>4. CASE ReleaseSession(w)
  <2>1. ContentKept
      BY <1>4 DEF ReleaseSession, ReleaseValid, ReleaseCount, ReleaseCas,
                  ReleaseID, ReleaseOff, ReleaseUndo, ReleaseClose,
                  ReleaseLeave, Look, sharedVars, otherVars, contentVars,
                  ContentKept
  <2>2. CASE ReleaseCount(w)
    <3>1. "r.cas" \notin Calling /\ "r.cas" \notin Arriving
        BY DEF Calling, Finding, InBody, Arriving
    <3> QED
        BY <1>1, <2>1, <2>2, <3>1
           DEF ReleaseCount, LocalType, Calling, NamesKept
  <2>3. CASE ~ReleaseCount(w)
    <3>1. \/ \E p \in WorkerAt : Goto(w, p)
          \/ \E p \in WorkerAt : \E a, id, o : Begin(w, p, a, id, o)
        BY <1>4, <2>3 DEF ReleaseSession, ReleaseValid, ReleaseCas,
                          ReleaseID, ReleaseOff, ReleaseUndo, ReleaseClose,
                          ReleaseLeave, Look, WorkerAt
    <3> QED
        BY <1>1, <2>1, <3>1, WorkerNames
  <2> QED
      BY <2>2, <2>3
<1> QED
    BY <1>2, <1>3, <1>4 DEF WorkerStep

LEMMA CallNamed ==
    ASSUME TypeOK, NEW u \in Users \cup UdpThreads, CallStep(u)
    PROVE  NamesKept /\ ContentKept
<1>1. u \in Thread /\ u # Acceptor /\ LocalType
    BY NotAcceptor DEF TypeOK
<1>2. ContentKept
    BY DEF CallStep, FindRef, FindFlag, FindID, UserDeref,
           SendPacketEnqueue, SendPacketLast, SendPacketPost, DisconnectCut,
           GetUDPRead, UdpWrite, Look, sharedVars, otherVars, contentVars,
           ContentKept
<1>3. PICK p : Goto(u, p)
    BY DEF CallStep, FindRef, FindFlag, FindID, UserDeref,
           SendPacketEnqueue, SendPacketLast, SendPacketPost, DisconnectCut,
           GetUDPRead, UdpWrite, Look
<1>4. pc[u] \in Calling \cup {"u.deref"}
    BY DEF CallStep, FindRef, FindFlag, FindID, UserDeref,
           SendPacketEnqueue, SendPacketLast, SendPacketPost, DisconnectCut,
           GetUDPRead, UdpWrite, Look, Calling, Finding, InBody
<1>5. p \in Calling => pc[u] \in Calling
  <2>1. CASE UserDeref(u)
    <3>1. Goto(u, "idle") /\ "idle" \notin Calling
        BY <2>1 DEF UserDeref, Calling, Finding, InBody
    <3>2. pc'[u] = "idle" /\ pc'[u] = p
        BY <1>1, <1>3, <3>1, GotoAlone
    <3> QED
        BY <3>1, <3>2
  <2>2. CASE ~UserDeref(u)
      BY <2>2 DEF CallStep, FindRef, FindFlag, FindID,
           SendPacketEnqueue, SendPacketLast, SendPacketPost, DisconnectCut,
           GetUDPRead, UdpWrite, Look, Calling, Finding, InBody
  <2> QED
      BY <2>1, <2>2
<1>6. p \in Finding => pc[u] \in Finding
  <2>1. CASE FindRef(u) \/ FindFlag(u)
      BY <2>1 DEF FindRef, FindFlag, Look, Finding
  <2>2. CASE ~FindRef(u) /\ ~FindFlag(u)
    <3>1. PICK q : Goto(u, q) /\ q \notin Finding
        BY <2>2 DEF CallStep, FindID, UserDeref, SendPacketEnqueue,
                    SendPacketLast, SendPacketPost, DisconnectCut,
                    GetUDPRead, UdpWrite, Look, Body, Finding
    <3>2. pc'[u] = q /\ pc'[u] = p
        BY <1>1, <1>3, <3>1, GotoAlone
    <3> QED
        BY <3>1, <3>2
  <2> QED
      BY <2>1, <2>2
<1>7. p \notin Arriving
  <2>1. PICK q : Goto(u, q) /\ q \notin Arriving
      BY DEF CallStep, FindRef, FindFlag, FindID, UserDeref,
             SendPacketEnqueue, SendPacketLast, SendPacketPost,
             DisconnectCut, GetUDPRead, UdpWrite, Look, Body, Arriving
  <2>2. pc'[u] = q /\ pc'[u] = p
      BY <1>1, <1>3, <2>1, GotoAlone
  <2> QED
      BY <2>1, <2>2
<1> QED
    BY <1>1, <1>2, <1>3, <1>5, <1>6, <1>7, GotoNames

LEMMA AcceptNamed ==
    ASSUME TypeOK, Named, NEW i \in Slot, Accept(i)
    PROVE  Named'
<1>1. /\ sessionAllocNum \in Nat /\ sessionAllocNum' = sessionAllocNum + 1
      /\ sessionID' = [sessionID EXCEPT ![i] = <<sessionAllocNum, i>>]
      /\ sessionID \in [Slot -> SessionID]
      /\ issued \subseteq SessionID
      /\ UNCHANGED <<players, issued>>
    BY ConstAssumption
       DEF TypeOK, IdType, ContentType, Accept, contentVars
<1>2. /\ pc'[Acceptor] = "a.ref" /\ slot'[Acceptor] = i
      /\ \A v \in Thread \ {Acceptor} : pc'[v] = pc[v] /\ sid'[v] = sid[v]
    BY NotAcceptor DEF Accept, Begin, TypeOK, LocalType
<1>3. \A id \in issued : id[1] \in Nat /\ id[1] < sessionAllocNum
    BY <1>1, ConstAssumption DEF Named, SessionID
<1>4. \A id \in issued' : id[1] < sessionAllocNum'
    BY <1>1, <1>3
<1>5. \A t \in Thread : pc'[t] \in Calling => sid'[t] \in issued'
  <2>1. "a.ref" \notin Calling
      BY DEF Calling, Finding, InBody
  <2> QED
      BY <1>1, <1>2, <2>1 DEF Named
<1>6. /\ sessionID'[slot'[Acceptor]] \notin issued'
      /\ sessionID'[slot'[Acceptor]][1] < sessionAllocNum'
  <2>1. sessionID'[slot'[Acceptor]] = <<sessionAllocNum, i>>
      BY <1>1, <1>2
  <2> QED
      BY <1>1, <1>3, <2>1
<1>7. \A t \in Thread \ {Acceptor} : pc'[t] \notin Arriving
    BY <1>2 DEF Named
<1> QED
    BY <1>1, <1>4, <1>5, <1>6, <1>7 DEF Named

LEMMA AcceptStepNamed ==
    ASSUME TypeOK, Named, AcceptStep
    PROVE  Named'
<1> DEFINE a == Acceptor
<1>1. /\ a \in Thread /\ LocalType
      /\ UNCHANGED <<sessionID, sessionAllocNum>>
    BY NotAcceptor
       DEF TypeOK, AcceptStep, AcceptRef, AcceptValid, AcceptFlag,
           AcceptReset, AcceptJoin, AcceptRecv, otherVars, idVars
<1>2. CASE AcceptJoin
  <2>1. /\ pc[a] = "a.join" /\ Goto(a, "a.recv")
        /\ players' = players \cup {sessionID[slot[a]]}
        /\ issued' = issued \cup {sessionID[slot[a]]}
      BY <1>2 DEF AcceptJoin
  <2>2. pc'[a] = "a.recv" /\ Alone(a)
      BY <1>1, <2>1, GotoAlone
  <2>3. "a.recv" \notin Arriving /\ "a.recv" \notin Calling
      BY DEF Arriving, Calling, Finding, InBody
  <2>4. sessionID[slot[a]][1] < sessionAllocNum
      BY <1>1, <2>1 DEF Named, Arriving
  <2>5. \A id \in issued' : id[1] < sessionAllocNum'
      BY <1>1, <2>1, <2>4 DEF Named
  <2>6. \A t \in Thread : pc'[t] \in Calling => sid'[t] \in issued'
      BY <2>1, <2>2, <2>3 DEF Alone, Named
  <2>7. \A t \in Thread : pc'[t] \notin Arriving
      BY <2>2, <2>3 DEF Alone, Named
  <2> QED
      BY <2>1, <2>5, <2>6, <2>7 DEF Named
<1>3. CASE ~AcceptJoin
  <2>1. PICK p : /\ Goto(a, p) /\ p \notin Calling
                 /\ p \in Arriving => pc[a] \in Arriving
      BY <1>3 DEF AcceptStep, AcceptRef, AcceptValid, AcceptFlag,
                  AcceptReset, AcceptRecv, Calling, Finding, InBody, Arriving
  <2>2. ContentKept
      BY <1>3 DEF AcceptStep, AcceptRef, AcceptValid, AcceptFlag,
                  AcceptReset, AcceptRecv, otherVars, contentVars,
                  ContentKept
  <2> QED
      BY <1>1, <2>1, <2>2, GotoNames, NamedStep DEF Calling
<1> QED
    BY <1>2, <1>3

\* Every step but those of the accept thread.
LEMMA OtherNamed ==
    ASSUME TypeOK, Named, Next, \A i \in Slot : ~Accept(i), ~AcceptStep
    PROVE  NamesKept /\ ContentKept
<1>1. ASSUME NEW s \in Slot, Complete(s) \/ PeerReset(s)
      PROVE  NamesKept /\ ContentKept
    BY <1>1, NobodyNames
       DEF Complete, PeerReset, otherVars, contentVars, ContentKept
<1>2. ASSUME NEW u \in Users, NEW id \in SessionID, HandleJobs(u, id)
      PROVE  NamesKept /\ ContentKept
    BY <1>2, NobodyNames DEF HandleJobs, ContentKept
<1>3. ASSUME NEW u \in Users \cup UdpThreads, NEW id \in issued, NEW o,
             FindValid(u, id, o)
      PROVE  NamesKept /\ ContentKept
  <2>1. u \in Thread /\ u # Acceptor /\ LocalType
      BY NotAcceptor DEF TypeOK
  <2>2. ContentKept
      BY <1>3 DEF FindValid, sharedVars, otherVars, contentVars, ContentKept
  <2>3. NamesKept
    <3>1. CASE UNCHANGED <<pc, localVars>>
        BY <2>2, <3>1, NobodyNames
    <3>2. CASE /\ isValid[IndexOf(id)]
               /\ Begin(u, "f.ref", IndexOf(id), id, o)
      <4>1. isValid'[IndexOf(id)]
          BY <1>3, <3>2 DEF FindValid, sharedVars, flagVars
      <4>2. "f.ref" \notin Arriving
          BY DEF Arriving
      <4> QED
          BY <2>1, <2>2, <3>2, <4>1, <4>2, BeginNames
    <3> QED
        BY <1>3, <3>1, <3>2 DEF FindValid
  <2> QED
      BY <2>2, <2>3
<1>4. ASSUME NEW u \in Users, NEW id \in SessionID, NEW o \in AllCalls,
             UserCall(u, id, o)
      PROVE  NamesKept /\ ContentKept
    BY <1>3, <1>4 DEF UserCall, Named
<1>5. ASSUME NEW u \in UdpThreads, NEW id \in SessionID, UdpReceive(u, id)
      PROVE  NamesKept /\ ContentKept
    BY <1>3, <1>5 DEF UdpReceive
<1> QED
    BY <1>1, <1>2, <1>4, <1>5, CompletionNamed, WorkerNamed, CallNamed
       DEF Next

LEMMA NextNamed ==
    ASSUME TypeOK, Named, Next
    PROVE  Named'
<1>1. ASSUME \A i \in Slot : ~Accept(i), ~AcceptStep
      PROVE  Named'
    BY <1>1, OtherNamed, NamedByAccept, NamedStep
<1> QED
    BY <1>1, AcceptNamed, AcceptStepNamed

\* Who looks for a session found its slot valid, and a slot that was valid
\* has its flag set before it stops to be so.
LEMMA UncalledStep ==
    ASSUME NEW s \in Slot, Uncalled(s),
           \A t \in Thread : slot'[t] = s /\ pc'[t] \in Finding =>
               (pc[t] \in Finding /\ slot[t] = s) \/ isValid'[s],
           ~isValid'[s] /\ releaseFlag'[s] = DELFLAG_OFF =>
               ~isValid[s] /\ releaseFlag[s] = DELFLAG_OFF
    PROVE  Uncalled(s)'
    BY DEF Uncalled, At

LEMMA FlagStep ==
    ASSUME TypeOK, CustodyInv, Next, NEW s \in Slot,
           ~isValid'[s] /\ releaseFlag'[s] = DELFLAG_OFF
    PROVE  ~isValid[s] /\ releaseFlag[s] = DELFLAG_OFF
<1>1. /\ isValid \in [Slot -> BOOLEAN] /\ Custody(s)
      /\ releaseFlag \in [Slot -> {DELFLAG_OFF, DELFLAG_ON}]
      /\ DELFLAG_OFF # DELFLAG_ON
    BY DEF TypeOK, FlagType, CustodyInv, DELFLAG_OFF, DELFLAG_ON
<1>2. CASE UNCHANGED flagVars
    BY <1>2 DEF flagVars
<1>3. CASE AcceptStep
  <2>1. CASE AcceptValid
      BY <1>1, <2>1 DEF AcceptValid
  <2>2. CASE AcceptFlag
    <3>1. s = slot[Acceptor] => isValid[s]
        BY <1>1, <2>2 DEF AcceptFlag, Custody, Starting
    <3> QED
        BY <1>1, <2>2, <3>1 DEF AcceptFlag
  <2> QED
      BY <1>2, <1>3, <2>1, <2>2
         DEF AcceptStep, AcceptRef, AcceptReset, AcceptJoin, AcceptRecv
<1>4. ASSUME NEW w \in Workers, ReleaseSession(w)
      PROVE  ~isValid[s] /\ releaseFlag[s] = DELFLAG_OFF
  <2>1. w \in Thread
      BY NotAcceptor
  <2>2. pc[w] \in Claiming /\ slot[w] = s =>
            releaseFlag[s] = DELFLAG_ON /\ (isValid[s] \/ pc[w] = "r.leave")
      BY <1>1, <2>1 DEF Custody, Claimed, At
  <2>3. CASE ReleaseCas(w)
      BY <1>1, <2>3 DEF ReleaseCas
  <2>4. CASE ReleaseOff(w)
      BY <1>1, <2>2, <2>4 DEF ReleaseOff, Claiming
  <2>5. CASE ReleaseClose(w)
      BY <1>1, <2>2, <2>5 DEF ReleaseClose, Claiming
  <2> QED
      BY <1>2, <1>4, <2>3, <2>4, <2>5
         DEF ReleaseSession, ReleaseValid, ReleaseCount, ReleaseID,
             ReleaseUndo, ReleaseLeave, Look, sharedVars
<1>5. ASSUME NEW w \in Workers, WorkerStep(w), ~ReleaseSession(w)
      PROVE  UNCHANGED flagVars
  <2>1. CASE SentUnflag(w) \/ SentMore(w) \/ WorkerDeref(w) \/ ReadID(w)
      BY <2>1 DEF SentUnflag, SentMore, WorkerDeref, ReadID, Look, sharedVars
  <2> QED
      BY <1>5, <2>1, RecvPostQuiet, SendPostQuiet
         DEF WorkerStep, Quiet, custodyVars
<1>6. ASSUME NEW w \in Workers, NEW r \in Slot, TakeCompletion(w, r)
      PROVE  UNCHANGED flagVars
    BY <1>6 DEF TakeCompletion, RecvDone, SendDone, IoFailed, SendRequested,
                ReleaseRequested, LeaveDone
<1>7. ASSUME \/ \E i \in Slot : Accept(i)
             \/ \E r \in Slot : Complete(r) \/ PeerReset(r)
             \/ \E u \in Users, id \in SessionID :
                    HandleJobs(u, id) \/ \E o \in AllCalls : UserCall(u, id, o)
             \/ \E u \in UdpThreads, id \in SessionID : UdpReceive(u, id)
      PROVE  UNCHANGED flagVars
    BY <1>7 DEF Accept, Complete, PeerReset, HandleJobs, UserCall,
                UdpReceive, FindValid, sharedVars
<1>8. ASSUME NEW u \in Users \cup UdpThreads, CallStep(u)
      PROVE  UNCHANGED flagVars
    BY <1>8, CallStepQuiet DEF Quiet, custodyVars
<1> QED
    BY <1>2, <1>3, <1>4, <1>5, <1>6, <1>7, <1>8 DEF Next

LEMMA NextUncalled ==
    ASSUME TypeOK, CustodyInv, CallInv, Next, NEW s \in Slot
    PROVE  Uncalled(s)'
<1>1. Uncalled(s)
    BY DEF CallInv
<1>2. \A t \in Thread : slot'[t] = s /\ pc'[t] \in Finding =>
          (pc[t] \in Finding /\ slot[t] = s) \/ isValid'[s]
  <2>1. CASE (\E i \in Slot : Accept(i)) \/ AcceptStep
    <3>1. PICK p : /\ pc'[Acceptor] = p /\ p \notin Finding
                   /\ Alone(Acceptor)
      <4>1. CASE \E i \in Slot : Accept(i)
          BY <4>1, NotAcceptor DEF Accept, Begin, TypeOK, LocalType, Alone,
                                   Finding
      <4>2. CASE AcceptStep
        <5>1. PICK p : Goto(Acceptor, p) /\ p \notin Finding
            BY <4>2 DEF AcceptStep, AcceptRef, AcceptValid, AcceptFlag,
                        AcceptReset, AcceptJoin, AcceptRecv, Finding
        <5> QED
            BY <5>1, NotAcceptor, GotoAlone DEF TypeOK
      <4> QED
          BY <2>1, <4>1, <4>2
    <3> QED
        BY <3>1 DEF Alone
  <2>2. CASE (\A i \in Slot : ~Accept(i)) /\ ~AcceptStep
      BY <2>2, OtherNamed DEF CallInv, NamesKept
  <2> QED
      BY <2>1, <2>2
<1> QED
    BY <1>1, <1>2, FlagStep, UncalledStep

-----------------------------------------------------------------------------
(* The sends that are under way.                                           *)

LEMMA SendingNat ==
    ASSUME IoType, NEW s \in Slot
    PROVE  /\ sendIO[s] \in Nat /\ hcp[s]["sendOk"] \in Nat
           /\ hcp[s]["sendErr"] \in Nat
           /\ Sending(s) \in Nat /\ Coming(s) \in Nat
           /\ Coming(s) <= Sending(s)
    BY DEF IoType, Port, Completion, Sending, Coming

\* A completion that is taken or posted.
LEMMA TakeSending ==
    ASSUME IoType, NEW s \in Slot, NEW c \in Completion, Take(s, c),
           UNCHANGED sendIO
    PROVE  /\ Sending(s)' = IF c \in {"sendOk", "sendErr"}
                            THEN Sending(s) - 1 ELSE Sending(s)
           /\ Coming(s)' = IF c = "sendOk" THEN Coming(s) - 1 ELSE Coming(s)
    BY DEF IoType, Port, Completion, Take, Without, Sending, Coming

LEMMA PostSending ==
    ASSUME IoType, NEW s \in Slot, NEW c \in Completion, Post(s, c),
           UNCHANGED sendIO
    PROVE  /\ Sending(s)' = IF c \in {"sendOk", "sendErr"}
                            THEN Sending(s) + 1 ELSE Sending(s)
           /\ Coming(s)' = IF c = "sendOk" THEN Coming(s) + 1 ELSE Coming(s)
    BY DEF IoType, Port, Completion, Post, Sending, Coming

\* Cancelling moves a send from the kernel to the port.
LEMMA CancelSending ==
    ASSUME IoType, NEW s \in Slot, NEW kinds, NEW port \in Port,
           CancelIo(s, kinds, port)
    PROVE  Sending(s)' =
               sendIO[s] + port[s]["sendOk"] + port[s]["sendErr"]
<1> DEFINE a == IF "recv" \in kinds /\ sock[s] # "closed" THEN recvIO[s] ELSE 0
           b == IF "send" \in kinds /\ sock[s] # "closed" THEN sendIO[s] ELSE 0
<1>1. /\ sendIO' = [sendIO EXCEPT ![s] = @ - b]
      /\ hcp' = [port EXCEPT ![s]["recvErr"] = @ + a, ![s]["sendErr"] = @ + b]
    BY DEF CancelIo
<1>2. a \in Nat /\ b \in Nat
    BY DEF IoType
<1> HIDE DEF a, b
<1>3. sendIO'[s] = sendIO[s] - b /\ sendIO[s] \in Nat
    BY <1>1, <1>2 DEF IoType
<1>4. /\ hcp'[s]["sendOk"] = port[s]["sendOk"]
      /\ hcp'[s]["sendErr"] = port[s]["sendErr"] + b
      /\ port[s]["sendOk"] \in Nat /\ port[s]["sendErr"] \in Nat
    BY <1>1, <1>2 DEF Port, Completion
<1> QED
    BY <1>2, <1>3, <1>4 DEF Sending

LEMMA DisconnectSending ==
    ASSUME IoType, NEW s \in Slot
    PROVE  /\ \A kinds : CancelIo(s, kinds, hcp) => Sending(s)' = Sending(s)
           /\ \A c \in Completion :
                  hcp[s][c] > 0 /\ Disconnect(s, Without(s, c)) =>
                      Sending(s)' = IF c \in {"sendOk", "sendErr"}
                                    THEN Sending(s) - 1 ELSE Sending(s)
<1>1. ASSUME NEW kinds, CancelIo(s, kinds, hcp)
      PROVE  Sending(s)' = Sending(s)
    BY <1>1, CancelSending DEF IoType, Sending
<1>2. ASSUME NEW c \in Completion, hcp[s][c] > 0,
             Disconnect(s, Without(s, c))
      PROVE  Sending(s)' = IF c \in {"sendOk", "sendErr"}
                           THEN Sending(s) - 1 ELSE Sending(s)
  <2>1. Without(s, c) \in Port
      BY <1>2, PortTypes
  <2>2. Sending(s)' = sendIO[s] + Without(s, c)[s]["sendOk"]
                      + Without(s, c)[s]["sendErr"]
      BY <1>2, <2>1, CancelSending DEF Disconnect
  <2> QED
      BY <2>2 DEF IoType, Port, Completion, Without, Sending
<1> QED
    BY <1>1, <1>2

\* How one thread that moves changes the number of senders.
LEMMA SenderMoves ==
    ASSUME NEW s, NEW t \in Thread, Alone(t), Sending(s) \in Int,
           Sending(s)' \in Int
    PROVE  Sender(s)' = Sender(s) + (Sending(s)' - Sending(s))
               - (IF slot[t] = s /\ pc[t] \in SenderAt THEN 1 ELSE 0)
               + (IF slot'[t] = s /\ pc'[t] \in SenderAt THEN 1 ELSE 0)
<1>1. \A v \in Thread \ {t} : pc'[v] = pc[v] /\ slot'[v] = slot[v]
    BY DEF Alone
<1>2. /\ Cardinality(At(s, SenderAt)) \in Nat
      /\ Cardinality(At(s, SenderAt)') =
             Cardinality(At(s, SenderAt))
             - (IF slot[t] = s /\ pc[t] \in SenderAt THEN 1 ELSE 0)
             + (IF slot'[t] = s /\ pc'[t] \in SenderAt THEN 1 ELSE 0)
    BY <1>1, OneMoves
<1> QED
    BY <1>2, SenderSum

\* The thread that sends is the only one, and nothing else is under way.
LEMMA SoleSender ==
    ASSUME TypeOK, NEW s \in Slot, Elected(s), NEW t \in Thread,
           slot[t] = s, pc[t] \in SenderAt
    PROVE  /\ Sender(s) = 1 /\ Sending(s) = 0 /\ sendFlag[s] = 1
           /\ \A v \in Thread \ {t} : ~(slot[v] = s /\ pc[v] \in SenderAt)
<1>1. t \in At(s, SenderAt)
    BY DEF At
<1>2. Cardinality(At(s, SenderAt)) \in Nat /\ At(s, SenderAt) # {}
      /\ IsFiniteSet(At(s, SenderAt))
    BY <1>1, AtCounts, ThreadsFinite, FS_Subset DEF At
<1>3. Cardinality(At(s, SenderAt)) # 0
    BY <1>2, AtCounts
<1>4. /\ Sender(s) = 1 /\ Sending(s) = 0
      /\ Cardinality(At(s, SenderAt)) = 1
    BY <1>2, <1>3, SenderSum, SendingNat DEF TypeOK, Elected
<1>5. sendFlag[s] = 1
    BY <1>4 DEF Elected, TypeOK, SendType
<1>6. PICK one : At(s, SenderAt) = {one}
    BY <1>2, <1>4, FS_Singleton
<1>7. \A v \in Thread \ {t} : v \notin At(s, SenderAt)
    BY <1>1, <1>6
<1> QED
    BY <1>4, <1>5, <1>7 DEF At

-----------------------------------------------------------------------------
(* The steps of one thread that neither make nor unmake a sender.          *)

\* A thread that is at one of the points was there before.
Within(t, s, points) ==
    slot'[t] = s /\ pc'[t] \in points => slot[t] = s /\ pc[t] \in points

LEMMA SendsMove ==
    ASSUME TypeOK, NEW s \in Slot, NEW t \in Thread, Alone(t), Sends(s),
           SendSame(s), sessionID'[s] = sessionID[s], issued \subseteq issued',
           Sending(s)' \in Nat, Sending(s)' <= Sending(s),
           Within(t, s, SenderAt), Within(t, s, EmptyAt),
           slot'[t] = s /\ pc'[t] \in InBody => sid'[t] = sessionID[s],
           Awaited(s)'
    PROVE  Sends(s)'
<1>1. Elected(s)'
  <2>1. Sender(s)' <= Sender(s) /\ Sender(s)' \in Nat /\ Sender(s) \in Nat
    <3>1. Sender(s) \in Nat /\ Sending(s) \in Int /\ Sending(s)' \in Int
        BY SendingNat, AtCounts, SenderSum DEF TypeOK
    <3>2. Sender(s)' <= Sender(s)
        BY <3>1, SenderMoves DEF Within
    <3>3. Cardinality(At(s, SenderAt)') \in Nat
        BY OneMoves, AtCounts, ThreadsFinite, FS_Subset, FS_CardinalityType
           DEF At
    <3>4. Sender(s)' \in Nat
        BY <3>3, SenderSum
    <3> QED
        BY <3>1, <3>2, <3>4
  <2> QED
      BY <2>1 DEF Sends, Elected, SendSame
<1>2. Emptied(s)'
  <2>1. At(s, EmptyAt)' \subseteq At(s, EmptyAt)
      BY DEF At, Within, Alone
  <2> QED
      BY <2>1 DEF Sends, Emptied, SendSame
<1>3. Found(s)'
    BY DEF Sends, Found, At, Alone
<1>4. Packets(s)'
    BY PartsKept DEF Sends, SendSame
<1> QED
    BY <1>1, <1>2, <1>3, <1>4 DEF Sends

LEMMA GotoSends ==
    ASSUME TypeOK, NEW s \in Slot, NEW t \in Thread, slot[t] = s, Sends(s),
           NEW p, Goto(t, p), SendSame(s), sessionID'[s] = sessionID[s],
           issued \subseteq issued',
           Sending(s)' \in Nat, Sending(s)' <= Sending(s),
           p \in SenderAt => pc[t] \in SenderAt,
           p \in EmptyAt => pc[t] \in EmptyAt,
           p \in InBody => sid[t] = sessionID[s],
           Awaited(s)'
    PROVE  Sends(s)'
<1>1. /\ Alone(t) /\ pc'[t] = p
      /\ p # "idle" => slot'[t] = slot[t] /\ sid'[t] = sid[t]
    BY GotoAlone DEF TypeOK
<1>2. "idle" \notin SenderAt /\ "idle" \notin EmptyAt /\ "idle" \notin InBody
    BY DEF SenderAt, EmptyAt, InBody
<1> QED
    BY <1>1, <1>2, SendsMove DEF Within

LEMMA BeginSends ==
    ASSUME TypeOK, NEW s \in Slot, NEW t \in Thread, Sends(s),
           \/ UNCHANGED <<pc, localVars>>
           \/ \E p, id, o : /\ Begin(t, p, s, id, o)
                            /\ p \notin SenderAt \cup EmptyAt \cup InBody,
           SendSame(s), sessionID'[s] = sessionID[s],
           issued \subseteq issued',
           Sending(s)' \in Nat, Sending(s)' <= Sending(s),
           Awaited(s)'
    PROVE  Sends(s)'
<1>1. CASE UNCHANGED <<pc, localVars>>
  <2>1. slot[t] = s /\ pc[t] \in InBody => sid[t] = sessionID[s]
      BY DEF Sends, Found, At
  <2> QED
      BY <1>1, <2>1, SendsMove DEF localVars, Alone, Within
<1>2. CASE \E p, id, o : /\ Begin(t, p, s, id, o)
                         /\ p \notin SenderAt \cup EmptyAt \cup InBody
  <2>1. /\ Alone(t) /\ pc'[t] \notin SenderAt \cup EmptyAt \cup InBody
      BY <1>2 DEF Begin, TypeOK, LocalType, Alone
  <2> QED
      BY <2>1, SendsMove DEF Within
<1> QED
    BY <1>1, <1>2

\* A session that is cut, or whose connection is lost, waits for nothing.
LEMMA CutAwaits ==
    ASSUME NEW s, disconnectStep'[s] # "SENDPOST_LAST" \/ sock'[s] # "open"
    PROVE  Awaited(s)'
    BY DEF Awaited

LEMMA LinkAwaits ==
    ASSUME NEW s, Awaited(s), LinkSame(s), Coming(s)' >= Coming(s),
           Coming(s) \in Int, Coming(s)' \in Int,
           At(s, {"sp.fail"}) \subseteq At(s, {"sp.fail"})'
    PROVE  Awaited(s)'
    BY DEF Awaited, LinkSame

LEMMA FailKept ==
    ASSUME NEW s, NEW t \in Thread, Alone(t), pc[t] # "sp.fail"
    PROVE  At(s, {"sp.fail"}) \subseteq At(s, {"sp.fail"})'
    BY DEF At, Alone

-----------------------------------------------------------------------------
(* A slot that is in use stays so.                                         *)

LEMMA UsedNow ==
    ASSUME NEW s \in Slot, Quieted(s),
           \/ \E t \in Thread : slot[t] = s /\ pc[t] \in Using
           \/ UnderWay(s) # 0
           \/ \E t \in Thread : /\ slot[t] = s /\ pc[t] = "f.id"
                                /\ sid[t] = sessionID[s]
    PROVE  ~Dead(s)
    BY DEF Quieted, Still, At

LEMMA LiveQuieted ==
    ASSUME NEW s, ~Dead(s)'
    PROVE  Quieted(s)'
    BY DEF Quieted, Dead, Clean

LEMMA QuietLives ==
    ASSUME NEW s \in Slot, Quiet, ~Dead(s)
    PROVE  Quieted(s)'
<1>1. NameSame(s)
    BY DEF Quiet, custodyVars, flagVars, NameSame
<1>2. \A t \in Thread : Stays(t, s, Life)
  <2>1. Life \subseteq Watched
      BY DEF Life, Watched, Joining, Claiming
  <2> QED
      BY <2>1 DEF Quiet, Away, Stays
<1> QED
    BY <1>1, <1>2, DeadKept, LiveQuieted

-----------------------------------------------------------------------------
(* The live steps, but for those of a sender.                              *)

SameSends(s) ==
    /\ SendSame(s) /\ sessionID'[s] = sessionID[s] /\ issued \subseteq issued'

\* The session is cut by the step, or what it waits for stays.
WaitKept(s) ==
    \/ disconnectStep'[s] # "SENDPOST_LAST" \/ sock'[s] # "open"
    \/ LinkSame(s) /\ Coming(s)' = Coming(s)

LEMMA WaitAwaits ==
    ASSUME TypeOK, NEW s \in Slot, Awaited(s), NEW t \in Thread, Alone(t),
           pc[t] # "sp.fail", WaitKept(s)
    PROVE  Awaited(s)'
<1>1. CASE disconnectStep'[s] # "SENDPOST_LAST" \/ sock'[s] # "open"
    BY <1>1, CutAwaits
<1>2. CASE LinkSame(s) /\ Coming(s)' = Coming(s)
  <2>1. Coming(s) \in Int
      BY SendingNat DEF TypeOK
  <2> QED
      BY <1>2, <2>1, FailKept, LinkAwaits
<1> QED
    BY <1>1, <1>2 DEF WaitKept

LEMMA EmptySender == EmptyAt \subseteq SenderAt
    BY DEF EmptyAt, SenderAt

LEMMA OtherSends ==
    ASSUME TypeOK, NEW s \in Slot, Sends(s), NEW t \in Thread, slot[t] = s,
           NEW p, Goto(t, p), p \notin SenderAt,
           p \in InBody => pc[t] \in InBody \/ sid[t] = sessionID[s],
           pc[t] # "sp.fail",
           SameSends(s), Sending(s)' = Sending(s), WaitKept(s)
    PROVE  Sends(s)'
<1>1. Sending(s)' \in Nat /\ Sending(s)' <= Sending(s)
    BY SendingNat DEF TypeOK
<1>2. Awaited(s)'
    BY GotoAlone, WaitAwaits DEF TypeOK, Sends
<1>3. p \in InBody => sid[t] = sessionID[s]
    BY DEF Sends, Found, At
<1> QED
    BY <1>1, <1>2, <1>3, EmptySender, GotoSends DEF SameSends

LEMMA TakenSends ==
    ASSUME TypeOK, NEW s \in Slot, Sends(s), NEW t \in Thread,
           pc[t] = "idle",
           \/ UNCHANGED <<pc, localVars>>
           \/ \E p, id, o : /\ Begin(t, p, s, id, o)
                            /\ p \notin SenderAt \cup InBody,
           SameSends(s), Sending(s)' \in Nat, Sending(s)' <= Sending(s),
           WaitKept(s)
    PROVE  Sends(s)'
<1>1. Alone(t)
    BY DEF Begin, TypeOK, LocalType, localVars, Alone
<1>2. Awaited(s)'
    BY <1>1, WaitAwaits DEF Sends
<1> QED
    BY <1>2, EmptySender, BeginSends DEF SameSends

LEMMA StillSending ==
    ASSUME NEW s, UNCHANGED <<sendIO, hcp>>
    PROVE  Sending(s)' = Sending(s) /\ Coming(s)' = Coming(s)
    BY DEF Sending, Coming

LEMMA StillLink ==
    ASSUME NEW s
    PROVE  /\ UNCHANGED connVars => LinkSame(s)
           /\ UNCHANGED sendVars => SendSame(s)
    BY DEF connVars, LinkSame, sendVars, SendSame

LEMMA NotSending ==
    {"rp.check", "rp.recv", "rp.cancel", "sp.flag", "sp.cancel", "w.more",
     "w.deref", "w.readid", "idle", "u.deref", "a.recv"}
        \cap (SenderAt \cup InBody) = {}
    BY DEF SenderAt, InBody

LEMMA RecvPostSends ==
    ASSUME TypeOK, NEW w \in Workers, NEW s \in Slot, slot[w] = s,
           RecvPost(w), Sends(s)
    PROVE  Sends(s)'
<1>1. w \in Thread /\ pc[w] # "sp.fail" /\ IoType
    BY DEF Thread, TypeOK, RecvPost, RecvPostCheck, RecvPostRecv,
           RecvPostCancel
<1>2. SameSends(s) /\ UNCHANGED connVars
    BY StillLink
       DEF RecvPost, RecvPostCheck, RecvPostRecv, RecvPostCancel, otherVars,
           idVars, contentVars, SameSends
<1>3. PICK p \in {"w.deref", "rp.recv", "rp.cancel"} : Goto(w, p)
    BY DEF RecvPost, RecvPostCheck, RecvPostRecv, RecvPostCancel
<1>4. Sending(s)' = Sending(s) /\ WaitKept(s)
  <2>1. CASE UNCHANGED <<sendIO, hcp>>
      BY <1>2, <2>1, StillSending, StillLink DEF WaitKept
  <2>2. CASE /\ disconnectStep[s] = "DISCONNECT"
             /\ CancelIo(s, {"recv"}, hcp)
      BY <1>1, <1>2, <2>2, DisconnectSending DEF connVars, WaitKept
  <2> QED
      BY <2>1, <2>2
         DEF RecvPost, RecvPostCheck, RecvPostRecv, RecvPostCancel, ioVars
<1> QED
    BY <1>1, <1>2, <1>3, <1>4, NotSending, OtherSends

\* The steps of a call on the session, but for the one that adds a packet.
LEMMA CallSends ==
    ASSUME TypeOK, NEW u \in Users \cup UdpThreads, NEW s \in Slot,
           slot[u] = s, Sends(s),
           \/ FindFlag(u) \/ FindID(u)
           \/ SendPacketLast(u) \/ SendPacketPost(u)
           \/ DisconnectCut(u) \/ GetUDPRead(u) \/ UdpWrite(u)
    PROVE  Sends(s)'
<1>1. u \in Thread /\ pc[u] # "sp.fail" /\ IoType
    BY DEF Thread, TypeOK, FindFlag, FindID, Look, SendPacketLast,
           SendPacketPost, DisconnectCut, GetUDPRead, UdpWrite
<1>2. SameSends(s)
    BY StillLink
       DEF FindFlag, FindID, Look, SendPacketLast, SendPacketPost,
           DisconnectCut, GetUDPRead, UdpWrite, sharedVars, otherVars,
           idVars, contentVars, SameSends
<1>3. PICK p : /\ Goto(u, p) /\ p \notin SenderAt
               /\ p \in InBody => pc[u] \in InBody \/ sid[u] = sessionID[s]
  <2>1. CASE FindFlag(u) \/ FindID(u)
      BY <2>1 DEF FindFlag, FindID, Look, Body, SenderAt, InBody
  <2>2. CASE \/ SendPacketLast(u) \/ SendPacketPost(u)
             \/ DisconnectCut(u) \/ GetUDPRead(u) \/ UdpWrite(u)
      BY <2>2 DEF SendPacketLast, SendPacketPost, DisconnectCut, GetUDPRead,
                  UdpWrite, SenderAt, InBody
  <2> QED
      BY <2>1, <2>2
<1>4. Sending(s)' = Sending(s) /\ WaitKept(s)
  <2>1. CASE FindFlag(u) \/ FindID(u) \/ GetUDPRead(u)
      BY <2>1, StillSending, StillLink
         DEF FindFlag, FindID, GetUDPRead, Look, sharedVars, ioVars, WaitKept
  <2>2. CASE SendPacketLast(u)
    <3>1. \/ LinkSame(s)
          \/ disconnectStep'[s] = "SENDPACKET_LAST"
        BY <2>2 DEF SendPacketLast, SetStep, TypeOK, ConnType, LinkSame
    <3> QED
        BY <2>2, <3>1, StillSending DEF SendPacketLast, ioVars, WaitKept
  <2>3. CASE SendPacketPost(u)
    <3>1. LinkSame(s)
        BY <2>3, StillLink DEF SendPacketPost
    <3>2. CASE Post(s, "SENDPOST")
      <4>1. Sending(s)' = Sending(s) /\ Coming(s)' = Coming(s)
          BY <1>1, <2>3, <3>2, PostSending DEF SendPacketPost, Completion
      <4> QED
          BY <3>1, <4>1 DEF WaitKept
    <3>3. CASE UNCHANGED hcp
        BY <2>3, <3>1, <3>3, StillSending DEF SendPacketPost, WaitKept
    <3> QED
        BY <2>3, <3>2, <3>3 DEF SendPacketPost
  <2>4. CASE DisconnectCut(u)
    <3>1. disconnectStep'[s] = "DISCONNECT"
        BY <2>4 DEF DisconnectCut, Disconnect, TypeOK, ConnType
    <3>2. Sending(s)' = Sending(s)
        BY <1>1, <2>4, DisconnectSending DEF DisconnectCut, Disconnect
    <3> QED
        BY <3>1, <3>2 DEF WaitKept
  <2>5. CASE UdpWrite(u)
      BY <2>5, StillSending DEF UdpWrite, ioVars, LinkSame, WaitKept
  <2> QED
      BY <2>1, <2>2, <2>3, <2>4, <2>5
<1> QED
    BY <1>1, <1>2, <1>3, <1>4, OtherSends

LEMMA PeerSends ==
    ASSUME TypeOK, NEW s \in Slot, Sends(s), Complete(s) \/ PeerReset(s)
    PROVE  Sends(s)'
<1>1. IoType /\ Acceptor \in Thread /\ UNCHANGED <<pc, localVars>>
    BY NotAcceptor DEF TypeOK, Complete, PeerReset
<1>2. SameSends(s)
    BY StillLink DEF Complete, PeerReset, otherVars, idVars, contentVars,
                     sendVars, SendSame, SameSends
<1>3. CASE Complete(s)
  <2>1. Sending(s)' = Sending(s) /\ Coming(s)' = Coming(s)
    <3>1. CASE /\ sendIO[s] > 0 /\ sendIO' = [sendIO EXCEPT ![s] = @ - 1]
               /\ Post(s, "sendOk")
        BY <1>1, <3>1
           DEF IoType, Port, Completion, Post, Sending, Coming
    <3>2. CASE \E c \in {"recvOk", "recvErr"} : Post(s, c) /\ UNCHANGED sendIO
        BY <1>1, <3>2, PostSending DEF Completion
    <3> QED
        BY <1>3, <3>1, <3>2 DEF Complete
  <2>2. LinkSame(s)
      BY <1>3, StillLink DEF Complete
  <2>3. Awaited(s)'
      BY <1>1, <2>1, <2>2, SendingNat, LinkAwaits
         DEF localVars, At, Sends
  <2> QED
      BY <1>1, <1>2, <2>1, <2>3, SendingNat, BeginSends DEF SameSends
<1>4. CASE PeerReset(s)
  <2>1. Sending(s)' = Sending(s)
      BY <1>1, <1>4, DisconnectSending DEF PeerReset, CancelAll
  <2>2. sock'[s] # "open"
      BY <1>4 DEF PeerReset, TypeOK, ConnType
  <2> QED
      BY <1>1, <1>2, <2>1, <2>2, CutAwaits, SendingNat, BeginSends
         DEF SameSends
<1> QED
    BY <1>3, <1>4

LEMMA RecvDoneSends ==
    ASSUME TypeOK, NEW w \in Workers, NEW s \in Slot, Sends(s),
           RecvDone(w, s)
    PROVE  Sends(s)'
<1>1. w \in Thread /\ IoType /\ pc[w] = "idle"
    BY DEF Thread, TypeOK, RecvDone
<1>2. SameSends(s)
    BY StillLink DEF RecvDone, idVars, SameSends
<1>3. Sending(s)' = Sending(s) /\ WaitKept(s)
  <2>1. CASE /\ Take(s, "recvOk")
             /\ UNCHANGED <<disconnectStep, recvIO, sendIO>>
    <3>1. Sending(s)' = Sending(s) /\ Coming(s)' = Coming(s)
        BY <1>1, <2>1, TakeSending DEF Completion
    <3>2. LinkSame(s)
        BY <2>1 DEF RecvDone, LinkSame
    <3> QED
        BY <3>1, <3>2 DEF WaitKept
  <2>2. CASE Disconnect(s, Without(s, "recvOk"))
    <3>1. Sending(s)' = Sending(s)
        BY <1>1, <2>2, DisconnectSending DEF RecvDone, Completion
    <3>2. disconnectStep'[s] = "DISCONNECT"
        BY <2>2 DEF Disconnect, TypeOK, ConnType
    <3> QED
        BY <3>1, <3>2 DEF WaitKept
  <2> QED
      BY <2>1, <2>2 DEF RecvDone
<1>4. Begin(w, "rp.check", s, ZeroID, "none")
    BY DEF RecvDone
<1> QED
    BY <1>1, <1>2, <1>3, <1>4, SendingNat, NotSending, TakenSends

\* A send that failed does so on a connection that is lost or cut: the
\* session does not wait for it.
LEMMA IoFailedSends ==
    ASSUME TypeOK, NEW w \in Workers, NEW s \in Slot, Sends(s),
           NEW c \in Completion, IoFailed(w, s, c)
    PROVE  Sends(s)'
<1>1. w \in Thread /\ IoType /\ pc[w] = "idle"
    BY DEF Thread, TypeOK, IoFailed
<1>2. SameSends(s) /\ LinkSame(s)
    BY StillLink DEF IoFailed, otherVars, idVars, contentVars, SameSends
<1>3. /\ Sending(s)' = IF c = "sendErr" THEN Sending(s) - 1 ELSE Sending(s)
      /\ Coming(s)' = Coming(s) /\ hcp[s][c] > 0
    BY <1>1, TakeSending DEF IoFailed, Take
<1>4. Sending(s)' \in Nat /\ Sending(s)' <= Sending(s)
    BY <1>1, <1>3, SendingNat DEF Sending
<1>5. \/ UNCHANGED <<pc, localVars>>
      \/ Begin(w, "w.readid", s, ZeroID, "none")
    BY DEF IoFailed
<1> QED
    BY <1>1, <1>2, <1>3, <1>4, <1>5, NotSending, TakenSends DEF WaitKept

\* The completed send hands its place to the worker.
LEMMA SendDoneSends ==
    ASSUME TypeOK, NEW w \in Workers, NEW s \in Slot, Sends(s),
           SendDone(w, s)
    PROVE  Sends(s)'
<1>1. /\ w \in Thread /\ IoType /\ pc[w] = "idle"
      /\ Begin(w, "w.unflag", s, ZeroID, "none")
    BY DEF Thread, TypeOK, SendDone
<1>2. /\ Alone(w) /\ pc'[w] = "w.unflag" /\ slot'[w] = s
    BY <1>1 DEF Begin, TypeOK, LocalType, Alone
<1>3. /\ sendFlag' = sendFlag /\ sendQueue' = sendQueue
      /\ sentPacketArray'[s] = << >> /\ sessionID' = sessionID
      /\ issued' = issued
    BY DEF SendDone, FreeSent, otherVars, idVars, contentVars, TypeOK,
           SendType
<1>4. Sending(s)' = Sending(s) - 1 /\ disconnectStep'[s] # "SENDPOST_LAST"
  <2>1. CASE disconnectStep[s] # "SENDPOST_LAST"
    <3>1. Take(s, "sendOk") /\ UNCHANGED <<disconnectStep, sendIO>>
        BY <2>1 DEF SendDone
    <3> QED
        BY <1>1, <2>1, <3>1, TakeSending DEF Completion
  <2>2. CASE disconnectStep[s] = "SENDPOST_LAST"
    <3>1. Disconnect(s, Without(s, "sendOk")) /\ hcp[s]["sendOk"] > 0
        BY <2>2 DEF SendDone
    <3>2. Sending(s)' = Sending(s) - 1
        BY <1>1, <3>1, DisconnectSending DEF Completion
    <3>3. disconnectStep'[s] = "DISCONNECT"
        BY <3>1 DEF Disconnect, TypeOK, ConnType
    <3> QED
        BY <3>2, <3>3
  <2> QED
      BY <2>1, <2>2
<1>5. Elected(s)'
  <2>1. Sending(s) \in Int /\ Sender(s) \in Nat
      BY <1>1, SendingNat, AtCounts, SenderSum
  <2>2. Sender(s)' = Sender(s)
      BY <1>1, <1>2, <1>4, <2>1, SenderMoves DEF SenderAt
  <2> QED
      BY <1>3, <2>2 DEF Sends, Elected
<1>6. Emptied(s)'
    BY <1>3 DEF Emptied
<1>7. Awaited(s)'
    BY <1>4, CutAwaits
<1>8. Found(s)'
    BY <1>2, <1>3 DEF Sends, Found, At, Alone, InBody
<1>9. Packets(s)'
    BY <1>3 DEF Sends, Packets, Of
<1> QED
    BY <1>5, <1>6, <1>7, <1>8, <1>9 DEF Sends

-----------------------------------------------------------------------------
(* The steps of a sender.                                                  *)

\* What is queued or sent stays, and so does who may send it.
SamePackets(s) ==
    /\ sendQueue'[s] = sendQueue[s] /\ sentPacketArray'[s] = sentPacketArray[s]
    /\ sessionID'[s] = sessionID[s] /\ issued \subseteq issued'

LEMMA FoundMove ==
    ASSUME NEW s \in Slot, NEW t \in Thread, Alone(t), Found(s),
           sessionID'[s] = sessionID[s], pc'[t] \notin InBody
    PROVE  Found(s)'
    BY DEF Found, At, Alone

\* The exchange: the worker that found the flag clear is the sender.
LEMMA ElectSends ==
    ASSUME TypeOK, NEW s \in Slot, Sends(s), NEW t \in Thread, Alone(t),
           pc[t] \notin SenderAt, slot'[t] = s,
           pc'[t] = IF sendFlag[s] = 0 THEN "sp.look" ELSE "w.deref",
           sendFlag'[s] = 1, SamePackets(s), LinkSame(s),
           Sending(s)' = Sending(s), Coming(s)' = Coming(s)
    PROVE  Sends(s)'
<1>1. Sending(s) \in Int /\ Sender(s) \in Nat
    BY SendingNat, AtCounts, SenderSum DEF TypeOK
<1>2. Elected(s)'
  <2>1. Sender(s)' = Sender(s) + (IF pc'[t] \in SenderAt THEN 1 ELSE 0)
      BY <1>1, SenderMoves
  <2>2. pc'[t] \in SenderAt <=> sendFlag[s] = 0
      BY DEF SenderAt
  <2> QED
      BY <1>1, <2>1, <2>2 DEF Sends, Elected
<1>3. Emptied(s)'
  <2>1. CASE sendFlag[s] = 0
      BY <2>1 DEF Sends, Emptied, SamePackets
  <2>2. CASE sendFlag[s] # 0
    <3>1. At(s, EmptyAt)' \subseteq At(s, EmptyAt)
        BY <2>2 DEF At, Alone, EmptyAt
    <3> QED
        BY <3>1 DEF Sends, Emptied, SamePackets
  <2> QED
      BY <2>1, <2>2
<1>4. Awaited(s)'
    BY WaitAwaits DEF Sends, WaitKept, SenderAt
<1>5. Found(s)'
    BY FoundMove DEF Sends, SamePackets, InBody
<1>6. Packets(s)'
    BY PartsKept DEF Sends, SamePackets
<1> QED
    BY <1>2, <1>3, <1>4, <1>5, <1>6 DEF Sends

\* A sender gives its place up: there is none left.
LEMMA ResignSends ==
    ASSUME TypeOK, NEW s \in Slot, Sends(s), NEW t \in Thread, Alone(t),
           slot[t] = s, pc[t] \in EmptyAt, pc'[t] \notin SenderAt \cup InBody,
           SamePackets(s), Sending(s)' = Sending(s), Awaited(s)'
    PROVE  Sends(s)'
<1>1. /\ Sending(s) \in Int /\ pc[t] \in SenderAt /\ Sender(s) = 1
    BY SendingNat, EmptySender, SoleSender DEF TypeOK, Sends
<1>2. Sender(s)' = 0
    BY <1>1, SenderMoves
<1>3. Emptied(s)'
  <2>1. sentPacketArray[s] = << >>
      BY DEF Sends, Emptied, At
  <2> QED
      BY <2>1 DEF Emptied, SamePackets
<1>4. Found(s)'
    BY FoundMove DEF Sends, SamePackets
<1>5. Packets(s)'
    BY PartsKept DEF Sends, SamePackets
<1> QED
    BY <1>2, <1>3, <1>4, <1>5 DEF Sends, Elected

LEMMA SendRequestedSends ==
    ASSUME TypeOK, NEW w \in Workers, NEW s \in Slot, Sends(s),
           SendRequested(w, s)
    PROVE  Sends(s)'
<1>1. w \in Thread /\ IoType /\ pc[w] = "idle"
    BY DEF Thread, TypeOK, SendRequested
<1>2. /\ Alone(w) /\ slot'[w] = s
      /\ pc'[w] = IF sendFlag[s] = 0 THEN "sp.look" ELSE "w.deref"
    BY <1>1 DEF SendRequested, Begin, TypeOK, LocalType, Alone
<1>3. /\ SamePackets(s) /\ LinkSame(s) /\ sendFlag'[s] = 1
    BY StillLink
       DEF SendRequested, otherVars, idVars, contentVars, TypeOK, SendType,
           SamePackets
<1>4. Sending(s)' = Sending(s) /\ Coming(s)' = Coming(s)
    BY <1>1, TakeSending DEF SendRequested, Completion
<1> QED
    BY <1>1, <1>2, <1>3, <1>4, ElectSends DEF SenderAt

LEMMA SendFlagSends ==
    ASSUME TypeOK, NEW w \in Workers, NEW s \in Slot, slot[w] = s, Sends(s),
           SendPostFlag(w)
    PROVE  Sends(s)'
<1>1. w \in Thread /\ pc[w] = "sp.flag"
    BY DEF Thread, SendPostFlag
<1>2. /\ Alone(w) /\ slot'[w] = s
      /\ pc'[w] = IF sendFlag[s] = 0 THEN "sp.look" ELSE "w.deref"
    BY <1>1, GotoAlone DEF SendPostFlag, TypeOK
<1>3. /\ SamePackets(s) /\ LinkSame(s) /\ sendFlag'[s] = 1
    BY StillLink
       DEF SendPostFlag, otherVars, idVars, contentVars, TypeOK, SendType,
           SamePackets
<1>4. Sending(s)' = Sending(s) /\ Coming(s)' = Coming(s)
    BY StillSending DEF SendPostFlag, ioVars
<1> QED
    BY <1>1, <1>2, <1>3, <1>4, ElectSends DEF SenderAt

LEMMA UnflagSends ==
    ASSUME TypeOK, NEW w \in Workers, NEW s \in Slot, slot[w] = s, Sends(s),
           SendPostUnflag(w) \/ SentUnflag(w)
    PROVE  Sends(s)'
<1>1. /\ w \in Thread /\ pc[w] \in EmptyAt /\ pc[w] # "sp.fail"
    BY DEF Thread, SendPostUnflag, SentUnflag, EmptyAt
<1>2. /\ Alone(w) /\ pc'[w] \notin SenderAt \cup InBody
    BY <1>1, GotoAlone, NotSending DEF SendPostUnflag, SentUnflag, TypeOK
<1>3. /\ SamePackets(s) /\ LinkSame(s)
    BY StillLink DEF SendPostUnflag, SentUnflag, otherVars, idVars,
                     contentVars, SamePackets
<1>4. Sending(s)' = Sending(s) /\ Coming(s)' = Coming(s)
    BY StillSending DEF SendPostUnflag, SentUnflag, ioVars
<1>5. Awaited(s)'
    BY <1>1, <1>2, <1>3, <1>4, WaitAwaits DEF Sends, WaitKept
<1> QED
    BY <1>1, <1>2, <1>3, <1>4, <1>5, ResignSends

LEMMA SendFailSends ==
    ASSUME TypeOK, NEW w \in Workers, NEW s \in Slot, slot[w] = s, Sends(s),
           SendPostFail(w)
    PROVE  Sends(s)'
<1>1. /\ w \in Thread /\ pc[w] \in EmptyAt /\ IoType
    BY DEF Thread, SendPostFail, EmptyAt, TypeOK
<1>2. /\ Alone(w) /\ pc'[w] \notin SenderAt \cup InBody
    BY <1>1, GotoAlone, NotSending DEF SendPostFail, TypeOK
<1>3. SamePackets(s)
    BY DEF SendPostFail, otherVars, idVars, contentVars, SamePackets
<1>4. Sending(s)' = Sending(s)
    BY <1>1, DisconnectSending DEF SendPostFail, Disconnect
<1>5. Awaited(s)'
  <2>1. disconnectStep'[s] = "DISCONNECT"
      BY DEF SendPostFail, Disconnect, TypeOK, ConnType
  <2> QED
      BY <2>1, CutAwaits
<1> QED
    BY <1>1, <1>2, <1>3, <1>4, <1>5, ResignSends

\* The parts of a queue hold nothing else than the queue.
LEMMA PartOf ==
    ASSUME NEW q \in Seq(Packet), NEW n \in 0 .. Len(q)
    PROVE  /\ \A i \in 1 .. Len(SubSeq(q, 1, n)) :
                  i \in 1 .. Len(q) /\ SubSeq(q, 1, n)[i] = q[i]
           /\ \A i \in 1 .. Len(SubSeq(q, n + 1, Len(q))) :
                  /\ n + i \in 1 .. Len(q)
                  /\ SubSeq(q, n + 1, Len(q))[i] = q[n + i]
           /\ q = << >> => /\ SubSeq(q, 1, n) = << >>
                           /\ SubSeq(q, n + 1, Len(q)) = << >>
    OBVIOUS

\* The dequeue loop fills an array that was empty.
LEMMA TakeSends ==
    ASSUME TypeOK, NEW w \in Workers, NEW s \in Slot, slot[w] = s, Sends(s),
           SendPostTake(w)
    PROVE  Sends(s)'
<1>1. /\ w \in Thread /\ pc[w] = "sp.take" /\ pc[w] \in SenderAt
    BY DEF Thread, SendPostTake, SenderAt
<1>2. /\ Alone(w) /\ pc'[w] = "sp.send" /\ slot'[w] = s
    BY <1>1, GotoAlone DEF SendPostTake, TypeOK
<1>3. /\ sendFlag' = sendFlag /\ sessionID' = sessionID /\ issued' = issued
      /\ LinkSame(s)
    BY StillLink DEF SendPostTake, otherVars, idVars, contentVars
<1>4. /\ Sending(s)' = Sending(s) /\ Coming(s)' = Coming(s)
      /\ Sending(s) \in Int
    BY StillSending, SendingNat DEF SendPostTake, ioVars, TypeOK
<1>5. PICK n \in 0 .. Len(sendQueue[s]) :
          /\ sentPacketArray'[s] = SubSeq(sendQueue[s], 1, n)
          /\ sendQueue'[s] = SubSeq(sendQueue[s], n + 1, Len(sendQueue[s]))
  <2> DEFINE q == sendQueue[s]
             n == IF Len(q) < MaxPacket THEN Len(q) ELSE MaxPacket
  <2>1. n \in 0 .. Len(q)
      BY ConstAssumption DEF TypeOK, SendType
  <2>2. /\ sentPacketArray'[s] = SubSeq(q, 1, n)
        /\ sendQueue'[s] = SubSeq(q, n + 1, Len(q))
      BY DEF SendPostTake, TypeOK, SendType
  <2> QED
      BY <2>1, <2>2
<1>6. /\ Sender(s) = 1 /\ sendFlag[s] = 1
      /\ \A v \in Thread \ {w} : ~(slot[v] = s /\ pc[v] \in SenderAt)
    BY <1>1, SoleSender DEF Sends
<1>7. Elected(s)'
  <2>1. Sender(s)' = Sender(s)
      BY <1>1, <1>2, <1>4, <1>6, SenderMoves DEF SenderAt
  <2> QED
      BY <1>3, <2>1 DEF Sends, Elected
<1>8. Emptied(s)'
  <2>1. At(s, EmptyAt)' = {}
      BY <1>2, <1>6, EmptySender DEF At, Alone, EmptyAt
  <2> QED
      BY <1>3, <1>6, <2>1 DEF Emptied
<1>9. Awaited(s)'
    BY <1>1, <1>2, <1>3, <1>4, WaitAwaits DEF Sends, WaitKept
<1>10. Found(s)'
    BY <1>1, <1>2, <1>3, FoundMove DEF Sends, InBody
<1>11. Packets(s)'
  <2>1. sendQueue[s] \in Seq(Packet)
      BY DEF TypeOK, SendType
  <2>2. \A i \in 1 .. Len(sendQueue'[s]) : sendQueue'[s][i].id = sessionID[s]
    <3>1. TAKE i \in 1 .. Len(sendQueue'[s])
    <3>2. /\ n + i \in 1 .. Len(sendQueue[s])
          /\ sendQueue'[s][i] = sendQueue[s][n + i]
        BY <1>5, <2>1, <3>1, PartOf
    <3> QED
        BY <3>2 DEF Sends, Packets, Of
  <2>3. \A i \in 1 .. Len(sentPacketArray'[s]) :
            sentPacketArray'[s][i].id = sessionID[s]
      BY <1>5, <2>1, PartOf DEF Sends, Packets, Of
  <2>4. sendQueue'[s] # << >> \/ sentPacketArray'[s] # << >> =>
            sessionID[s] \in issued
      BY <1>5, <2>1, PartOf DEF Sends, Packets
  <2> QED
      BY <1>3, <2>2, <2>3, <2>4 DEF Packets, Of
<1> QED
    BY <1>7, <1>8, <1>9, <1>10, <1>11 DEF Sends

\* The send that is posted is awaited; one that fails is about to cut the
\* session.
LEMMA PostSends ==
    ASSUME TypeOK, NEW w \in Workers, NEW s \in Slot, slot[w] = s, Sends(s),
           SendPostSend(w)
    PROVE  Sends(s)'
<1>1. /\ w \in Thread /\ pc[w] = "sp.send" /\ pc[w] \in SenderAt
    BY DEF Thread, SendPostSend, SenderAt
<1>2. /\ sendFlag' = sendFlag /\ sendQueue' = sendQueue
      /\ sessionID' = sessionID /\ issued' = issued
    BY DEF SendPostSend, otherVars, idVars, contentVars
<1>3. /\ Sending(s) \in Int /\ Coming(s) \in Nat /\ IoType
    BY SendingNat DEF TypeOK
<1>4. CASE /\ sendIO' = [sendIO EXCEPT ![s] = @ + 1]
           /\ Goto(w, "sp.cancel") /\ UNCHANGED sentPacketArray
  <2>1. /\ Alone(w) /\ pc'[w] = "sp.cancel" /\ slot'[w] = s
      BY <1>1, <1>4, GotoAlone DEF TypeOK
  <2>2. Sending(s)' = Sending(s) + 1 /\ Coming(s)' = Coming(s) + 1
    <3>1. sendIO'[s] = sendIO[s] + 1 /\ hcp' = hcp
        BY <1>3, <1>4 DEF SendPostSend, IoType
    <3> QED
        BY <1>3, <3>1, SendingNat DEF Sending, Coming
  <2>3. Sender(s) \in Int
      BY AtCounts, SenderSum, <1>3
  <2>4. Sender(s)' = Sender(s)
      BY <1>1, <1>3, <2>1, <2>2, <2>3, SenderMoves DEF SenderAt
  <2>5. Elected(s)'
      BY <1>2, <2>4 DEF Sends, Elected
  <2>6. Emptied(s)'
    <3>1. At(s, EmptyAt)' \subseteq At(s, EmptyAt)
        BY <2>1 DEF At, Alone, EmptyAt
    <3> QED
        BY <1>2, <1>4, <3>1 DEF Sends, Emptied
  <2>7. Awaited(s)'
      BY <1>3, <2>2 DEF Awaited
  <2>8. Found(s)'
      BY <1>1, <1>2, <2>1, FoundMove DEF Sends, InBody
  <2>9. Packets(s)'
      BY <1>2, <1>4 DEF Sends, Packets, Of
  <2> QED
      BY <2>5, <2>6, <2>7, <2>8, <2>9 DEF Sends
<1>5. CASE FreeSent(s) /\ Goto(w, "sp.fail") /\ UNCHANGED sendIO
  <2>1. /\ Alone(w) /\ pc'[w] = "sp.fail" /\ slot'[w] = s
      BY <1>1, <1>5, GotoAlone DEF TypeOK
  <2>2. Sending(s)' = Sending(s)
      BY <1>5, StillSending DEF SendPostSend
  <2>3. Sender(s) \in Int
      BY AtCounts, SenderSum, <1>3
  <2>4. Sender(s)' = Sender(s)
      BY <1>1, <1>3, <2>1, <2>2, <2>3, SenderMoves DEF SenderAt
  <2>5. Elected(s)'
      BY <1>2, <2>4 DEF Sends, Elected
  <2>6. sentPacketArray'[s] = << >>
      BY <1>5 DEF FreeSent, TypeOK, SendType
  <2>7. Awaited(s)'
    <3>1. w \in At(s, {"sp.fail"})'
        BY <1>1, <2>1 DEF At
    <3> QED
        BY <3>1 DEF Awaited
  <2>8. Found(s)'
      BY <1>1, <1>2, <2>1, FoundMove DEF Sends, InBody
  <2>9. Packets(s)'
      BY <1>2, <2>6 DEF Sends, Packets, Of
  <2> QED
      BY <2>5, <2>6, <2>7, <2>8, <2>9 DEF Sends, Emptied
<1> QED
    BY <1>4, <1>5 DEF SendPostSend

LEMMA LookSends ==
    ASSUME TypeOK, NEW w \in Workers, NEW s \in Slot, slot[w] = s, Sends(s),
           SendPostLook(w) \/ SentMore(w) \/ SendPostCancel(w)
    PROVE  Sends(s)'
<1>1. w \in Thread /\ pc[w] # "sp.fail" /\ IoType
    BY DEF Thread, TypeOK, SendPostLook, SentMore, SendPostCancel, Look
<1>2. SameSends(s) /\ UNCHANGED connVars
    BY StillLink
       DEF SendPostLook, SentMore, SendPostCancel, Look, sharedVars,
           otherVars, idVars, contentVars, SameSends
<1>3. Sending(s)' = Sending(s) /\ WaitKept(s)
  <2>1. CASE UNCHANGED ioVars
      BY <1>2, <2>1, StillSending, StillLink DEF ioVars, WaitKept
  <2>2. CASE /\ disconnectStep[s] = "DISCONNECT"
             /\ CancelIo(s, {"send"}, hcp)
      BY <1>1, <1>2, <2>2, DisconnectSending DEF connVars, WaitKept
  <2> QED
      BY <2>1, <2>2 DEF SendPostLook, SentMore, SendPostCancel, Look,
                        sharedVars
<1>4. CASE SendPostLook(w)
  <2>1. PICK p \in {"sp.unflag", "sp.take"} : Goto(w, p)
      BY <1>4 DEF SendPostLook, Look
  <2>2. /\ pc[w] \in SenderAt /\ pc[w] \in EmptyAt /\ p \notin InBody
      BY <1>4 DEF SendPostLook, Look, SenderAt, EmptyAt, InBody
  <2>3. Awaited(s)'
      BY <1>1, <1>3, <2>1, GotoAlone, WaitAwaits DEF TypeOK, Sends
  <2>4. Sending(s)' \in Nat /\ Sending(s)' <= Sending(s)
      BY <1>1, <1>3, SendingNat
  <2> QED
      BY <1>1, <1>2, <2>1, <2>2, <2>3, <2>4, GotoSends DEF SameSends
<1>5. CASE SentMore(w) \/ SendPostCancel(w)
  <2>1. PICK p \in {"w.deref", "sp.flag"} : Goto(w, p)
      BY <1>5 DEF SentMore, SendPostCancel, Look
  <2> QED
      BY <1>1, <1>2, <1>3, <2>1, NotSending, OtherSends
<1> QED
    BY <1>4, <1>5

LEMMA AcceptSends ==
    ASSUME TypeOK, NEW s \in Slot, slot[Acceptor] = s, Sends(s),
           AcceptJoin \/ AcceptRecv
    PROVE  Sends(s)'
<1>1. Acceptor \in Thread /\ pc[Acceptor] # "sp.fail"
    BY NotAcceptor DEF AcceptJoin, AcceptRecv
<1>2. SameSends(s) /\ LinkSame(s)
    BY StillLink DEF AcceptJoin, AcceptRecv, otherVars, idVars, contentVars,
                     SameSends
<1>3. Sending(s)' = Sending(s) /\ Coming(s)' = Coming(s)
    BY StillSending DEF AcceptJoin, AcceptRecv, ioVars
<1>4. PICK p \in {"a.recv", "idle"} : Goto(Acceptor, p)
    BY DEF AcceptJoin, AcceptRecv
<1> QED
    BY <1>1, <1>2, <1>3, <1>4, NotSending, OtherSends DEF WaitKept

\* The packet that is queued names the session the caller found.
LEMMA EnqueueSends ==
    ASSUME TypeOK, Named, NEW u \in Users \cup UdpThreads, NEW s \in Slot,
           slot[u] = s, Sends(s), SendPacketEnqueue(u)
    PROVE  Sends(s)'
<1>1. /\ u \in Thread /\ pc[u] = "s.enq" /\ pc[u] # "sp.fail"
      /\ pc[u] \in InBody /\ pc[u] \in Calling
    BY DEF Thread, SendPacketEnqueue, InBody, Calling
<1>2. /\ sessionID' = sessionID /\ issued' = issued /\ LinkSame(s)
      /\ sendFlag' = sendFlag /\ sentPacketArray' = sentPacketArray
      /\ Sending(s)' = Sending(s) /\ Coming(s)' = Coming(s)
    BY StillLink, StillSending
       DEF SendPacketEnqueue, otherVars, idVars, contentVars, ioVars
<1>3. PICK p \in {"u.deref", "s.last", "s.post"} : Goto(u, p)
    BY DEF SendPacketEnqueue
<1>4. Alone(u) /\ pc'[u] = p /\ slot'[u] = s /\ sid'[u] = sid[u]
    BY <1>1, <1>3, GotoAlone DEF TypeOK
<1>5. p \notin SenderAt
    BY DEF SenderAt
<1>6. sid[u] = sessionID[s] /\ sid[u] \in issued
    BY <1>1 DEF Sends, Found, At, Named
<1>7. Elected(s)' /\ Emptied(s)'
  <2>1. pc[u] \notin SenderAt
      BY <1>1 DEF SenderAt
  <2>2. /\ \A v \in Thread : Stays(v, s, SenderAt)
        /\ \A v \in Thread : Stays(v, s, EmptyAt)
      BY <1>4, <1>5, <2>1, EmptySender DEF Alone, Stays
  <2> QED
      BY <1>2, <2>2, PartsKept DEF Sends
<1>8. Awaited(s)'
    BY <1>1, <1>2, <1>4, WaitAwaits DEF Sends, WaitKept
<1>9. Found(s)'
    BY <1>2, <1>4, <1>6 DEF Sends, Found, At, Alone
<1>10. Packets(s)'
  <2>1. CASE UNCHANGED sendQueue
      BY <1>2, <2>1 DEF Sends, Packets, Of
  <2>2. CASE ~UNCHANGED sendQueue
    <3>1. PICK l : sendQueue' = [sendQueue EXCEPT
                       ![s] = Append(@, [id |-> sid[u], last |-> l])]
        BY <2>2 DEF SendPacketEnqueue
    <3>2. /\ sendQueue[s] \in Seq(Packet)
          /\ sendQueue'[s] =
                 Append(sendQueue[s], [id |-> sid[u], last |-> l])
        BY <3>1 DEF TypeOK, SendType
    <3>3. /\ Len(sendQueue'[s]) = Len(sendQueue[s]) + 1
          /\ Len(sendQueue[s]) \in Nat
          /\ \A i \in 1 .. Len(sendQueue[s]) :
                 sendQueue'[s][i] = sendQueue[s][i]
          /\ sendQueue'[s][Len(sendQueue[s]) + 1] =
                 [id |-> sid[u], last |-> l]
        BY <3>2
    <3>4. \A i \in 1 .. Len(sendQueue'[s]) :
              sendQueue'[s][i].id = sessionID[s]
      <4>1. TAKE i \in 1 .. Len(sendQueue'[s])
      <4>2. CASE i = Len(sendQueue[s]) + 1
          BY <1>6, <3>3, <4>2
      <4>3. CASE i # Len(sendQueue[s]) + 1
        <5>1. i \in 1 .. Len(sendQueue[s])
            BY <3>3, <4>1, <4>3
        <5> QED
            BY <3>3, <5>1 DEF Sends, Packets, Of
      <4> QED
          BY <4>2, <4>3
    <3>5. \A i \in 1 .. Len(sentPacketArray'[s]) :
              sentPacketArray'[s][i].id = sessionID[s]
        BY <1>2 DEF Sends, Packets, Of
    <3> QED
        BY <1>2, <1>6, <3>4, <3>5 DEF Packets, Of
  <2> QED
      BY <2>1, <2>2
<1> QED
    BY <1>7, <1>8, <1>9, <1>10 DEF Sends

LEMMA SendPostSends ==
    ASSUME TypeOK, NEW w \in Workers, NEW s \in Slot, slot[w] = s, Sends(s),
           SendPost(w)
    PROVE  Sends(s)'
    BY SendFlagSends, LookSends, UnflagSends, TakeSends, PostSends,
       SendFailSends DEF SendPost

-----------------------------------------------------------------------------
(* The steps on a session that is in use.                                  *)

LEMMA LiveSound ==
    ASSUME NEW s \in Slot, ~Dead(s), UNCHANGED <<sessionID, isValid>>,
           \A t \in Thread : Stays(t, s, Life), Sends(s)'
    PROVE  Sound(s)'
<1>1. NameSame(s)
    BY DEF NameSame
<1> QED
    BY <1>1, DeadKept, LiveQuieted DEF Sound

LEMMA LifeMove ==
    ASSUME LocalType, NEW t \in Thread, pc[t] \notin Life,
           \/ \E p : Goto(t, p) /\ p \notin Life
           \/ \E p, r, id, o : Begin(t, p, r, id, o) /\ p \notin Life
           \/ UNCHANGED <<pc, localVars>>
    PROVE  \A s : \A v \in Thread : Stays(v, s, Life)
<1>1. /\ \A v \in Thread \ {t} : /\ pc'[v] = pc[v] /\ slot'[v] = slot[v]
                                 /\ sid'[v] = sid[v]
      /\ pc'[t] \notin Life
    BY DEF Goto, Begin, LocalType, localVars
<1> QED
    BY <1>1 DEF Stays

LEMMA CarriedUsed ==
    ASSUME IoType, NEW s \in Slot,
           \/ recvIO[s] > 0 \/ sendIO[s] > 0
           \/ \E c \in Carrying : hcp[s][c] > 0
    PROVE  UnderWay(s) # 0
    BY DEF IoType, Port, Completion, Carrying, UnderWay, Carried

LEMMA PeerSound ==
    ASSUME TypeOK, NEW s \in Slot, Sound(s), Complete(s) \/ PeerReset(s)
    PROVE  Sound(s)'
<1>1. IoType /\ UNCHANGED <<pc, localVars>> /\ Quieted(s) /\ Sends(s)
    BY DEF TypeOK, Complete, PeerReset, Sound
<1>2. \A t \in Thread : Stays(t, s, Life)
    BY <1>1 DEF localVars, Stays
<1>3. /\ UNCHANGED <<sessionID, isValid>> /\ UNCHANGED sendVars /\ NameSame(s)
    BY DEF Complete, PeerReset, otherVars, idVars, flagVars, sendVars,
           NameSame
<1>4. Sends(s)'
    BY <1>1, PeerSends
<1>5. CASE ~Dead(s)
    BY <1>2, <1>3, <1>4, <1>5, LiveSound
<1>6. CASE Dead(s)
  <2>1. Still(s) /\ UnderWay(s) = 0
      BY <1>1, <1>6 DEF Quieted, Still
  <2>2. PeerReset(s)
      BY <1>1, <2>1, CarriedUsed DEF Complete
  <2>3. UnderWay(s)' = 0
    <3>1. UnderWay(s)' = recvIO[s] + sendIO[s] + Carried(hcp, s)
        BY <1>1, <2>2, CancelUnderWay DEF PeerReset, CancelAll, IoType
    <3> QED
        BY <2>1, <3>1 DEF UnderWay
  <2>4. Still(s)'
      BY <1>1, <1>3, <2>1, <2>3 DEF Still, At, localVars
  <2>5. sock'[s] # "open"
      BY <2>2 DEF PeerReset, TypeOK, ConnType
  <2>6. /\ At(s, {"r.leave"})' = At(s, {"r.leave"})
        /\ At(s, {"a.flag", "a.reset"})' = At(s, {"a.flag", "a.reset"})
      BY <1>2, <1>3, DeadKept
  <2>7. Clean(s)'
      BY <1>1, <1>3, <2>5, <2>6 DEF Quieted, Clean, sendVars
  <2> QED
      BY <1>4, <2>4, <2>7 DEF Sound, Quieted
<1> QED
    BY <1>5, <1>6

LEMMA CompletionSound ==
    ASSUME TypeOK, NEW w \in Workers, NEW s \in Slot, Sound(s),
           \/ RecvDone(w, s) \/ SendDone(w, s) \/ SendRequested(w, s)
           \/ \E c \in Completion : IoFailed(w, s, c)
    PROVE  Sound(s)'
<1>1. w \in Thread /\ IoType /\ LocalType /\ Sends(s) /\ Quieted(s)
    BY DEF Thread, TypeOK, Sound
<1>2. ~Dead(s)
  <2>1. \E c \in Carrying : hcp[s][c] > 0
      BY DEF RecvDone, SendDone, SendRequested, IoFailed, Take, Carrying
  <2> QED
      BY <1>1, <2>1, CarriedUsed, UsedNow
<1>3. \A t \in Thread : Stays(t, s, Life)
  <2>1. /\ pc[w] = "idle"
        /\ \/ UNCHANGED <<pc, localVars>>
           \/ \E p \in {"rp.check", "w.unflag", "w.readid", "sp.look",
                        "w.deref"} : \E r, id, o : Begin(w, p, r, id, o)
      BY DEF RecvDone, SendDone, SendRequested, IoFailed
  <2>2. {"idle", "rp.check", "w.unflag", "w.readid", "sp.look", "w.deref"}
            \cap Life = {}
      BY DEF Life
  <2> QED
      BY <1>1, <2>1, <2>2, LifeMove
<1>4. UNCHANGED <<sessionID, isValid>>
    BY DEF RecvDone, SendDone, SendRequested, IoFailed, otherVars, idVars,
           flagVars
<1>5. Sends(s)'
    BY <1>1, RecvDoneSends, SendDoneSends, SendRequestedSends, IoFailedSends
<1> QED
    BY <1>2, <1>3, <1>4, <1>5, LiveSound

LEMMA WorkerSound ==
    ASSUME TypeOK, NEW w \in Workers, NEW s \in Slot, slot[w] = s, Sound(s),
           RecvPost(w) \/ SendPost(w) \/ SentUnflag(w) \/ SentMore(w)
    PROVE  Sound(s)'
<1>1. w \in Thread /\ LocalType /\ Sends(s) /\ Quieted(s)
    BY DEF Thread, TypeOK, Sound
<1>2. pc[w] \in Using
    BY DEF RecvPost, RecvPostCheck, RecvPostRecv, RecvPostCancel, SendPost,
           SendPostFlag, SendPostLook, SendPostUnflag, SendPostTake,
           SendPostSend, SendPostFail, SendPostCancel, SentUnflag, SentMore,
           Look, Using
<1>3. ~Dead(s)
    BY <1>1, <1>2, UsedNow
<1>4. \A t \in Thread : Stays(t, s, Life)
  <2>1. PICK p \in Using \cup {"w.deref"} : Goto(w, p)
      BY DEF RecvPost, RecvPostCheck, RecvPostRecv, RecvPostCancel, SendPost,
             SendPostFlag, SendPostLook, SendPostUnflag, SendPostTake,
             SendPostSend, SendPostFail, SendPostCancel, SentUnflag,
             SentMore, Look, Using
  <2>2. (Using \cup {"w.deref"}) \cap Life = {}
      BY DEF Using, InBody, Life
  <2> QED
      BY <1>1, <1>2, <2>1, <2>2, LifeMove
<1>5. UNCHANGED <<sessionID, isValid>>
    BY DEF RecvPost, RecvPostCheck, RecvPostRecv, RecvPostCancel, SendPost,
           SendPostFlag, SendPostLook, SendPostUnflag, SendPostTake,
           SendPostSend, SendPostFail, SendPostCancel, SentUnflag, SentMore,
           Look, sharedVars, otherVars, idVars, flagVars
<1>6. Sends(s)'
    BY <1>1, RecvPostSends, SendPostSends, UnflagSends, LookSends
<1> QED
    BY <1>3, <1>4, <1>5, <1>6, LiveSound

LEMMA BodySound ==
    ASSUME TypeOK, Named, NEW u \in Users \cup UdpThreads, NEW s \in Slot,
           slot[u] = s, Sound(s),
           \/ SendPacketEnqueue(u) \/ SendPacketLast(u) \/ SendPacketPost(u)
           \/ DisconnectCut(u) \/ GetUDPRead(u) \/ UdpWrite(u)
    PROVE  Sound(s)'
<1>1. u \in Thread /\ LocalType /\ Sends(s) /\ Quieted(s)
    BY DEF Thread, TypeOK, Sound
<1>2. pc[u] \in Using
    BY DEF SendPacketEnqueue, SendPacketLast, SendPacketPost, DisconnectCut,
           GetUDPRead, UdpWrite, Using, InBody
<1>3. ~Dead(s)
    BY <1>1, <1>2, UsedNow
<1>4. \A t \in Thread : Stays(t, s, Life)
  <2>1. PICK p \in {"u.deref", "s.last", "s.post", "idle"} : Goto(u, p)
      BY DEF SendPacketEnqueue, SendPacketLast, SendPacketPost,
             DisconnectCut, GetUDPRead, UdpWrite
  <2>2. (Using \cup {"u.deref", "idle"}) \cap Life = {}
        /\ {"s.last", "s.post"} \subseteq Using
      BY DEF Using, InBody, Life
  <2> QED
      BY <1>1, <1>2, <2>1, <2>2, LifeMove
<1>5. UNCHANGED <<sessionID, isValid>>
    BY DEF SendPacketEnqueue, SendPacketLast, SendPacketPost, DisconnectCut,
           GetUDPRead, UdpWrite, otherVars, idVars, flagVars
<1>6. Sends(s)'
    BY <1>1, EnqueueSends, CallSends
<1> QED
    BY <1>3, <1>4, <1>5, <1>6, LiveSound

LEMMA JoinSound ==
    ASSUME TypeOK, NEW s \in Slot, slot[Acceptor] = s, Sound(s),
           AcceptJoin \/ AcceptRecv
    PROVE  Sound(s)'
<1>1. Acceptor \in Thread /\ LocalType /\ Sends(s) /\ Quieted(s)
    BY NotAcceptor DEF TypeOK, Sound
<1>2. pc[Acceptor] \in Using
    BY DEF AcceptJoin, AcceptRecv, Using
<1>3. ~Dead(s)
    BY <1>1, <1>2, UsedNow
<1>4. \A t \in Thread : Stays(t, s, Life)
  <2>1. PICK p \in {"a.recv", "idle"} : Goto(Acceptor, p)
      BY DEF AcceptJoin, AcceptRecv
  <2>2. (Using \cup {"a.recv", "idle"}) \cap Life = {}
      BY DEF Using, InBody, Life
  <2> QED
      BY <1>1, <1>2, <2>1, <2>2, LifeMove
<1>5. UNCHANGED <<sessionID, isValid>>
    BY DEF AcceptJoin, AcceptRecv, otherVars, idVars, flagVars
<1>6. Sends(s)'
    BY <1>1, AcceptSends
<1> QED
    BY <1>3, <1>4, <1>5, <1>6, LiveSound

\* A slot that is not in use stays still when nobody comes to use it.
LEMMA QuietedFrame ==
    ASSUME NEW s \in Slot, Quieted(s), IoSame(s), LinkSame(s), SendSame(s),
           NameSame(s), \A t \in Thread : Stays(t, s, Life),
           Dead(s) => /\ At(s, Using)' \subseteq At(s, Using)
                      /\ \A t \in At(s, {"f.id"})' : sid'[t] # sessionID[s]
    PROVE  Quieted(s)'
<1>1. /\ Dead(s)' <=> Dead(s)
      /\ At(s, {"r.leave"})' = At(s, {"r.leave"})
      /\ At(s, {"a.flag", "a.reset"})' = At(s, {"a.flag", "a.reset"})
    BY DeadKept
<1>2. Dead(s) => Still(s)'
    BY IoSums DEF Quieted, Still, NameSame
<1>3. Clean(s)'
    BY <1>1 DEF Quieted, Clean, SendSame, LinkSame, NameSame
<1> QED
    BY <1>1, <1>2, <1>3 DEF Quieted

\* findSession lets no call pass for a session that is at its end, or that
\* has not begun: the flag is set, or the ID is another's.
LEMMA FlagTells ==
    ASSUME TypeOK, CustodyInv, CallInv, NEW u \in Thread, NEW s \in Slot,
           slot[u] = s, pc[u] = "f.flag", releaseFlag[s] # DELFLAG_ON, Dead(s)
    PROVE  sid[u] # sessionID[s]
<1>1. releaseFlag[s] = DELFLAG_OFF
    BY DEF TypeOK, FlagType
<1>2. CASE ~isValid[s]
    BY <1>1, <1>2 DEF CallInv, Uncalled, At, Finding
<1>3. CASE At(s, {"a.flag", "a.reset"}) # {}
  <2>1. PICK t \in Thread : slot[t] = s /\ pc[t] \in {"a.flag", "a.reset"}
      BY <1>3 DEF At
  <2>2. sessionID[s] \notin issued
      BY <2>1 DEF CallInv, Named, Arriving
  <2>3. sid[u] \in issued
      BY DEF CallInv, Named, Calling, Finding
  <2> QED
      BY <2>2, <2>3
<1>4. CASE Ending(s)
  <2>1. PICK t \in At(s, {"r.id", "r.close", "r.leave"}) : TRUE
      BY <1>4 DEF Ending, At
  <2>2. t \in At(s, Claiming)
      BY <2>1 DEF At, Claiming
  <2> QED
      BY <2>2 DEF CustodyInv, Custody, Claimed
<1> QED
    BY <1>2, <1>3, <1>4 DEF Dead

LEMMA FindSound ==
    ASSUME TypeOK, CustodyInv, CallInv, NEW u \in Users \cup UdpThreads,
           NEW s \in Slot, slot[u] = s, Sound(s), FindFlag(u) \/ FindID(u)
    PROVE  Sound(s)'
<1>1. u \in Thread /\ LocalType /\ Sends(s) /\ Quieted(s)
    BY DEF Thread, TypeOK, Sound
<1>2. PICK p : /\ Goto(u, p)
               /\ FindFlag(u) => pc[u] = "f.flag" /\ p \in {"u.deref", "f.id"}
               /\ FindID(u) =>
                      /\ pc[u] = "f.id"
                      /\ p \in (InBody \ {"s.last", "s.post"})
                               \cup {"u.deref"}
               /\ p = "f.id" => releaseFlag[s] # DELFLAG_ON
               /\ p \in InBody => pc[u] = "f.id" /\ sid[u] = sessionID[s]
    BY DEF FindFlag, FindID, Look, Body, InBody
<1>3. /\ Alone(u) /\ pc'[u] = p
      /\ p # "idle" => slot'[u] = s /\ sid'[u] = sid[u]
    BY <1>1, <1>2, GotoAlone
<1>4. \A t \in Thread : Stays(t, s, Life)
  <2>1. (InBody \cup {"u.deref", "f.id", "f.flag"}) \cap Life = {}
      BY DEF InBody, Life
  <2>2. pc[u] \notin Life /\ p \notin Life
      BY <1>2, <2>1
  <2> QED
      BY <1>1, <1>2, <2>2, LifeMove
<1>5. /\ UNCHANGED <<sessionID, isValid>> /\ UNCHANGED ioVars
      /\ UNCHANGED connVars /\ UNCHANGED sendVars
    BY DEF FindFlag, FindID, Look, sharedVars, otherVars, idVars, flagVars
<1>6. Sends(s)'
    BY <1>1, CallSends
<1>7. CASE ~Dead(s)
    BY <1>4, <1>5, <1>6, <1>7, LiveSound
<1>8. CASE Dead(s)
  <2>1. \A t \in At(s, {"f.id"}) : sid[t] # sessionID[s]
      BY <1>1, <1>8 DEF Quieted, Still
  <2>2. p \notin InBody
      BY <1>1, <1>2, <2>1 DEF At
  <2>3. p \notin Using
      BY <1>2, <2>2 DEF Using
  <2>4. At(s, Using)' \subseteq At(s, Using)
      BY <1>3, <2>3 DEF At, Alone
  <2>5. p = "f.id" => sid[u] # sessionID[s]
    <3>1. p = "f.id" => pc[u] = "f.flag" /\ releaseFlag[s] # DELFLAG_ON
        BY <1>2 DEF InBody
    <3> QED
        BY <1>1, <1>8, <3>1, FlagTells
  <2>6. \A t \in At(s, {"f.id"})' : sid'[t] # sessionID[s]
      BY <1>3, <2>1, <2>5 DEF At, Alone
  <2>7. IoSame(s) /\ LinkSame(s) /\ SendSame(s) /\ NameSame(s)
      BY <1>5, StillLink DEF ioVars, IoSame, NameSame
  <2>8. Quieted(s)'
      BY <1>1, <1>4, <2>4, <2>6, <2>7, QuietedFrame
  <2> QED
      BY <1>6, <2>8 DEF Sound
<1> QED
    BY <1>7, <1>8

-----------------------------------------------------------------------------
(* Between two sessions.                                                   *)

\* A slot that is not in use, and has no packet and no connection.
Vacant(s) == /\ Still(s) /\ sock[s] # "open"
             /\ sendQueue[s] = << >> /\ sentPacketArray[s] = << >>

LEMMA StillAlone ==
    ASSUME IoType, NEW s \in Slot, Still(s)
    PROVE  Sending(s) = 0 /\ At(s, SenderAt) = {} /\ Sender(s) = 0
<1>1. Sending(s) = 0
  <2>1. /\ sendIO[s] \in Nat /\ hcp[s]["sendOk"] \in Nat
        /\ hcp[s]["sendErr"] \in Nat
      BY SendingNat
  <2>2. UnderWay(s) = 0
      BY DEF Still
  <2>3. ~(sendIO[s] > 0) /\ \A c \in Carrying : ~(hcp[s][c] > 0)
      BY <2>2, CarriedUsed
  <2>4. sendIO[s] = 0 /\ hcp[s]["sendOk"] = 0 /\ hcp[s]["sendErr"] = 0
      BY <2>1, <2>3 DEF Carrying
  <2> QED
      BY <2>4 DEF Sending
<1>2. At(s, SenderAt) \subseteq At(s, Using)
    BY DEF At, SenderAt, Using
<1>3. At(s, SenderAt) = {}
    BY <1>2 DEF Still
<1>4. Cardinality(At(s, SenderAt)) = 0
    BY <1>3, AtCounts
<1> QED
    BY <1>1, <1>3, <1>4, SenderSum

LEMMA VacantSound == \A s \in Slot : IoType /\ Vacant(s) => Sound(s)
<1> SUFFICES ASSUME NEW s \in Slot, IoType, Vacant(s) PROVE Sound(s)
    OBVIOUS
<1>1. Sender(s) = 0
    BY StillAlone DEF Vacant
<1>2. At(s, InBody) = {}
    BY DEF Vacant, Still, Using, At
<1> QED
    BY <1>1, <1>2 DEF Vacant, Sound, Quieted, Clean, Sends, Elected,
                      Emptied, Awaited, Found, Packets

LEMMA VacantNext == \A s \in Slot : IoType' /\ Vacant(s)' => Sound(s)'
<1>1. (\A s \in Slot : IoType /\ Vacant(s) => Sound(s))'
    BY VacantSound, PTL
<1> QED
    BY <1>1

\* What is on the free stack, or with the accept thread, is vacant.
LEMMA ComingVacant ==
    ASSUME TypeOK, NEW s \in Slot, Custody(s), Linked(s), Sound(s),
           \/ emptyIndexStack[s] > 0
           \/ At(s, {"a.valid"}) # {}
           \/ At(s, {"a.flag", "a.reset"}) # {}
    PROVE  Vacant(s)
<1>1. CASE At(s, {"a.flag", "a.reset"}) # {}
    BY <1>1 DEF Sound, Quieted, Dead, Clean, Vacant
<1>2. CASE At(s, {"a.valid"}) # {} \/ emptyIndexStack[s] > 0
  <2>1. At(s, {"a.valid"}) # {} => At(s, Incoming) # {}
      BY DEF At, Incoming
  <2>2. ~isValid[s] /\ At(s, {"r.leave"}) = {}
      BY <1>2, <2>1, Elsewhere DEF Custody
  <2> QED
      BY <2>2 DEF Sound, Quieted, Dead, Clean, Vacant
<1> QED
    BY <1>1, <1>2

\* A session that begins has not been claimed by its name.
LEMMA BegunNow ==
    ASSUME TypeOK, NEW s \in Slot, Custody(s), Linked(s),
           At(s, Joining) # {}
    PROVE  isValid[s] /\ ~Ending(s)
<1>1. isValid[s] /\ At(s, {"r.close"}) = {}
    BY ChainPlace
<1>2. At(s, {"r.leave"}) = {}
  <2>1. /\ Cardinality(At(s, {"r.leave"})) \in Nat
        /\ Cardinality(At(s, Incoming)) \in Nat
        /\ Cardinality(Leaves(s)) \in Nat
        /\ emptyIndexStack[s] \in Nat /\ hcp[s]["LEAVE"] \in Nat
      BY AtCounts, LeavesCount, Elsewhere DEF Custody, TypeOK
  <2>2. Cardinality(At(s, {"r.leave"})) = 0
      BY <1>1, <2>1 DEF Custody, Places
  <2> QED
      BY <2>2, AtCounts
<1>3. Chain(s) # 0
  <2>1. At(s, Receiving) # {}
      BY DEF At, Joining, Receiving
  <2>2. Cardinality(At(s, Receiving)) \in Nat \ {0} /\ Posted(s) \in Nat
      BY <2>1, AtCounts, PostedNat DEF TypeOK
  <2> QED
      BY <2>2 DEF Chain
<1>4. \A t \in At(s, {"r.id"}) : sid[t] # sessionID[s]
    BY <1>3 DEF Linked, Ended
<1>5. At(s, {"r.close", "r.leave"}) = {}
    BY <1>1, <1>2 DEF At
<1> QED
    BY <1>1, <1>4, <1>5 DEF Ending

LEMMA AcceptSound ==
    ASSUME TypeOK, TypeOK', "tableFull" \notin Faults, CustodyInv, ChainInv,
           CallInv, NEW s \in Slot, Sound(s), Accept(s)
    PROVE  Sound(s)'
<1>1. emptyIndexStack[s] > 0 /\ Vacant(s)
    BY ComingVacant DEF Accept, CustodyInv, ChainInv
<1>2. /\ Alone(Acceptor) /\ pc'[Acceptor] = "a.ref" /\ Acceptor \in Thread
      /\ sessionID'[s] = <<sessionAllocNum, s>>
    BY NotAcceptor DEF Accept, Begin, TypeOK, LocalType, IdType, Alone
<1>3. /\ UNCHANGED ioVars /\ UNCHANGED connVars /\ UNCHANGED sendVars
    BY DEF Accept
<1>4. Still(s)'
  <2>1. UnderWay(s)' = 0
      BY <1>1, <1>3, SameUnderWay DEF Vacant, Still
  <2>2. At(s, Using)' \subseteq At(s, Using)
      BY <1>2 DEF At, Alone, Using, InBody
  <2>3. \A t \in Thread : pc'[t] = "f.id" => sid'[t] # sessionID'[s]
    <3>1. TAKE t \in Thread
    <3>2. HAVE pc'[t] = "f.id"
    <3>3. pc[t] = "f.id" /\ sid'[t] = sid[t]
        BY <1>2, <3>2 DEF Alone
    <3>4. sid[t] \in issued
        BY <3>3 DEF CallInv, Named, Calling, Finding
    <3>5. sid[t][1] < sessionAllocNum /\ sessionAllocNum \in Nat
        BY <3>4, ConstAssumption DEF CallInv, Named, TypeOK, IdType
    <3> QED
        BY <1>2, <3>3, <3>5
  <2> QED
      BY <1>1, <2>1, <2>2, <2>3 DEF Vacant, Still, At
<1>5. Vacant(s)'
    BY <1>1, <1>3, <1>4 DEF Vacant, connVars, sendVars
<1> QED
    BY <1>5, VacantNext DEF TypeOK

LEMMA AcceptBeginSound ==
    ASSUME TypeOK, TypeOK', CustodyInv, ChainInv, NEW s \in Slot, Sound(s),
           slot[Acceptor] = s, AcceptValid \/ AcceptFlag
    PROVE  Sound(s)'
<1>1. Vacant(s)
  <2>1. Acceptor \in At(s, {"a.valid"}) \cup At(s, {"a.flag", "a.reset"})
      BY NotAcceptor DEF AcceptValid, AcceptFlag, At
  <2> QED
      BY <2>1, ComingVacant DEF CustodyInv, ChainInv
<1>2. /\ Alone(Acceptor) /\ pc'[Acceptor] \in {"a.flag", "a.reset"}
    BY NotAcceptor, GotoAlone DEF AcceptValid, AcceptFlag, TypeOK
<1>3. /\ UNCHANGED ioVars /\ UNCHANGED connVars /\ UNCHANGED sendVars
      /\ sessionID' = sessionID
    BY DEF AcceptValid, AcceptFlag, otherVars, idVars
<1>4. Still(s)'
  <2>1. UnderWay(s)' = 0
      BY <1>1, <1>3, SameUnderWay DEF Vacant, Still
  <2>2. At(s, Using)' \subseteq At(s, Using)
      BY <1>2 DEF At, Alone, Using, InBody
  <2> QED
      BY <1>1, <1>2, <1>3, <2>1, <2>2 DEF Vacant, Still, At, Alone
<1>5. Vacant(s)'
    BY <1>1, <1>3, <1>4 DEF Vacant, connVars, sendVars
<1> QED
    BY <1>5, VacantNext DEF TypeOK

\* The plain stores of the accept thread find nobody at work on the slot.
LEMMA ResetSound ==
    ASSUME TypeOK, TypeOK', CustodyInv, ChainInv, Named, NEW s \in Slot,
           Sound(s), slot[Acceptor] = s, AcceptReset
    PROVE  Sound(s)'
<1>1. /\ Acceptor \in At(s, {"a.flag", "a.reset"})
      /\ Acceptor \in At(s, Joining)
    BY NotAcceptor DEF AcceptReset, At, Joining
<1>2. Vacant(s)
    BY <1>1, ComingVacant DEF CustodyInv, ChainInv
<1>3. isValid[s] /\ ~Ending(s)
    BY <1>1, BegunNow DEF CustodyInv, ChainInv
<1>4. /\ Alone(Acceptor) /\ pc'[Acceptor] = "a.join" /\ Acceptor \in Thread
    BY NotAcceptor, GotoAlone DEF AcceptReset, TypeOK
<1>5. /\ UNCHANGED ioVars /\ UNCHANGED <<sessionID, isValid>>
      /\ sendFlag'[s] = 0 /\ sendQueue'[s] = << >>
      /\ sentPacketArray' = sentPacketArray /\ disconnectStep'[s] = "NORMAL"
    BY DEF AcceptReset, SetStep, otherVars, idVars, flagVars, TypeOK,
           SendType, ConnType
<1>6. ~Dead(s)'
  <2>1. At(s, {"a.flag", "a.reset"})' = {}
    <3>1. \A t \in Thread : pc[t] \in {"a.flag", "a.reset"} => t = Acceptor
        BY DEF Named, Arriving
    <3> QED
        BY <1>4, <3>1 DEF At, Alone
  <2>2. At(s, {"r.close", "r.leave"})' = {}
      BY <1>3, <1>4 DEF Ending, At, Alone
  <2>3. \A t \in At(s, {"r.id"})' : sid'[t] # sessionID'[s]
      BY <1>3, <1>4, <1>5 DEF Ending, At, Alone
  <2> QED
      BY <1>3, <1>5, <2>1, <2>2, <2>3 DEF Dead, Ending
<1>7. Sender(s)' = 0
  <2>1. Sending(s) = 0 /\ Sender(s) = 0
      BY <1>2, StillAlone DEF Vacant, TypeOK
  <2>2. Sending(s)' = 0
      BY <1>5, <2>1, StillSending DEF ioVars
  <2>3. "a.join" \notin SenderAt /\ "a.reset" \notin SenderAt
        /\ pc[Acceptor] = "a.reset"
      BY DEF AcceptReset, SenderAt
  <2> QED
      BY <1>4, <2>1, <2>2, <2>3, SenderMoves
<1>8. At(s, InBody)' = {}
  <2>1. At(s, InBody) \subseteq At(s, Using)
      BY DEF At, Using
  <2>2. At(s, InBody)' \subseteq At(s, InBody)
      BY <1>4 DEF At, Alone, InBody
  <2> QED
      BY <1>2, <2>1, <2>2 DEF Vacant, Still
<1>9. Sends(s)'
    BY <1>2, <1>5, <1>7, <1>8
       DEF Vacant, Sends, Elected, Emptied, Awaited, Found, Packets
<1> QED
    BY <1>6, <1>9, LiveQuieted DEF Sound

-----------------------------------------------------------------------------
(* The end of a session.                                                   *)

LEMMA ReleaseAside ==
    {"r.cas", "r.id", "r.off", "r.close", "r.leave", "idle"}
        \cap (Using \cup SenderAt \cup InBody
              \cup {"f.id", "a.flag", "a.reset", "sp.fail"}) = {}
    BY DEF Using, InBody, SenderAt

\* A worker claims the session, or goes on with that: nothing is touched,
\* and a session that is at its end is still.
LEMMA ClaimSound ==
    ASSUME TypeOK, NEW s \in Slot, Sound(s), NEW w \in Thread, slot[w] = s,
           Alone(w), slot'[w] = s, pc[w] \in {"r.cas", "r.id"},
           pc'[w] \in {"r.id", "r.off", "r.close"},
           UNCHANGED ioVars, UNCHANGED connVars, UNCHANGED sendVars,
           UNCHANGED <<sessionID, isValid, issued>>,
           Dead(s)' => Still(s)
    PROVE  Sound(s)'
<1>1. Still(s) => Still(s)'
  <2>1. UnderWay(s)' = UnderWay(s)
      BY SameUnderWay
  <2>2. At(s, Using)' \subseteq At(s, Using)
      BY ReleaseAside DEF At, Alone
  <2> QED
      BY <2>1, <2>2 DEF Still, At, Alone
<1>2. /\ At(s, {"r.leave"})' = At(s, {"r.leave"})
      /\ At(s, {"a.flag", "a.reset"})' = At(s, {"a.flag", "a.reset"})
    BY DEF At, Alone
<1>3. Quieted(s)'
    BY <1>1, <1>2 DEF Sound, Quieted, Clean, connVars, sendVars
<1>4. Sending(s)' = Sending(s) /\ Sending(s) \in Nat
      /\ Coming(s)' = Coming(s)
    BY StillSending, SendingNat DEF ioVars, TypeOK
<1>5. Awaited(s)'
  <2>1. LinkSame(s) /\ pc[w] # "sp.fail"
      BY StillLink
  <2> QED
      BY <1>4, <2>1, WaitAwaits DEF Sound, Sends, WaitKept
<1>6. Sends(s)'
  <2>1. /\ Within(w, s, SenderAt) /\ Within(w, s, EmptyAt)
        /\ pc'[w] \notin InBody
      BY ReleaseAside, EmptySender DEF Within
  <2> QED
      BY <1>4, <1>5, <2>1, StillLink, SendsMove DEF Sound
<1> QED
    BY <1>3, <1>6 DEF Sound

\* The compare-and-swap that finds nobody in the session.
LEMMA NobodyLeft ==
    ASSUME TypeOK, NEW s \in Slot, IOcount[s] <= Cardinality(Passing(s)),
           IOcount[s] = Held(s) + UnderWay(s) + leaked[s]
    PROVE  Still(s)
<1>1. IsFiniteSet(At(s, Holding))
    BY ThreadsFinite, FS_Subset DEF At
<1>2. Passing(s) \subseteq At(s, Holding)
    BY DEF Passing, At, Holding
<1>3. /\ IsFiniteSet(Passing(s))
      /\ Cardinality(Passing(s)) <= Cardinality(At(s, Holding))
      /\ Cardinality(Passing(s)) = Cardinality(At(s, Holding))
             => Passing(s) = At(s, Holding)
    BY <1>1, <1>2, FS_Subset
<1>4. /\ Cardinality(At(s, Holding)) \in Nat
      /\ Cardinality(At(s, HoldingTwo)) \in Nat
      /\ Cardinality(Passing(s)) \in Nat
      /\ UnderWay(s) \in Nat /\ leaked[s] \in Nat /\ IOcount[s] \in Int
    BY <1>3, AtCounts, UnderWayNat, FS_CardinalityType
       DEF TypeOK, HistoryType, CountType
<1>5. /\ UnderWay(s) = 0
      /\ Cardinality(Passing(s)) = Cardinality(At(s, Holding))
    BY <1>3, <1>4 DEF Held
<1>6. Passing(s) = At(s, Holding)
    BY <1>3, <1>5
<1>7. Using \cup {"f.id"} \subseteq Holding
    BY DEF Using, InBody, Holding
<1>8. At(s, Using) = {}
  <2>1. Using \cap {"f.flag", "u.deref", "w.deref", "f.id"} = {}
      BY DEF Using, InBody
  <2> QED
      BY <1>6, <1>7, <2>1 DEF Passing, At
<1>9. \A t \in At(s, {"f.id"}) : sid[t] # sessionID[s]
    BY <1>6, <1>7 DEF Passing, At
<1> QED
    BY <1>5, <1>8, <1>9 DEF Still

LEMMA CasSound ==
    ASSUME TypeOK, RefAccounting, ~raced', NEW w \in Workers,
           NEW s \in Slot, slot[w] = s, Sound(s), ReleaseCas(w),
           releaseFlag[s] = tempCount[w]
    PROVE  Sound(s)'
<1>1. /\ w \in Thread /\ pc[w] = "r.cas" /\ Goto(w, "r.id")
      /\ raced' <=> raced \/ /\ sid[w] = sessionID[s]
                             /\ IOcount[s] > Cardinality(Passing(s))
    BY DEF Thread, ReleaseCas
<1>2. /\ Alone(w) /\ pc'[w] = "r.id" /\ slot'[w] = s /\ sid'[w] = sid[w]
    BY <1>1, GotoAlone DEF TypeOK
<1>3. /\ UNCHANGED ioVars /\ UNCHANGED connVars /\ UNCHANGED sendVars
      /\ UNCHANGED <<sessionID, isValid, issued>>
    BY DEF ReleaseCas, idVars, contentVars
<1>4. Dead(s)' => Still(s)
  <2>1. CASE sid[w] = sessionID[s]
    <3>1. ~(IOcount[s] > Cardinality(Passing(s)))
        BY <1>1, <2>1
    <3>2. IOcount[s] \in Int /\ Cardinality(Passing(s)) \in Nat
      <4>1. IsFiniteSet(Passing(s))
          BY ThreadsFinite, FS_Subset DEF Passing
      <4> QED
          BY <4>1, FS_CardinalityType DEF TypeOK, CountType
    <3>3. IOcount[s] <= Cardinality(Passing(s))
        BY <3>1, <3>2
    <3> QED
        BY <3>3, NobodyLeft DEF RefAccounting
  <2>2. CASE sid[w] # sessionID[s]
    <3>1. Dead(s)' => Dead(s)
        BY <1>1, <1>2, <1>3, <2>2 DEF Dead, Ending, At, Alone
    <3> QED
        BY <3>1 DEF Sound, Quieted
  <2> QED
      BY <2>1, <2>2
<1> QED
    BY <1>1, <1>2, <1>3, <1>4, ClaimSound

LEMMA ReleaseIDSound ==
    ASSUME TypeOK, NEW w \in Workers, NEW s \in Slot, slot[w] = s, Sound(s),
           ReleaseID(w)
    PROVE  Sound(s)'
<1>1. w \in Thread /\ pc[w] = "r.id" /\ LocalType
    BY DEF Thread, ReleaseID, TypeOK
<1>2. /\ UNCHANGED ioVars /\ UNCHANGED connVars /\ UNCHANGED sendVars
      /\ UNCHANGED <<sessionID, isValid, issued>>
    BY DEF ReleaseID, otherVars, idVars, flagVars, contentVars
<1>3. CASE sid[w] = sessionID[s]
  <2>1. Alone(w) /\ pc'[w] = "r.close" /\ slot'[w] = s
      BY <1>1, <1>3, GotoAlone DEF ReleaseID
  <2>2. Dead(s)
      BY <1>1, <1>3 DEF Dead, Ending, At
  <2> QED
      BY <1>1, <1>2, <2>1, <2>2, ClaimSound DEF Sound, Quieted
<1>4. CASE sid[w] # sessionID[s]
  <2>1. Alone(w) /\ pc'[w] = "r.off" /\ slot'[w] = s
      BY <1>1, <1>4 DEF ReleaseID, Begin, LocalType, Alone
  <2>2. Dead(s)' => Dead(s)
      BY <1>1, <1>2, <2>1 DEF Dead, Ending, At, Alone
  <2> QED
      BY <1>1, <1>2, <2>1, <2>2, ClaimSound DEF Sound, Quieted
<1> QED
    BY <1>3, <1>4

LEMMA CloseSound ==
    ASSUME TypeOK, CustodyInv, ChainInv, NEW w \in Workers, NEW s \in Slot,
           slot[w] = s, Sound(s), ReleaseClose(w)
    PROVE  Sound(s)'
<1>1. /\ w \in Thread /\ pc[w] = "r.close" /\ IoType
      /\ w \in At(s, {"r.close"}) /\ w \in At(s, {"r.close", "r.leave"})
    BY DEF Thread, ReleaseClose, TypeOK, At
<1>2. Still(s)
    BY <1>1 DEF Sound, Quieted, Dead, Ending
<1>3. Alone(w) /\ pc'[w] = "r.leave" /\ slot'[w] = s
    BY <1>1, GotoAlone DEF ReleaseClose, TypeOK
<1>4. /\ CancelIo(s, {"recv", "send"}, hcp) /\ sock'[s] = "closed"
      /\ UNCHANGED <<sessionID, issued>> /\ UNCHANGED sendVars
    BY DEF ReleaseClose, CancelAll, otherVars, idVars, contentVars, TypeOK,
           ConnType
<1>5. Still(s)'
  <2>1. UnderWay(s)' = recvIO[s] + sendIO[s] + Carried(hcp, s)
      BY <1>1, <1>4, CancelUnderWay DEF IoType
  <2>2. UnderWay(s)' = 0
      BY <1>2, <2>1 DEF Still, UnderWay
  <2>3. At(s, Using)' \subseteq At(s, Using)
      BY <1>3, ReleaseAside DEF At, Alone
  <2> QED
      BY <1>2, <1>3, <1>4, <2>2, <2>3 DEF Still, At, Alone
<1>6. Clean(s)'
  <2>1. At(s, Joining) = {}
      BY <1>1, ChainPlace DEF CustodyInv, ChainInv
  <2>2. At(s, {"a.flag", "a.reset"})' = {}
      BY <1>3, <2>1 DEF At, Alone, Joining
  <2>3. w \in At(s, {"r.leave"})'
      BY <1>1, <1>3 DEF At
  <2> QED
      BY <1>4, <2>2, <2>3 DEF Clean
<1>7. Sends(s)'
  <2>1. Sending(s)' = Sending(s)
      BY <1>1, <1>4, DisconnectSending
  <2>2. SameSends(s) /\ WaitKept(s)
      BY <1>4, StillLink DEF SameSends, WaitKept
  <2>3. Goto(w, "r.leave")
      BY DEF ReleaseClose
  <2> QED
      BY <1>1, <2>1, <2>2, <2>3, ReleaseAside, OtherSends DEF Sound
<1> QED
    BY <1>5, <1>6, <1>7 DEF Sound, Quieted

\* The packets are freed: the slot is as it was before its first session.
LEMMA LeaveSound ==
    ASSUME TypeOK, TypeOK', CustodyInv, NEW w \in Workers, NEW s \in Slot,
           slot[w] = s, Sound(s), ReleaseLeave(w)
    PROVE  Sound(s)'
<1>1. /\ w \in Thread /\ pc[w] = "r.leave"
      /\ w \in At(s, {"r.leave"}) /\ w \in At(s, {"r.close", "r.leave"})
    BY DEF Thread, ReleaseLeave, At
<1>2. Still(s)
    BY <1>1 DEF Sound, Quieted, Dead, Ending
<1>3. ~isValid[s]
  <2>1. /\ Cardinality(At(s, {"r.leave"})) \in Nat \ {0}
        /\ Cardinality(At(s, Incoming)) \in Nat
        /\ Cardinality(Leaves(s)) \in Nat
        /\ emptyIndexStack[s] \in Nat /\ hcp[s]["LEAVE"] \in Nat
      BY <1>1, AtCounts, LeavesCount, Elsewhere DEF CustodyInv, Custody, TypeOK
  <2> QED
      BY <2>1 DEF CustodyInv, Custody, Places
<1>4. Alone(w) /\ pc'[w] = "idle"
    BY <1>1, GotoAlone DEF ReleaseLeave, TypeOK
<1>5. /\ sock' = sock /\ UNCHANGED ioVars /\ UNCHANGED sessionID
      /\ sendQueue'[s] = << >> /\ sentPacketArray'[s] = << >>
    BY DEF ReleaseLeave, FreeSent, idVars, connVars, TypeOK, SendType
<1>6. Still(s)'
  <2>1. UnderWay(s)' = UnderWay(s)
      BY <1>5, SameUnderWay
  <2>2. At(s, Using)' \subseteq At(s, Using)
      BY <1>4, ReleaseAside DEF At, Alone
  <2> QED
      BY <1>2, <1>4, <1>5, <2>1, <2>2 DEF Still, At, Alone
<1>7. Vacant(s)'
    BY <1>3, <1>5, <1>6 DEF Sound, Quieted, Clean, Vacant
<1> QED
    BY <1>7, VacantNext DEF TypeOK

-----------------------------------------------------------------------------
(* The invariant.                                                          *)

\* raced is never cleared.
LEMMA RacedStays == ASSUME Next, raced PROVE raced'
<1>1. ASSUME NEW i \in Slot, Accept(i) PROVE raced'
    BY <1>1 DEF Accept, historyVars
<1>2. ASSUME AcceptStep PROVE raced'
    BY <1>2 DEF AcceptStep, AcceptRef, AcceptValid, AcceptFlag, AcceptReset,
                AcceptJoin, AcceptRecv, otherVars, historyVars
<1>3. ASSUME NEW s \in Slot, Complete(s) \/ PeerReset(s) PROVE raced'
    BY <1>3 DEF Complete, PeerReset, otherVars, historyVars
<1>4. ASSUME NEW w \in Workers, NEW s \in Slot, TakeCompletion(w, s)
      PROVE  raced'
    BY <1>4 DEF TakeCompletion, RecvDone, SendDone, IoFailed, SendRequested,
                ReleaseRequested, LeaveDone, otherVars, historyVars
<1>5. ASSUME NEW w \in Workers, WorkerStep(w) PROVE raced'
  <2>1. CASE RecvPost(w) \/ SendPost(w)
      BY <2>1 DEF RecvPost, RecvPostCheck, RecvPostRecv, RecvPostCancel,
                  SendPost, SendPostFlag, SendPostLook, SendPostUnflag,
                  SendPostTake, SendPostSend, SendPostFail, SendPostCancel,
                  Look, sharedVars, otherVars, historyVars
  <2>2. CASE SentUnflag(w) \/ SentMore(w) \/ WorkerDeref(w) \/ ReadID(w)
      BY <2>2 DEF SentUnflag, SentMore, WorkerDeref, ReadID, Look,
                  sharedVars, otherVars, historyVars
  <2>3. CASE ReleaseSession(w)
      BY <2>3 DEF ReleaseSession, ReleaseValid, ReleaseCount, ReleaseCas,
                  ReleaseID, ReleaseOff, ReleaseUndo, ReleaseClose,
                  ReleaseLeave, Look, sharedVars, otherVars, historyVars
  <2> QED
      BY <1>5, <2>1, <2>2, <2>3 DEF WorkerStep
<1>6. ASSUME NEW u, NEW id, NEW o,
             HandleJobs(u, id) \/ FindValid(u, id, o)
      PROVE  raced'
    BY <1>6 DEF HandleJobs, FindValid, sharedVars, otherVars, historyVars
<1>7. ASSUME NEW u, CallStep(u) PROVE raced'
    BY <1>7 DEF CallStep, FindRef, FindFlag, FindID, UserDeref,
                SendPacketEnqueue, SendPacketLast, SendPacketPost,
                DisconnectCut, GetUDPRead, UdpWrite, Look, sharedVars,
                otherVars, historyVars
<1> QED
    BY <1>1, <1>2, <1>3, <1>4, <1>5, <1>6, <1>7
       DEF Next, UserCall, UdpReceive

AllSound == \A s \in Slot : Sound(s)

\* A step about one slot, and one that touches none.
LEMMA LocalSound ==
    ASSUME AllSound, NEW r, Local(r), Sound(r)'
    PROVE  AllSound'
<1>1. ASSUME NEW s \in Slot, s # r PROVE Sound(s)'
    BY <1>1, SoundFrame DEF AllSound, Local
<1> QED
    BY <1>1 DEF AllSound

LEMMA StillSound ==
    ASSUME AllSound, \A s \in Slot : Unmoved(s), issued \subseteq issued'
    PROVE  AllSound'
<1>1. ASSUME NEW s \in Slot PROVE Sound(s)'
    BY <1>1, SoundFrame DEF AllSound
<1> QED
    BY <1>1 DEF AllSound

LEMMA AcceptStepSound ==
    ASSUME TypeOK, TypeOK', CustodyInv, ChainInv, Named, AllSound, AcceptStep
    PROVE  AllSound'
<1>1. PICK r \in Slot : slot[Acceptor] = r
    BY WorkerContext DEF Thread
<1>2. Sound(r) /\ Local(r)
    BY <1>1, AcceptStepLocal DEF AllSound
<1>3. CASE AcceptRef
    BY <1>2, <1>3, AcceptRefUnmoved, StillSound DEF Local
<1>4. CASE ~AcceptRef
  <2>1. Sound(r)'
      BY <1>1, <1>2, <1>4, JoinSound, AcceptBeginSound, ResetSound
         DEF AcceptStep
  <2> QED
      BY <1>2, <2>1, LocalSound
<1> QED
    BY <1>3, <1>4

LEMMA TakeCompletionSound ==
    ASSUME TypeOK, AllSound, NEW w \in Workers, NEW r \in Slot,
           TakeCompletion(w, r)
    PROVE  AllSound'
<1>1. Sound(r) /\ Local(r)
    BY TakeCompletionLocal DEF AllSound
<1>2. CASE ReleaseRequested(w, r) \/ LeaveDone(w, r)
    BY <1>1, <1>2, RequestUnmoved, StillSound DEF Local
<1>3. CASE ~ReleaseRequested(w, r) /\ ~LeaveDone(w, r)
    BY <1>1, <1>3, CompletionSound, LocalSound DEF TakeCompletion
<1> QED
    BY <1>2, <1>3

LEMMA WorkerStepSound ==
    ASSUME TypeOK, TypeOK', RefAccounting, CustodyInv, ChainInv, AllSound,
           ~raced', NEW w \in Workers, WorkerStep(w)
    PROVE  AllSound'
<1>1. PICK r \in Slot : slot[w] = r
    BY WorkerContext DEF Thread
<1>2. Sound(r) /\ Local(r)
    BY <1>1, RecvPostLocal, SendPostLocal, SentLocal, ReleaseLocal
       DEF AllSound, WorkerStep
<1>3. CASE RecvPost(w) \/ SendPost(w) \/ SentUnflag(w) \/ SentMore(w)
    BY <1>1, <1>2, <1>3, WorkerSound, LocalSound
<1>4. CASE \/ WorkerDeref(w) \/ ReadID(w) \/ ReleaseValid(w)
           \/ ReleaseOff(w) \/ ReleaseUndo(w)
           \/ ReleaseCas(w) /\ releaseFlag[slot[w]] # tempCount[w]
    BY <1>2, <1>4, ReleaseUnmoved, StillSound DEF Local
<1>5. CASE ReleaseCount(w)
    BY <1>2, <1>5, CountUnmoved, StillSound DEF Local
<1>6. CASE \/ ReleaseCas(w) /\ releaseFlag[slot[w]] = tempCount[w]
           \/ ReleaseID(w) \/ ReleaseClose(w) \/ ReleaseLeave(w)
    BY <1>1, <1>2, <1>6, CasSound, ReleaseIDSound, CloseSound, LeaveSound,
       LocalSound
<1> QED
    BY <1>3, <1>4, <1>5, <1>6 DEF WorkerStep, ReleaseSession

LEMMA CallStepSound ==
    ASSUME TypeOK, CustodyInv, CallInv, AllSound,
           NEW u \in Users \cup UdpThreads, CallStep(u)
    PROVE  AllSound'
<1>1. PICK r \in Slot : slot[u] = r
    BY WorkerContext DEF Thread
<1>2. Sound(r) /\ Local(r)
    BY <1>1, CallLocal DEF AllSound
<1>3. CASE FindRef(u) \/ UserDeref(u)
    BY <1>2, <1>3, CallUnmoved, StillSound DEF Local
<1>4. CASE ~FindRef(u) /\ ~UserDeref(u)
  <2>1. Sound(r)'
      BY <1>1, <1>2, <1>4, FindSound, BodySound DEF CallStep, CallInv
  <2> QED
      BY <1>2, <2>1, LocalSound
<1> QED
    BY <1>3, <1>4

LEMMA NextSound ==
    ASSUME "tableFull" \notin Faults, TypeOK, TypeOK', RefAccounting,
           CustodyInv, ChainInv, CallInv, AllSound, Next, ~raced'
    PROVE  AllSound'
<1>1. ASSUME NEW i \in Slot, Accept(i) PROVE AllSound'
  <2>1. Sound(i)'
      BY <1>1, AcceptSound DEF AllSound
  <2> QED
      BY <1>1, <2>1, AcceptLocal, LocalSound
<1>2. ASSUME NEW r \in Slot, Complete(r) \/ PeerReset(r) PROVE AllSound'
  <2>1. Sound(r)'
      BY <1>2, PeerSound DEF AllSound
  <2> QED
      BY <1>2, <2>1, PeerLocal, LocalSound
<1>3. ASSUME NEW u \in Users, NEW id \in SessionID, HandleJobs(u, id)
      PROVE  AllSound'
  <2>1. UNCHANGED issued
      BY <1>3 DEF HandleJobs
  <2> QED
      BY <1>3, <2>1, JobsLocal, StillSound
<1>4. ASSUME NEW u \in Thread, NEW id, NEW o, pc[u] = "idle",
             FindValid(u, id, o)
      PROVE  AllSound'
  <2>1. UNCHANGED issued
      BY <1>4 DEF FindValid, sharedVars, otherVars, contentVars
  <2> QED
      BY <1>4, <2>1, FindValidLocal, StillSound
<1>5. ASSUME NEW u \in Users, NEW id \in SessionID, NEW o \in AllCalls,
             UserCall(u, id, o)
      PROVE  AllSound'
    BY <1>4, <1>5 DEF UserCall, Thread
<1>6. ASSUME NEW u \in UdpThreads, NEW id \in SessionID, UdpReceive(u, id)
      PROVE  AllSound'
    BY <1>4, <1>6 DEF UdpReceive, Thread
<1> QED
    BY <1>1, <1>2, <1>3, <1>5, <1>6, AcceptStepSound, TakeCompletionSound,
       WorkerStepSound, CallStepSound DEF Next, CallInv

LEMMA NextSend ==
    ASSUME "tableFull" \notin Faults, TypeOK, TypeOK', RefAccounting,
           CustodyInv, ChainInv, SendInv, [Next]_vars
    PROVE  SendInv'
<1>1. CASE UNCHANGED vars
  <2>1. UNCHANGED <<pc, localVars>> /\ UNCHANGED sharedVars
      BY <1>1 DEF vars
  <2>2. /\ UNCHANGED <<pc, slot, sid>> /\ UNCHANGED <<players, issued>>
        /\ UNCHANGED <<sessionID, sessionAllocNum, isValid, releaseFlag>>
        /\ UNCHANGED raced /\ UNCHANGED connVars /\ UNCHANGED sendVars
        /\ UNCHANGED ioVars
      BY <2>1 DEF localVars, sharedVars, otherVars, idVars, contentVars,
                  flagVars, historyVars
  <2>3. CallInv'
      BY <2>2 DEF SendInv, CallInv, Named, Uncalled, At
  <2>4. \A s \in Slot : Unmoved(s)
      BY <2>1, <2>2, NobodyStays, OthersSame DEF Unmoved, IoSame, ioVars
  <2>5. AllSound => AllSound'
      BY <2>2, <2>4, StillSound
  <2> QED
      BY <2>2, <2>3, <2>5 DEF SendInv, SoundInv, AllSound
<1>2. CASE Next
  <2>1. CallInv'
      BY <1>2, NextNamed, NextUncalled DEF SendInv, CallInv
  <2>2. ~raced' => AllSound'
      BY <1>2, RacedStays, NextSound DEF SendInv, SoundInv, AllSound
  <2> QED
      BY <2>1, <2>2 DEF SendInv, SoundInv, AllSound
<1> QED
    BY <1>1, <1>2

LEMMA InitSend == Init => SendInv
<1> SUFFICES ASSUME Init PROVE SendInv
    OBVIOUS
<1>1. \A s \in Slot : \A points :
          At(s, points) \subseteq {t \in Thread : "idle" \in points}
    BY DEF Init, At
<1>2. /\ "idle" \notin Using /\ "idle" \notin Calling
      /\ "idle" \notin Arriving /\ "idle" \notin Life
    BY IdleUnnoticed DEF Noticed, Using, Life, Calling, Finding, InBody,
                         Arriving
<1>3. CallInv
  <2>1. Named
      BY <1>2 DEF Init, Named
  <2>2. ASSUME NEW s \in Slot PROVE Uncalled(s)
      BY <1>1 DEF Finding, Uncalled
  <2> QED
      BY <2>1, <2>2 DEF CallInv
<1>4. ASSUME NEW s \in Slot PROVE Sound(s)
  <2>1. IoType /\ sessionID[s] = ZeroID
      BY InitType DEF TypeOK, Init
  <2>2. UnderWay(s) = 0
    <3>1. /\ recvIO[s] = 0 /\ sendIO[s] = 0
          /\ \A c \in Completion : hcp[s][c] = 0
        BY DEF Init
    <3> QED
        BY <3>1 DEF UnderWay, Carried, Carrying, Completion
  <2>3. At(s, Using) = {} /\ At(s, {"f.id"}) = {}
      BY <1>1, <1>2
  <2>4. Vacant(s)
      BY <2>2, <2>3 DEF Init, Vacant, Still
  <2> QED
      BY <2>1, <2>4, VacantSound
<1> QED
    BY <1>3, <1>4 DEF SendInv, SoundInv

LEMMA SendHolds ==
    ASSUME "tableFull" \notin Faults
    PROVE  Spec => []SendInv
<1>1. Init => SendInv
    BY InitSend
<1>2. /\ TypeOK /\ TypeOK' /\ RefAccounting /\ CustodyInv /\ ChainInv
      /\ SendInv /\ [Next]_vars
      => SendInv'
    BY NextSend
<1> QED
    BY <1>1, <1>2, TypeCorrect, RefExact, CustodyHolds, ChainHolds, PTL
       DEF Spec

-----------------------------------------------------------------------------
(* What follows.                                                           *)

\* sendPost (CNetServer.cpp) and the exchange of sendFlag: unless a session
\* was released in use, at most one worker or completion sends for a session,
\* and the array of packets being sent is empty when the next sender fills
\* it, for any number of workers and calls of sendPacket.
THEOREM SendsAlone ==
    ASSUME "tableFull" \notin Faults
    PROVE  Spec => []OneSender
<1>1. SendInv => OneSender
  <2> SUFFICES ASSUME SendInv, ~raced, NEW s \in Slot
               PROVE  /\ Sender(s) <= 1
                      /\ At(s, {"sp.take"}) # {} => sentPacketArray[s] = << >>
      BY DEF OneSender
  <2>1. Elected(s) /\ Emptied(s)
      BY DEF SendInv, SoundInv, Sound, Sends
  <2>2. At(s, {"sp.take"}) \subseteq At(s, EmptyAt)
      BY DEF At, EmptyAt
  <2> QED
      BY <2>1, <2>2 DEF Elected, Emptied
<1> QED
    BY <1>1, SendHolds, PTL

\* SendPacket with LASTPACKET, sendPost and the completion of a send
\* (CNetServer.cpp): a session in SENDPOST_LAST whose connection stands has
\* one sender, no more and no less: a send with the kernel, its completion, or
\* the worker whose send failed, one of which will cut it.
THEOREM LastSendKept ==
    ASSUME "tableFull" \notin Faults
    PROVE  Spec => []LastSendIsAwaited
<1>1. TypeOK /\ SendInv => LastSendIsAwaited
  <2> SUFFICES ASSUME TypeOK, SendInv, ~raced, NEW s \in Slot,
                      disconnectStep[s] = "SENDPOST_LAST", sock[s] = "open"
               PROVE  Sender(s) = 1
      BY DEF LastSendIsAwaited
  <2>1. Elected(s) /\ Awaited(s)
      BY DEF SendInv, SoundInv, Sound, Sends
  <2>2. Coming(s) > 0 \/ At(s, {"sp.fail"}) # {}
      BY <2>1 DEF Awaited
  <2>3. At(s, {"sp.fail"}) \subseteq At(s, SenderAt)
      BY DEF At, SenderAt
  <2>4. /\ Cardinality(At(s, SenderAt)) \in Nat
        /\ Cardinality(At(s, SenderAt)) = 0 <=> At(s, SenderAt) = {}
      BY AtCounts
  <2>5. /\ Sending(s) \in Nat /\ Coming(s) \in Nat
        /\ Coming(s) <= Sending(s)
      BY SendingNat DEF TypeOK
  <2>6. Sender(s) = Sending(s) + Cardinality(At(s, SenderAt))
      BY SenderSum
  <2>7. Sending(s) > 0 \/ Cardinality(At(s, SenderAt)) > 0
      BY <2>2, <2>3, <2>4, <2>5
  <2> QED
      BY <2>1, <2>4, <2>5, <2>6, <2>7 DEF Elected
<1> QED
    BY <1>1, TypeCorrect, SendHolds, PTL

\* releaseSession and the reset in AcceptThread (CNetServer.cpp): what is
\* queued or being sent on a connection is addressed to its session, and a
\* slot between two sessions holds no packet, unless one was released in use.
THEOREM PacketsKept ==
    ASSUME "tableFull" \notin Faults
    PROVE  Spec => []PacketsStayInSession
<1>1. SendInv => PacketsStayInSession
  <2> SUFFICES ASSUME SendInv, ~raced, NEW s \in Slot,
                      NEW p \in {sendQueue[s][i] :
                                     i \in 1 .. Len(sendQueue[s])}
                                \cup {sentPacketArray[s][i] :
                                     i \in 1 .. Len(sentPacketArray[s])}
               PROVE  /\ p.id = sessionID[s] /\ sessionID[s] \in issued
                      /\ isValid[s] \/ At(s, {"r.leave"}) # {}
      BY DEF PacketsStayInSession
  <2>1. Packets(s) /\ Clean(s)
      BY DEF SendInv, SoundInv, Sound, Sends, Quieted
  <2>2. sendQueue[s] # << >> \/ sentPacketArray[s] # << >>
      OBVIOUS
  <2>3. p.id = sessionID[s]
      BY <2>1 DEF Packets, Of
  <2> QED
      BY <2>1, <2>2, <2>3 DEF Packets, Clean
<1> QED
    BY <1>1, SendHolds, PTL
=============================================================================
