----------------------- MODULE NetServerReceiverProofs ----------------------
(* One worker at a time receives for a session, and none once it is being  *)
(* cleaned up; a player keeps its session, and the jobs of a slot are the  *)
(* jobs of its session: whatever the number of slots, threads and          *)
(* connections, as long as no connection is accepted on a full table.      *)
EXTENDS NetServerCustodyProofs

-----------------------------------------------------------------------------
(* The inductive invariant.  The receives of a session are a chain: the    *)
(* accept thread makes the first link, then each is posted by the worker   *)
(* that handled the one before, and a chain that ended is never resumed.   *)

Receiving ==
    {"a.ref", "a.valid", "a.flag", "a.reset", "a.join", "a.recv",
     "rp.check", "rp.recv"}

\* The receive that is with the kernel or with a completion.
Posted(s) == recvIO[s] + hcp[s]["recvOk"] + hcp[s]["recvErr"]

Chain(s) == Posted(s) + Cardinality(At(s, Receiving))

\* Where the chain has ended: it has on a slot without session, and for the
\* worker that claimed the session it was named by.
Ended(s) ==
    /\ ~isValid[s] /\ At(s, Incoming) = {} => Chain(s) = 0
    /\ At(s, {"r.close"}) # {} => Chain(s) = 0
    /\ \A t \in At(s, {"r.id"}) : sid[t] = sessionID[s] => Chain(s) = 0
    /\ \A t \in At(s, {"r.cas"}) :
           sid[t] = sessionID[s] /\ tempCount[t] = 0 => Chain(s) = 0

\* Nobody releases by the name of a session that has no reference yet.
Unnamed(s) ==
    At(s, {"a.ref"}) # {} =>
        \A t \in At(s, {"r.count", "r.cas"}) : sid[t] # sessionID[s]

\* An ID that was given out, or that is still the initial one.
Given(id) == id[1] = 0 \/ id[1] < sessionAllocNum

Numbers ==
    /\ \A s \in Slot : Given(sessionID[s])
    /\ \A t \in Thread : Given(sid[t])
    /\ \A id \in players \cup issued : Given(id)

\* Before the first connection nothing was ever released.
Untouched(s) ==
    sessionAllocNum = 0 =>
        /\ ~isValid[s] /\ At(s, Incoming) = {}
        /\ At(s, {"r.count", "r.cas"}) = {}

Linked(s) == Chain(s) <= 1 /\ Ended(s) /\ Unnamed(s) /\ Untouched(s)

ChainInv == Numbers /\ \A s \in Slot : Linked(s)

-----------------------------------------------------------------------------
(* How a step changes the length of a chain.                               *)

PostedFalls == \A s \in Slot : Posted(s)' \in Nat /\ Posted(s)' <= Posted(s)

ChainFalls == \A s \in Slot : Chain(s)' \in Nat /\ Chain(s)' <= Chain(s)

LEMMA PostedNat ==
    ASSUME IoType, NEW s \in Slot
    PROVE  /\ recvIO[s] \in Nat /\ hcp[s]["recvOk"] \in Nat
           /\ hcp[s]["recvErr"] \in Nat /\ Posted(s) \in Nat
    BY DEF IoType, Port, Completion, Posted

LEMMA ChainNat ==
    ASSUME IoType, NEW s \in Slot
    PROVE  Chain(s) \in Nat /\ Cardinality(At(s, Receiving)) \in Nat
    BY PostedNat, AtCounts DEF Chain

\* Cancelling moves a receive from the kernel to the port.
LEMMA CancelPosted ==
    ASSUME IoType, NEW r \in Slot, NEW kinds, NEW port \in Port,
           CancelIo(r, kinds, port), NEW s \in Slot
    PROVE  Posted(s)' =
               recvIO[s] + port[s]["recvOk"] + port[s]["recvErr"]
<1> DEFINE a == IF "recv" \in kinds /\ sock[r] # "closed" THEN recvIO[r] ELSE 0
           b == IF "send" \in kinds /\ sock[r] # "closed" THEN sendIO[r] ELSE 0
<1>1. /\ recvIO' = [recvIO EXCEPT ![r] = @ - a]
      /\ hcp' = [port EXCEPT ![r]["recvErr"] = @ + a, ![r]["sendErr"] = @ + b]
    BY DEF CancelIo
<1>2. a \in Nat /\ b \in Nat
    BY DEF IoType
<1> HIDE DEF a, b
<1>3. /\ recvIO'[s] = IF s = r THEN recvIO[s] - a ELSE recvIO[s]
      /\ recvIO[s] \in Nat
    BY <1>1, <1>2 DEF IoType
<1>4. /\ hcp'[s]["recvOk"] = port[s]["recvOk"]
      /\ hcp'[s]["recvErr"] = IF s = r THEN port[s]["recvErr"] + a
                                       ELSE port[s]["recvErr"]
      /\ port[s]["recvOk"] \in Nat /\ port[s]["recvErr"] \in Nat
    BY <1>1, <1>2 DEF Port, Completion
<1> QED
    BY <1>2, <1>3, <1>4 DEF Posted

LEMMA WithoutPosted ==
    ASSUME IoType, NEW r \in Slot, NEW c \in Completion, NEW s \in Slot
    PROVE  recvIO[s] + Without(r, c)[s]["recvOk"]
           + Without(r, c)[s]["recvErr"] =
               IF s = r /\ c \in {"recvOk", "recvErr"} THEN Posted(s) - 1
                                                       ELSE Posted(s)
    BY PostedNat DEF IoType, Port, Completion, Posted, Without

LEMMA TakePosted ==
    ASSUME IoType, NEW r \in Slot, NEW c \in Completion, hcp[r][c] > 0,
           \/ Take(r, c) /\ UNCHANGED recvIO
           \/ Disconnect(r, Without(r, c)),
           NEW s \in Slot
    PROVE  Posted(s)' = IF s = r /\ c \in {"recvOk", "recvErr"}
                        THEN Posted(s) - 1 ELSE Posted(s)
<1>1. Posted(s)' = recvIO[s] + Without(r, c)[s]["recvOk"]
                   + Without(r, c)[s]["recvErr"]
  <2>1. CASE Take(r, c) /\ UNCHANGED recvIO
      BY <2>1 DEF Take, Posted
  <2>2. CASE Disconnect(r, Without(r, c))
    <3>1. Without(r, c) \in Port
        BY PortTypes
    <3> QED
        BY <2>2, <3>1, CancelPosted DEF Disconnect
  <2> QED
      BY <2>1, <2>2
<1> QED
    BY <1>1, WithoutPosted

\* What the steps do that post no receive.
LEMMA PostedKept ==
    ASSUME IoType
    PROVE  /\ UNCHANGED ioVars => PostedFalls
           /\ \A r \in Slot, c \in Completion :
                  hcp[r][c] > 0 /\ (\/ Take(r, c) /\ UNCHANGED recvIO
                                    \/ Disconnect(r, Without(r, c)))
                  => PostedFalls
           /\ \A r \in Slot, c \in Completion \ {"recvOk", "recvErr"} :
                  Post(r, c) /\ UNCHANGED recvIO => PostedFalls
           /\ \A r \in Slot : \A kinds : CancelIo(r, kinds, hcp) => PostedFalls
<1>1. ASSUME UNCHANGED ioVars PROVE PostedFalls
    BY <1>1, PostedNat DEF ioVars, Posted, PostedFalls
<1>2. ASSUME NEW r \in Slot, NEW c \in Completion, hcp[r][c] > 0,
             \/ Take(r, c) /\ UNCHANGED recvIO
             \/ Disconnect(r, Without(r, c))
      PROVE  PostedFalls
  <2> SUFFICES ASSUME NEW s \in Slot
               PROVE  Posted(s)' \in Nat /\ Posted(s)' <= Posted(s)
      BY DEF PostedFalls
  <2>1. Posted(s)' = IF s = r /\ c \in {"recvOk", "recvErr"}
                     THEN Posted(s) - 1 ELSE Posted(s)
      BY <1>2, TakePosted
  <2>2. s = r /\ c \in {"recvOk", "recvErr"} => Posted(s) > 0
      BY <1>2, PostedNat DEF Posted
  <2> QED
      BY <2>1, <2>2, PostedNat
<1>3. ASSUME NEW r \in Slot, NEW c \in Completion \ {"recvOk", "recvErr"},
             Post(r, c), UNCHANGED recvIO
      PROVE  PostedFalls
  <2> SUFFICES ASSUME NEW s \in Slot PROVE Posted(s)' = Posted(s)
      BY PostedNat DEF PostedFalls
  <2> QED
      BY <1>3 DEF IoType, Port, Completion, Post, Posted
<1>4. ASSUME NEW r \in Slot, NEW kinds, CancelIo(r, kinds, hcp)
      PROVE  PostedFalls
  <2>1. \A s \in Slot : Posted(s)' = Posted(s)
      BY <1>4, CancelPosted DEF IoType, Posted
  <2> QED
      BY <2>1, PostedNat DEF PostedFalls
<1> QED
    BY <1>1, <1>2, <1>3, <1>4

\* A thread that moves without taking up a receive.
LEMMA ThreadFalls ==
    ASSUME IoType, PostedFalls, NEW t \in Thread,
           \A v \in Thread \ {t} : pc'[v] = pc[v] /\ slot'[v] = slot[v],
           pc'[t] \in Receiving =>
               pc[t] \in Receiving /\ slot'[t] = slot[t]
    PROVE  ChainFalls
<1> SUFFICES ASSUME NEW s \in Slot
             PROVE  Chain(s)' \in Nat /\ Chain(s)' <= Chain(s)
    BY DEF ChainFalls
<1>1. /\ Cardinality(At(s, Receiving)) \in Nat
      /\ Cardinality(At(s, Receiving)') \in Nat
    BY OneMoves, AtCounts, ThreadsFinite, FS_Subset, FS_CardinalityType DEF At
<1>2. Cardinality(At(s, Receiving)') <= Cardinality(At(s, Receiving))
    BY OneMoves
<1>3. Chain(s)' = Posted(s)' + Cardinality(At(s, Receiving)')
    BY DEF Chain, Receiving
<1> QED
    BY <1>1, <1>2, <1>3, PostedNat DEF Chain, PostedFalls

LEMMA GotoFalls ==
    ASSUME TypeOK, PostedFalls, NEW t \in Thread, NEW p, Goto(t, p),
           p \in Receiving => pc[t] \in Receiving
    PROVE  ChainFalls
<1>1. /\ pc'[t] = p /\ (p # "idle" => slot'[t] = slot[t])
      /\ \A v \in Thread \ {t} : pc'[v] = pc[v] /\ slot'[v] = slot[v]
    BY DEF TypeOK, LocalType, Goto, Begin, localVars
<1>2. "idle" \notin Receiving /\ IoType
    BY DEF Receiving, TypeOK
<1> QED
    BY <1>1, <1>2, ThreadFalls

LEMMA BeginFalls ==
    ASSUME TypeOK, PostedFalls, NEW t \in Thread, NEW p, NEW a, NEW id, NEW o,
           Begin(t, p, a, id, o), p \notin Receiving
    PROVE  ChainFalls
<1>1. /\ pc'[t] = p /\ IoType
      /\ \A v \in Thread \ {t} : pc'[v] = pc[v] /\ slot'[v] = slot[v]
    BY DEF TypeOK, LocalType, Begin
<1> QED
    BY <1>1, ThreadFalls

LEMMA StillFalls ==
    ASSUME TypeOK, PostedFalls, UNCHANGED <<pc, localVars>>
    PROVE  ChainFalls
<1>1. Acceptor \in Thread /\ IoType
    BY DEF Thread, TypeOK
<1> QED
    BY <1>1, ThreadFalls DEF localVars

\* A thread that posts the receive it is about to post.
LEMMA PostFalls ==
    ASSUME TypeOK, NEW t \in Thread, NEW p, Goto(t, p),
           pc[t] \in Receiving, p \notin Receiving,
           recvIO' = [recvIO EXCEPT ![slot[t]] = @ + 1], UNCHANGED hcp
    PROVE  ChainFalls
<1> SUFFICES ASSUME NEW s \in Slot
             PROVE  Chain(s)' \in Nat /\ Chain(s)' <= Chain(s)
    BY DEF ChainFalls
<1>1. /\ pc'[t] = p
      /\ \A v \in Thread \ {t} : pc'[v] = pc[v] /\ slot'[v] = slot[v]
    BY DEF TypeOK, LocalType, Goto, Begin, localVars
<1>2. /\ Cardinality(At(s, Receiving)) \in Nat
      /\ Cardinality(At(s, Receiving)') \in Nat
      /\ Cardinality(At(s, Receiving)') =
             Cardinality(At(s, Receiving)) - (IF slot[t] = s THEN 1 ELSE 0)
  <2>1. Cardinality(At(s, Receiving)') \in Nat
      BY ThreadsFinite, FS_Subset, FS_CardinalityType DEF At
  <2>2. pc'[t] \notin Receiving
      BY <1>1
  <2>3. /\ Cardinality(At(s, Receiving)) \in Nat
        /\ Cardinality(At(s, Receiving)') =
               Cardinality(At(s, Receiving))
               - (IF slot[t] = s /\ pc[t] \in Receiving THEN 1 ELSE 0)
               + (IF slot'[t] = s /\ pc'[t] \in Receiving THEN 1 ELSE 0)
      BY <1>1, OneMoves
  <2> QED
      BY <2>1, <2>2, <2>3
<1>3. Posted(s)' = Posted(s) + (IF slot[t] = s THEN 1 ELSE 0)
  <2>1. recvIO'[s] = recvIO[s] + (IF slot[t] = s THEN 1 ELSE 0)
      BY DEF TypeOK, IoType
  <2>2. /\ recvIO[s] \in Nat /\ hcp[s]["recvOk"] \in Nat
        /\ hcp[s]["recvErr"] \in Nat
      BY PostedNat DEF TypeOK
  <2>3. Posted(s)' = recvIO'[s] + hcp[s]["recvOk"] + hcp[s]["recvErr"]
      BY DEF Posted
  <2> QED
      BY <2>1, <2>2, <2>3 DEF Posted
<1>4. Chain(s)' = Posted(s)' + Cardinality(At(s, Receiving)')
    BY DEF Chain, Receiving
<1> QED
    BY <1>2, <1>3, <1>4, PostedNat DEF Chain, TypeOK

-----------------------------------------------------------------------------
(* No step but Accept lengthens a chain.                                   *)

LEMMA AcceptStepFalls ==
    ASSUME TypeOK, AcceptStep
    PROVE  ChainFalls
<1>1. Acceptor \in Thread /\ IoType
    BY DEF Thread, TypeOK
<1>2. CASE \/ AcceptRef \/ AcceptValid \/ AcceptFlag \/ AcceptReset
           \/ AcceptJoin
  <2>1. UNCHANGED ioVars /\ pc[Acceptor] \in Receiving
      BY <1>2 DEF AcceptRef, AcceptValid, AcceptFlag, AcceptReset, AcceptJoin,
                  Receiving
  <2>2. \E p : Goto(Acceptor, p)
      BY <1>2 DEF AcceptRef, AcceptValid, AcceptFlag, AcceptReset, AcceptJoin
  <2> QED
      BY <1>1, <2>1, <2>2, PostedKept, GotoFalls
<1>3. CASE AcceptRecv
  <2>1. /\ Goto(Acceptor, "idle") /\ pc[Acceptor] \in Receiving
        /\ "idle" \notin Receiving /\ UNCHANGED <<sendIO, hcp>>
      BY <1>3 DEF AcceptRecv, Receiving
  <2>2. CASE recvIO' = [recvIO EXCEPT ![slot[Acceptor]] = @ + 1]
      BY <1>1, <2>1, <2>2, PostFalls
  <2>3. CASE UNCHANGED recvIO
    <3>1. UNCHANGED ioVars
        BY <2>1, <2>3 DEF ioVars
    <3> QED
        BY <1>1, <2>1, <3>1, PostedKept, GotoFalls
  <2> QED
      BY <1>3, <2>2, <2>3 DEF AcceptRecv
<1> QED
    BY <1>2, <1>3 DEF AcceptStep

LEMMA PeerFalls ==
    ASSUME TypeOK, NEW r \in Slot, Complete(r) \/ PeerReset(r)
    PROVE  ChainFalls
<1>1. UNCHANGED <<pc, localVars>>
    BY DEF Complete, PeerReset
<1>2. PostedFalls
  <2>1. CASE PeerReset(r)
      BY <2>1, PostedKept DEF TypeOK, PeerReset, CancelAll
  <2>2. CASE Complete(r) /\ UNCHANGED recvIO
    <3>1. Post(r, "sendOk")
        BY <2>2 DEF Complete, TypeOK, IoType
    <3>2. "sendOk" \in Completion \ {"recvOk", "recvErr"}
        BY DEF Completion
    <3> QED
        BY <2>2, <3>1, <3>2, PostedKept DEF TypeOK
  <2>3. CASE /\ recvIO[r] > 0 /\ recvIO' = [recvIO EXCEPT ![r] = @ - 1]
             /\ Post(r, "recvOk") \/ Post(r, "recvErr")
    <3> SUFFICES ASSUME NEW s \in Slot PROVE Posted(s)' = Posted(s)
        BY PostedNat DEF PostedFalls, TypeOK
    <3> QED
        BY <2>3 DEF TypeOK, IoType, Port, Completion, Post, Posted
  <2> QED
      BY <2>1, <2>2, <2>3 DEF Complete
<1> QED
    BY <1>1, <1>2, StillFalls

\* A receive that is taken from the port is handled by the worker that took
\* it: the chain keeps its length.
LEMMA RecvDoneFalls ==
    ASSUME TypeOK, NEW w \in Workers, NEW r \in Slot, RecvDone(w, r)
    PROVE  ChainFalls
<1> SUFFICES ASSUME NEW s \in Slot
             PROVE  Chain(s)' \in Nat /\ Chain(s)' <= Chain(s)
    BY DEF ChainFalls
<1>1. /\ w \in Thread /\ pc[w] = "idle" /\ hcp[r]["recvOk"] > 0
      /\ pc'[w] = "rp.check" /\ slot'[w] = r
      /\ \A v \in Thread \ {w} : pc'[v] = pc[v] /\ slot'[v] = slot[v]
    BY DEF Thread, TypeOK, LocalType, RecvDone, Begin
<1>2. /\ Cardinality(At(s, Receiving)) \in Nat
      /\ Cardinality(At(s, Receiving)') =
             Cardinality(At(s, Receiving)) + (IF r = s THEN 1 ELSE 0)
  <2>1. "idle" \notin Receiving /\ "rp.check" \in Receiving
      BY DEF Receiving
  <2>2. /\ Cardinality(At(s, Receiving)) \in Nat
        /\ Cardinality(At(s, Receiving)') =
               Cardinality(At(s, Receiving))
               - (IF slot[w] = s /\ pc[w] \in Receiving THEN 1 ELSE 0)
               + (IF slot'[w] = s /\ pc'[w] \in Receiving THEN 1 ELSE 0)
      BY <1>1, OneMoves
  <2> QED
      BY <1>1, <2>1, <2>2
<1>3. Posted(s)' = IF s = r THEN Posted(s) - 1 ELSE Posted(s)
  <2>1. /\ "recvOk" \in Completion
        /\ \/ Take(r, "recvOk") /\ UNCHANGED recvIO
           \/ Disconnect(r, Without(r, "recvOk"))
      BY DEF Completion, RecvDone
  <2> QED
      BY <1>1, <2>1, TakePosted DEF TypeOK
<1>4. s = r => Posted(s) > 0
    BY <1>1, PostedNat DEF Posted, TypeOK
<1>5. Chain(s)' = Posted(s)' + Cardinality(At(s, Receiving)')
    BY DEF Chain, Receiving
<1>6. Posted(s) \in Nat
    BY PostedNat DEF TypeOK
<1> QED
    BY <1>2, <1>3, <1>4, <1>5, <1>6 DEF Chain

LEMMA TakeCompletionFalls ==
    ASSUME TypeOK, NEW w \in Workers, NEW r \in Slot, TakeCompletion(w, r)
    PROVE  ChainFalls
<1>1. w \in Thread /\ IoType
    BY DEF Thread, TypeOK
<1>2. {"w.unflag", "w.readid", "sp.look", "w.deref", "r.valid"}
          \cap Receiving = {}
    BY DEF Receiving
<1>3. CASE \/ SendDone(w, r) \/ SendRequested(w, r) \/ ReleaseRequested(w, r)
           \/ LeaveDone(w, r) \/ \E c \in Completion : IoFailed(w, r, c)
  <2>1. PostedFalls
    <3>1. PICK c \in Completion : /\ hcp[r][c] > 0
                                  /\ \/ Take(r, c) /\ UNCHANGED recvIO
                                     \/ Disconnect(r, Without(r, c))
      <4>1. {"sendOk", "SENDPOST", "RELEASE", "LEAVE"} \subseteq Completion
          BY DEF Completion
      <4> QED
          BY <1>3, <4>1 DEF SendDone, SendRequested, ReleaseRequested,
                            LeaveDone, IoFailed, Take
    <3> QED
        BY <1>1, <3>1, PostedKept
  <2>2. \/ UNCHANGED <<pc, localVars>>
        \/ \E p \in {"w.unflag", "w.readid", "sp.look", "w.deref",
                     "r.valid"} :
               \E id : Begin(w, p, r, id, "none")
      BY <1>3 DEF SendDone, SendRequested, ReleaseRequested, LeaveDone,
                  IoFailed
  <2> QED
      BY <1>1, <1>2, <2>1, <2>2, BeginFalls, StillFalls
<1> QED
    BY <1>3, RecvDoneFalls DEF TakeCompletion

LEMMA RecvPostFalls ==
    ASSUME TypeOK, NEW w \in Workers, RecvPost(w)
    PROVE  ChainFalls
<1>1. /\ w \in Thread /\ slot[w] \in Slot /\ IoType
      /\ {"w.deref", "rp.cancel"} \cap Receiving = {}
      /\ {"rp.check", "rp.recv"} \subseteq Receiving
    BY WorkerContext DEF Thread, TypeOK, Receiving
<1>2. CASE RecvPostCheck(w)
    BY <1>1, <1>2, PostedKept, GotoFalls DEF RecvPostCheck
<1>3. CASE RecvPostRecv(w)
  <2>1. CASE recvIO' = [recvIO EXCEPT ![slot[w]] = @ + 1]
      BY <1>1, <1>3, <2>1, PostFalls DEF RecvPostRecv
  <2>2. CASE UNCHANGED recvIO
    <3>1. UNCHANGED ioVars /\ Goto(w, "rp.cancel")
        BY <1>3, <2>2 DEF RecvPostRecv, ioVars
    <3> QED
        BY <1>1, <3>1, PostedKept, GotoFalls
  <2> QED
      BY <1>3, <2>1, <2>2 DEF RecvPostRecv
<1>4. CASE RecvPostCancel(w)
  <2>1. UNCHANGED ioVars \/ CancelIo(slot[w], {"recv"}, hcp)
      BY <1>4 DEF RecvPostCancel
  <2> QED
      BY <1>1, <1>4, <2>1, PostedKept, GotoFalls DEF RecvPostCancel
<1> QED
    BY <1>2, <1>3, <1>4 DEF RecvPost

LEMMA SendPostFalls ==
    ASSUME TypeOK, NEW w \in Workers, SendPost(w)
    PROVE  ChainFalls
<1>1. /\ w \in Thread /\ slot[w] \in Slot /\ IoType
    BY WorkerContext DEF Thread, TypeOK
<1>2. PostedFalls
  <2>1. CASE SendPostFail(w) \/ SendPostCancel(w)
      BY <1>1, <2>1, PostedKept DEF SendPostFail, SendPostCancel, Disconnect
  <2>2. CASE \/ SendPostFlag(w) \/ SendPostLook(w) \/ SendPostUnflag(w)
             \/ SendPostTake(w) \/ SendPostSend(w)
    <3>1. UNCHANGED <<recvIO, hcp>>
        BY <2>2 DEF SendPostFlag, SendPostLook, SendPostUnflag, SendPostTake,
                    SendPostSend, Look, sharedVars, ioVars
    <3> QED
        BY <1>1, <3>1, PostedNat DEF Posted, PostedFalls
  <2> QED
      BY <2>1, <2>2 DEF SendPost
<1>3. PICK p \in Unwatched \ Receiving : Goto(w, p)
    BY DEF SendPost, SendPostFlag, SendPostLook, SendPostUnflag, SendPostTake,
           SendPostSend, SendPostFail, SendPostCancel, Look, Unwatched,
           Receiving
<1> QED
    BY <1>1, <1>2, <1>3, GotoFalls

LEMMA ReleaseSessionFalls ==
    ASSUME TypeOK, NEW w \in Workers, ReleaseSession(w)
    PROVE  ChainFalls
<1> DEFINE points == {"idle", "r.valid", "r.count", "r.cas", "r.id", "r.off",
                      "r.undo", "r.close", "r.leave"}
<1>1. /\ w \in Thread /\ slot[w] \in Slot /\ IoType
      /\ points \cap Receiving = {}
    BY WorkerContext DEF Thread, TypeOK, Receiving
<1>2. PostedFalls
  <2>1. CASE ReleaseClose(w)
      BY <1>1, <2>1, PostedKept DEF ReleaseClose, CancelAll
  <2>2. CASE ~ReleaseClose(w)
    <3>1. UNCHANGED ioVars
        BY <2>2 DEF ReleaseSession, ReleaseValid, ReleaseCount, ReleaseCas,
                    ReleaseID, ReleaseOff, ReleaseUndo, ReleaseLeave, Look,
                    sharedVars, ioVars
    <3> QED
        BY <1>1, <3>1, PostedKept
  <2> QED
      BY <2>1, <2>2
<1>3. \/ \E p \in points : Goto(w, p)
      \/ \E a, id : Begin(w, "r.off", a, id, "none")
      \/ ReleaseCount(w)
    BY DEF ReleaseSession, ReleaseValid, ReleaseCas, ReleaseID, ReleaseOff,
           ReleaseUndo, ReleaseClose, ReleaseLeave, Look
<1>4. CASE ReleaseCount(w)
  <2>1. /\ pc'[w] = "r.cas"
        /\ \A v \in Thread \ {w} : pc'[v] = pc[v] /\ slot'[v] = slot[v]
      BY <1>1, <1>4 DEF ReleaseCount, TypeOK, LocalType
  <2> QED
      BY <1>1, <1>2, <2>1, ThreadFalls
<1> QED
    BY <1>1, <1>2, <1>3, <1>4, GotoFalls, BeginFalls

LEMMA WorkerStepFalls ==
    ASSUME TypeOK, NEW w \in Workers, WorkerStep(w)
    PROVE  ChainFalls
<1>1. /\ w \in Thread /\ IoType
      /\ {"w.more", "w.deref", "sp.flag", "w.readid", "idle", "r.valid"}
             \cap Receiving = {}
    BY DEF Thread, TypeOK, Receiving
<1>2. CASE SentUnflag(w) \/ SentMore(w) \/ WorkerDeref(w) \/ ReadID(w)
  <2>1. UNCHANGED ioVars
      BY <1>2 DEF SentUnflag, SentMore, WorkerDeref, ReadID, Look, sharedVars,
                  ioVars
  <2>2. \/ \E p \in {"w.more", "w.deref", "sp.flag", "w.readid", "idle"} :
               Goto(w, p)
        \/ \E a, id : Begin(w, "r.valid", a, id, "none")
      BY <1>2 DEF SentUnflag, SentMore, WorkerDeref, ReadID, Look
  <2> QED
      BY <1>1, <2>1, <2>2, PostedKept, GotoFalls, BeginFalls
<1> QED
    BY <1>2, RecvPostFalls, SendPostFalls, ReleaseSessionFalls
       DEF WorkerStep

LEMMA CallFalls ==
    ASSUME TypeOK, NEW u \in Thread,
           CallStep(u) \/ \E id, o : FindValid(u, id, o)
    PROVE  ChainFalls
<1>1. slot[u] \in Slot /\ IoType /\ "f.ref" \notin Receiving
    BY DEF TypeOK, LocalType, Receiving
<1>2. ASSUME NEW id, NEW o, FindValid(u, id, o) PROVE ChainFalls
  <2>1. UNCHANGED ioVars
      BY <1>2 DEF FindValid, sharedVars
  <2>2. \/ Begin(u, "f.ref", IndexOf(id), id, o)
        \/ UNCHANGED <<pc, localVars>>
      BY <1>2 DEF FindValid
  <2> QED
      BY <1>1, <2>1, <2>2, PostedKept, BeginFalls, StillFalls
<1>3. CASE CallStep(u)
  <2>1. PostedFalls
    <3>1. CASE UserDeref(u) \/ SendPacketPost(u) \/ DisconnectCut(u)
      <4>1. {"RELEASE", "SENDPOST"} \subseteq
                Completion \ {"recvOk", "recvErr"}
          BY DEF Completion
      <4>2. \/ UNCHANGED ioVars \/ CancelIo(slot[u], {"recv", "send"}, hcp)
            \/ UNCHANGED recvIO /\ (\/ Post(slot[u], "RELEASE")
                                    \/ Post(slot[u], "SENDPOST"))
          BY <3>1 DEF UserDeref, SendPacketPost, DisconnectCut, Disconnect,
                      ioVars
      <4> QED
          BY <1>1, <4>1, <4>2, PostedKept
    <3>2. CASE \/ FindRef(u) \/ FindFlag(u) \/ FindID(u)
               \/ SendPacketEnqueue(u) \/ SendPacketLast(u)
               \/ GetUDPRead(u) \/ UdpWrite(u)
      <4>1. UNCHANGED ioVars
          BY <3>2 DEF FindRef, FindFlag, FindID, SendPacketEnqueue,
                      SendPacketLast, GetUDPRead, UdpWrite, Look, sharedVars
      <4> QED
          BY <1>1, <4>1, PostedKept
    <3> QED
        BY <1>3, <3>1, <3>2 DEF CallStep
  <2>2. PICK p \in Unwatched \ Receiving : Goto(u, p)
    <3>1. Body(op[u]) \in Unwatched \ Receiving
        BY DEF Body, Unwatched, Receiving
    <3> QED
        BY <1>3, <3>1 DEF CallStep, FindRef, FindFlag, FindID, UserDeref,
                  SendPacketEnqueue, SendPacketLast, SendPacketPost,
                  DisconnectCut, GetUDPRead, UdpWrite, Look, Unwatched,
                  Receiving
  <2> QED
      BY <2>1, <2>2, GotoFalls
<1> QED
    BY <1>2, <1>3

LEMMA HandleJobsFalls ==
    ASSUME TypeOK, NEW u \in Users, NEW id \in SessionID, HandleJobs(u, id)
    PROVE  ChainFalls
<1>1. /\ IndexOf(id) \in Slot /\ IoType
      /\ UNCHANGED <<pc, localVars>> /\ UNCHANGED recvIO
    BY Constants DEF TypeOK, HandleJobs
<1>2. PICK ended : hcp' = [hcp EXCEPT ![IndexOf(id)]["LEAVE"] = @ + ended]
    BY DEF HandleJobs
<1>3. PostedFalls
  <2> SUFFICES ASSUME NEW s \in Slot PROVE Posted(s)' = Posted(s)
      BY <1>1, PostedNat DEF PostedFalls
  <2> QED
      BY <1>1, <1>2 DEF IoType, Port, Completion, Posted
<1> QED
    BY <1>1, <1>3, StillFalls

LEMMA NextFalls ==
    ASSUME TypeOK, Next, \A i \in Slot : ~Accept(i)
    PROVE  ChainFalls
<1>1. ASSUME NEW u \in Users, NEW id \in SessionID,
             HandleJobs(u, id) \/ \E o \in AllCalls : UserCall(u, id, o)
      PROVE  ChainFalls
    BY <1>1, HandleJobsFalls, CallFalls DEF UserCall, Thread
<1>2. ASSUME NEW u \in UdpThreads, NEW id \in SessionID, UdpReceive(u, id)
      PROVE  ChainFalls
    BY <1>2, CallFalls DEF UdpReceive, Thread
<1>3. ASSUME NEW u \in Users \cup UdpThreads, CallStep(u) PROVE ChainFalls
    BY <1>3, CallFalls DEF Thread
<1> QED
    BY <1>1, <1>2, <1>3, AcceptStepFalls, PeerFalls, TakeCompletionFalls,
       WorkerStepFalls DEF Next

-----------------------------------------------------------------------------
(* How a step moves the threads along releaseSession.                      *)

Claims == {"r.count", "r.cas", "r.id", "r.close"}

\* The thread stays where it is, comes from where it had to be, or is not in
\* releaseSession on this slot.
Walks(t, s) ==
    slot'[t] = s /\ pc'[t] \in Claims =>
        /\ slot[t] = s /\ sid'[t] = sid[t]
        /\ \/ pc'[t] = pc[t] /\ tempCount'[t] = tempCount[t]
           \/ pc[t] = "r.valid" /\ pc'[t] = "r.count" /\ isValid[s]
           \/ /\ pc[t] = "r.count" /\ pc'[t] = "r.cas"
              /\ tempCount'[t] = IOcount[s]
           \/ /\ pc[t] = "r.cas" /\ pc'[t] = "r.id"
              /\ tempCount[t] = releaseFlag[s]
           \/ pc[t] = "r.id" /\ pc'[t] = "r.close" /\ sid[t] = sessionID[s]

Steps(s) ==
    /\ sessionID'[s] = sessionID[s]
    /\ \A t \in Thread : Walks(t, s)
    /\ ~isValid'[s] => ~isValid[s] \/ At(s, {"r.close"}) # {}
    /\ isValid'[s] =>
           \/ isValid[s]
           \/ At(s, {"a.valid"}) # {} /\ At(s, Joining)' # {}
    /\ At(s, Joining)' = {} => At(s, Joining) = {} \/ sessionID[s] \in players'
    /\ At(s, {"r.leave"})' \subseteq At(s, {"r.leave"}) \cup At(s, {"r.close"})
    /\ At(s, Incoming)' = {} => At(s, Incoming) = {} \/ isValid'[s]
    /\ At(s, Incoming)' \subseteq At(s, Incoming)
    /\ At(s, {"a.ref"})' \subseteq At(s, {"a.ref"})

LEMMA AwaySteps ==
    ASSUME NEW s, \A t \in Thread : Away(t, s),
           sessionID'[s] = sessionID[s], isValid'[s] = isValid[s]
    PROVE  Steps(s)
<1>1. \A t \in Thread : Walks(t, s)
    BY DEF Away, Walks, Claims, Watched, Claiming
<1>2. /\ At(s, Incoming)' = At(s, Incoming)
      /\ At(s, {"a.ref"})' = At(s, {"a.ref"})
      /\ At(s, Joining)' = At(s, Joining)
      /\ At(s, {"r.leave"})' = At(s, {"r.leave"})
    BY DEF Away, At, Watched, Incoming, Joining, Claiming
<1> QED
    BY <1>1, <1>2 DEF Steps

\* The threads but one stand still.
Alone(t) == \A v \in Thread \ {t} :
                /\ pc'[v] = pc[v] /\ slot'[v] = slot[v]
                /\ sid'[v] = sid[v] /\ tempCount'[v] = tempCount[v]

LEMMA MoveSteps ==
    ASSUME NEW s, NEW t \in Thread, Alone(t), Walks(t, s),
           sessionID'[s] = sessionID[s],
           ~isValid'[s] => ~isValid[s] \/ At(s, {"r.close"}) # {},
           isValid'[s] =>
               \/ isValid[s]
               \/ /\ At(s, {"a.valid"}) # {}
                  /\ slot'[t] = s /\ pc'[t] \in Joining,
           slot[t] = s /\ pc[t] \in Joining =>
               \/ slot'[t] = s /\ pc'[t] \in Joining
               \/ sessionID[s] \in players',
           pc'[t] = "r.leave" => pc[t] = "r.close" /\ slot'[t] = slot[t],
           slot[t] = s /\ pc[t] \in Incoming =>
               \/ isValid'[s]
               \/ slot'[t] = s /\ pc'[t] \in Incoming,
           pc'[t] \in Incoming => pc[t] \in Incoming /\ slot'[t] = slot[t],
           pc'[t] # "a.ref"
    PROVE  Steps(s)
<1>1. \A v \in Thread : Walks(v, s)
    BY DEF Alone, Walks
<1>2. At(s, Incoming)' = {} => At(s, Incoming) = {} \/ isValid'[s]
    BY DEF Alone, At, Incoming
<1>3. /\ At(s, {"a.ref"})' \subseteq At(s, {"a.ref"})
      /\ At(s, Incoming)' \subseteq At(s, Incoming)
      /\ At(s, {"r.leave"})' \subseteq
             At(s, {"r.leave"}) \cup At(s, {"r.close"})
    BY DEF Alone, At
<1>4. slot'[t] = s /\ pc'[t] \in Joining => At(s, Joining)' # {}
    BY DEF At, Joining
<1>5. At(s, Joining)' = {} => At(s, Joining) = {} \/ sessionID[s] \in players'
    BY <1>4 DEF Alone, At, Joining
<1> QED
    BY <1>1, <1>2, <1>3, <1>4, <1>5 DEF Steps

LEMMA GotoAlone ==
    ASSUME LocalType, NEW t \in Thread, NEW p, Goto(t, p)
    PROVE  /\ Alone(t) /\ pc'[t] = p
           /\ p # "idle" => /\ slot'[t] = slot[t] /\ sid'[t] = sid[t]
                            /\ tempCount'[t] = tempCount[t]
    BY DEF Goto, Begin, LocalType, localVars, Alone

LEMMA AcceptSteps ==
    ASSUME TypeOK, AcceptStep, NEW s \in Slot
    PROVE  Steps(s)
<1>1. /\ Acceptor \in Thread /\ LocalType /\ UNCHANGED sessionID
      /\ isValid \in [Slot -> BOOLEAN]
    BY DEF Thread, TypeOK, FlagType, AcceptStep, AcceptRef, AcceptValid,
           AcceptFlag, AcceptReset, AcceptJoin, AcceptRecv, otherVars, idVars
<1>2. CASE AcceptRef \/ AcceptValid
  <2>1. PICK p \in {"a.valid", "a.flag"} : Goto(Acceptor, p)
      BY <1>2 DEF AcceptRef, AcceptValid
  <2>2. /\ Alone(Acceptor) /\ pc'[Acceptor] = p
        /\ slot'[Acceptor] = slot[Acceptor]
      BY <1>1, <2>1, GotoAlone
  <2>3. /\ Walks(Acceptor, s) /\ pc'[Acceptor] # "a.ref"
        /\ pc[Acceptor] \in Incoming /\ pc[Acceptor] \notin Joining
        /\ pc'[Acceptor] # "r.leave"
      BY <1>2, <2>2 DEF Walks, Claims, AcceptRef, AcceptValid, Incoming,
                        Joining
  <2>4. /\ ~isValid'[s] => ~isValid[s]
        /\ isValid'[s] =>
               \/ isValid[s]
               \/ /\ At(s, {"a.valid"}) # {}
                  /\ slot'[Acceptor] = s /\ pc'[Acceptor] \in Joining
        /\ slot[Acceptor] = s =>
               \/ isValid'[s]
               \/ slot'[Acceptor] = s /\ pc'[Acceptor] \in Incoming
    <3>1. CASE AcceptRef
      <4>1. Goto(Acceptor, "a.valid") /\ UNCHANGED isValid
          BY <3>1 DEF AcceptRef, flagVars
      <4>2. pc'[Acceptor] = "a.valid"
          BY <1>1, <4>1, GotoAlone
      <4> QED
          BY <2>2, <4>1, <4>2 DEF Incoming
    <3>2. CASE AcceptValid
      <4>1. slot[Acceptor] = s => isValid'[s]
          BY <1>1, <3>2 DEF AcceptValid
      <4>2. slot[Acceptor] # s => (isValid'[s] <=> isValid[s])
          BY <1>1, <3>2 DEF AcceptValid
      <4>3. slot[Acceptor] = s =>
                /\ At(s, {"a.valid"}) # {}
                /\ slot'[Acceptor] = s /\ pc'[Acceptor] \in Joining
        <5>1. Goto(Acceptor, "a.flag") /\ pc[Acceptor] = "a.valid"
            BY <3>2 DEF AcceptValid
        <5>2. pc'[Acceptor] = "a.flag"
            BY <1>1, <5>1, GotoAlone
        <5> QED
            BY <1>1, <2>2, <5>1, <5>2 DEF At, Joining
      <4> QED
          BY <4>1, <4>2, <4>3
    <3> QED
        BY <1>2, <3>1, <3>2
  <2> QED
      BY <1>1, <2>2, <2>3, <2>4, MoveSteps
<1>3. CASE AcceptFlag \/ AcceptReset \/ AcceptJoin \/ AcceptRecv
  <2>1. PICK p \in {"a.reset", "a.join", "a.recv", "idle"} : Goto(Acceptor, p)
      BY <1>3 DEF AcceptFlag, AcceptReset, AcceptJoin, AcceptRecv
  <2>2. Alone(Acceptor) /\ pc'[Acceptor] = p
      BY <1>1, <2>1, GotoAlone
  <2>3. /\ Walks(Acceptor, s) /\ pc'[Acceptor] # "a.ref"
        /\ pc[Acceptor] \notin Incoming /\ pc'[Acceptor] \notin Incoming
        /\ pc'[Acceptor] # "r.leave"
      BY <1>3, <2>2
         DEF Walks, Claims, Incoming, AcceptFlag, AcceptReset, AcceptJoin,
             AcceptRecv
  <2>4. UNCHANGED isValid
      BY <1>3 DEF AcceptFlag, AcceptReset, AcceptJoin, AcceptRecv, flagVars
  <2>5. slot[Acceptor] = s /\ pc[Acceptor] \in Joining =>
            \/ slot'[Acceptor] = s /\ pc'[Acceptor] \in Joining
            \/ sessionID[s] \in players'
    <3>1. CASE AcceptFlag \/ AcceptReset
      <4>1. PICK q \in {"a.reset", "a.join"} : Goto(Acceptor, q)
          BY <3>1 DEF AcceptFlag, AcceptReset
      <4> QED
          BY <1>1, <4>1, GotoAlone DEF Joining
    <3>2. CASE AcceptJoin
        BY <3>2 DEF AcceptJoin
    <3>3. CASE AcceptRecv
        BY <3>3 DEF AcceptRecv, Joining
    <3> QED
        BY <1>3, <3>1, <3>2, <3>3
  <2> QED
      BY <1>1, <2>2, <2>3, <2>4, <2>5, MoveSteps
<1> QED
    BY <1>2, <1>3 DEF AcceptStep

LEMMA ReleaseSteps ==
    ASSUME TypeOK, NEW w \in Workers, ReleaseSession(w), NEW s \in Slot
    PROVE  Steps(s)
<1>1. /\ w \in Thread /\ LocalType /\ UNCHANGED sessionID
      /\ pc[w] \notin Incoming \cup Joining
      /\ isValid \in [Slot -> BOOLEAN]
    BY DEF Thread, TypeOK, FlagType, ReleaseSession, ReleaseValid,
           ReleaseCount, ReleaseCas, ReleaseID, ReleaseOff, ReleaseUndo,
           ReleaseClose, ReleaseLeave, Look, sharedVars, otherVars, idVars,
           Incoming, Joining
<1>2. /\ Alone(w) /\ pc'[w] \notin Incoming
      /\ pc'[w] \in Claims => slot'[w] = slot[w] /\ sid'[w] = sid[w]
  <2>1. CASE ReleaseCount(w)
      BY <1>1, <2>1 DEF ReleaseCount, LocalType, Alone, Incoming
  <2>2. ASSUME NEW p \in Claims \cup {"idle", "r.valid", "r.undo", "r.leave"},
               Goto(w, p)
        PROVE  /\ Alone(w) /\ pc'[w] \notin Incoming
               /\ pc'[w] \in Claims => slot'[w] = slot[w] /\ sid'[w] = sid[w]
      BY <1>1, <2>2, GotoAlone DEF Claims, Incoming
  <2>3. CASE ReleaseID(w) /\ ~Goto(w, "r.close")
      BY <1>1, <2>3 DEF ReleaseID, Begin, LocalType, Alone, Claims, Incoming
  <2> QED
      BY <2>1, <2>2, <2>3
         DEF ReleaseSession, ReleaseValid, ReleaseCas, ReleaseID, ReleaseOff,
             ReleaseUndo, ReleaseClose, ReleaseLeave, Look, Claims
<1>3. Walks(w, s)
  <2> SUFFICES ASSUME slot'[w] = s, pc'[w] \in Claims
               PROVE  Walks(w, s)
      BY DEF Walks
  <2>1. slot[w] = s /\ sid'[w] = sid[w]
      BY <1>2
  <2>2. CASE ReleaseCount(w)
      BY <1>1, <2>1, <2>2 DEF ReleaseCount, LocalType, Walks
  <2>3. ASSUME NEW p, Goto(w, p) PROVE pc'[w] = p
      BY <1>1, <2>3, GotoAlone
  <2>4. CASE ReleaseValid(w)
      BY <2>1, <2>3, <2>4 DEF ReleaseValid, Look, Walks, Claims
  <2>5. CASE ReleaseCas(w)
      BY <2>1, <2>3, <2>5 DEF ReleaseCas, Walks, Claims
  <2>6. CASE ReleaseID(w)
    <3>1. CASE sid[w] = sessionID[slot[w]]
      <4>1. pc[w] = "r.id" /\ pc'[w] = "r.close"
          BY <2>3, <2>6, <3>1 DEF ReleaseID
      <4> QED
          BY <2>1, <3>1, <4>1 DEF Walks
    <3>2. CASE sid[w] # sessionID[slot[w]]
      <4>1. pc'[w] = "r.off"
          BY <1>1, <2>6, <3>2 DEF ReleaseID, Begin, LocalType
      <4> QED
          BY <4>1 DEF Claims
    <3> QED
        BY <3>1, <3>2
  <2>7. CASE \/ ReleaseOff(w) \/ ReleaseUndo(w) \/ ReleaseClose(w)
             \/ ReleaseLeave(w)
    <3>1. \E p \in {"r.undo", "r.valid", "r.leave", "idle"} : Goto(w, p)
        BY <2>7 DEF ReleaseOff, ReleaseUndo, ReleaseClose, ReleaseLeave
    <3> QED
        BY <2>3, <3>1 DEF Claims
  <2> QED
      BY <2>2, <2>4, <2>5, <2>6, <2>7 DEF ReleaseSession
<1>4. /\ ~isValid'[s] => ~isValid[s] \/ At(s, {"r.close"}) # {}
      /\ isValid'[s] => isValid[s]
  <2>1. CASE ReleaseClose(w)
      BY <1>1, <2>1 DEF ReleaseClose, At
  <2>2. CASE ~ReleaseClose(w)
      BY <2>2 DEF ReleaseSession, ReleaseValid, ReleaseCount, ReleaseCas,
                  ReleaseID, ReleaseOff, ReleaseUndo, ReleaseLeave, Look,
                  sharedVars, flagVars
  <2> QED
      BY <2>1, <2>2
<1>5. pc'[w] # "a.ref"
    BY <1>2 DEF Incoming
<1>6. pc'[w] = "r.leave" => pc[w] = "r.close" /\ slot'[w] = slot[w]
  <2>1. CASE ReleaseClose(w)
      BY <1>1, <2>1, GotoAlone DEF ReleaseClose
  <2>2. CASE ReleaseCount(w)
      BY <1>1, <2>2 DEF ReleaseCount, LocalType
  <2>3. CASE ~ReleaseClose(w) /\ ~ReleaseCount(w)
    <3>1. \/ \E p \in {"idle", "r.valid", "r.count", "r.id", "r.close",
                       "r.undo"} : Goto(w, p)
          \/ \E a, id : Begin(w, "r.off", a, id, "none")
        BY <2>3 DEF ReleaseSession, ReleaseValid, ReleaseCas, ReleaseID,
                    ReleaseOff, ReleaseUndo, ReleaseLeave, Look
    <3>2. ASSUME NEW a, NEW id, Begin(w, "r.off", a, id, "none")
          PROVE  pc'[w] = "r.off"
        BY <1>1, <3>2 DEF Begin, LocalType
    <3> QED
        BY <1>1, <3>1, <3>2, GotoAlone
  <2> QED
      BY <2>1, <2>2, <2>3
<1> QED
    BY <1>1, <1>2, <1>3, <1>4, <1>5, <1>6, MoveSteps

LEMMA QuietSteps ==
    ASSUME Quiet, NEW s \in Slot
    PROVE  Steps(s)
    BY AwaySteps DEF Quiet, custodyVars, flagVars

LEMMA WorkerSteps ==
    ASSUME TypeOK, NEW w \in Workers, WorkerStep(w), NEW s \in Slot
    PROVE  Steps(s)
<1>1. w \in Thread /\ LocalType
    BY DEF Thread, TypeOK
<1>2. CASE SentUnflag(w) \/ SentMore(w) \/ WorkerDeref(w)
  <2>1. UNCHANGED <<sessionID, isValid>>
      BY <1>2 DEF SentUnflag, SentMore, WorkerDeref, Look, sharedVars,
                  otherVars, idVars, flagVars
  <2>2. PICK p \in Unwatched : Goto(w, p)
      BY <1>2 DEF SentUnflag, SentMore, WorkerDeref, Look, Unwatched
  <2>3. pc[w] \in Unwatched
      BY <1>2 DEF SentUnflag, SentMore, WorkerDeref, Look, Unwatched
  <2> QED
      BY <1>1, <2>1, <2>2, <2>3, Unwatching, GotoQuiet, AwaySteps
<1>3. CASE ReadID(w)
  <2>1. UNCHANGED <<sessionID, isValid>>
      BY <1>3 DEF ReadID, sharedVars, otherVars, idVars, flagVars
  <2>2. {pc[w], "r.valid"} \cap Watched = {}
      BY <1>3, Unwatching DEF ReadID, Unwatched
  <2> QED
      BY <1>1, <1>3, <2>1, <2>2, BeginQuiet, AwaySteps DEF ReadID
<1> QED
    BY <1>2, <1>3, RecvPostQuiet, SendPostQuiet, QuietSteps, ReleaseSteps
       DEF WorkerStep

LEMMA NextSteps ==
    ASSUME TypeOK, Next, \A i \in Slot : ~Accept(i), NEW s \in Slot
    PROVE  Steps(s)
<1>1. ASSUME NEW w \in Workers, NEW r \in Slot, TakeCompletion(w, r)
      PROVE  Steps(s)
  <2>1. CASE RecvDone(w, r)
    <3>1. /\ w \in Thread /\ LocalType /\ UNCHANGED <<sessionID, isValid>>
          /\ Begin(w, "rp.check", r, ZeroID, "none")
        BY <2>1 DEF Thread, TypeOK, RecvDone, idVars, flagVars
    <3>2. {pc[w], "rp.check"} \cap Watched = {}
        BY <2>1, Unwatching DEF RecvDone, Unwatched
    <3> QED
        BY <3>1, <3>2, BeginQuiet, AwaySteps
  <2>2. CASE LeaveDone(w, r)
      BY <2>2, StillAway, AwaySteps DEF LeaveDone, flagVars
  <2> QED
      BY <1>1, <2>1, <2>2, OtherDoneQuiet, QuietSteps DEF TakeCompletion
<1>2. ASSUME NEW u \in Users, NEW id \in SessionID,
             HandleJobs(u, id) \/ \E o \in AllCalls : UserCall(u, id, o)
      PROVE  Steps(s)
  <2>1. CASE HandleJobs(u, id)
      BY <2>1, StillAway, AwaySteps DEF HandleJobs, idVars, flagVars
  <2> QED
      BY <1>2, <2>1, FindValidQuiet, QuietSteps DEF UserCall, Thread
<1>3. ASSUME NEW u \in UdpThreads, NEW id \in SessionID, UdpReceive(u, id)
      PROVE  Steps(s)
    BY <1>3, FindValidQuiet, QuietSteps DEF UdpReceive, Thread
<1> QED
    BY <1>1, <1>2, <1>3, AcceptSteps, PeerQuiet, CallStepQuiet, QuietSteps,
       WorkerSteps DEF Next

-----------------------------------------------------------------------------
(* No step but Accept links a chain anew.                                  *)

\* A session without reference has no receive, but for one to come.
LEMMA NothingUnderWay ==
    ASSUME TypeOK, RefAccounting, NEW s \in Slot, IOcount[s] = 0,
           At(s, {"a.ref"}) = {}
    PROVE  Chain(s) = 0
<1>0. /\ recvIO[s] \in Nat /\ sendIO[s] \in Nat
      /\ hcp[s]["recvOk"] \in Nat /\ hcp[s]["recvErr"] \in Nat
      /\ hcp[s]["sendOk"] \in Nat /\ hcp[s]["sendErr"] \in Nat
      /\ hcp[s]["SENDPOST"] \in Nat
    BY DEF TypeOK, IoType, Port, Completion
<1>1. /\ Held(s) = 0 /\ UnderWay(s) = 0
      /\ Cardinality(At(s, Holding)) = 0
  <2>1. /\ Held(s) + UnderWay(s) + leaked[s] = 0 /\ Held(s) \in Nat
        /\ UnderWay(s) \in Nat /\ leaked[s] \in Nat
    <3>1. UnderWay(s) \in Nat
        BY <1>0 DEF UnderWay, Carried
    <3>2. leaked[s] \in Nat
        BY DEF TypeOK, HistoryType
    <3> QED
        BY <3>1, <3>2, HeldNat DEF RefAccounting
  <2>2. /\ Cardinality(At(s, Holding)) \in Nat
        /\ Cardinality(At(s, HoldingTwo)) \in Nat
      BY AtCounts
  <2>3. Held(s) = 0 /\ UnderWay(s) = 0
      BY <2>1
  <2> QED
      BY <2>2, <2>3 DEF Held
<1>2. Posted(s) = 0
  <2> DEFINE a == recvIO[s]
             b == sendIO[s]
             c == hcp[s]["recvOk"]
             d == hcp[s]["recvErr"]
             e == hcp[s]["sendOk"]
             f == hcp[s]["sendErr"]
             g == hcp[s]["SENDPOST"]
  <2>1. /\ a \in Nat /\ b \in Nat /\ c \in Nat /\ d \in Nat /\ e \in Nat
        /\ f \in Nat /\ g \in Nat
        /\ a + b + (c + d + e + f + g) = 0
      BY <1>0, <1>1 DEF UnderWay, Carried
  <2> HIDE DEF a, b, c, d, e, f, g
  <2>2. a = 0 /\ c = 0 /\ d = 0
      BY <2>1
  <2> QED
      BY <2>2 DEF Posted, a, c, d
<1>3. At(s, Receiving) = {}
  <2>1. At(s, Holding) = {}
      BY <1>1, AtCounts
  <2> QED
      BY <2>1 DEF At, Receiving, Holding
<1>4. Cardinality(At(s, Receiving)) = 0
    BY <1>3, AtCounts
<1> QED
    BY <1>2, <1>4 DEF Chain

LEMMA ChainStep ==
    ASSUME TypeOK, RefAccounting, CustodyInv, NEW s \in Slot, Linked(s),
           Steps(s), Chain(s)' \in Nat, Chain(s)' <= Chain(s),
           sessionAllocNum' = 0 => sessionAllocNum = 0
    PROVE  Linked(s)'
<1>1. /\ Chain(s)' \in Nat /\ Chain(s)' <= Chain(s)
      /\ Chain(s) \in Nat /\ Custody(s)
    BY ChainNat DEF CustodyInv, TypeOK
<1>2. Chain(s) = 0 => Chain(s)' = 0
    BY <1>1
<1>3. Chain(s)' <= 1
    BY <1>1 DEF Linked
<1>4. Ended(s)'
  <2>1. ~isValid'[s] /\ At(s, Incoming)' = {} => Chain(s)' = 0
      BY <1>2 DEF Linked, Ended, Steps
  <2>2. ASSUME NEW t \in At(s, {"r.close"})' PROVE Chain(s)' = 0
    <3>1. /\ t \in Thread /\ slot'[t] = s /\ pc'[t] = "r.close" /\ Walks(t, s)
        BY <2>2 DEF At, Steps
    <3>2. /\ slot[t] = s
          /\ \/ pc[t] = "r.close"
             \/ pc[t] = "r.id" /\ sid[t] = sessionID[s]
        BY <3>1 DEF Walks, Claims
    <3>3. Chain(s) = 0
        BY <3>1, <3>2 DEF Linked, Ended, At
    <3> QED
        BY <1>2, <3>3
  <2>3. ASSUME NEW t \in At(s, {"r.id"})', sid'[t] = sessionID'[s]
        PROVE  Chain(s)' = 0
    <3>1. /\ t \in Thread /\ slot'[t] = s /\ pc'[t] = "r.id" /\ Walks(t, s)
        BY <2>3 DEF At, Steps
    <3>2. /\ slot[t] = s /\ sid[t] = sessionID[s]
          /\ \/ pc[t] = "r.id"
             \/ pc[t] = "r.cas" /\ tempCount[t] = releaseFlag[s]
        BY <2>3, <3>1 DEF Walks, Claims, Steps
    <3>3. pc[t] = "r.cas" => tempCount[t] = 0
      <4>1. pc[t] = "r.cas" => tempCount[t] >= 0
          BY <1>1, <3>1, <3>2 DEF Custody, CountRead, At
      <4>2. releaseFlag[s] \in {0, -1}
          BY DEF TypeOK, FlagType, DELFLAG_ON, DELFLAG_OFF
      <4> QED
          BY <3>2, <4>1, <4>2
    <3>4. Chain(s) = 0
        BY <3>1, <3>2, <3>3 DEF Linked, Ended, At
    <3> QED
        BY <1>2, <3>4
  <2>4. ASSUME NEW t \in At(s, {"r.cas"})', sid'[t] = sessionID'[s],
               tempCount'[t] = 0
        PROVE  Chain(s)' = 0
    <3>1. /\ t \in Thread /\ slot'[t] = s /\ pc'[t] = "r.cas" /\ Walks(t, s)
        BY <2>4 DEF At, Steps
    <3>2. /\ slot[t] = s /\ sid[t] = sessionID[s]
          /\ \/ pc[t] = "r.cas" /\ tempCount[t] = 0
             \/ pc[t] = "r.count" /\ IOcount[s] = 0
        BY <2>4, <3>1 DEF Walks, Claims, Steps
    <3>3. CASE pc[t] = "r.cas" /\ tempCount[t] = 0
      <4>1. Chain(s) = 0
          BY <3>1, <3>2, <3>3 DEF Linked, Ended, At
      <4> QED
          BY <1>2, <4>1
    <3>4. CASE pc[t] = "r.count" /\ IOcount[s] = 0
      <4>1. At(s, {"a.ref"}) = {}
          BY <3>1, <3>2, <3>4 DEF Linked, Unnamed, At
      <4>2. Chain(s) = 0
          BY <3>4, <4>1, NothingUnderWay
      <4> QED
          BY <1>2, <4>2
    <3> QED
        BY <3>2, <3>3, <3>4
  <2> QED
      BY <2>1, <2>2, <2>3, <2>4 DEF Ended, Incoming
<1>5. Unnamed(s)'
  <2> SUFFICES ASSUME At(s, {"a.ref"})' # {},
                      NEW t \in At(s, {"r.count", "r.cas"})',
                      sid'[t] = sessionID'[s]
               PROVE  FALSE
      BY DEF Unnamed
  <2>1. At(s, {"a.ref"}) # {} /\ ~isValid[s]
    <3>1. At(s, {"a.ref"}) # {}
        BY DEF Steps
    <3>2. At(s, Incoming) # {}
        BY <3>1 DEF At, Incoming
    <3> QED
        BY <1>1, <3>1, <3>2, Elsewhere DEF Custody
  <2>2. /\ t \in Thread /\ slot'[t] = s /\ pc'[t] \in {"r.count", "r.cas"}
        /\ Walks(t, s)
      BY DEF At, Steps
  <2>3. /\ slot[t] = s /\ pc[t] \in {"r.count", "r.cas"}
        /\ sid[t] = sessionID[s]
      BY <2>1, <2>2 DEF Walks, Claims, Steps
  <2> QED
      BY <2>1, <2>2, <2>3 DEF Linked, Unnamed, At
<1>6. Untouched(s)'
  <2> SUFFICES ASSUME sessionAllocNum' = 0
               PROVE  /\ ~isValid'[s] /\ At(s, Incoming)' = {}
                      /\ At(s, {"r.count", "r.cas"})' = {}
      BY DEF Untouched, Incoming
  <2>1. /\ ~isValid[s] /\ At(s, Incoming) = {}
        /\ At(s, {"r.count", "r.cas"}) = {}
      BY DEF Linked, Untouched
  <2>2. At(s, {"a.valid"}) = {}
      BY <2>1 DEF At, Incoming
  <2>3. At(s, {"r.count", "r.cas"})' = {}
    <3> SUFFICES ASSUME NEW t \in At(s, {"r.count", "r.cas"})' PROVE FALSE
        OBVIOUS
    <3>1. /\ t \in Thread /\ slot'[t] = s /\ pc'[t] \in {"r.count", "r.cas"}
          /\ Walks(t, s)
        BY DEF At, Steps
    <3>2. slot[t] = s /\ pc[t] \in {"r.count", "r.cas"}
        BY <2>1, <3>1 DEF Walks, Claims
    <3> QED
        BY <2>1, <3>1, <3>2 DEF At
  <2> QED
      BY <2>1, <2>2, <2>3 DEF Steps
<1> QED
    BY <1>3, <1>4, <1>5, <1>6 DEF Linked

-----------------------------------------------------------------------------
(* No step but Accept makes a new ID.                                      *)

SidsGiven == \A t \in Thread : Given(sid'[t])
PlayersGiven == \A id \in players' \cup issued' : Given(id)

LEMMA ZeroGiven == Given(ZeroID)
    BY DEF Given, ZeroID

LEMMA GotoGiven ==
    ASSUME LocalType, Numbers, NEW t \in Thread, NEW p, Goto(t, p)
    PROVE  SidsGiven
<1>1. \A v \in Thread : sid'[v] = sid[v] \/ sid'[v] = ZeroID
    BY DEF Goto, Begin, LocalType, localVars
<1> QED
    BY <1>1, ZeroGiven DEF Numbers, SidsGiven

LEMMA BeginGiven ==
    ASSUME LocalType, Numbers, NEW t \in Thread, NEW p, NEW a, NEW id, NEW o,
           Begin(t, p, a, id, o), Given(id)
    PROVE  SidsGiven
<1>1. \A v \in Thread : sid'[v] = sid[v] \/ sid'[v] = id
    BY DEF Begin, LocalType
<1> QED
    BY <1>1 DEF Numbers, SidsGiven

LEMMA StillGiven ==
    ASSUME Numbers
    PROVE  /\ UNCHANGED sid => SidsGiven
           /\ UNCHANGED <<players, issued>> => PlayersGiven
    BY DEF Numbers, SidsGiven, PlayersGiven

LEMMA AcceptGiven ==
    ASSUME TypeOK, Numbers, AcceptStep
    PROVE  SidsGiven /\ PlayersGiven
<1>1. Acceptor \in Thread /\ LocalType /\ slot[Acceptor] \in Slot
    BY DEF Thread, TypeOK, LocalType
<1>2. \E p : Goto(Acceptor, p)
    BY DEF AcceptStep, AcceptRef, AcceptValid, AcceptFlag, AcceptReset,
           AcceptJoin, AcceptRecv
<1>3. ASSUME AcceptJoin PROVE PlayersGiven
    BY <1>1, <1>3 DEF AcceptJoin, Numbers, PlayersGiven
<1>4. ASSUME ~AcceptJoin PROVE PlayersGiven
    BY <1>4, StillGiven DEF AcceptStep, AcceptRef, AcceptValid, AcceptFlag,
           AcceptReset, AcceptRecv, otherVars, contentVars
<1> QED
    BY <1>1, <1>2, <1>3, <1>4, GotoGiven

LEMMA CompletionGiven ==
    ASSUME TypeOK, Numbers, NEW w \in Workers, NEW s \in Slot,
           TakeCompletion(w, s)
    PROVE  SidsGiven /\ PlayersGiven
<1>1. w \in Thread /\ LocalType
    BY DEF Thread, TypeOK
<1>2. UNCHANGED <<players, issued>>
    BY DEF TakeCompletion, RecvDone, SendDone, IoFailed, SendRequested,
           ReleaseRequested, LeaveDone, otherVars, contentVars
<1>3. \/ UNCHANGED localVars
      \/ \E p : \E id \in {ZeroID, sessionID[s]} : Begin(w, p, s, id, "none")
    BY DEF TakeCompletion, RecvDone, SendDone, IoFailed, SendRequested,
           ReleaseRequested, LeaveDone
<1>4. \A id \in {ZeroID, sessionID[s]} : Given(id)
    BY ZeroGiven DEF Numbers
<1> QED
    BY <1>1, <1>2, <1>3, <1>4, BeginGiven, StillGiven DEF localVars

LEMMA WorkerGiven ==
    ASSUME TypeOK, Numbers, NEW w \in Workers, WorkerStep(w)
    PROVE  SidsGiven /\ PlayersGiven
<1>1. /\ w \in Thread /\ LocalType /\ Given(sessionID[slot[w]])
    BY DEF Thread, TypeOK, LocalType, Numbers
<1>2. CASE RecvPost(w) \/ SendPost(w)
  <2>1. UNCHANGED <<players, issued>>
      BY <1>2 DEF RecvPost, RecvPostCheck, RecvPostRecv, RecvPostCancel,
                  SendPost, SendPostFlag, SendPostLook, SendPostUnflag,
                  SendPostTake, SendPostSend, SendPostFail, SendPostCancel,
                  Look, sharedVars, otherVars, contentVars
  <2>2. \E p : Goto(w, p)
      BY <1>2 DEF RecvPost, RecvPostCheck, RecvPostRecv, RecvPostCancel,
                  SendPost, SendPostFlag, SendPostLook, SendPostUnflag,
                  SendPostTake, SendPostSend, SendPostFail, SendPostCancel,
                  Look
  <2> QED
      BY <1>1, <2>1, <2>2, GotoGiven, StillGiven
<1>3. CASE ReleaseSession(w)
  <2>1. UNCHANGED <<players, issued>>
      BY <1>3 DEF ReleaseSession, ReleaseValid, ReleaseCount, ReleaseCas,
                  ReleaseID, ReleaseOff, ReleaseUndo, ReleaseClose,
                  ReleaseLeave, Look, sharedVars, otherVars, contentVars
  <2>2. \/ UNCHANGED sid
        \/ \E p : Goto(w, p)
        \/ \E p, a, o : Begin(w, p, a, sessionID[slot[w]], o)
      BY <1>3 DEF ReleaseSession, ReleaseValid, ReleaseCount, ReleaseCas,
                  ReleaseID, ReleaseOff, ReleaseUndo, ReleaseClose,
                  ReleaseLeave, Look
  <2> QED
      BY <1>1, <2>1, <2>2, GotoGiven, BeginGiven, StillGiven
<1>4. CASE SentUnflag(w) \/ SentMore(w) \/ WorkerDeref(w) \/ ReadID(w)
  <2>1. UNCHANGED <<players, issued>>
      BY <1>4 DEF SentUnflag, SentMore, WorkerDeref, ReadID, Look,
                  sharedVars, otherVars, contentVars
  <2>2. \/ \E p : Goto(w, p)
        \/ \E p, a, o : Begin(w, p, a, sessionID[slot[w]], o)
      BY <1>4 DEF SentUnflag, SentMore, WorkerDeref, ReadID, Look
  <2> QED
      BY <1>1, <2>1, <2>2, GotoGiven, BeginGiven, StillGiven
<1> QED
    BY <1>2, <1>3, <1>4 DEF WorkerStep

LEMMA CallGiven ==
    ASSUME TypeOK, Numbers, NEW u \in Thread,
           CallStep(u) \/ \E id, o : FindValid(u, id, o) /\ Given(id)
    PROVE  SidsGiven /\ PlayersGiven
<1>1. UNCHANGED <<players, issued>>
    BY DEF CallStep, FindRef, FindFlag, FindID, UserDeref,
           SendPacketEnqueue, SendPacketLast, SendPacketPost,
           DisconnectCut, GetUDPRead, UdpWrite, FindValid, Look, sharedVars,
           otherVars, contentVars
<1>2. \/ UNCHANGED localVars
      \/ \E p : Goto(u, p)
      \/ \E p, a, id, o : Begin(u, p, a, id, o) /\ Given(id)
    BY DEF CallStep, FindRef, FindFlag, FindID, UserDeref,
           SendPacketEnqueue, SendPacketLast, SendPacketPost,
           DisconnectCut, GetUDPRead, UdpWrite, FindValid, Look
<1> QED
    BY <1>1, <1>2, GotoGiven, BeginGiven, StillGiven DEF TypeOK, localVars

LEMMA NumbersStep ==
    ASSUME TypeOK, Numbers, Next, \A i \in Slot : ~Accept(i)
    PROVE  Numbers'
<1>1. UNCHANGED <<sessionID, sessionAllocNum>>
    BY NamedByAccept
<1>2. SidsGiven /\ PlayersGiven
  <2>1. ASSUME NEW u \in Users, NEW id \in SessionID,
               HandleJobs(u, id) \/ \E o \in AllCalls : UserCall(u, id, o)
        PROVE  SidsGiven /\ PlayersGiven
    <3>1. CASE HandleJobs(u, id)
      <4>1. /\ players' \subseteq players /\ UNCHANGED <<issued, sid>>
          BY <3>1 DEF HandleJobs, localVars
      <4> QED
          BY <4>1, StillGiven DEF Numbers, PlayersGiven
    <3>2. CASE \E o \in AllCalls : UserCall(u, id, o)
      <4>1. u \in Thread /\ Given(id)
          BY <3>2 DEF Thread, UserCall, Numbers
      <4> QED
          BY <3>2, <4>1, CallGiven DEF UserCall
    <3> QED
        BY <2>1, <3>1, <3>2
  <2>2. ASSUME NEW u \in UdpThreads, NEW id \in SessionID, UdpReceive(u, id)
        PROVE  SidsGiven /\ PlayersGiven
    <3>1. u \in Thread /\ Given(id)
        BY <2>2 DEF Thread, UdpReceive, Numbers
    <3> QED
        BY <2>2, <3>1, CallGiven DEF UdpReceive
  <2>3. ASSUME NEW u \in Users \cup UdpThreads, CallStep(u)
        PROVE  SidsGiven /\ PlayersGiven
      BY <2>3, CallGiven DEF Thread
  <2>4. ASSUME NEW s \in Slot, Complete(s) \/ PeerReset(s)
        PROVE  SidsGiven /\ PlayersGiven
      BY <2>4, StillGiven DEF Complete, PeerReset, otherVars, contentVars,
                              localVars
  <2> QED
      BY <2>1, <2>2, <2>3, <2>4, AcceptGiven, CompletionGiven, WorkerGiven
         DEF Next
<1> QED
    BY <1>1, <1>2 DEF Numbers, SidsGiven, PlayersGiven, Given

-----------------------------------------------------------------------------
(* Accept makes the first link, on a slot that has no chain.               *)

LEMMA AcceptNumbers ==
    ASSUME TypeOK, Numbers, NEW i \in Slot, Accept(i)
    PROVE  Numbers'
<1>1. /\ sessionAllocNum \in Nat /\ sessionAllocNum' = sessionAllocNum + 1
      /\ sessionID' = [sessionID EXCEPT ![i] = <<sessionAllocNum, i>>]
      /\ sessionID \in [Slot -> SessionID]
      /\ UNCHANGED <<players, issued>>
    BY ConstAssumption DEF TypeOK, IdType, Accept, contentVars
<1>2. \A id : id \in SessionID \/ id = ZeroID => id[1] \in Nat
    BY ConstAssumption DEF SessionID, ZeroID
<1>3. \A id : id \in SessionID /\ Given(id) => Given(id)'
    BY <1>1, <1>2 DEF Given
<1>4. \A s \in Slot : Given(sessionID[s])'
  <2> SUFFICES ASSUME NEW s \in Slot PROVE Given(sessionID[s])'
      OBVIOUS
  <2>1. CASE s # i
      BY <1>1, <1>3, <2>1 DEF Numbers
  <2>2. CASE s = i
      BY <1>1, <2>2 DEF Given
  <2> QED
      BY <2>1, <2>2
<1>5. \A t \in Thread : Given(sid[t])'
  <2>1. /\ sid \in [Thread -> SessionID]
        /\ \E o : Begin(Acceptor, "a.ref", i, ZeroID, o)
      BY DEF TypeOK, LocalType, Accept
  <2>2. \A t \in Thread : sid'[t] = sid[t] \/ sid'[t] = ZeroID
      BY <2>1 DEF Begin
  <2>3. Given(ZeroID)'
      BY DEF Given, ZeroID
  <2> QED
      BY <1>3, <2>1, <2>2, <2>3 DEF Numbers
<1>6. \A id \in players' \cup issued' : Given(id)'
    BY <1>1, <1>3 DEF Numbers, TypeOK, ContentType
<1> QED
    BY <1>4, <1>5, <1>6 DEF Numbers

LEMMA AcceptLinked ==
    ASSUME "tableFull" \notin Faults, TypeOK, RefAccounting, CustodyInv,
           ChainInv, NEW i \in Slot, Accept(i), NEW s \in Slot
    PROVE  Linked(s)'
<1>1. /\ Acceptor \in Thread /\ LocalType /\ Custody(s) /\ Custody(i)
      /\ Begin(Acceptor, "a.ref", i, ZeroID, "open")
      /\ pc[Acceptor] = "idle" /\ emptyIndexStack[i] > 0
      /\ sessionID' = [sessionID EXCEPT ![i] = <<sessionAllocNum, i>>]
      /\ sessionID \in [Slot -> SessionID]
      /\ UNCHANGED isValid /\ UNCHANGED ioVars
    BY DEF Thread, TypeOK, IdType, CustodyInv, Accept, flagVars
<1>2. sessionAllocNum \in Nat /\ sessionAllocNum' # 0
    BY ConstAssumption DEF TypeOK, IdType, Accept
<1>3. /\ pc'[Acceptor] = "a.ref" /\ slot'[Acceptor] = i
      /\ Alone(Acceptor)
    BY <1>1 DEF Begin, LocalType, Alone
<1>4. Linked(s) /\ Posted(s)' = Posted(s) /\ Posted(s) \in Nat
    BY <1>1, PostedNat DEF ChainInv, ioVars, Posted, TypeOK
<1>5. CASE s # i
  <2>1. At(s, Receiving)' = At(s, Receiving)
      BY <1>1, <1>3, <1>5 DEF Alone, At, Receiving
  <2>2. Cardinality(At(s, Receiving)') = Cardinality(At(s, Receiving))
      BY <2>1, Zenon
  <2>3. Chain(s)' = Chain(s) /\ Chain(s) \in Nat
      BY <1>4, <2>2, AtCounts DEF Chain, Receiving
  <2>4. "idle" \notin Watched
      BY Unwatching DEF Unwatched
  <2>5. \A t \in Thread : Away(t, s)
      BY <1>1, <1>5, <2>4, BeginAway
  <2>6. Steps(s)
      BY <1>1, <1>5, <2>5, AwaySteps
  <2> QED
      BY <1>2, <1>4, <2>3, <2>6, ChainStep
<1>6. CASE s = i
  <2>1. ~isValid[s] /\ At(s, Incoming) = {}
      BY <1>1, <1>6, Elsewhere DEF Custody
  <2>2. Posted(s) = 0 /\ At(s, Receiving) = {}
    <3>1. Chain(s) = 0
        BY <1>4, <2>1 DEF Linked, Ended
    <3>2. Cardinality(At(s, Receiving)) \in Nat
        BY AtCounts
    <3>3. Posted(s) = 0 /\ Cardinality(At(s, Receiving)) = 0
        BY <1>4, <3>1, <3>2 DEF Chain
    <3> QED
        BY <3>3, AtCounts
  <2>3. Chain(s)' <= 1
    <3>1. At(s, Receiving)' = {Acceptor}
        BY <1>1, <1>3, <1>6, <2>2 DEF Alone, At, Receiving
    <3>2. Cardinality(At(s, Receiving)') = 1
        BY <3>1, FS_Singleton
    <3> QED
        BY <1>4, <2>2, <3>2 DEF Chain, Receiving
  <2>4. \A t \in Thread : slot'[t] = s /\ pc'[t] \in Claims =>
            /\ slot[t] = s /\ pc[t] = pc'[t] /\ pc[t] \in {"r.count", "r.cas"}
            /\ sid'[t] # sessionID'[s]
    <3> SUFFICES ASSUME NEW t \in Thread, slot'[t] = s, pc'[t] \in Claims
                 PROVE  /\ slot[t] = s /\ pc[t] = pc'[t]
                        /\ pc[t] \in {"r.count", "r.cas"}
                        /\ sid'[t] # sessionID'[s]
        OBVIOUS
    <3>1. t # Acceptor
        BY <1>3 DEF Claims
    <3>2. slot[t] = s /\ pc[t] = pc'[t] /\ sid'[t] = sid[t]
        BY <1>3, <3>1 DEF Alone
    <3>3. pc[t] \in {"r.count", "r.cas"}
      <4>1. pc[t] \in Claiming => isValid[s] \/ pc[t] = "r.leave"
          BY <1>1, <3>2 DEF Custody, Claimed, At
      <4> QED
          BY <2>1, <3>2, <4>1 DEF Claims, Claiming
    <3>4. sessionAllocNum # 0
        BY <1>4, <3>2, <3>3 DEF Linked, Untouched, At
    <3>5. sid[t][1] # sessionAllocNum
      <4>1. Given(sid[t])
          BY DEF ChainInv, Numbers
      <4> QED
          BY <1>2, <3>4, <4>1 DEF Given
    <3>6. sessionID'[s] = <<sessionAllocNum, i>>
        BY <1>1, <1>6
    <3> QED
        BY <3>2, <3>3, <3>5, <3>6
  <2>5. At(s, Incoming)' # {}
      BY <1>1, <1>3, <1>6 DEF At, Incoming
  <2>6. Ended(s)'
    <3>1. /\ \A t \in At(s, {"r.close"})' : FALSE
          /\ \A t \in At(s, {"r.id"})' : FALSE
          /\ \A t \in At(s, {"r.cas"})' : sid'[t] # sessionID'[s]
        BY <2>4 DEF At, Claims
    <3> QED
        BY <2>5, <3>1 DEF Ended, Incoming
  <2>7. Unnamed(s)' /\ Untouched(s)'
      BY <1>2, <2>4 DEF Unnamed, Untouched, At, Claims
  <2> QED
      BY <2>3, <2>6, <2>7 DEF Linked
<1> QED
    BY <1>5, <1>6

-----------------------------------------------------------------------------
(* The invariant.                                                          *)

LEMMA InitChain == Init => ChainInv
<1> SUFFICES ASSUME Init PROVE ChainInv
    OBVIOUS
<1>1. TypeOK
    BY InitType
<1>2. Numbers
    BY DEF Init, Numbers, Given, ZeroID
<1>3. ASSUME NEW s \in Slot PROVE Linked(s)
  <2>1. \A points : "idle" \notin points => At(s, points) = {}
      BY DEF Init, At
  <2>2. /\ At(s, Receiving) = {} /\ At(s, Incoming) = {}
        /\ At(s, {"a.ref"}) = {} /\ At(s, {"r.close"}) = {}
        /\ At(s, {"r.id"}) = {} /\ At(s, {"r.cas"}) = {}
        /\ At(s, {"r.count", "r.cas"}) = {}
      BY <2>1 DEF Receiving, Incoming
  <2>3. Posted(s) = 0
      BY DEF Init, Completion, Posted
  <2>4. Chain(s) = 0
      BY <2>2, <2>3, FS_EmptySet DEF Chain
  <2> QED
      BY <2>2, <2>4 DEF Init, Linked, Ended, Unnamed, Untouched
<1> QED
    BY <1>2, <1>3 DEF ChainInv

LEMMA NextChain ==
    ASSUME "tableFull" \notin Faults, TypeOK, RefAccounting, CustodyInv,
           ChainInv, [Next]_vars
    PROVE  ChainInv'
<1>1. CASE UNCHANGED vars
  <2>1. /\ UNCHANGED <<sessionID, sessionAllocNum, players, issued, isValid>>
        /\ UNCHANGED <<ioVars, pc, localVars>>
      BY <1>1 DEF vars, sharedVars, otherVars, idVars, contentVars, flagVars
  <2>2. Numbers'
      BY <2>1 DEF ChainInv, Numbers, Given, localVars
  <2>3. ASSUME NEW s \in Slot PROVE Linked(s)'
    <3>1. ChainFalls
        BY <2>1, StillFalls, PostedKept DEF TypeOK
    <3>2. Steps(s)
        BY <2>1, StillAway, AwaySteps
    <3> QED
        BY <2>1, <3>1, <3>2, ChainStep DEF ChainFalls, ChainInv
  <2> QED
      BY <2>2, <2>3 DEF ChainInv
<1>2. ASSUME NEW i \in Slot, Accept(i) PROVE ChainInv'
    BY <1>2, AcceptNumbers, AcceptLinked DEF ChainInv
<1>3. CASE Next /\ \A i \in Slot : ~Accept(i)
  <2>1. UNCHANGED sessionAllocNum
      BY <1>3, NamedByAccept
  <2>2. ASSUME NEW s \in Slot PROVE Linked(s)'
      BY <1>3, <2>1, NextFalls, NextSteps, ChainStep DEF ChainFalls, ChainInv
  <2> QED
      BY <1>3, <2>2, NumbersStep DEF ChainInv
<1> QED
    BY <1>1, <1>2, <1>3

LEMMA ChainHolds ==
    ASSUME "tableFull" \notin Faults
    PROVE  Spec => []ChainInv
<1>1. Init => ChainInv
    BY InitChain
<1>2. TypeOK /\ RefAccounting /\ CustodyInv /\ ChainInv /\ [Next]_vars
      => ChainInv'
    BY NextChain
<1> QED
    BY <1>1, <1>2, TypeCorrect, RefExact, CustodyHolds, PTL DEF Spec

\* One worker at a time receives for a session, and none is left when a
\* worker closes it (CNetServer.cpp, releaseSession and the receive branch of
\* WorkerThread): the ring buffer of a session needs no lock, if no connection
\* is accepted on a full table.
THEOREM ReceivesAlone ==
    ASSUME "tableFull" \notin Faults
    PROVE  Spec => []OneReceiver
<1>1. TypeOK /\ CustodyInv /\ ChainInv => OneReceiver
  <2> SUFFICES ASSUME TypeOK, CustodyInv, ChainInv, NEW s \in Slot
               PROVE  /\ Posted(s)
                         + Cardinality(At(s, {"rp.check", "rp.recv"})) <= 1
                      /\ At(s, {"r.close", "r.leave"}) # {}
                         => /\ recvIO[s] + hcp[s]["recvOk"] = 0
                            /\ At(s, {"rp.check", "rp.recv"}) = {}
      BY DEF OneReceiver, Posted
  <2>1. Linked(s) /\ Custody(s) /\ IoType
      BY DEF ChainInv, CustodyInv, TypeOK
  <2>2. /\ Cardinality(At(s, Receiving)) \in Nat
        /\ Cardinality(At(s, {"rp.check", "rp.recv"})) \in Nat
        /\ Cardinality(At(s, {"rp.check", "rp.recv"}))
           <= Cardinality(At(s, Receiving))
    <3>1. At(s, {"rp.check", "rp.recv"}) \subseteq At(s, Receiving)
        BY DEF At, Receiving
    <3>2. IsFiniteSet(At(s, Receiving))
        BY ThreadsFinite, FS_Subset DEF At
    <3> QED
        BY <3>1, <3>2, AtCounts, FS_Subset
  <2>3. /\ Posted(s) \in Nat /\ recvIO[s] \in Nat
        /\ hcp[s]["recvOk"] \in Nat /\ hcp[s]["recvErr"] \in Nat
      BY <2>1, PostedNat
  <2>4. ASSUME At(s, {"r.close", "r.leave"}) # {} PROVE Chain(s) = 0
    <3>1. CASE At(s, {"r.close"}) # {}
        BY <2>1, <3>1 DEF Linked, Ended
    <3>2. CASE At(s, {"r.leave"}) # {}
      <4>1. ~isValid[s] /\ At(s, Incoming) = {}
        <5>1. /\ Cardinality(At(s, {"r.leave"})) \in Nat \ {0}
              /\ Cardinality(At(s, Incoming)) \in Nat
              /\ Cardinality(Leaves(s)) \in Nat
              /\ emptyIndexStack[s] \in Nat /\ hcp[s]["LEAVE"] \in Nat
            BY <2>1, <3>2, AtCounts, LeavesCount, Elsewhere
               DEF Custody, TypeOK
        <5>2. Cardinality(At(s, Incoming)) = 0 /\ ~isValid[s]
            BY <2>1, <5>1 DEF Custody, Places
        <5> QED
            BY <5>2, AtCounts
      <4> QED
          BY <2>1, <4>1 DEF Linked, Ended
    <3> QED
        BY <2>4, <3>1, <3>2 DEF At
  <2>5. /\ Posted(s) + Cardinality(At(s, {"rp.check", "rp.recv"})) <= 1
        /\ Chain(s) = 0 =>
               Posted(s) = 0 /\ Cardinality(At(s, {"rp.check", "rp.recv"})) = 0
      BY <2>1, <2>2, <2>3 DEF Linked, Chain
  <2>6. Posted(s) = 0 => recvIO[s] + hcp[s]["recvOk"] = 0
      BY <2>3 DEF Posted
  <2> QED
      BY <2>4, <2>5, <2>6, AtCounts
<1> QED
    BY <1>1, TypeCorrect, CustodyHolds, ChainHolds, PTL

-----------------------------------------------------------------------------
(* The players.  The inductive invariant, slot by slot.                    *)

\* The slot of a player is not free, not coming back and not being renamed.
Keeps(s) ==
    \A id \in players : IndexOf(id) = s =>
        /\ sessionID[s] = id
        /\ emptyIndexStack[s] = 0 /\ hcp[s]["LEAVE"] = 0
        /\ At(s, Incoming) = {}

\* A session has a player from OnClientJoin to the LEAVE job.
Played(s) ==
    /\ isValid[s] /\ At(s, Joining) = {} => sessionID[s] \in players
    /\ At(s, {"r.leave"}) # {} => sessionID[s] \in players

\* A slot that has jobs has a player, and the last job may be LEAVE.
Jobs(s) ==
    \A i \in 1 .. Len(JobQueue[s]) :
        /\ JobQueue[s][i].id = sessionID[s]
        /\ sessionID[s] \in players /\ IndexOf(sessionID[s]) = s
        /\ JobQueue[s][i].type = "LEAVE" => i = Len(JobQueue[s])

Own(s) == Keeps(s) /\ Played(s) /\ Jobs(s)

PlayerInv == \A s \in Slot : Own(s)

-----------------------------------------------------------------------------
(* What the other invariants say of a slot.                                *)

\* A valid session is nowhere else.
LEMMA ValidPlace ==
    ASSUME TypeOK, NEW s \in Slot, Custody(s), isValid[s]
    PROVE  /\ emptyIndexStack[s] = 0 /\ hcp[s]["LEAVE"] = 0
           /\ Leaves(s) = {} /\ At(s, Incoming) = {}
           /\ IndexOf(sessionID[s]) = s
<1>1. /\ Cardinality(At(s, {"r.leave"})) \in Nat
      /\ Cardinality(At(s, Incoming)) \in Nat
      /\ Cardinality(Leaves(s)) \in Nat
      /\ emptyIndexStack[s] \in Nat /\ hcp[s]["LEAVE"] \in Nat
    BY AtCounts, LeavesCount, Elsewhere DEF Custody, TypeOK
<1>2. /\ Cardinality(At(s, Incoming)) = 0 /\ Cardinality(Leaves(s)) = 0
      /\ emptyIndexStack[s] = 0 /\ hcp[s]["LEAVE"] = 0
    BY <1>1 DEF Custody, Places
<1> QED
    BY <1>2, AtCounts, LeavesCount DEF Custody, IndexKept, TypeOK

\* So is one that is being cleaned up.
LEMMA LeavePlace ==
    ASSUME TypeOK, NEW s \in Slot, Custody(s), At(s, {"r.leave"}) # {}
    PROVE  /\ emptyIndexStack[s] = 0 /\ Leaves(s) = {}
           /\ IndexOf(sessionID[s]) = s
<1>1. /\ Cardinality(At(s, {"r.leave"})) \in Nat \ {0}
      /\ Cardinality(At(s, Incoming)) \in Nat
      /\ Cardinality(Leaves(s)) \in Nat
      /\ emptyIndexStack[s] \in Nat /\ hcp[s]["LEAVE"] \in Nat
    BY AtCounts, LeavesCount, Elsewhere DEF Custody, TypeOK
<1>2. Cardinality(Leaves(s)) = 0 /\ emptyIndexStack[s] = 0
    BY <1>1 DEF Custody, Places
<1> QED
    BY <1>2, LeavesCount DEF Custody, IndexKept, TypeOK

\* One that has its LEAVE job is not valid any more.
LEMMA LeftPlace ==
    ASSUME TypeOK, NEW s \in Slot, Custody(s), Leaves(s) # {}
    PROVE  ~isValid[s] /\ At(s, {"r.leave"}) = {}
    BY ValidPlace, LeavePlace

\* Where a receive is, the session is valid or about to be.
LEMMA ChainPlace ==
    ASSUME TypeOK, NEW s \in Slot, Linked(s), Custody(s)
    PROVE  /\ Posted(s) > 0 => At(s, Receiving) = {}
           /\ Posted(s) > 0 => isValid[s]
           /\ At(s, Joining) # {} => isValid[s]
           /\ At(s, {"r.close"}) # {} => At(s, Joining) = {} /\ isValid[s]
<1>1. /\ Posted(s) \in Nat /\ Chain(s) <= 1
      /\ Cardinality(At(s, Receiving)) \in Nat
      /\ Chain(s) = Posted(s) + Cardinality(At(s, Receiving))
    BY PostedNat, AtCounts DEF Linked, Chain, TypeOK
<1>2. At(s, Incoming) \subseteq At(s, Receiving)
    BY DEF At, Incoming, Receiving
<1>3. At(s, Joining) \subseteq At(s, Receiving)
    BY DEF At, Joining, Receiving
<1>4. ASSUME Posted(s) > 0 PROVE At(s, Receiving) = {} /\ isValid[s]
  <2>1. Cardinality(At(s, Receiving)) = 0 /\ Chain(s) # 0
      BY <1>1, <1>4
  <2>2. At(s, Receiving) = {}
      BY <2>1, AtCounts
  <2> QED
      BY <1>2, <2>1, <2>2 DEF Linked, Ended
<1>5. ASSUME At(s, Joining) # {} PROVE isValid[s]
  <2>1. PICK t \in At(s, Joining) : TRUE
      BY <1>5
  <2>2. At(s, Receiving) # {}
      BY <1>3, <2>1
  <2>3. Cardinality(At(s, Receiving)) = 1 /\ Chain(s) # 0
      BY <1>1, <2>2, AtCounts
  <2>4. IsFiniteSet(At(s, Receiving))
      BY ThreadsFinite, FS_Subset DEF At
  <2>5. PICK v : At(s, Receiving) = {v}
      BY <2>3, <2>4, FS_Singleton
  <2>6. At(s, Receiving) = {t}
      BY <1>3, <2>1, <2>5
  <2>7. At(s, Incoming) = {}
      BY <1>2, <2>1, <2>6 DEF At, Incoming, Joining
  <2> QED
      BY <2>3, <2>7 DEF Linked, Ended
<1>6. ASSUME At(s, {"r.close"}) # {}
      PROVE  At(s, Joining) = {} /\ isValid[s]
  <2>1. Cardinality(At(s, Receiving)) = 0
      BY <1>1, <1>6 DEF Linked, Ended
  <2>2. At(s, Joining) = {}
      BY <1>3, <2>1, AtCounts
  <2>3. isValid[s]
      BY <1>6 DEF Custody, Claimed, At, Claiming
  <2> QED
      BY <2>2, <2>3
<1> QED
    BY <1>4, <1>5, <1>6

-----------------------------------------------------------------------------
(* The steps that leave the players and the jobs of a slot alone.          *)

Untroubled(s) ==
    /\ JobQueue'[s] = JobQueue[s]
    /\ emptyIndexStack'[s] = emptyIndexStack[s]
    /\ hcp'[s]["LEAVE"] = hcp[s]["LEAVE"]

LEMMA OwnStep ==
    ASSUME TypeOK, NEW s \in Slot, Custody(s), Linked(s), Own(s), Steps(s),
           Untroubled(s),
           \/ UNCHANGED players
           \/ \E r \in Slot : /\ Custody(r) /\ isValid[r]
                              /\ players' = players \cup {sessionID[r]}
    PROVE  Own(s)'
<1>1. Keeps(s)'
  <2> SUFFICES ASSUME NEW id \in players', IndexOf(id) = s
               PROVE  /\ sessionID[s] = id /\ emptyIndexStack[s] = 0
                      /\ hcp[s]["LEAVE"] = 0 /\ At(s, Incoming) = {}
      BY DEF Keeps, Steps, Untroubled, Incoming
  <2>1. CASE id \in players
      BY <2>1 DEF Own, Keeps
  <2>2. CASE id \notin players
    <3>1. PICK r \in Slot : Custody(r) /\ isValid[r] /\ id = sessionID[r]
        BY <2>2
    <3>2. s = r
        BY <3>1, ValidPlace
    <3> QED
        BY <3>1, <3>2, ValidPlace
  <2> QED
      BY <2>1, <2>2
<1>2. players \subseteq players'
    OBVIOUS
<1>3. ASSUME isValid'[s], At(s, Joining)' = {} PROVE sessionID[s] \in players'
    BY <1>2, <1>3 DEF Own, Played, Steps
<1>4. ASSUME At(s, {"r.leave"})' # {} PROVE sessionID[s] \in players'
  <2>1. At(s, {"r.leave"}) # {} \/ At(s, {"r.close"}) # {}
      BY <1>4 DEF Steps
  <2> QED
      BY <1>2, <2>1, ChainPlace DEF Own, Played
<1>5. Played(s)'
    BY <1>3, <1>4 DEF Played, Steps, Joining
<1>6. Jobs(s)'
    BY <1>2 DEF Own, Jobs, Steps, Untroubled
<1> QED
    BY <1>1, <1>5, <1>6 DEF Own

LEMMA QuietOwn ==
    ASSUME TypeOK, CustodyInv, ChainInv, PlayerInv, Quiet
    PROVE  PlayerInv'
<1> SUFFICES ASSUME NEW s \in Slot PROVE Own(s)'
    BY DEF PlayerInv
<1>1. Untroubled(s) /\ Steps(s) /\ UNCHANGED players
    BY QuietSteps DEF Quiet, custodyVars, Untroubled
<1> QED
    BY <1>1, OwnStep DEF CustodyInv, ChainInv, PlayerInv

\* OnClientJoin makes a player of a session that is valid.
LEMMA AcceptStepOwn ==
    ASSUME TypeOK, CustodyInv, ChainInv, PlayerInv, AcceptStep
    PROVE  PlayerInv'
<1> SUFFICES ASSUME NEW s \in Slot PROVE Own(s)'
    BY DEF PlayerInv
<1>1. Untroubled(s)
    BY DEF AcceptStep, AcceptRef, AcceptValid, AcceptFlag, AcceptReset,
           AcceptJoin, AcceptRecv, otherVars, idVars, contentVars, ioVars,
           Untroubled
<1>2. Steps(s)
    BY AcceptSteps
<1>3. CASE AcceptJoin
  <2> DEFINE r == slot[Acceptor]
  <2>1. /\ Acceptor \in Thread /\ r \in Slot /\ pc[Acceptor] = "a.join"
        /\ players' = players \cup {sessionID[r]}
      BY <1>3 DEF AcceptJoin, Thread, TypeOK, LocalType
  <2>2. At(r, Joining) # {}
      BY <2>1 DEF At, Joining
  <2>3. isValid[r] /\ Custody(r)
      BY <2>1, <2>2, ChainPlace DEF CustodyInv, ChainInv
  <2> QED
      BY <1>1, <1>2, <2>1, <2>3, OwnStep DEF CustodyInv, ChainInv, PlayerInv
<1>4. CASE ~AcceptJoin
  <2>1. UNCHANGED players
      BY <1>4 DEF AcceptStep, AcceptRef, AcceptValid, AcceptFlag,
                  AcceptReset, AcceptRecv, otherVars, contentVars
  <2> QED
      BY <1>1, <1>2, <2>1, OwnStep DEF CustodyInv, ChainInv, PlayerInv
<1> QED
    BY <1>3, <1>4

-----------------------------------------------------------------------------
(* A job that is queued.                                                   *)

LEMMA PushOwn ==
    ASSUME TypeOK, NEW s \in Slot, Own(s), Leaves(s) = {},
           sessionID[s] \in players, IndexOf(sessionID[s]) = s,
           UNCHANGED <<players, sessionID>>, NEW type, PushJob(s, type)
    PROVE  Jobs(s)'
<1> DEFINE q == JobQueue[s]
           job == JobOf(type, sessionID[s])
<1>1. /\ q \in Seq(Job) /\ Len(q) \in Nat
      /\ JobQueue'[s] = Append(q, job)
    BY DEF TypeOK, ContentType, PushJob
<1>2. /\ Len(JobQueue'[s]) = Len(q) + 1
      /\ \A i \in 1 .. Len(q) : JobQueue'[s][i] = q[i]
      /\ JobQueue'[s][Len(q) + 1] = job
    BY <1>1
<1>3. job.id = sessionID[s]
    BY DEF JobOf
<1>4. \A i \in 1 .. Len(q) : q[i].type # "LEAVE" /\ q[i].id = sessionID[s]
    BY DEF Leaves, Own, Jobs
<1> SUFFICES ASSUME NEW i \in 1 .. Len(q) + 1
             PROVE  /\ JobQueue'[s][i].id = sessionID[s]
                    /\ JobQueue'[s][i].type = "LEAVE" => i = Len(q) + 1
    BY <1>2 DEF Jobs
<1>5. CASE i \in 1 .. Len(q)
    BY <1>2, <1>4, <1>5
<1>6. CASE i = Len(q) + 1
    BY <1>2, <1>3, <1>6
<1> QED
    BY <1>1, <1>5, <1>6

LEMMA RecvDoneOwn ==
    ASSUME TypeOK, CustodyInv, ChainInv, PlayerInv, NEW w \in Workers,
           NEW r \in Slot, RecvDone(w, r)
    PROVE  PlayerInv'
<1> SUFFICES ASSUME NEW s \in Slot PROVE Own(s)'
    BY DEF PlayerInv
<1>1. /\ w \in Thread /\ LocalType /\ IoType /\ Custody(s) /\ Linked(s)
      /\ Own(s) /\ Begin(w, "rp.check", r, ZeroID, "none")
      /\ UNCHANGED <<emptyIndexStack, sessionID, isValid, players>>
    BY DEF Thread, TypeOK, CustodyInv, ChainInv, PlayerInv, RecvDone, idVars,
           flagVars
<1>2. Steps(s)
  <2>1. {pc[w], "rp.check"} \cap Watched = {}
      BY Unwatching DEF RecvDone, Unwatched
  <2> QED
      BY <1>1, <2>1, BeginQuiet, AwaySteps
<1>3. hcp'[s]["LEAVE"] = hcp[s]["LEAVE"]
  <2>1. /\ "recvOk" \in Completion \ {"LEAVE"} /\ hcp[r]["recvOk"] > 0
        /\ Take(r, "recvOk") \/ Disconnect(r, Without(r, "recvOk"))
      BY DEF Completion, RecvDone
  <2> QED
      BY <1>1, <2>1, PortQuiet
<1>4. CASE JobQueue'[s] = JobQueue[s]
    BY <1>1, <1>2, <1>3, <1>4, OwnStep DEF Untroubled
<1>5. CASE s = r /\ PushJob(s, "RECV")
  <2>1. Posted(s) > 0
      BY <1>1, <1>5, PostedNat DEF RecvDone, Posted
  <2>2. isValid[s] /\ At(s, Joining) = {}
    <3>1. isValid[s] /\ At(s, Receiving) = {}
        BY <1>1, <2>1, ChainPlace
    <3> QED
        BY <3>1 DEF At, Joining, Receiving
  <2>3. /\ Leaves(s) = {} /\ IndexOf(sessionID[s]) = s
        /\ sessionID[s] \in players
      BY <1>1, <2>2, ValidPlace DEF Own, Played
  <2>4. Jobs(s)'
      BY <1>1, <1>5, <2>3, PushOwn
  <2>5. Keeps(s)' /\ Played(s)'
    <3>1. Keeps(s)'
        BY <1>1, <1>2, <1>3 DEF Own, Keeps, Steps, Incoming
    <3>2. Played(s)'
        BY <1>1, <2>3 DEF Played
    <3> QED
        BY <3>1, <3>2
  <2> QED
      BY <2>4, <2>5 DEF Own
<1>6. JobQueue'[s] = JobQueue[s] \/ (s = r /\ PushJob(s, "RECV"))
  <2>1. UNCHANGED JobQueue \/ PushJob(r, "RECV")
      BY DEF RecvDone
  <2>2. s # r /\ PushJob(r, "RECV") => JobQueue'[s] = JobQueue[s]
      BY DEF PushJob, TypeOK, ContentType
  <2> QED
      BY <2>1, <2>2
<1> QED
    BY <1>4, <1>5, <1>6

LEMMA ReleaseOwn ==
    ASSUME TypeOK, CustodyInv, ChainInv, PlayerInv, NEW w \in Workers,
           ReleaseSession(w)
    PROVE  PlayerInv'
<1> SUFFICES ASSUME NEW s \in Slot PROVE Own(s)'
    BY DEF PlayerInv
<1>1. /\ w \in Thread /\ slot[w] \in Slot /\ Steps(s) /\ Custody(s)
      /\ Linked(s) /\ Own(s)
    BY WorkerContext, ReleaseSteps
       DEF Thread, CustodyInv, ChainInv, PlayerInv
<1>2. UNCHANGED <<players, emptyIndexStack, sessionID>>
    BY DEF ReleaseSession, ReleaseValid, ReleaseCount, ReleaseCas, ReleaseID,
           ReleaseOff, ReleaseUndo, ReleaseClose, ReleaseLeave, Look,
           sharedVars, otherVars, idVars, contentVars
<1>3. hcp'[s]["LEAVE"] = hcp[s]["LEAVE"]
  <2>1. CASE ReleaseClose(w)
      BY <1>1, <2>1, CancelLeave DEF ReleaseClose, CancelAll, TypeOK, IoType
  <2>2. CASE ~ReleaseClose(w)
      BY <2>2 DEF ReleaseSession, ReleaseValid, ReleaseCount, ReleaseCas,
                  ReleaseID, ReleaseOff, ReleaseUndo, ReleaseLeave, Look,
                  sharedVars, ioVars
  <2> QED
      BY <2>1, <2>2
<1>4. CASE JobQueue'[s] = JobQueue[s]
    BY <1>1, <1>2, <1>3, <1>4, OwnStep DEF Untroubled
<1>5. CASE s = slot[w] /\ ReleaseLeave(w)
  <2>1. /\ At(s, {"r.leave"}) # {} /\ PushJob(s, "LEAVE")
      BY <1>1, <1>5 DEF ReleaseLeave, At
  <2>2. /\ Leaves(s) = {} /\ IndexOf(sessionID[s]) = s
        /\ sessionID[s] \in players
      BY <1>1, <2>1, LeavePlace DEF Own, Played
  <2>3. Jobs(s)'
      BY <1>1, <1>2, <2>1, <2>2, PushOwn
  <2>4. Keeps(s)'
      BY <1>1, <1>2, <1>3 DEF Own, Keeps, Steps, Incoming
  <2>5. Played(s)'
      BY <1>2, <2>2 DEF Played
  <2> QED
      BY <2>3, <2>4, <2>5 DEF Own
<1>6. JobQueue'[s] = JobQueue[s] \/ (s = slot[w] /\ ReleaseLeave(w))
  <2>1. CASE ReleaseLeave(w)
      BY <1>1, <2>1 DEF ReleaseLeave, PushJob, TypeOK, ContentType
  <2>2. CASE ~ReleaseLeave(w)
      BY <2>2 DEF ReleaseSession, ReleaseValid, ReleaseCount, ReleaseCas,
                  ReleaseID, ReleaseOff, ReleaseUndo, ReleaseClose, Look,
                  sharedVars, otherVars, contentVars
  <2> QED
      BY <2>1, <2>2
<1> QED
    BY <1>4, <1>5, <1>6

-----------------------------------------------------------------------------
(* The content takes jobs; the slot comes back.                            *)

LEMMA TakenOwn ==
    ASSUME TypeOK, CustodyInv, PlayerInv, NEW u \in Users,
           NEW id \in SessionID, HandleJobs(u, id), NEW s \in Slot
    PROVE  Own(s)'
<1> DEFINE r == IndexOf(id)
           size == Len(JobQueue[r])
           leaves(n) == {i \in 1 .. n : JobQueue[r][i].type = "LEAVE"}
<1>1. /\ r \in Slot /\ hcp \in Port /\ Own(s) /\ Own(r) /\ Custody(s)
      /\ Custody(r) /\ id \in players /\ JobQueue[r] \in Seq(Job)
      /\ size \in Nat /\ JobQueue \in [Slot -> Seq(Job)]
    BY Constants DEF TypeOK, IoType, ContentType, CustodyInv, PlayerInv,
                     HandleJobs
<1>2. PICK n \in 1 .. size :
          /\ leaves(n) # {} => n = size
          /\ JobQueue' = [JobQueue EXCEPT ![r] = SubSeq(@, n + 1, size)]
          /\ hcp' = [hcp EXCEPT ![r]["LEAVE"] = @ + Cardinality(leaves(n))]
          /\ players' = IF leaves(n) = {} THEN players ELSE players \ {id}
    BY DEF HandleJobs
<1>3. /\ UNCHANGED <<emptyIndexStack, sessionID, isValid>>
      /\ UNCHANGED <<pc, localVars>>
    BY DEF HandleJobs, idVars, flagVars
<1>4. sessionID[r] = id
    BY <1>1 DEF Own, Keeps
<1>5. \A points : At(s, points)' = At(s, points)
    BY <1>3 DEF At, localVars
<1>6. /\ s # r => /\ JobQueue'[s] = JobQueue[s]
                  /\ hcp'[s]["LEAVE"] = hcp[s]["LEAVE"]
      /\ /\ JobQueue'[r] = SubSeq(JobQueue[r], n + 1, size)
         /\ Cardinality(leaves(n)) \in Int =>
                hcp'[r]["LEAVE"] = hcp[r]["LEAVE"] + Cardinality(leaves(n))
         /\ hcp[r]["LEAVE"] \in Nat
    BY <1>1, <1>2 DEF Port, Completion
<1>7. leaves(n) \subseteq Leaves(r)
    BY <1>1 DEF Leaves
<1>8. IndexOf(id) = r
    OBVIOUS
<1> HIDE DEF r, leaves
\* No LEAVE among them: the player stays, and so do the jobs that are left.
<1>9. CASE leaves(n) = {}
  <2>1. /\ UNCHANGED players /\ hcp'[s]["LEAVE"] = hcp[s]["LEAVE"]
    <3>1. Cardinality(leaves(n)) = 0
        BY <1>9, FS_EmptySet
    <3> QED
        BY <1>2, <1>6, <1>9, <3>1
  <2>2. Keeps(s)' /\ Played(s)'
    <3>1. Keeps(s)'
        BY <1>1, <1>3, <1>5, <2>1 DEF Own, Keeps, Incoming
    <3>2. Played(s)'
        BY <1>1, <1>3, <1>5, <2>1 DEF Own, Played, Joining
    <3> QED
        BY <3>1, <3>2
  <2>3. Jobs(s)'
    <3>1. CASE s # r
        BY <1>1, <1>3, <1>6, <2>1, <3>1 DEF Own, Jobs
    <3>2. CASE s = r
      <4>1. /\ Len(JobQueue'[s]) = Len(JobQueue[s]) - n
            /\ \A i \in 1 .. Len(JobQueue[s]) - n :
                   /\ JobQueue'[s][i] = JobQueue[s][n + i]
                   /\ n + i \in 1 .. Len(JobQueue[s])
          BY <1>1, <1>2, <1>6, <3>2
      <4>2. Len(JobQueue[s]) \in Nat /\ n \in Nat
          BY <1>1, <1>2, <3>2
      <4> SUFFICES ASSUME NEW i \in 1 .. Len(JobQueue[s]) - n
                   PROVE  /\ JobQueue[s][n + i].id = sessionID[s]
                          /\ sessionID[s] \in players
                          /\ IndexOf(sessionID[s]) = s
                          /\ JobQueue[s][n + i].type = "LEAVE" =>
                                 i = Len(JobQueue[s]) - n
          BY <1>3, <2>1, <4>1 DEF Jobs
      <4>3. n + i \in 1 .. Len(JobQueue[s])
          BY <4>1
      <4>4. JobQueue[s][n + i].type = "LEAVE" => n + i = Len(JobQueue[s])
          BY <1>1, <4>3 DEF Own, Jobs
      <4>5. n + i = Len(JobQueue[s]) => i = Len(JobQueue[s]) - n
          BY <4>2
      <4> QED
          BY <1>1, <4>3, <4>4, <4>5 DEF Own, Jobs
    <3> QED
        BY <3>1, <3>2
  <2> QED
      BY <2>2, <2>3 DEF Own
\* LEAVE is among them: the queue is empty and the player is gone.
<1>10. CASE leaves(n) # {}
  <2>1. players' = players \ {id} /\ n = size
      BY <1>2, <1>10
  <2>2. CASE s = r
    <3>1. ~isValid[s] /\ At(s, {"r.leave"}) = {}
        BY <1>1, <1>7, <1>10, <2>2, LeftPlace
    <3>2. Keeps(s)'
      <4>1. \A i \in players : IndexOf(i) = s => i = id
          BY <1>1, <1>4, <2>2 DEF Own, Keeps
      <4> QED
          BY <2>1, <4>1 DEF Keeps
    <3>3. Played(s)'
        BY <1>3, <1>5, <3>1 DEF Played
    <3>4. Jobs(s)'
      <4>1. /\ JobQueue'[s] = SubSeq(JobQueue[s], n + 1, Len(JobQueue[s]))
            /\ Len(JobQueue[s]) = n
          BY <1>6, <2>1, <2>2
      <4>2. Len(JobQueue'[s]) = 0
          BY <1>1, <4>1
      <4> QED
          BY <4>2 DEF Jobs
    <3> QED
        BY <3>2, <3>3, <3>4 DEF Own
  <2>3. CASE s # r
    <3>1. Keeps(s)'
        BY <1>1, <1>3, <1>5, <1>6, <2>1, <2>3 DEF Own, Keeps, Incoming
    <3>2. IndexOf(sessionID[s]) = s => sessionID[s] # id
        BY <1>8, <2>3
    <3>3. Played(s)'
      <4>1. isValid[s] \/ At(s, {"r.leave"}) # {} => sessionID[s] # id
          BY <1>1, <3>2, ValidPlace, LeavePlace
      <4> QED
          BY <1>1, <1>3, <1>5, <2>1, <4>1 DEF Own, Played, Joining
    <3>4. Jobs(s)'
        BY <1>1, <1>3, <1>6, <2>1, <2>3, <3>2 DEF Own, Jobs
    <3> QED
        BY <3>1, <3>3, <3>4 DEF Own
  <2> QED
      BY <2>2, <2>3
<1> QED
    BY <1>9, <1>10

LEMMA LeaveDoneOwn ==
    ASSUME TypeOK, CustodyInv, PlayerInv, NEW w \in Workers, NEW r \in Slot,
           LeaveDone(w, r), NEW s \in Slot
    PROVE  Own(s)'
<1>1. /\ hcp \in Port /\ Custody(s) /\ Custody(r) /\ Own(s)
      /\ emptyIndexStack \in [Slot -> Nat]
    BY DEF TypeOK, IoType, IdType, CustodyInv, PlayerInv
<1>2. /\ hcp[r]["LEAVE"] > 0 /\ hcp' = Without(r, "LEAVE")
      /\ emptyIndexStack' =
             [emptyIndexStack EXCEPT ![IndexOf(sessionID[r])] = @ + 1]
      /\ UNCHANGED <<sessionID, isValid, JobQueue, players>>
      /\ UNCHANGED <<pc, localVars>>
    BY DEF LeaveDone, Take, flagVars, contentVars
<1>3. IndexOf(sessionID[r]) = r
    BY <1>1, <1>2, Elsewhere DEF Custody, IndexKept
<1>4. \A points : At(s, points)' = At(s, points)
    BY <1>2 DEF At, localVars
<1>5. Keeps(s)'
  <2>1. CASE s = r
      BY <1>1, <1>2, <2>1 DEF Own, Keeps
  <2>2. CASE s # r
    <3>1. /\ hcp'[s]["LEAVE"] = hcp[s]["LEAVE"]
          /\ emptyIndexStack'[s] = emptyIndexStack[s]
        BY <1>1, <1>2, <1>3, <2>2 DEF Without, Port, Completion
    <3> QED
        BY <1>1, <1>2, <1>4, <3>1 DEF Own, Keeps, Incoming
  <2> QED
      BY <2>1, <2>2
<1>6. Played(s)' /\ Jobs(s)'
  <2>1. Played(s)'
      BY <1>1, <1>2, <1>4 DEF Own, Played, Joining
  <2>2. Jobs(s)'
      BY <1>1, <1>2 DEF Own, Jobs
  <2> QED
      BY <2>1, <2>2
<1> QED
    BY <1>5, <1>6 DEF Own

\* A slot that is given away has no player and no job left.
LEMMA AcceptOwn ==
    ASSUME "tableFull" \notin Faults, TypeOK, CustodyInv, ChainInv,
           PlayerInv, NEW i \in Slot, Accept(i), NEW s \in Slot
    PROVE  Own(s)'
<1>1. /\ Acceptor \in Thread /\ LocalType /\ Custody(s) /\ Linked(s)
      /\ Own(s) /\ Begin(Acceptor, "a.ref", i, ZeroID, "open")
      /\ pc[Acceptor] = "idle" /\ emptyIndexStack[i] > 0
      /\ emptyIndexStack' = [emptyIndexStack EXCEPT ![i] = @ - 1]
      /\ emptyIndexStack \in [Slot -> Nat]
      /\ sessionID' = [sessionID EXCEPT ![i] = <<sessionAllocNum, i>>]
      /\ UNCHANGED <<isValid, hcp, players, JobQueue>>
    BY DEF Thread, TypeOK, IdType, CustodyInv, ChainInv, PlayerInv, Accept,
           flagVars, ioVars, contentVars
<1>2. CASE s # i
  <2>1. "idle" \notin Watched
      BY Unwatching DEF Unwatched
  <2>2. \A t \in Thread : Away(t, s)
      BY <1>1, <1>2, <2>1, BeginAway
  <2>3. sessionID'[s] = sessionID[s]
      BY <1>1, <1>2 DEF TypeOK, IdType
  <2>4. Steps(s)
      BY <1>1, <2>2, <2>3, AwaySteps
  <2>5. Untroubled(s)
      BY <1>1, <1>2 DEF Untroubled
  <2> QED
      BY <1>1, <2>4, <2>5, OwnStep
<1>3. CASE s = i
  <2>1. ~isValid[s] /\ At(s, {"r.leave"}) = {}
      BY <1>1, <1>3, Elsewhere DEF Custody
  <2>2. \A id \in players : IndexOf(id) # s
      BY <1>1, <1>3 DEF Own, Keeps
  <2>3. At(s, {"r.leave"})' = {}
      BY <1>1, <2>1 DEF At, Begin, LocalType
  <2>4. \A j \in 1 .. Len(JobQueue[s]) : FALSE
      BY <1>1, <2>2 DEF Own, Jobs
  <2> QED
      BY <1>1, <2>1, <2>2, <2>3, <2>4 DEF Own, Keeps, Played, Jobs
<1> QED
    BY <1>2, <1>3

-----------------------------------------------------------------------------
(* The invariant.                                                          *)

LEMMA InitPlayer == Init => PlayerInv
<1> SUFFICES ASSUME Init, NEW s \in Slot PROVE Own(s)
    BY DEF PlayerInv
<1>1. players = {} /\ ~isValid[s] /\ JobQueue[s] = << >>
    BY DEF Init
<1>2. At(s, {"r.leave"}) = {}
    BY DEF Init, At
<1>3. Keeps(s) /\ Played(s)
    BY <1>1, <1>2 DEF Keeps, Played
<1>4. Jobs(s)
    BY <1>1 DEF Jobs
<1> QED
    BY <1>3, <1>4 DEF Own

LEMMA WorkerStepOwn ==
    ASSUME TypeOK, CustodyInv, ChainInv, PlayerInv, NEW w \in Workers,
           WorkerStep(w)
    PROVE  PlayerInv'
<1>1. w \in Thread /\ slot[w] \in Slot /\ LocalType
    BY WorkerContext DEF Thread, TypeOK
<1>2. CASE SentUnflag(w) \/ SentMore(w) \/ WorkerDeref(w) \/ ReadID(w)
  <2>1. UNCHANGED custodyVars /\ UNCHANGED hcp
      BY <1>2 DEF SentUnflag, SentMore, WorkerDeref, ReadID, Look,
                  sharedVars, otherVars, idVars, contentVars, ioVars,
                  custodyVars
  <2>2. \/ \E p \in Unwatched : Goto(w, p)
        \/ \E a, id, o : Begin(w, "r.valid", a, id, o)
      BY <1>2 DEF SentUnflag, SentMore, WorkerDeref, ReadID, Look, Unwatched
  <2>3. pc[w] \in Unwatched /\ "r.valid" \in Unwatched
      BY <1>2 DEF SentUnflag, SentMore, WorkerDeref, ReadID, Look, Unwatched
  <2>4. \A s \in Slot : \A v \in Thread : Away(v, s)
      BY <1>1, <2>2, <2>3, Unwatching, GotoQuiet, BeginQuiet
  <2> QED
      BY <2>1, <2>4, QuietOwn DEF Quiet
<1> QED
    BY <1>2, RecvPostQuiet, SendPostQuiet, QuietOwn, ReleaseOwn
       DEF WorkerStep

LEMMA NextPlayer ==
    ASSUME "tableFull" \notin Faults, TypeOK, CustodyInv, ChainInv,
           PlayerInv, [Next]_vars
    PROVE  PlayerInv'
<1>1. CASE UNCHANGED vars
  <2>1. Quiet
      BY <1>1, StillAway
         DEF Quiet, vars, sharedVars, otherVars, idVars, contentVars, ioVars,
             custodyVars
  <2> QED
      BY <2>1, QuietOwn
<1>2. ASSUME NEW w \in Workers, NEW s \in Slot, TakeCompletion(w, s)
      PROVE  PlayerInv'
    BY <1>2, RecvDoneOwn, OtherDoneQuiet, QuietOwn, LeaveDoneOwn
       DEF TakeCompletion, PlayerInv
<1>3. ASSUME NEW u \in Users, NEW id \in SessionID,
             HandleJobs(u, id) \/ \E o \in AllCalls : UserCall(u, id, o)
      PROVE  PlayerInv'
  <2>1. CASE HandleJobs(u, id)
      BY <2>1, TakenOwn DEF PlayerInv
  <2> QED
      BY <1>3, <2>1, FindValidQuiet, QuietOwn DEF UserCall, Thread
<1>4. ASSUME NEW u \in UdpThreads, NEW id \in SessionID, UdpReceive(u, id)
      PROVE  PlayerInv'
    BY <1>4, FindValidQuiet, QuietOwn DEF UdpReceive, Thread
<1>5. ASSUME NEW i \in Slot, Accept(i) PROVE PlayerInv'
    BY <1>5, AcceptOwn DEF PlayerInv
<1> QED
    BY <1>1, <1>2, <1>3, <1>4, <1>5, AcceptStepOwn, PeerQuiet,
       WorkerStepOwn, CallStepQuiet, QuietOwn DEF Next

LEMMA PlayerHolds ==
    ASSUME "tableFull" \notin Faults
    PROVE  Spec => []PlayerInv
<1>1. Init => PlayerInv
    BY InitPlayer
<1>2. TypeOK /\ CustodyInv /\ ChainInv /\ PlayerInv /\ [Next]_vars
      => PlayerInv'
    BY NextPlayer
<1> QED
    BY <1>1, <1>2, TypeCorrect, CustodyHolds, ChainHolds, PTL DEF Spec

\* What a content thread sees of a session (CThreadManager.cpp, the loops of
\* loginThread and gameThread): while its player lives the slot keeps its ID,
\* and the JobQueue that is found by the slot's index holds the jobs of that
\* session alone, LEAVE last, if no connection is accepted on a full table.
THEOREM PlayerKeepsSlot ==
    ASSUME "tableFull" \notin Faults
    PROVE  Spec => []PlayerOwnsSlot
<1>1. TypeOK /\ PlayerInv => PlayerOwnsSlot
  <2> SUFFICES ASSUME TypeOK, PlayerInv PROVE PlayerOwnsSlot
      OBVIOUS
  <2>1. ASSUME NEW id \in players PROVE sessionID[IndexOf(id)] = id
    <3>1. IndexOf(id) \in Slot
        BY Constants DEF TypeOK, ContentType
    <3> QED
        BY <3>1 DEF PlayerInv, Own, Keeps
  <2>2. ASSUME NEW s \in Slot PROVE Jobs(s)
      BY DEF PlayerInv, Own
  <2> QED
      BY <2>1, <2>2 DEF PlayerOwnsSlot, Jobs
<1> QED
    BY <1>1, TypeCorrect, PlayerHolds, PTL
=============================================================================
