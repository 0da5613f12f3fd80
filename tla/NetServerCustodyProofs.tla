------------------------ MODULE NetServerCustodyProofs ------------------------
(* A slot is in one place, whatever the number of slots, threads and       *)
(* connections, as long as no connection is accepted on a full table.      *)
EXTENDS NetServerProofs

-----------------------------------------------------------------------------
(* The inductive invariant, slot by slot.                                  *)

Incoming == {"a.ref", "a.valid"}

\* The session is valid, and the content has not heard of it yet.
Joining == {"a.flag", "a.reset", "a.join"}

\* Where a worker has won the swap on releaseFlag and not returned yet.
Claiming == {"r.id", "r.off", "r.close", "r.leave"}

\* The points at which a thread matters to this invariant or a later one.
Watched == Incoming \cup Joining \cup Claiming \cup {"r.count", "r.cas"}

Places(s) ==
    emptyIndexStack[s]
    + Cardinality(At(s, Incoming))
    + (IF isValid[s] THEN 1 ELSE 0)
    + Cardinality(At(s, {"r.leave"}))
    + Cardinality(Leaves(s))
    + hcp[s]["LEAVE"]

\* One worker at a time has claimed a session; until it has closed it, the
\* session is valid.
Claimed(s) ==
    /\ \A t, u \in At(s, Claiming) : t = u
    /\ \A t \in At(s, Claiming) :
           /\ releaseFlag[s] = DELFLAG_ON
           /\ isValid[s] \/ pc[t] = "r.leave"

\* The accept thread is about to clear the flag: the session is valid, and no
\* worker has claimed it or can do so.
Starting(s) ==
    slot[Acceptor] = s /\ pc[Acceptor] = "a.flag" =>
        /\ isValid[s]
        /\ At(s, Claiming) = {}
        /\ releaseFlag[s] = DELFLAG_OFF =>
               \A t \in At(s, {"r.cas"}) : tempCount[t] # 0

\* A slot that is not valid has its flag set, or was never used.
Unused(s) ==
    ~isValid[s] /\ releaseFlag[s] = DELFLAG_OFF =>
        At(s, {"r.count", "r.cas"}) = {}

\* A count that was read cannot be taken for DELFLAG_ON.
CountRead(s) == \A t \in At(s, {"r.cas"}) : tempCount[t] >= 0

\* LEAVE finds the way back through the slot's ID.
IndexKept(s) == emptyIndexStack[s] = 0 => IndexOf(sessionID[s]) = s

Custody(s) == /\ Places(s) = 1 /\ Claimed(s) /\ Starting(s) /\ Unused(s)
              /\ CountRead(s) /\ IndexKept(s)

CustodyInv == \A s \in Slot : Custody(s)

-----------------------------------------------------------------------------
(* Counting.                                                               *)

LEMMA AtCounts ==
    ASSUME NEW s, NEW points
    PROVE  /\ Cardinality(At(s, points)) \in Nat
           /\ Cardinality(At(s, points)) = 0 <=> At(s, points) = {}
<1>1. IsFiniteSet(At(s, points))
    BY ThreadsFinite, FS_Subset DEF At
<1> QED
    BY <1>1, FS_CardinalityType, FS_EmptySet

LEMMA LeavesCount ==
    ASSUME ContentType, NEW s \in Slot
    PROVE  /\ IsFiniteSet(Leaves(s))
           /\ Cardinality(Leaves(s)) \in Nat
           /\ Cardinality(Leaves(s)) = 0 <=> Leaves(s) = {}
<1>1. Len(JobQueue[s]) \in Nat
    BY DEF ContentType
<1>2. IsFiniteSet(1 .. Len(JobQueue[s]))
    BY <1>1, FS_Interval
<1>3. IsFiniteSet(Leaves(s))
    BY <1>2, FS_Subset DEF Leaves
<1> QED
    BY <1>3, FS_CardinalityType, FS_EmptySet

\* What is in one place is in no other.
LEMMA Elsewhere ==
    ASSUME TypeOK, NEW s \in Slot, Places(s) = 1
    PROVE  /\ emptyIndexStack[s] \in Nat /\ hcp[s]["LEAVE"] \in Nat
           /\ emptyIndexStack[s] > 0 =>
                  /\ emptyIndexStack[s] = 1 /\ ~isValid[s]
                  /\ hcp[s]["LEAVE"] = 0 /\ Leaves(s) = {}
                  /\ At(s, Incoming) = {} /\ At(s, {"r.leave"}) = {}
           /\ At(s, Incoming) # {} =>
                  ~isValid[s] /\ At(s, {"r.leave"}) = {}
           /\ hcp[s]["LEAVE"] > 0 => emptyIndexStack[s] = 0
           /\ Leaves(s) # {} => Cardinality(Leaves(s)) = 1
<1>1. /\ emptyIndexStack[s] \in Nat /\ hcp[s]["LEAVE"] \in Nat
      /\ ContentType
    BY DEF TypeOK, IdType, IoType, Port, Completion
<1>2. /\ Cardinality(At(s, Incoming)) \in Nat
      /\ Cardinality(At(s, Incoming)) = 0 <=> At(s, Incoming) = {}
    BY AtCounts
<1>3. /\ Cardinality(At(s, {"r.leave"})) \in Nat
      /\ Cardinality(At(s, {"r.leave"})) = 0 <=> At(s, {"r.leave"}) = {}
    BY AtCounts
<1>4. /\ Cardinality(Leaves(s)) \in Nat
      /\ Cardinality(Leaves(s)) = 0 <=> Leaves(s) = {}
    BY <1>1, LeavesCount
<1> QED
    BY <1>1, <1>2, <1>3, <1>4 DEF Places

-----------------------------------------------------------------------------
(* Steps that leave a slot alone.                                          *)

\* The thread stays where it is, or has nothing to do with the slot.
Away(t, s) ==
    \/ /\ pc'[t] = pc[t] /\ slot'[t] = slot[t]
       /\ sid'[t] = sid[t] /\ tempCount'[t] = tempCount[t]
    \/ /\ ~(slot[t] = s /\ pc[t] \in Watched)
       /\ ~(slot'[t] = s /\ pc'[t] \in Watched)

Same(s) ==
    /\ emptyIndexStack'[s] = emptyIndexStack[s]
    /\ sessionID'[s] = sessionID[s]
    /\ isValid'[s] = isValid[s]
    /\ releaseFlag'[s] = releaseFlag[s]
    /\ hcp'[s]["LEAVE"] = hcp[s]["LEAVE"]
    /\ Leaves(s)' = Leaves(s)

\* The same threads are at the given points, and where they were.
Kept(s, points) ==
    /\ At(s, points)' = At(s, points)
    /\ \A t \in At(s, points) :
           pc'[t] = pc[t] /\ tempCount'[t] = tempCount[t]

\* What each part of the invariant depends on.
LEMMA KeptParts ==
    ASSUME NEW s
    PROVE  /\ /\ Places(s) = 1 /\ Same(s)
              /\ Kept(s, Incoming) /\ Kept(s, {"r.leave"})
              => Places(s)' = 1
           /\ /\ Claimed(s) /\ Kept(s, Claiming)
              /\ isValid'[s] = isValid[s] /\ releaseFlag'[s] = releaseFlag[s]
              => Claimed(s)'
           /\ /\ Unused(s) /\ Kept(s, {"r.count", "r.cas"})
              /\ isValid'[s] = isValid[s] /\ releaseFlag'[s] = releaseFlag[s]
              => Unused(s)'
           /\ CountRead(s) /\ Kept(s, {"r.cas"}) => CountRead(s)'
           /\ IndexKept(s) /\ Same(s) => IndexKept(s)'
<1>1. ASSUME Places(s) = 1, Same(s), Kept(s, Incoming), Kept(s, {"r.leave"})
      PROVE  Places(s)' = 1
    BY <1>1 DEF Places, Same, Kept, Incoming
<1>2. ASSUME Claimed(s), Kept(s, Claiming), isValid'[s] = isValid[s],
             releaseFlag'[s] = releaseFlag[s]
      PROVE  Claimed(s)'
    BY <1>2 DEF Claimed, Kept, Claiming
<1>3. ASSUME Unused(s), Kept(s, {"r.count", "r.cas"}),
             isValid'[s] = isValid[s], releaseFlag'[s] = releaseFlag[s]
      PROVE  Unused(s)'
    BY <1>3 DEF Unused, Kept
<1>4. ASSUME CountRead(s), Kept(s, {"r.cas"}) PROVE CountRead(s)'
    BY <1>4 DEF CountRead, Kept
<1>5. ASSUME IndexKept(s), Same(s) PROVE IndexKept(s)'
    BY <1>5 DEF IndexKept, Same
<1> QED
    BY <1>1, <1>2, <1>3, <1>4, <1>5

LEMMA SlotFrame ==
    ASSUME NEW s \in Slot, Custody(s), Same(s),
           \A t \in Thread : Away(t, s)
    PROVE  Custody(s)'
<1>1. \A points \in SUBSET Watched : Kept(s, points)
    BY DEF At, Away, Kept
<1>2. /\ Kept(s, Incoming) /\ Kept(s, Claiming) /\ Kept(s, {"r.leave"})
      /\ Kept(s, {"r.cas"}) /\ Kept(s, {"r.count", "r.cas"})
    BY <1>1 DEF Watched, Incoming, Joining, Claiming
<1>3. Starting(s)'
  <2>1. Acceptor \in Thread /\ "a.flag" \in Watched
      BY DEF Thread, Watched, Joining
  <2>2. slot'[Acceptor] = s /\ pc'[Acceptor] = "a.flag" =>
            slot[Acceptor] = s /\ pc[Acceptor] = "a.flag"
      BY <2>1 DEF Away
  <2> QED
      BY <1>2, <2>2 DEF Custody, Starting, Same, Kept, Claiming
<1> QED
    BY <1>2, <1>3, KeptParts DEF Custody, Same

LEMMA GotoAway ==
    ASSUME LocalType, NEW t \in Thread, NEW p, Goto(t, p), NEW s \in Slot,
           s = slot[t] => pc[t] \notin Watched /\ p \notin Watched
    PROVE  \A v \in Thread : Away(v, s)
<1>1. "idle" \notin Watched
    BY DEF Watched, Incoming, Joining, Claiming
<1> QED
    BY <1>1 DEF Goto, Begin, LocalType, localVars, Away

LEMMA BeginAway ==
    ASSUME LocalType, NEW t \in Thread, NEW p, NEW a, NEW id, NEW o,
           Begin(t, p, a, id, o), NEW s \in Slot,
           s = slot[t] => pc[t] \notin Watched,
           s = a => p \notin Watched
    PROVE  \A v \in Thread : Away(v, s)
    BY DEF Begin, LocalType, Away

LEMMA StillAway ==
    ASSUME UNCHANGED <<pc, localVars>>, NEW s
    PROVE  \A v \in Thread : Away(v, s)
    BY DEF localVars, Away

LEMMA SameLeaves ==
    ASSUME NEW s, JobQueue'[s] = JobQueue[s]
    PROVE  Leaves(s)' = Leaves(s)
    BY DEF Leaves

\* The shared variables the invariant speaks of, but for the port.
custodyVars == <<emptyIndexStack, sessionID, flagVars, JobQueue, players>>

LEMMA SameSlot ==
    ASSUME NEW s, UNCHANGED custodyVars, hcp'[s]["LEAVE"] = hcp[s]["LEAVE"]
    PROVE  Same(s)
    BY SameLeaves DEF custodyVars, flagVars, Same

\* Nothing but LEAVE changes how many of these wait in the port.
LEMMA CancelLeave ==
    ASSUME NEW r, NEW kinds, NEW port \in Port, CancelIo(r, kinds, port),
           NEW s \in Slot
    PROVE  hcp'[s]["LEAVE"] = port[s]["LEAVE"]
    BY DEF CancelIo, Port, Completion
LEMMA OtherLeave ==
    ASSUME hcp \in Port, NEW r \in Slot, NEW c \in Completion \ {"LEAVE"},
           NEW s \in Slot
    PROVE  /\ Without(r, c)[s]["LEAVE"] = hcp[s]["LEAVE"]
           /\ Take(r, c) \/ Post(r, c) => hcp'[s]["LEAVE"] = hcp[s]["LEAVE"]
    BY DEF Take, Post, Without, Port, Completion

-----------------------------------------------------------------------------
(* A step of one thread, seen from its slot.                               *)

LEMMA GotoAt ==
    ASSUME LocalType, NEW t \in Thread, NEW p, Goto(t, p),
           NEW s \in Slot, s = slot[t]
    PROVE  /\ pc'[t] = p
           /\ \A v \in Thread \ {t} : /\ pc'[v] = pc[v] /\ slot'[v] = slot[v]
                                      /\ tempCount'[v] = tempCount[v]
           /\ \A points : "idle" \notin points =>
                  At(s, points)' = IF p \in points THEN At(s, points) \cup {t}
                                                   ELSE At(s, points) \ {t}
<1>1. /\ pc'[t] = p
      /\ \A v \in Thread \ {t} : /\ pc'[v] = pc[v] /\ slot'[v] = slot[v]
                                 /\ tempCount'[v] = tempCount[v]
    BY DEF Goto, Begin, LocalType, localVars
<1>2. p # "idle" => slot'[t] = slot[t]
    BY DEF Goto, localVars
<1>3. ASSUME NEW points, "idle" \notin points
      PROVE  At(s, points)' = IF p \in points THEN At(s, points) \cup {t}
                                              ELSE At(s, points) \ {t}
    BY <1>1, <1>2, <1>3 DEF At
<1> QED
    BY <1>1, <1>3

LEMMA GotoKept ==
    ASSUME LocalType, NEW t \in Thread, NEW p, Goto(t, p),
           NEW s \in Slot, s = slot[t],
           NEW points, {"idle", pc[t], p} \cap points = {}
    PROVE  Kept(s, points)
<1>1. /\ pc'[t] = p
      /\ \A v \in Thread \ {t} : /\ pc'[v] = pc[v] /\ slot'[v] = slot[v]
                                 /\ tempCount'[v] = tempCount[v]
    BY GotoAt
<1> QED
    BY <1>1 DEF At, Kept

LEMMA GotoCounts ==
    ASSUME LocalType, NEW t \in Thread, NEW p, Goto(t, p),
           NEW s \in Slot, s = slot[t], NEW points, "idle" \notin points
    PROVE  /\ Cardinality(At(s, points)) \in Nat
           /\ Cardinality(At(s, points)') =
                  Cardinality(At(s, points))
                  - (IF pc[t] \in points THEN 1 ELSE 0)
                  + (IF p \in points THEN 1 ELSE 0)
<1>1. /\ \A v \in Thread \ {t} : pc'[v] = pc[v] /\ slot'[v] = slot[v]
      /\ pc'[t] = p /\ (p # "idle" => slot'[t] = slot[t])
    BY DEF Goto, Begin, LocalType, localVars
<1> QED
    BY <1>1, OneMoves

-----------------------------------------------------------------------------
(* AcceptThread.                                                           *)

LEMMA AcceptCustody ==
    ASSUME TypeOK, CustodyInv, "tableFull" \notin Faults,
           NEW i \in Slot, Accept(i)
    PROVE  CustodyInv'
<1> SUFFICES ASSUME NEW s \in Slot PROVE Custody(s)'
    BY DEF CustodyInv
<1>1. /\ Acceptor \in Thread /\ LocalType /\ Custody(s) /\ Custody(i)
      /\ Begin(Acceptor, "a.ref", i, ZeroID, "open")
    BY DEF Thread, TypeOK, CustodyInv, Accept
<1>2. /\ pc[Acceptor] = "idle" /\ emptyIndexStack[i] > 0
      /\ emptyIndexStack' = [emptyIndexStack EXCEPT ![i] = @ - 1]
      /\ sessionID' = [sessionID EXCEPT ![i] = <<sessionAllocNum, i>>]
      /\ UNCHANGED <<flagVars, hcp, JobQueue>>
    BY DEF Accept, ioVars, contentVars
<1>3. "idle" \notin Watched
    BY DEF Watched, Incoming, Joining, Claiming
<1>4. CASE s # i
  <2>1. Same(s)
      BY <1>2, <1>4, SameLeaves DEF TypeOK, IdType, flagVars, Same
  <2> QED
      BY <1>1, <1>2, <1>3, <1>4, <2>1, SlotFrame, BeginAway
<1>5. CASE s = i
  <2>1. /\ emptyIndexStack[s] = 1 /\ ~isValid[s] /\ hcp[s]["LEAVE"] = 0
        /\ Leaves(s) = {} /\ At(s, Incoming) = {} /\ At(s, {"r.leave"}) = {}
      BY <1>1, <1>2, <1>5, Elsewhere DEF Custody
  <2>2. /\ pc'[Acceptor] = "a.ref" /\ slot'[Acceptor] = s
        /\ \A v \in Thread \ {Acceptor} :
               /\ pc'[v] = pc[v] /\ slot'[v] = slot[v]
               /\ tempCount'[v] = tempCount[v]
      BY <1>1, <1>5 DEF Begin, LocalType
  <2>3. /\ Kept(s, Claiming) /\ Kept(s, {"r.leave"}) /\ Kept(s, {"r.cas"})
        /\ Kept(s, {"r.count", "r.cas"})
      BY <1>2, <2>2 DEF At, Kept, Claiming
  <2>4. /\ emptyIndexStack'[s] = 0 /\ sessionID'[s] = <<sessionAllocNum, s>>
        /\ isValid'[s] = isValid[s] /\ releaseFlag'[s] = releaseFlag[s]
        /\ hcp'[s]["LEAVE"] = 0 /\ Leaves(s)' = {}
      BY <1>2, <1>5, <2>1, SameLeaves DEF TypeOK, IdType, flagVars
  <2>5. Places(s)' = 1
    <3>1. At(s, Incoming)' = {Acceptor}
        BY <1>1, <1>2, <2>1, <2>2 DEF At, Incoming
    <3>2. At(s, {"r.leave"})' = {}
        BY <2>1, <2>3 DEF Kept
    <3>3. /\ Cardinality(At(s, Incoming)') = 1
          /\ Cardinality(At(s, {"r.leave"})') = 0
          /\ Cardinality(Leaves(s)') = 0
        BY <2>4, <3>1, <3>2, FS_EmptySet, FS_Singleton
    <3>4. Places(s)' = emptyIndexStack'[s] + Cardinality(At(s, Incoming)')
                       + (IF isValid'[s] THEN 1 ELSE 0)
                       + Cardinality(At(s, {"r.leave"})')
                       + Cardinality(Leaves(s)') + hcp'[s]["LEAVE"]
        BY DEF Places, Incoming
    <3> QED
        BY <2>1, <2>4, <3>3, <3>4
  <2>6. Starting(s)'
      BY <2>2 DEF Starting
  <2>7. IndexKept(s)'
      BY <2>4 DEF IndexKept, IndexOf
  <2> QED
      BY <1>1, <2>3, <2>4, <2>5, <2>6, <2>7, KeptParts DEF Custody
<1> QED
    BY <1>4, <1>5

LEMMA AcceptStepCustody ==
    ASSUME TypeOK, CustodyInv, AcceptStep
    PROVE  CustodyInv'
<1> SUFFICES ASSUME NEW s \in Slot PROVE Custody(s)'
    BY DEF CustodyInv
<1> DEFINE a == Acceptor
<1>t. /\ a \in Thread /\ LocalType /\ slot[a] \in Slot /\ Custody(s)
    BY DEF Thread, TypeOK, LocalType, CustodyInv
<1>1. CASE AcceptReset \/ AcceptJoin \/ AcceptRecv
  <2>1. PICK p \in {"a.join", "a.recv", "idle"} : Goto(a, p)
      BY <1>1 DEF AcceptReset, AcceptJoin, AcceptRecv
  <2>2. pc[a] \in {"a.reset", "a.join", "a.recv"} /\ Same(s)
      BY <1>1, SameLeaves
         DEF AcceptReset, AcceptJoin, AcceptRecv, otherVars, idVars, ioVars,
             flagVars, contentVars, Same
  <2>3. CASE s # slot[a]
      BY <1>t, <2>1, <2>2, <2>3, SlotFrame, GotoAway
  <2>4. CASE s = slot[a]
    <3>1. /\ Kept(s, Claiming) /\ Kept(s, {"r.leave"}) /\ Kept(s, {"r.cas"})
          /\ Kept(s, {"r.count", "r.cas"}) /\ Kept(s, Incoming)
        BY <1>t, <2>1, <2>2, <2>4, GotoKept DEF Claiming, Incoming
    <3>2. Starting(s)'
        BY <1>t, <2>1, <2>4, GotoAt DEF Starting
    <3> QED
        BY <1>t, <2>2, <3>1, <3>2, KeptParts DEF Custody, Same
  <2> QED
      BY <2>3, <2>4
<1>2. CASE AcceptRef
  <2>1. pc[a] = "a.ref" /\ Goto(a, "a.valid") /\ Same(s)
      BY <1>2, SameSlot DEF AcceptRef, otherVars, idVars, contentVars, ioVars,
                            custodyVars
  <2>2. CASE s # slot[a]
      BY <1>t, <2>1, <2>2, SlotFrame, GotoAway
  <2>3. CASE s = slot[a]
    <3>1. /\ Kept(s, Claiming) /\ Kept(s, {"r.leave"}) /\ Kept(s, {"r.cas"})
          /\ Kept(s, {"r.count", "r.cas"})
        BY <1>t, <2>1, <2>3, GotoKept DEF Claiming
    <3>2. Places(s)' = 1
      <4>1. Cardinality(At(s, Incoming)') = Cardinality(At(s, Incoming))
          BY <1>t, <2>1, <2>3, GotoCounts DEF Incoming
      <4> QED
          BY <1>t, <2>1, <3>1, <4>1 DEF Custody, Places, Same, Kept, Incoming
    <3>3. Starting(s)'
        BY <1>t, <2>1, <2>3, GotoAt DEF Starting
    <3> QED
        BY <1>t, <2>1, <3>1, <3>2, <3>3, KeptParts DEF Custody, Same
  <2> QED
      BY <2>2, <2>3
<1>3. CASE AcceptValid
  <2>1. /\ pc[a] = "a.valid" /\ Goto(a, "a.flag")
        /\ isValid' = [isValid EXCEPT ![slot[a]] = TRUE]
        /\ UNCHANGED <<emptyIndexStack, sessionID, releaseFlag, JobQueue, hcp>>
      BY <1>3 DEF AcceptValid, otherVars, idVars, contentVars, ioVars
  <2>2. CASE s # slot[a]
    <3>1. Same(s)
        BY <2>1, <2>2, SameLeaves DEF TypeOK, FlagType, Same
    <3> QED
        BY <1>t, <2>1, <2>2, <3>1, SlotFrame, GotoAway
  <2>3. CASE s = slot[a]
    <3>1. /\ Kept(s, Claiming) /\ Kept(s, {"r.leave"}) /\ Kept(s, {"r.cas"})
        BY <1>t, <2>1, <2>3, GotoKept DEF Claiming
    <3>2. /\ ~isValid[s] /\ isValid'[s] = TRUE /\ At(s, {"r.leave"}) = {}
      <4>1. At(s, Incoming) # {}
          BY <1>t, <2>1, <2>3 DEF At, Incoming
      <4> QED
          BY <1>t, <2>1, <2>3, <4>1, Elsewhere DEF Custody, TypeOK, FlagType
    <3>3. At(s, Claiming) = {} /\ At(s, Claiming)' = {}
        BY <1>t, <3>1, <3>2 DEF Custody, Claimed, At, Kept
    <3>4. Places(s)' = 1
      <4>1. /\ Cardinality(At(s, Incoming)) \in Nat
            /\ Cardinality(At(s, Incoming)') =
                   Cardinality(At(s, Incoming)) - 1
          BY <1>t, <2>1, <2>3, GotoCounts DEF Incoming
      <4>2. Places(s)' = emptyIndexStack[s] + Cardinality(At(s, Incoming)')
                         + 1 + Cardinality(At(s, {"r.leave"}))
                         + Cardinality(Leaves(s)) + hcp[s]["LEAVE"]
          BY <2>1, <3>1, <3>2, SameLeaves DEF Places, Incoming, Kept
      <4>3. Places(s) = emptyIndexStack[s] + Cardinality(At(s, Incoming))
                        + 0 + Cardinality(At(s, {"r.leave"}))
                        + Cardinality(Leaves(s)) + hcp[s]["LEAVE"]
          BY <3>2 DEF Places
      <4> QED
          BY <1>t, <4>1, <4>2, <4>3, AtCounts, LeavesCount, Elsewhere
             DEF TypeOK, Custody
    <3>5. Claimed(s)'
        BY <3>3 DEF Claimed
    <3>6. Starting(s)'
      <4>1. releaseFlag[s] = DELFLAG_OFF => At(s, {"r.cas"})' = {}
          BY <1>t, <3>1, <3>2 DEF Custody, Unused, At, Kept
      <4> QED
          BY <2>1, <3>2, <3>3, <4>1 DEF Starting
    <3>7. Unused(s)' /\ IndexKept(s)'
        BY <1>t, <2>1, <3>2 DEF Custody, Unused, IndexKept
    <3> QED
        BY <1>t, <3>1, <3>4, <3>5, <3>6, <3>7, KeptParts DEF Custody
  <2> QED
      BY <2>2, <2>3
<1>4. CASE AcceptFlag
  <2>1. /\ pc[a] = "a.flag" /\ Goto(a, "a.reset")
        /\ releaseFlag' = [releaseFlag EXCEPT ![slot[a]] = DELFLAG_OFF]
        /\ UNCHANGED <<emptyIndexStack, sessionID, isValid, JobQueue, hcp>>
      BY <1>4 DEF AcceptFlag, otherVars, idVars, contentVars, ioVars
  <2>2. CASE s # slot[a]
    <3>1. Same(s)
        BY <2>1, <2>2, SameLeaves DEF TypeOK, FlagType, Same
    <3> QED
        BY <1>t, <2>1, <2>2, <3>1, SlotFrame, GotoAway
  <2>3. CASE s = slot[a]
    <3>1. /\ Kept(s, Claiming) /\ Kept(s, {"r.leave"}) /\ Kept(s, {"r.cas"})
          /\ Kept(s, Incoming)
        BY <1>t, <2>1, <2>3, GotoKept DEF Claiming, Incoming
    <3>2. isValid[s] /\ At(s, Claiming) = {}
        BY <1>t, <2>1, <2>3 DEF Custody, Starting
    <3>3. Places(s)' = 1
        BY <1>t, <2>1, <3>1, SameLeaves DEF Custody, Places, Kept, Incoming
    <3>4. Claimed(s)'
        BY <3>1, <3>2 DEF Claimed, Kept
    <3>5. Starting(s)'
        BY <1>t, <2>1, <2>3, GotoAt DEF Starting
    <3>6. Unused(s)' /\ IndexKept(s)'
        BY <1>t, <2>1, <3>2 DEF Custody, Unused, IndexKept
    <3> QED
        BY <1>t, <3>1, <3>3, <3>4, <3>5, <3>6, KeptParts DEF Custody
  <2> QED
      BY <2>2, <2>3
<1> QED
    BY <1>1, <1>2, <1>3, <1>4 DEF AcceptStep

-----------------------------------------------------------------------------
(* releaseSession.                                                         *)

LEMMA ReleaseCountCustody ==
    ASSUME TypeOK, RefAccounting, CustodyInv, NEW w \in Workers,
           ReleaseCount(w)
    PROVE  CustodyInv'
<1> SUFFICES ASSUME NEW s \in Slot PROVE Custody(s)'
    BY DEF CustodyInv
<1>1. /\ w \in Thread /\ w # Acceptor /\ LocalType /\ Custody(s)
      /\ pc[w] = "r.count" /\ pc' = [pc EXCEPT ![w] = "r.cas"]
      /\ tempCount' = [tempCount EXCEPT ![w] = IOcount[slot[w]]]
      /\ UNCHANGED <<slot, sid>>
    BY ThreadAssumption DEF Thread, TypeOK, CustodyInv, ReleaseCount
<1>2. Same(s)
    BY SameSlot DEF ReleaseCount, sharedVars, otherVars, idVars, contentVars,
                    ioVars, custodyVars
<1>3. CASE s # slot[w]
  <2>1. \A v \in Thread : Away(v, s)
      BY <1>1, <1>3 DEF LocalType, Away
  <2> QED
      BY <1>1, <1>2, <2>1, SlotFrame
<1>4. CASE s = slot[w]
  <2>1. Kept(s, Claiming) /\ Kept(s, {"r.leave"}) /\ Kept(s, Incoming)
      BY <1>1 DEF LocalType, At, Kept, Claiming, Incoming
  <2>2. /\ At(s, {"r.count", "r.cas"})' = At(s, {"r.count", "r.cas"})
        /\ At(s, {"r.cas"})' = At(s, {"r.cas"}) \cup {w}
        /\ tempCount'[w] = IOcount[s]
        /\ \A v \in At(s, {"r.cas"}) : tempCount'[v] = tempCount[v]
      BY <1>1, <1>4 DEF LocalType, At
  <2>3. IOcount[s] >= 0 /\ IOcount[s] \in Int
      BY Before, HeldNat
  <2>4. Starting(s)'
    <3> SUFFICES ASSUME slot[Acceptor] = s, pc[Acceptor] = "a.flag"
                 PROVE  Starting(s)'
        BY <1>1 DEF LocalType, Starting
    <3>1. Held(s) > 0
      <4>1. At(s, Holding) # {}
          BY DEF At, Holding, Thread
      <4>2. Cardinality(At(s, Holding)) \in Nat \ {0}
          BY <4>1, AtCounts
      <4>3. Cardinality(At(s, HoldingTwo)) \in Nat
          BY AtCounts
      <4> QED
          BY <4>2, <4>3 DEF Held
    <3>2. IOcount[s] # 0
        BY <3>1, Before, HeldNat
    <3> QED
        BY <1>1, <1>2, <2>1, <2>2, <3>2
           DEF Custody, Starting, Same, Kept, Claiming
  <2>5. Unused(s)'
      BY <1>1, <1>2, <2>2 DEF Custody, Unused, Same
  <2>6. CountRead(s)'
      BY <1>1, <2>2, <2>3 DEF Custody, CountRead
  <2> QED
      BY <1>1, <1>2, <2>1, <2>4, <2>5, <2>6, KeptParts DEF Custody, Same
<1> QED
    BY <1>3, <1>4

\* The swap succeeds only on a session that is valid and unclaimed.
LEMMA ReleaseCasCustody ==
    ASSUME TypeOK, CustodyInv, NEW w \in Workers, ReleaseCas(w)
    PROVE  CustodyInv'
<1> SUFFICES ASSUME NEW s \in Slot PROVE Custody(s)'
    BY DEF CustodyInv
<1>1. /\ w \in Thread /\ w # Acceptor /\ LocalType /\ Custody(s)
      /\ slot[w] \in Slot /\ pc[w] = "r.cas" /\ tempCount[w] \in Int
    BY ThreadAssumption
       DEF Thread, TypeOK, LocalType, CustodyInv, ReleaseCas
<1>2. UNCHANGED <<emptyIndexStack, sessionID, isValid, JobQueue, hcp>>
    BY DEF ReleaseCas, idVars, ioVars, contentVars
<1>3. CASE releaseFlag[slot[w]] # tempCount[w]
  <2>1. Goto(w, "idle") /\ UNCHANGED releaseFlag
      BY <1>3 DEF ReleaseCas
  <2>2. Same(s)
      BY <1>2, <2>1, SameLeaves DEF Same
  <2>3. CASE s # slot[w]
      BY <1>1, <2>1, <2>2, <2>3, SlotFrame, GotoAway
  <2>4. CASE s = slot[w]
    <3>1. Kept(s, Claiming) /\ Kept(s, {"r.leave"}) /\ Kept(s, Incoming)
        BY <1>1, <2>1, <2>4, GotoKept DEF Claiming, Incoming
    <3>2. /\ At(s, {"r.count", "r.cas"})' = At(s, {"r.count", "r.cas"}) \ {w}
          /\ At(s, {"r.cas"})' = At(s, {"r.cas"}) \ {w}
          /\ \A v \in Thread \ {w} :
                 /\ pc'[v] = pc[v] /\ slot'[v] = slot[v]
                 /\ tempCount'[v] = tempCount[v]
      <4>1. /\ pc'[w] = "idle"
            /\ \A v \in Thread \ {w} :
                   /\ pc'[v] = pc[v] /\ slot'[v] = slot[v]
                   /\ tempCount'[v] = tempCount[v]
          BY <1>1, <2>1, <2>4, GotoAt
      <4> QED
          BY <4>1 DEF At
    <3>3. \A v \in At(s, {"r.cas"})' :
              v \in At(s, {"r.cas"}) /\ tempCount'[v] = tempCount[v]
        BY <3>2 DEF At
    <3>4. Starting(s)'
        BY <1>1, <2>2, <3>1, <3>2, <3>3
           DEF Custody, Starting, Same, Kept, Claiming, Thread
    <3>5. Unused(s)' /\ CountRead(s)'
        BY <1>1, <2>2, <3>2, <3>3 DEF Custody, Unused, CountRead, Same
    <3> QED
        BY <1>1, <2>2, <3>1, <3>4, <3>5, KeptParts DEF Custody, Same
  <2> QED
      BY <2>3, <2>4
<1>4. CASE releaseFlag[slot[w]] = tempCount[w]
  <2>1. /\ releaseFlag' = [releaseFlag EXCEPT ![slot[w]] = DELFLAG_ON]
        /\ Goto(w, "r.id")
      BY <1>4 DEF ReleaseCas
  <2>2. CASE s # slot[w]
    <3>1. Same(s)
        BY <1>2, <2>1, <2>2, SameLeaves DEF TypeOK, FlagType, Same
    <3> QED
        BY <1>1, <2>1, <2>2, <3>1, SlotFrame, GotoAway
  <2>3. CASE s = slot[w]
    <3>1. /\ releaseFlag[s] = DELFLAG_OFF /\ tempCount[w] = 0
          /\ releaseFlag'[s] = DELFLAG_ON
      <4>1. w \in At(s, {"r.cas"})
          BY <1>1, <2>3 DEF At
      <4>2. tempCount[w] >= 0
          BY <1>1, <4>1 DEF Custody, CountRead
      <4>3. releaseFlag[s] \in {0, -1}
          BY DEF TypeOK, FlagType, DELFLAG_ON, DELFLAG_OFF
      <4> QED
          BY <1>1, <1>4, <2>1, <2>3, <4>2, <4>3
             DEF TypeOK, FlagType, DELFLAG_OFF
    <3>2. isValid[s]
        BY <1>1, <2>3, <3>1 DEF Custody, Unused, At
    <3>3. At(s, Claiming) = {}
        BY <1>1, <3>1 DEF Custody, Claimed, At, DELFLAG_OFF, DELFLAG_ON
    <3>4. ~(slot[Acceptor] = s /\ pc[Acceptor] = "a.flag")
        BY <1>1, <2>3, <3>1 DEF Custody, Starting, At
    <3>5. /\ At(s, Claiming)' = {w}
          /\ At(s, {"r.cas"})' = At(s, {"r.cas"}) \ {w}
          /\ pc'[w] = "r.id"
          /\ \A v \in Thread \ {w} :
                 /\ pc'[v] = pc[v] /\ slot'[v] = slot[v]
                 /\ tempCount'[v] = tempCount[v]
        BY <1>1, <2>1, <2>3, <3>3, GotoAt DEF Claiming
    <3>6. Kept(s, {"r.leave"}) /\ Kept(s, Incoming)
        BY <1>1, <2>1, <2>3, GotoKept DEF Incoming
    <3>7. Places(s)' = 1
        BY <1>1, <1>2, <3>6, SameLeaves DEF Custody, Places, Kept, Incoming
    <3>8. Claimed(s)'
        BY <1>2, <3>1, <3>2, <3>5 DEF Claimed
    <3>9. Starting(s)'
        BY <1>1, <3>4, <3>5 DEF Starting, Thread
    <3>10. Unused(s)' /\ IndexKept(s)'
        BY <1>1, <1>2, <3>1
           DEF Custody, Unused, IndexKept, DELFLAG_OFF, DELFLAG_ON
    <3>11. CountRead(s)'
        BY <1>1, <3>5 DEF Custody, CountRead, At
    <3> QED
        BY <3>7, <3>8, <3>9, <3>10, <3>11 DEF Custody
  <2> QED
      BY <2>2, <2>3
<1> QED
    BY <1>3, <1>4

\* What a worker that has claimed the session of a slot can rely on.
LEMMA Claimer ==
    ASSUME NEW s \in Slot, Custody(s), NEW w \in Workers, slot[w] = s,
           pc[w] \in Claiming
    PROVE  /\ At(s, Claiming) = {w} /\ releaseFlag[s] = DELFLAG_ON
           /\ isValid[s] \/ pc[w] = "r.leave"
           /\ ~(slot[Acceptor] = s /\ pc[Acceptor] = "a.flag")
<1>1. w \in At(s, Claiming)
    BY DEF At, Thread
<1> QED
    BY <1>1 DEF Custody, Claimed, Starting

LEMMA PushJobLeaves ==
    ASSUME ContentType, NEW r \in Slot, NEW type, PushJob(r, type),
           NEW s \in Slot
    PROVE  /\ s # r \/ type = "RECV" => Leaves(s)' = Leaves(s)
           /\ s = r /\ type = "LEAVE" =>
                  Cardinality(Leaves(s)') = Cardinality(Leaves(s)) + 1
<1> DEFINE q == JobQueue[s]
           job == JobOf(type, sessionID[r])
<1>1. /\ q \in Seq(Job) /\ Len(q) \in Nat
      /\ JobQueue'[s] = IF s = r THEN Append(q, job) ELSE q
    BY DEF ContentType, PushJob
<1>2. CASE s # r
    BY <1>1, <1>2, SameLeaves
<1>3. CASE s = r
  <2>1. /\ Len(JobQueue'[s]) = Len(q) + 1
        /\ \A i \in 1 .. Len(q) : JobQueue'[s][i] = q[i]
        /\ JobQueue'[s][Len(q) + 1] = job
      BY <1>1, <1>3
  <2>2. job.type = type
      BY DEF JobOf
  <2>3. type = "RECV" => Leaves(s)' = Leaves(s)
      BY <1>1, <2>1, <2>2 DEF Leaves
  <2>4. ASSUME type = "LEAVE"
        PROVE  Cardinality(Leaves(s)') = Cardinality(Leaves(s)) + 1
    <3>1. /\ Leaves(s)' = Leaves(s) \cup {Len(q) + 1}
          /\ Len(q) + 1 \notin Leaves(s)
        BY <1>1, <2>1, <2>2, <2>4 DEF Leaves
    <3> QED
        BY <3>1, LeavesCount, FS_AddElement
  <2> QED
      BY <1>3, <2>3, <2>4
<1> QED
    BY <1>2, <1>3

LEMMA ReleaseIDCustody ==
    ASSUME TypeOK, CustodyInv, NEW w \in Workers, ReleaseID(w)
    PROVE  CustodyInv'
<1> SUFFICES ASSUME NEW s \in Slot PROVE Custody(s)'
    BY DEF CustodyInv
<1>1. /\ w \in Thread /\ w # Acceptor /\ LocalType /\ Custody(s)
      /\ slot[w] \in Slot /\ pc[w] = "r.id"
    BY ThreadAssumption
       DEF Thread, TypeOK, LocalType, CustodyInv, ReleaseID
<1>2. Same(s)
    BY SameSlot
       DEF ReleaseID, otherVars, idVars, contentVars, ioVars, custodyVars
<1>3. /\ pc'[w] \in {"r.close", "r.off"} /\ slot'[w] = slot[w]
      /\ \A v \in Thread \ {w} :
             /\ pc'[v] = pc[v] /\ slot'[v] = slot[v]
             /\ sid'[v] = sid[v] /\ tempCount'[v] = tempCount[v]
    BY <1>1 DEF ReleaseID, Goto, Begin, LocalType, localVars
<1>4. CASE s # slot[w]
  <2>1. \A v \in Thread : Away(v, s)
      BY <1>3, <1>4 DEF Away
  <2> QED
      BY <1>1, <1>2, <2>1, SlotFrame
<1>5. CASE s = slot[w]
  <2>1. /\ Kept(s, {"r.leave"}) /\ Kept(s, {"r.cas"}) /\ Kept(s, Incoming)
        /\ Kept(s, {"r.count", "r.cas"})
      BY <1>1, <1>3 DEF At, Kept, Incoming
  <2>2. /\ At(s, Claiming)' = At(s, Claiming) /\ At(s, Claiming) = {w}
        /\ releaseFlag[s] = DELFLAG_ON /\ isValid[s]
        /\ ~(slot[Acceptor] = s /\ pc[Acceptor] = "a.flag")
    <3>1. pc[w] \in Claiming /\ pc'[w] \in Claiming
        BY <1>1, <1>3 DEF Claiming
    <3>2. At(s, Claiming)' = At(s, Claiming)
        BY <1>1, <1>3, <1>5, <3>1 DEF At, Claiming
    <3> QED
        BY <1>1, <1>5, <3>1, <3>2, Claimer
  <2>3. Claimed(s)'
      BY <1>2, <2>2 DEF Claimed, Same
  <2>4. Starting(s)'
      BY <1>1, <1>3, <2>2 DEF Starting, Thread
  <2> QED
      BY <1>1, <1>2, <2>1, <2>3, <2>4, KeptParts DEF Custody, Same
<1> QED
    BY <1>4, <1>5

\* The rollback: the flag is cleared on a session that is valid.
LEMMA ReleaseOffCustody ==
    ASSUME TypeOK, CustodyInv, NEW w \in Workers, ReleaseOff(w)
    PROVE  CustodyInv'
<1> SUFFICES ASSUME NEW s \in Slot PROVE Custody(s)'
    BY DEF CustodyInv
<1>1. /\ w \in Thread /\ w # Acceptor /\ LocalType /\ Custody(s)
      /\ slot[w] \in Slot /\ pc[w] = "r.off" /\ Goto(w, "r.undo")
      /\ releaseFlag' = [releaseFlag EXCEPT ![slot[w]] = DELFLAG_OFF]
      /\ UNCHANGED <<emptyIndexStack, sessionID, isValid, JobQueue, hcp>>
    BY ThreadAssumption
       DEF Thread, TypeOK, LocalType, CustodyInv, ReleaseOff, otherVars,
           idVars, contentVars, ioVars
<1>2. CASE s # slot[w]
  <2>1. Same(s)
      BY <1>1, <1>2, SameLeaves DEF TypeOK, FlagType, Same
  <2> QED
      BY <1>1, <1>2, <2>1, SlotFrame, GotoAway
<1>3. CASE s = slot[w]
  <2>1. Kept(s, {"r.leave"}) /\ Kept(s, {"r.cas"}) /\ Kept(s, Incoming)
      BY <1>1, <1>3, GotoKept DEF Incoming
  <2>2. /\ At(s, Claiming) = {w} /\ isValid[s]
        /\ ~(slot[Acceptor] = s /\ pc[Acceptor] = "a.flag")
      BY <1>1, <1>3, Claimer DEF Claiming
  <2>3. At(s, Claiming)' = {}
    <3>1. /\ pc'[w] = "r.undo"
          /\ \A v \in Thread \ {w} : pc'[v] = pc[v] /\ slot'[v] = slot[v]
        BY <1>1, <1>3, GotoAt
    <3> QED
        BY <2>2, <3>1 DEF At, Claiming
  <2>4. Places(s)' = 1
      BY <1>1, <2>1, SameLeaves DEF Custody, Places, Kept, Incoming
  <2>5. Claimed(s)' /\ Unused(s)' /\ IndexKept(s)'
      BY <1>1, <2>2, <2>3 DEF Custody, Claimed, Unused, IndexKept
  <2>6. Starting(s)'
      BY <1>1, <1>3, <2>2, GotoAt DEF Starting, Thread
  <2> QED
      BY <1>1, <2>1, <2>4, <2>5, <2>6, KeptParts DEF Custody
<1> QED
    BY <1>2, <1>3

LEMMA ReleaseCloseCustody ==
    ASSUME TypeOK, CustodyInv, NEW w \in Workers, ReleaseClose(w)
    PROVE  CustodyInv'
<1> SUFFICES ASSUME NEW s \in Slot PROVE Custody(s)'
    BY DEF CustodyInv
<1>1. /\ w \in Thread /\ w # Acceptor /\ LocalType /\ Custody(s)
      /\ slot[w] \in Slot /\ pc[w] = "r.close" /\ Goto(w, "r.leave")
      /\ isValid' = [isValid EXCEPT ![slot[w]] = FALSE]
      /\ CancelAll(slot[w])
      /\ UNCHANGED <<emptyIndexStack, sessionID, releaseFlag, JobQueue>>
    BY ThreadAssumption
       DEF Thread, TypeOK, LocalType, CustodyInv, ReleaseClose, otherVars,
           idVars, contentVars
<1>2. hcp'[s]["LEAVE"] = hcp[s]["LEAVE"]
    BY <1>1, CancelLeave DEF CancelAll, TypeOK, IoType
<1>3. CASE s # slot[w]
  <2>1. Same(s)
      BY <1>1, <1>2, <1>3, SameLeaves DEF TypeOK, FlagType, Same
  <2> QED
      BY <1>1, <1>3, <2>1, SlotFrame, GotoAway
<1>4. CASE s = slot[w]
  <2>1. /\ Kept(s, {"r.cas"}) /\ Kept(s, Incoming)
      BY <1>1, <1>4, GotoKept DEF Incoming
  <2>2. /\ At(s, Claiming) = {w} /\ isValid[s] /\ ~isValid'[s]
        /\ releaseFlag[s] = DELFLAG_ON
        /\ ~(slot[Acceptor] = s /\ pc[Acceptor] = "a.flag")
      BY <1>1, <1>4, Claimer DEF Claiming, TypeOK, FlagType
  <2>3. At(s, Claiming)' = {w} /\ pc'[w] = "r.leave"
    <3>1. /\ pc'[w] = "r.leave" /\ slot'[w] = slot[w]
          /\ \A v \in Thread \ {w} : pc'[v] = pc[v] /\ slot'[v] = slot[v]
        BY <1>1, <1>4, GotoAt DEF Goto, localVars
    <3> QED
        BY <1>1, <1>4, <2>2, <3>1 DEF At, Claiming
  <2>4. Places(s)' = 1
    <3>1. /\ Cardinality(At(s, {"r.leave"})) \in Nat
          /\ Cardinality(At(s, {"r.leave"})') =
                 Cardinality(At(s, {"r.leave"})) + 1
      <4>1. Goto(w, "r.leave") /\ pc[w] \notin {"r.leave"}
          BY <1>1
      <4>2. w \in Thread /\ LocalType
          BY <1>1
      <4> QED
          BY <1>4, <4>1, <4>2, GotoCounts
    <3>2. Places(s)' = emptyIndexStack[s] + Cardinality(At(s, Incoming))
                       + 0 + Cardinality(At(s, {"r.leave"})')
                       + Cardinality(Leaves(s)) + hcp[s]["LEAVE"]
        BY <1>1, <1>2, <2>1, <2>2, SameLeaves DEF Places, Incoming, Kept
    <3>3. Places(s) = emptyIndexStack[s] + Cardinality(At(s, Incoming))
                      + 1 + Cardinality(At(s, {"r.leave"}))
                      + Cardinality(Leaves(s)) + hcp[s]["LEAVE"]
        BY <2>2 DEF Places
    <3> QED
        BY <1>1, <3>1, <3>2, <3>3, AtCounts, LeavesCount, Elsewhere
           DEF TypeOK, Custody
  <2>5. Claimed(s)'
      BY <1>1, <2>2, <2>3 DEF Claimed
  <2>6. Unused(s)' /\ IndexKept(s)'
      BY <1>1, <2>2
         DEF Custody, Unused, IndexKept, DELFLAG_ON, DELFLAG_OFF
  <2>7. Starting(s)'
      BY <1>1, <1>4, <2>2, GotoAt DEF Starting, Thread
  <2> QED
      BY <1>1, <2>1, <2>4, <2>5, <2>6, <2>7, KeptParts DEF Custody
<1> QED
    BY <1>3, <1>4

LEMMA ReleaseLeaveCustody ==
    ASSUME TypeOK, CustodyInv, NEW w \in Workers, ReleaseLeave(w)
    PROVE  CustodyInv'
<1> SUFFICES ASSUME NEW s \in Slot PROVE Custody(s)'
    BY DEF CustodyInv
<1>1. /\ w \in Thread /\ w # Acceptor /\ LocalType /\ Custody(s)
      /\ slot[w] \in Slot /\ pc[w] = "r.leave" /\ Goto(w, "idle")
      /\ ContentType /\ PushJob(slot[w], "LEAVE")
      /\ UNCHANGED <<emptyIndexStack, sessionID, isValid, releaseFlag, hcp>>
    BY ThreadAssumption
       DEF Thread, TypeOK, LocalType, CustodyInv, ReleaseLeave, idVars,
           flagVars, ioVars
<1>2. CASE s # slot[w]
  <2>1. Same(s)
      BY <1>1, <1>2, PushJobLeaves DEF Same
  <2> QED
      BY <1>1, <1>2, <2>1, SlotFrame, GotoAway
<1>3. CASE s = slot[w]
  <2>1. /\ Kept(s, {"r.cas"}) /\ Kept(s, Incoming)
        /\ Kept(s, {"r.count", "r.cas"})
      BY <1>1, <1>3, GotoKept DEF Incoming
  <2>2. /\ At(s, Claiming) = {w} /\ releaseFlag[s] = DELFLAG_ON
        /\ ~(slot[Acceptor] = s /\ pc[Acceptor] = "a.flag")
      BY <1>1, <1>3, Claimer DEF Claiming
  <2>3. At(s, Claiming)' = {}
    <3>1. "idle" \notin Claiming
        BY DEF Claiming
    <3>2. \A v \in Thread \ {w} : pc'[v] = pc[v] /\ slot'[v] = slot[v]
        BY <1>1, <1>3, GotoAt
    <3>3. pc'[w] = "idle"
        BY <1>1, <1>3, GotoAt
    <3> QED
        BY <2>2, <3>1, <3>2, <3>3 DEF At, Claiming
  <2>4. Places(s)' = 1
    <3>1. /\ Cardinality(At(s, {"r.leave"})) \in Nat
          /\ Cardinality(At(s, {"r.leave"})') =
                 Cardinality(At(s, {"r.leave"})) - 1
        BY <1>1, <1>3, GotoCounts
    <3>2. /\ Cardinality(Leaves(s)) \in Nat
          /\ Cardinality(Leaves(s)') = Cardinality(Leaves(s)) + 1
        BY <1>1, <1>3, PushJobLeaves, LeavesCount
    <3>3. Places(s)' = emptyIndexStack[s] + Cardinality(At(s, Incoming))
                       + (IF isValid[s] THEN 1 ELSE 0)
                       + Cardinality(At(s, {"r.leave"})')
                       + Cardinality(Leaves(s)') + hcp[s]["LEAVE"]
        BY <1>1, <2>1 DEF Places, Incoming, Kept
    <3> QED
        BY <1>1, <3>1, <3>2, <3>3, AtCounts, Elsewhere
           DEF TypeOK, Custody, Places
  <2>5. Claimed(s)' /\ Unused(s)' /\ IndexKept(s)'
      BY <1>1, <2>1, <2>2, <2>3, KeptParts
         DEF Custody, Claimed, Unused, IndexKept
  <2>6. Starting(s)'
      BY <1>1, <1>3, <2>2, GotoAt DEF Starting, Thread
  <2> QED
      BY <1>1, <2>1, <2>4, <2>5, <2>6, KeptParts DEF Custody
<1> QED
    BY <1>2, <1>3

LEMMA ReleaseValidCustody ==
    ASSUME TypeOK, CustodyInv, NEW w \in Workers, ReleaseValid(w)
    PROVE  CustodyInv'
<1> SUFFICES ASSUME NEW s \in Slot PROVE Custody(s)'
    BY DEF CustodyInv
<1> DEFINE to == IF isValid[slot[w]] THEN "r.count" ELSE "idle"
<1>1. /\ w \in Thread /\ w # Acceptor /\ LocalType /\ Custody(s)
      /\ slot[w] \in Slot /\ pc[w] = "r.valid" /\ Goto(w, to)
      /\ UNCHANGED sharedVars
    BY ThreadAssumption
       DEF Thread, TypeOK, LocalType, CustodyInv, ReleaseValid, Look
<1>2. Same(s)
    BY <1>1, SameSlot DEF sharedVars, otherVars, idVars, contentVars, ioVars,
                          custodyVars
<1>3. CASE s # slot[w] \/ ~isValid[s]
  <2>1. s = slot[w] => pc[w] \notin Watched /\ to \notin Watched
      BY <1>1, <1>3 DEF Watched, Incoming, Joining, Claiming
  <2> HIDE DEF to
  <2> QED
      BY <1>1, <1>2, <2>1, SlotFrame, GotoAway
<1>4. CASE s = slot[w] /\ isValid[s]
  <2>1. Goto(w, "r.count")
      BY <1>1, <1>4
  <2>2. /\ Kept(s, Claiming) /\ Kept(s, {"r.leave"}) /\ Kept(s, {"r.cas"})
        /\ Kept(s, Incoming)
      BY <1>1, <1>4, <2>1, GotoKept DEF Claiming, Incoming
  <2>3. Starting(s)'
    <3>1. slot'[Acceptor] = slot[Acceptor] /\ pc'[Acceptor] = pc[Acceptor]
        BY <1>1, <1>4, <2>1, GotoAt DEF Thread
    <3> QED
        BY <1>1, <1>2, <2>2, <3>1 DEF Custody, Starting, Same, Kept
  <2>4. Unused(s)'
      BY <1>2, <1>4 DEF Unused, Same
  <2> QED
      BY <1>1, <1>2, <2>2, <2>3, <2>4, KeptParts DEF Custody, Same
<1> QED
    BY <1>3, <1>4

-----------------------------------------------------------------------------
(* The steps that leave every slot alone.                                  *)

Quiet == /\ UNCHANGED custodyVars
         /\ \A s \in Slot : hcp'[s]["LEAVE"] = hcp[s]["LEAVE"]
         /\ \A s \in Slot : \A t \in Thread : Away(t, s)

LEMMA QuietCustody ==
    ASSUME CustodyInv, Quiet
    PROVE  CustodyInv'
<1> SUFFICES ASSUME NEW s \in Slot PROVE Custody(s)'
    BY DEF CustodyInv
<1>1. Same(s)
    BY SameSlot DEF Quiet
<1> QED
    BY <1>1, SlotFrame DEF CustodyInv, Quiet

\* Threads that move between points that do not matter.
LEMMA GotoQuiet ==
    ASSUME LocalType, NEW t \in Thread, NEW p, Goto(t, p),
           {pc[t], p} \cap Watched = {}
    PROVE  \A s \in Slot : \A v \in Thread : Away(v, s)
    BY GotoAway
LEMMA BeginQuiet ==
    ASSUME LocalType, NEW t \in Thread, NEW p, NEW a, NEW id, NEW o,
           Begin(t, p, a, id, o), {pc[t], p} \cap Watched = {}
    PROVE  \A s \in Slot : \A v \in Thread : Away(v, s)
    BY BeginAway

\* Completions that are no LEAVE.
LEMMA PortQuiet ==
    ASSUME IoType, NEW r \in Slot
    PROVE  /\ \A c \in Completion \ {"LEAVE"} :
                  Take(r, c) \/ Post(r, c) =>
                      \A s \in Slot : hcp'[s]["LEAVE"] = hcp[s]["LEAVE"]
           /\ \A kinds : CancelIo(r, kinds, hcp) =>
                  \A s \in Slot : hcp'[s]["LEAVE"] = hcp[s]["LEAVE"]
           /\ \A c \in Completion \ {"LEAVE"} :
                  hcp[r][c] > 0 /\ Disconnect(r, Without(r, c)) =>
                      \A s \in Slot : hcp'[s]["LEAVE"] = hcp[s]["LEAVE"]
<1>1. hcp \in Port
    BY DEF IoType
<1>2. ASSUME NEW c \in Completion \ {"LEAVE"}, Take(r, c) \/ Post(r, c),
             NEW s \in Slot
      PROVE  hcp'[s]["LEAVE"] = hcp[s]["LEAVE"]
    BY <1>1, <1>2, OtherLeave
<1>3. ASSUME NEW kinds, CancelIo(r, kinds, hcp), NEW s \in Slot
      PROVE  hcp'[s]["LEAVE"] = hcp[s]["LEAVE"]
    BY <1>1, <1>3, CancelLeave
<1>4. ASSUME NEW c \in Completion \ {"LEAVE"}, hcp[r][c] > 0,
             Disconnect(r, Without(r, c)), NEW s \in Slot
      PROVE  hcp'[s]["LEAVE"] = hcp[s]["LEAVE"]
  <2>1. Without(r, c) \in Port
      BY <1>4, PortTypes
  <2>2. hcp'[s]["LEAVE"] = Without(r, c)[s]["LEAVE"]
      BY <1>4, <2>1, CancelLeave DEF Disconnect
  <2> QED
      BY <1>1, <1>4, <2>2, OtherLeave
<1> QED
    BY <1>2, <1>3, <1>4

\* releaseSession gives its reference back, and may start over.
LEMMA ReleaseUndoQuiet ==
    ASSUME TypeOK, NEW w \in Workers, ReleaseUndo(w)
    PROVE  Quiet
<1>1. UNCHANGED custodyVars /\ UNCHANGED hcp
    BY DEF ReleaseUndo, otherVars, idVars, contentVars, ioVars, custodyVars
<1>2. PICK p \in {"r.valid", "idle"} : Goto(w, p)
    BY DEF ReleaseUndo
<1>3. {pc[w], p} \cap Watched = {} /\ w \in Thread /\ LocalType
    BY DEF ReleaseUndo, Watched, Incoming, Joining, Claiming, Thread, TypeOK
<1> QED
    BY <1>1, <1>2, <1>3, GotoQuiet DEF Quiet

LEMMA ReleaseSessionCustody ==
    ASSUME TypeOK, RefAccounting, CustodyInv, NEW w \in Workers,
           ReleaseSession(w)
    PROVE  CustodyInv'
    BY ReleaseValidCustody, ReleaseCountCustody, ReleaseCasCustody,
       ReleaseIDCustody, ReleaseOffCustody, ReleaseUndoQuiet, QuietCustody,
       ReleaseCloseCustody, ReleaseLeaveCustody
       DEF ReleaseSession

LEMMA PeerQuiet ==
    ASSUME TypeOK, NEW s \in Slot, Complete(s) \/ PeerReset(s)
    PROVE  Quiet
<1>1. /\ UNCHANGED custodyVars /\ UNCHANGED <<pc, localVars>>
    BY DEF Complete, PeerReset, otherVars, idVars, contentVars, custodyVars
<1>2. \A r \in Slot : hcp'[r]["LEAVE"] = hcp[r]["LEAVE"]
  <2>1. {"recvOk", "recvErr", "sendOk"} \subseteq Completion \ {"LEAVE"}
      BY DEF Completion
  <2> QED
      BY <2>1, PortQuiet DEF TypeOK, Complete, PeerReset, CancelAll
<1> QED
    BY <1>1, <1>2, StillAway DEF Quiet

\* A step from one point that does not matter to another.
LEMMA MoveQuiet ==
    ASSUME TypeOK, NEW t \in Thread, NEW p, Goto(t, p),
           {pc[t], p} \cap Watched = {}, UNCHANGED custodyVars,
           \A s \in Slot : hcp'[s]["LEAVE"] = hcp[s]["LEAVE"]
    PROVE  Quiet
    BY GotoQuiet DEF Quiet, TypeOK

LEMMA LookQuiet ==
    ASSUME TypeOK, NEW t \in Thread, NEW from, NEW to, Look(t, from, to),
           {from, to} \cap Watched = {}
    PROVE  Quiet
    BY MoveQuiet DEF Look, sharedVars, otherVars, idVars, contentVars, ioVars,
                     custodyVars

\* The points at which no thread matters to the invariant.
Unwatched ==
    {"idle", "rp.check", "rp.recv", "rp.cancel", "sp.flag", "sp.look",
     "sp.unflag", "sp.take", "sp.send", "sp.fail", "sp.cancel", "w.unflag",
     "w.more", "w.deref", "w.readid", "r.valid", "f.ref", "f.flag", "f.id",
     "s.enq", "s.last", "s.post", "d.cut", "g.read", "p.write", "u.deref"}

LEMMA Unwatching == Unwatched \cap Watched = {}
    BY DEF Unwatched, Watched, Incoming, Joining, Claiming

LEMMA RecvPostQuiet ==
    ASSUME TypeOK, NEW w \in Workers, RecvPost(w)
    PROVE  Quiet
<1>1. w \in Thread /\ slot[w] \in Slot /\ IoType
    BY WorkerContext DEF Thread, TypeOK
<1>2. UNCHANGED custodyVars
    BY DEF RecvPost, RecvPostCheck, RecvPostRecv, RecvPostCancel, otherVars,
           idVars, contentVars, custodyVars
<1>3. \A s \in Slot : hcp'[s]["LEAVE"] = hcp[s]["LEAVE"]
    BY <1>1, PortQuiet DEF RecvPost, RecvPostCheck, RecvPostRecv,
                           RecvPostCancel, ioVars
<1>4. PICK p \in Unwatched : Goto(w, p)
    BY DEF RecvPost, RecvPostCheck, RecvPostRecv, RecvPostCancel, Unwatched
<1>5. pc[w] \in Unwatched
    BY DEF RecvPost, RecvPostCheck, RecvPostRecv, RecvPostCancel, Unwatched
<1> QED
    BY <1>1, <1>2, <1>3, <1>4, <1>5, Unwatching, MoveQuiet

LEMMA SendPostQuiet ==
    ASSUME TypeOK, NEW w \in Workers, SendPost(w)
    PROVE  Quiet
<1>1. w \in Thread /\ slot[w] \in Slot /\ IoType
    BY WorkerContext DEF Thread, TypeOK
<1>2. UNCHANGED custodyVars
    BY DEF SendPost, SendPostFlag, SendPostLook, SendPostUnflag, SendPostTake,
           SendPostSend, SendPostFail, SendPostCancel, Look, sharedVars,
           otherVars, idVars, contentVars, custodyVars
<1>3. \A s \in Slot : hcp'[s]["LEAVE"] = hcp[s]["LEAVE"]
  <2>1. CASE SendPostFail(w) \/ SendPostCancel(w)
      BY <1>1, <2>1, PortQuiet
         DEF SendPostFail, SendPostCancel, Disconnect, ioVars
  <2>2. CASE \/ SendPostFlag(w) \/ SendPostLook(w) \/ SendPostUnflag(w)
             \/ SendPostTake(w) \/ SendPostSend(w)
      BY <2>2 DEF SendPostFlag, SendPostLook, SendPostUnflag, SendPostTake,
                  SendPostSend, Look, sharedVars, ioVars
  <2> QED
      BY <2>1, <2>2 DEF SendPost
<1>4. PICK p \in Unwatched : Goto(w, p)
    BY DEF SendPost, SendPostFlag, SendPostLook, SendPostUnflag, SendPostTake,
           SendPostSend, SendPostFail, SendPostCancel, Look, Unwatched
<1>5. pc[w] \in Unwatched
    BY DEF SendPost, SendPostFlag, SendPostLook, SendPostUnflag, SendPostTake,
           SendPostSend, SendPostFail, SendPostCancel, Look, Unwatched
<1> QED
    BY <1>1, <1>2, <1>3, <1>4, <1>5, Unwatching, MoveQuiet

LEMMA WorkerStepCustody ==
    ASSUME TypeOK, RefAccounting, CustodyInv, NEW w \in Workers,
           WorkerStep(w)
    PROVE  CustodyInv'
<1>1. w \in Thread /\ slot[w] \in Slot /\ LocalType
    BY WorkerContext DEF Thread, TypeOK
<1>2. CASE SentUnflag(w) \/ SentMore(w) \/ WorkerDeref(w)
  <2>1. UNCHANGED custodyVars /\ UNCHANGED hcp
      BY <1>2 DEF SentUnflag, SentMore, WorkerDeref, Look, sharedVars,
                  otherVars, idVars, contentVars, ioVars, custodyVars
  <2>2. PICK p \in Unwatched : Goto(w, p)
      BY <1>2 DEF SentUnflag, SentMore, WorkerDeref, Look, Unwatched
  <2>3. pc[w] \in Unwatched
      BY <1>2 DEF SentUnflag, SentMore, WorkerDeref, Look, Unwatched
  <2> QED
      BY <1>1, <2>1, <2>2, <2>3, Unwatching, MoveQuiet, QuietCustody
<1>3. CASE ReadID(w)
  <2>1. UNCHANGED custodyVars /\ UNCHANGED hcp
      BY <1>3 DEF ReadID, sharedVars, otherVars, idVars, contentVars, ioVars,
                  custodyVars
  <2>2. {pc[w], "r.valid"} \cap Watched = {}
      BY <1>3, Unwatching DEF ReadID, Unwatched
  <2>3. \A s \in Slot : \A v \in Thread : Away(v, s)
      BY <1>1, <1>3, <2>2, BeginQuiet DEF ReadID
  <2> QED
      BY <2>1, <2>3, QuietCustody DEF Quiet
<1> QED
    BY <1>2, <1>3, RecvPostQuiet, SendPostQuiet, QuietCustody,
       ReleaseSessionCustody DEF WorkerStep

-----------------------------------------------------------------------------
(* The API.                                                                *)

LEMMA FindValidQuiet ==
    ASSUME TypeOK, NEW u \in Thread, NEW id, NEW o, FindValid(u, id, o),
           pc[u] = "idle"
    PROVE  Quiet
<1>1. UNCHANGED custodyVars /\ UNCHANGED hcp /\ LocalType
    BY DEF FindValid, sharedVars, otherVars, idVars, contentVars, ioVars,
           custodyVars, TypeOK
<1>2. CASE Begin(u, "f.ref", IndexOf(id), id, o)
  <2>1. {pc[u], "f.ref"} \cap Watched = {}
      BY Unwatching DEF Unwatched
  <2>2. \A s \in Slot : \A v \in Thread : Away(v, s)
      BY <1>1, <1>2, <2>1, BeginQuiet
  <2> QED
      BY <1>1, <2>2 DEF Quiet
<1>3. CASE UNCHANGED <<pc, localVars>>
    BY <1>1, <1>3, StillAway DEF Quiet
<1> QED
    BY <1>2, <1>3 DEF FindValid

LEMMA CallStepQuiet ==
    ASSUME TypeOK, NEW u \in Users \cup UdpThreads, CallStep(u)
    PROVE  Quiet
<1>1. u \in Thread /\ slot[u] \in Slot /\ IoType
    BY WorkerContext DEF Thread, TypeOK
<1>2. UNCHANGED custodyVars
    BY DEF CallStep, FindRef, FindFlag, FindID, UserDeref, SendPacketEnqueue,
           SendPacketLast, SendPacketPost, DisconnectCut, GetUDPRead,
           UdpWrite, Look, sharedVars, otherVars, idVars, contentVars,
           custodyVars
<1>3. \A s \in Slot : hcp'[s]["LEAVE"] = hcp[s]["LEAVE"]
  <2>1. CASE UserDeref(u) \/ SendPacketPost(u) \/ DisconnectCut(u)
    <3>1. {"RELEASE", "SENDPOST"} \subseteq Completion \ {"LEAVE"}
        BY DEF Completion
    <3> QED
        BY <1>1, <2>1, <3>1, PortQuiet
           DEF UserDeref, SendPacketPost, DisconnectCut, Disconnect
  <2>2. CASE \/ FindRef(u) \/ FindFlag(u) \/ FindID(u)
             \/ SendPacketEnqueue(u) \/ SendPacketLast(u)
             \/ GetUDPRead(u) \/ UdpWrite(u)
      BY <2>2 DEF FindRef, FindFlag, FindID, SendPacketEnqueue,
                  SendPacketLast, GetUDPRead, UdpWrite, Look, sharedVars,
                  ioVars
  <2> QED
      BY <2>1, <2>2 DEF CallStep
<1>4. PICK p \in Unwatched : Goto(u, p)
  <2>1. Body(op[u]) \in Unwatched
      BY DEF Body, Unwatched
  <2> QED
      BY <2>1 DEF CallStep, FindRef, FindFlag, FindID, UserDeref,
                  SendPacketEnqueue, SendPacketLast, SendPacketPost,
                  DisconnectCut, GetUDPRead, UdpWrite, Look, Unwatched
<1>5. pc[u] \in Unwatched
    BY DEF CallStep, FindRef, FindFlag, FindID, UserDeref, SendPacketEnqueue,
           SendPacketLast, SendPacketPost, DisconnectCut, GetUDPRead,
           UdpWrite, Look, Unwatched
<1> QED
    BY <1>1, <1>2, <1>3, <1>4, <1>5, Unwatching, MoveQuiet

-----------------------------------------------------------------------------
(* The completions, and the content that takes the jobs.                   *)

\* A LEAVE job that is taken is a LEAVE job less.
LEMMA JobsTaken ==
    ASSUME ContentType, NEW r \in Slot, NEW n \in 1 .. Len(JobQueue[r]),
           NEW leaves,
           leaves = {i \in 1 .. n : JobQueue[r][i].type = "LEAVE"},
           leaves # {} => n = Len(JobQueue[r]),
           JobQueue'[r] = SubSeq(JobQueue[r], n + 1, Len(JobQueue[r]))
    PROVE  /\ Cardinality(leaves) \in Nat /\ Cardinality(Leaves(r)') \in Nat
           /\ Cardinality(Leaves(r)) =
                  Cardinality(Leaves(r)') + Cardinality(leaves)
<1> DEFINE q == JobQueue[r]
<1>1. q \in Seq(Job) /\ Len(q) \in Nat /\ n \in Nat
    BY DEF ContentType
<1>2. /\ Len(JobQueue'[r]) = Len(q) - n
      /\ \A i \in 1 .. Len(q) - n : JobQueue'[r][i] = q[n + i]
    BY <1>1
<1>3. CASE leaves = {}
  <2>1. /\ \A i \in Leaves(r) : i - n \in Leaves(r)' /\ i \in Int
        /\ \A i \in Leaves(r)' : i + n \in Leaves(r) /\ i \in Int
    <3>1. \A i \in Leaves(r) : i > n /\ i \in Int
        BY <1>1, <1>3 DEF Leaves
    <3>2. ASSUME NEW i \in Leaves(r) PROVE i - n \in Leaves(r)'
      <4>1. /\ i - n \in 1 .. Len(q) - n /\ n + (i - n) = i
            /\ q[i].type = "LEAVE"
          BY <1>1, <3>1 DEF Leaves
      <4>2. JobQueue'[r][i - n] = q[i]
          BY <1>2, <4>1
      <4> QED
          BY <1>2, <4>1, <4>2 DEF Leaves
    <3>3. ASSUME NEW i \in Leaves(r)' PROVE i + n \in Leaves(r) /\ i \in Int
      <4>1. i \in 1 .. Len(q) - n /\ JobQueue'[r][i].type = "LEAVE"
          BY <1>2 DEF Leaves
      <4>2. /\ i \in Int /\ i + n \in 1 .. Len(q) /\ n + i = i + n
            /\ JobQueue'[r][i] = q[n + i]
          BY <1>1, <1>2, <4>1
      <4> QED
          BY <4>1, <4>2 DEF Leaves
    <3> QED
        BY <3>1, <3>2, <3>3
  <2> DEFINE f == [i \in Leaves(r) |-> i - n]
  <2>2. f \in Bijection(Leaves(r), Leaves(r)')
    <3>1. f \in [Leaves(r) -> Leaves(r)']
        BY <2>1
    <3>2. ASSUME NEW i \in Leaves(r), NEW j \in Leaves(r), f[i] = f[j]
          PROVE  i = j
        BY <1>1, <2>1, <3>2
    <3>3. ASSUME NEW i \in Leaves(r)' PROVE \E j \in Leaves(r) : f[j] = i
      <4>1. i + n \in Leaves(r) /\ f[i + n] = i
          BY <1>1, <2>1
      <4> QED
          BY <4>1
    <3> HIDE DEF f
    <3> QED
        BY <3>1, <3>2, <3>3
           DEF Bijection, Injection, Surjection, IsInjective
  <2>3. Cardinality(Leaves(r)') = Cardinality(Leaves(r))
      BY <2>2, LeavesCount, FS_Bijection DEF ExistsBijection
  <2>4. Cardinality(leaves) = 0 /\ Cardinality(Leaves(r)) \in Nat
      BY <1>3, LeavesCount, FS_EmptySet
  <2> QED
      BY <2>3, <2>4
<1>4. CASE leaves # {}
  <2>1. leaves = Leaves(r) /\ Leaves(r)' = {}
      BY <1>1, <1>2, <1>4 DEF Leaves
  <2>2. Cardinality({}) = 0 /\ Cardinality(Leaves(r)) \in Nat
      BY LeavesCount, FS_EmptySet
  <2>3. Cardinality(Leaves(r)') = Cardinality({})
      BY <2>1, Zenon
  <2>4. Cardinality(leaves) = Cardinality(Leaves(r))
      BY <2>1, Zenon
  <2> QED
      BY <2>2, <2>3, <2>4
<1> QED
    BY <1>3, <1>4

LEMMA HandleJobsCustody ==
    ASSUME TypeOK, CustodyInv, NEW u \in Users, NEW id \in SessionID,
           HandleJobs(u, id)
    PROVE  CustodyInv'
<1> SUFFICES ASSUME NEW s \in Slot PROVE Custody(s)'
    BY DEF CustodyInv
<1> DEFINE r == IndexOf(id)
           size == Len(JobQueue[r])
           leaves(n) == {i \in 1 .. n : JobQueue[r][i].type = "LEAVE"}
<1>1. r \in Slot /\ ContentType /\ hcp \in Port /\ Custody(s)
    BY Constants DEF TypeOK, IoType, CustodyInv
<1>2. PICK n \in 1 .. size :
          /\ leaves(n) # {} => n = size
          /\ JobQueue' = [JobQueue EXCEPT ![r] = SubSeq(@, n + 1, size)]
          /\ hcp' = [hcp EXCEPT ![r]["LEAVE"] = @ + Cardinality(leaves(n))]
    BY DEF HandleJobs
<1>3. /\ UNCHANGED <<emptyIndexStack, sessionID, isValid, releaseFlag>>
      /\ UNCHANGED <<pc, localVars>>
    BY DEF HandleJobs, idVars, flagVars
<1> HIDE DEF r, leaves
<1>4. CASE s # r
  <2>1. JobQueue'[s] = JobQueue[s] /\ hcp'[s]["LEAVE"] = hcp[s]["LEAVE"]
      BY <1>1, <1>2, <1>4 DEF ContentType, Port, Completion
  <2>2. Same(s)
      BY <1>3, <2>1, SameLeaves DEF Same
  <2> QED
      BY <1>1, <1>3, <2>2, SlotFrame, StillAway
<1>5. CASE s = r
  <2>1. /\ JobQueue'[r] = SubSeq(JobQueue[r], n + 1, size)
        /\ hcp'[r]["LEAVE"] = hcp[r]["LEAVE"] + Cardinality(leaves(n))
        /\ hcp[r]["LEAVE"] \in Nat
      BY <1>1, <1>2 DEF ContentType, Port, Completion
  <2>2. /\ Cardinality(leaves(n)) \in Nat /\ Cardinality(Leaves(r)') \in Nat
        /\ Cardinality(Leaves(r)) =
               Cardinality(Leaves(r)') + Cardinality(leaves(n))
      BY <1>1, <1>2, <2>1, JobsTaken DEF leaves
  <2>3. \A points : At(s, points)' = At(s, points)
      BY <1>3 DEF At, localVars
  <2>4. Places(s)' = 1
    <3>1. Places(s)' = emptyIndexStack[s] + Cardinality(At(s, Incoming))
                       + (IF isValid[s] THEN 1 ELSE 0)
                       + Cardinality(At(s, {"r.leave"}))
                       + Cardinality(Leaves(s)') + hcp'[s]["LEAVE"]
        BY <1>3, <2>3 DEF Places, Incoming
    <3>2. Places(s) = emptyIndexStack[s] + Cardinality(At(s, Incoming))
                      + (IF isValid[s] THEN 1 ELSE 0)
                      + Cardinality(At(s, {"r.leave"}))
                      + Cardinality(Leaves(s)) + hcp[s]["LEAVE"]
        BY DEF Places
    <3>3. /\ emptyIndexStack[s] \in Nat /\ Places(s) = 1
          /\ Cardinality(At(s, Incoming)) \in Nat
          /\ Cardinality(At(s, {"r.leave"})) \in Nat
        BY <1>1, AtCounts DEF Custody, TypeOK, IdType
    <3>4. /\ Cardinality(leaves(n)) \in Nat
          /\ Cardinality(Leaves(s)') \in Nat /\ hcp[s]["LEAVE"] \in Nat
          /\ hcp'[s]["LEAVE"] = hcp[s]["LEAVE"] + Cardinality(leaves(n))
          /\ Cardinality(Leaves(s)) =
                 Cardinality(Leaves(s)') + Cardinality(leaves(n))
        BY <1>5, <2>1, <2>2, Zenon
    <3> DEFINE jobs == Cardinality(Leaves(s))
               left == Cardinality(Leaves(s)')
               rest == emptyIndexStack[s] + Cardinality(At(s, Incoming))
                       + (IF isValid[s] THEN 1 ELSE 0)
                       + Cardinality(At(s, {"r.leave"}))
    <3>5. rest \in Int
        BY <3>3
    <3> HIDE DEF jobs, left, rest
    <3>6. /\ Places(s)' = rest + left + hcp'[s]["LEAVE"]
          /\ 1 = rest + jobs + hcp[s]["LEAVE"]
        BY <3>1, <3>2, <3>3 DEF jobs, left, rest
    <3>7. /\ Cardinality(leaves(n)) \in Nat /\ left \in Nat
          /\ hcp[s]["LEAVE"] \in Nat
          /\ hcp'[s]["LEAVE"] = hcp[s]["LEAVE"] + Cardinality(leaves(n))
          /\ jobs = left + Cardinality(leaves(n))
        BY <3>4 DEF jobs, left
    <3> QED
        BY <3>5, <3>6, <3>7
  <2>5. /\ Kept(s, Claiming) /\ Kept(s, {"r.cas"})
        /\ Kept(s, {"r.count", "r.cas"})
      BY <1>3 DEF At, Kept, localVars
  <2>6. Starting(s)'
      BY <1>1, <1>3, <2>5 DEF Custody, Starting, Kept, localVars
  <2>7. IndexKept(s)'
      BY <1>1, <1>3 DEF Custody, IndexKept
  <2> QED
      BY <1>1, <1>3, <2>4, <2>5, <2>6, <2>7, KeptParts DEF Custody
<1> QED
    BY <1>4, <1>5

\* The index goes back on the stack it came from.
LEMMA LeaveDoneCustody ==
    ASSUME TypeOK, CustodyInv, NEW w \in Workers, NEW r \in Slot,
           LeaveDone(w, r)
    PROVE  CustodyInv'
<1> SUFFICES ASSUME NEW s \in Slot PROVE Custody(s)'
    BY DEF CustodyInv
<1>1. /\ hcp \in Port /\ Custody(s) /\ Custody(r)
      /\ emptyIndexStack \in [Slot -> Nat]
    BY DEF TypeOK, IoType, IdType, CustodyInv
<1>2. /\ hcp[r]["LEAVE"] > 0 /\ hcp' = Without(r, "LEAVE")
      /\ emptyIndexStack' =
             [emptyIndexStack EXCEPT ![IndexOf(sessionID[r])] = @ + 1]
      /\ UNCHANGED <<sessionID, isValid, releaseFlag, JobQueue>>
      /\ UNCHANGED <<pc, localVars>>
    BY DEF LeaveDone, Take, flagVars, contentVars
<1>3. emptyIndexStack[r] = 0
    BY <1>1, <1>2, Elsewhere DEF Custody
<1>4. IndexOf(sessionID[r]) = r
    BY <1>1, <1>3 DEF Custody, IndexKept
<1>5. CASE s # r
  <2>1. /\ hcp'[s]["LEAVE"] = hcp[s]["LEAVE"]
        /\ emptyIndexStack'[s] = emptyIndexStack[s]
      BY <1>1, <1>2, <1>4, <1>5 DEF Without, Port, Completion
  <2>2. Same(s)
      BY <1>2, <2>1, SameLeaves DEF Same
  <2> QED
      BY <1>1, <1>2, <2>2, SlotFrame, StillAway
<1>6. CASE s = r
  <2>1. /\ hcp'[s]["LEAVE"] = hcp[s]["LEAVE"] - 1
        /\ emptyIndexStack'[s] = 1
      BY <1>1, <1>2, <1>3, <1>4, <1>6 DEF Without, Port, Completion
  <2>2. \A points : At(s, points)' = At(s, points)
      BY <1>2 DEF At, localVars
  <2>3. Places(s)' = 1
    <3>1. Places(s)' = 1 + Cardinality(At(s, Incoming))
                       + (IF isValid[s] THEN 1 ELSE 0)
                       + Cardinality(At(s, {"r.leave"}))
                       + Cardinality(Leaves(s)) + hcp'[s]["LEAVE"]
        BY <1>2, <2>1, <2>2, SameLeaves DEF Places, Incoming
    <3> QED
        BY <1>1, <1>3, <1>6, <2>1, <3>1, AtCounts, LeavesCount, Elsewhere
           DEF Custody, Places, TypeOK
  <2>4. /\ Kept(s, Claiming) /\ Kept(s, {"r.cas"})
        /\ Kept(s, {"r.count", "r.cas"})
      BY <1>2 DEF At, Kept, localVars
  <2>5. Starting(s)'
      BY <1>1, <1>2, <2>4 DEF Custody, Starting, Kept, localVars
  <2>6. IndexKept(s)'
      BY <2>1 DEF IndexKept
  <2> QED
      BY <1>1, <1>2, <2>3, <2>4, <2>5, <2>6, KeptParts DEF Custody
<1> QED
    BY <1>5, <1>6

LEMMA RecvDoneCustody ==
    ASSUME TypeOK, CustodyInv, NEW w \in Workers, NEW r \in Slot,
           RecvDone(w, r)
    PROVE  CustodyInv'
<1> SUFFICES ASSUME NEW s \in Slot PROVE Custody(s)'
    BY DEF CustodyInv
<1>1. /\ w \in Thread /\ LocalType /\ ContentType /\ IoType /\ Custody(s)
      /\ pc[w] = "idle" /\ Begin(w, "rp.check", r, ZeroID, "none")
      /\ UNCHANGED <<emptyIndexStack, sessionID, isValid, releaseFlag>>
    BY DEF Thread, TypeOK, CustodyInv, RecvDone, idVars, flagVars
<1>2. Leaves(s)' = Leaves(s)
  <2>1. UNCHANGED JobQueue \/ PushJob(r, "RECV")
      BY DEF RecvDone
  <2> QED
      BY <1>1, <2>1, PushJobLeaves, SameLeaves
<1>3. hcp'[s]["LEAVE"] = hcp[s]["LEAVE"]
  <2>1. /\ "recvOk" \in Completion \ {"LEAVE"} /\ hcp[r]["recvOk"] > 0
        /\ Take(r, "recvOk") \/ Disconnect(r, Without(r, "recvOk"))
      BY DEF Completion, RecvDone
  <2> QED
      BY <1>1, <2>1, PortQuiet
<1>4. \A v \in Thread : Away(v, s)
  <2>1. {pc[w], "rp.check"} \cap Watched = {}
      BY <1>1, Unwatching DEF Unwatched
  <2> QED
      BY <1>1, <2>1, BeginQuiet
<1> QED
    BY <1>1, <1>2, <1>3, <1>4, SlotFrame DEF Same

\* A completion of a send, or one that asks for something.
LEMMA OtherDoneQuiet ==
    ASSUME TypeOK, NEW w \in Workers, NEW r \in Slot,
           \/ SendDone(w, r) \/ SendRequested(w, r) \/ ReleaseRequested(w, r)
           \/ \E c \in Completion : IoFailed(w, r, c)
    PROVE  Quiet
<1>1. w \in Thread /\ LocalType /\ IoType /\ pc[w] = "idle"
    BY DEF Thread, TypeOK, SendDone, SendRequested, ReleaseRequested, IoFailed
<1>2. UNCHANGED custodyVars
    BY DEF SendDone, SendRequested, ReleaseRequested, IoFailed, otherVars,
           idVars, contentVars, custodyVars
<1>3. \A s \in Slot : hcp'[s]["LEAVE"] = hcp[s]["LEAVE"]
  <2>1. {"sendOk", "sendErr", "recvErr", "SENDPOST", "RELEASE"}
            \subseteq Completion \ {"LEAVE"}
      BY DEF Completion
  <2>2. CASE SendDone(w, r)
    <3>1. /\ hcp[r]["sendOk"] > 0
          /\ Take(r, "sendOk") \/ Disconnect(r, Without(r, "sendOk"))
        BY <2>2 DEF SendDone
    <3> QED
        BY <1>1, <2>1, <3>1, PortQuiet
  <2>3. CASE \/ SendRequested(w, r) \/ ReleaseRequested(w, r)
             \/ \E c \in Completion : IoFailed(w, r, c)
      BY <1>1, <2>1, <2>3, PortQuiet
         DEF SendRequested, ReleaseRequested, IoFailed
  <2> QED
      BY <2>2, <2>3
<1>4. \A s \in Slot : \A v \in Thread : Away(v, s)
  <2>1. \A p \in Unwatched : {pc[w], p} \cap Watched = {}
      BY <1>1, Unwatching DEF Unwatched
  <2>2. \/ UNCHANGED <<pc, localVars>>
        \/ \E p \in Unwatched : \E id : Begin(w, p, r, id, "none")
      BY DEF SendDone, SendRequested, ReleaseRequested, IoFailed, Unwatched
  <2>3. CASE UNCHANGED <<pc, localVars>>
      BY <2>3, StillAway
  <2>4. ASSUME NEW p \in Unwatched, NEW id, Begin(w, p, r, id, "none")
        PROVE  \A s \in Slot : \A v \in Thread : Away(v, s)
      BY <1>1, <2>1, <2>4, BeginQuiet
  <2> QED
      BY <2>2, <2>3, <2>4
<1> QED
    BY <1>2, <1>3, <1>4 DEF Quiet

-----------------------------------------------------------------------------
(* The invariant.                                                          *)

LEMMA InitCustody == Init => CustodyInv
<1> SUFFICES ASSUME Init, NEW s \in Slot PROVE Custody(s)
    BY DEF CustodyInv
<1>1. /\ TypeOK /\ emptyIndexStack[s] = 1 /\ isValid[s] = FALSE
      /\ hcp[s]["LEAVE"] = 0 /\ JobQueue[s] = << >>
      /\ \A t \in Thread : pc[t] = "idle"
    BY InitType DEF Init, Completion
<1>2. \A points : "idle" \notin points => At(s, points) = {}
    BY <1>1 DEF At
<1>3. /\ At(s, Incoming) = {} /\ At(s, Claiming) = {}
      /\ At(s, {"r.leave"}) = {} /\ At(s, {"r.cas"}) = {}
      /\ At(s, {"r.count", "r.cas"}) = {}
    BY <1>2 DEF Incoming, Claiming
<1>4. Leaves(s) = {}
    BY <1>1 DEF Leaves
<1>5. Places(s) = 1
  <2>1. /\ Cardinality(At(s, Incoming)) = 0 /\ Cardinality(Leaves(s)) = 0
        /\ Cardinality(At(s, {"r.leave"})) = 0
      BY <1>3, <1>4, FS_EmptySet
  <2> QED
      BY <1>1, <2>1 DEF Places
<1>6. Acceptor \in Thread
    BY DEF Thread
<1> QED
    BY <1>1, <1>3, <1>5, <1>6
       DEF Custody, Claimed, Starting, Unused, CountRead, IndexKept

LEMMA NextCustody ==
    ASSUME "tableFull" \notin Faults, TypeOK, RefAccounting, CustodyInv,
           [Next]_vars
    PROVE  CustodyInv'
<1>1. CASE UNCHANGED vars
  <2>1. Quiet
      BY <1>1, StillAway
         DEF Quiet, vars, sharedVars, otherVars, idVars, contentVars, ioVars,
             custodyVars
  <2> QED
      BY <2>1, QuietCustody
<1>2. ASSUME NEW w \in Workers, NEW s \in Slot, TakeCompletion(w, s)
      PROVE  CustodyInv'
    BY <1>2, RecvDoneCustody, OtherDoneQuiet, QuietCustody, LeaveDoneCustody
       DEF TakeCompletion
<1>3. ASSUME NEW u \in Users, NEW id \in SessionID,
             HandleJobs(u, id) \/ \E o \in AllCalls : UserCall(u, id, o)
      PROVE  CustodyInv'
    BY <1>3, HandleJobsCustody, FindValidQuiet, QuietCustody
       DEF UserCall, Thread
<1>4. ASSUME NEW u \in UdpThreads, NEW id \in SessionID, UdpReceive(u, id)
      PROVE  CustodyInv'
    BY <1>4, FindValidQuiet, QuietCustody DEF UdpReceive, Thread
<1> QED
    BY <1>1, <1>2, <1>3, <1>4, AcceptCustody, AcceptStepCustody, PeerQuiet,
       WorkerStepCustody, CallStepQuiet, QuietCustody DEF Next

LEMMA CustodyHolds ==
    ASSUME "tableFull" \notin Faults
    PROVE  Spec => []CustodyInv
<1>1. Init => CustodyInv
    BY InitCustody
<1>2. TypeOK /\ RefAccounting /\ CustodyInv /\ [Next]_vars => CustodyInv'
    BY NextCustody
<1> QED
    BY <1>1, <1>2, TypeCorrect, RefExact, PTL DEF Spec

\* A slot is in exactly one place, in every reachable state: no order of the
\* accept thread, the workers' releases and the content's LEAVE jobs hands it
\* to two connections or loses it, if none is accepted on a full table.
THEOREM CustodyKept ==
    ASSUME "tableFull" \notin Faults
    PROVE  Spec => []SlotCustody
<1>1. CustodyInv => SlotCustody
    BY DEF CustodyInv, Custody, Places, Incoming, SlotCustody
<1> QED
    BY <1>1, CustodyHolds, PTL

\* One worker at a time has claimed a session, and the one that puts
\* releaseFlag back (CNetServer.cpp, line 498) took it from a live session.
THEOREM RollbackSafe ==
    ASSUME "tableFull" \notin Faults
    PROVE  Spec => []RollbackHitsLiveSession
<1>1. CustodyInv => RollbackHitsLiveSession
  <2> SUFFICES ASSUME CustodyInv, NEW s \in Slot
               PROVE  /\ Cardinality(At(s, Claiming)) <= 1
                      /\ At(s, {"r.off"}) # {} =>
                             isValid[s] /\ releaseFlag[s] = DELFLAG_ON
      BY DEF RollbackHitsLiveSession, Claiming
  <2>1. Claimed(s)
      BY DEF CustodyInv, Custody
  <2>2. Cardinality(At(s, Claiming)) <= 1
    <3>1. CASE At(s, Claiming) = {}
        BY <3>1, AtCounts
    <3>2. CASE At(s, Claiming) # {}
      <4>1. PICK w : At(s, Claiming) = {w}
          BY <2>1, <3>2 DEF Claimed
      <4>2. Cardinality({w}) = 1
          BY FS_Singleton
      <4> QED
          BY <4>1, <4>2
    <3> QED
        BY <3>1, <3>2
  <2>3. At(s, {"r.off"}) \subseteq At(s, Claiming)
      BY DEF At, Claiming
  <2>4. \A w \in At(s, {"r.off"}) : pc[w] # "r.leave"
      BY DEF At
  <2> QED
      BY <2>1, <2>2, <2>3, <2>4 DEF Claimed
<1> QED
    BY <1>1, CustodyHolds, PTL

-----------------------------------------------------------------------------
(* Only AcceptThread names a session, and counts those it has named.       *)

LEMMA NamedByAccept ==
    ASSUME Next, \A i \in Slot : ~Accept(i)
    PROVE  UNCHANGED <<sessionID, sessionAllocNum>>
<1>1. ASSUME NEW w \in Workers, NEW s \in Slot, TakeCompletion(w, s)
      PROVE  UNCHANGED <<sessionID, sessionAllocNum>>
    BY <1>1 DEF TakeCompletion, RecvDone, SendDone, IoFailed, SendRequested,
                ReleaseRequested, LeaveDone, otherVars, idVars
<1>2. ASSUME NEW w \in Workers, WorkerStep(w)
      PROVE  UNCHANGED <<sessionID, sessionAllocNum>>
  <2>1. CASE RecvPost(w) \/ SendPost(w)
      BY <2>1 DEF RecvPost, RecvPostCheck, RecvPostRecv, RecvPostCancel,
                  SendPost, SendPostFlag, SendPostLook, SendPostUnflag,
                  SendPostTake, SendPostSend, SendPostFail, SendPostCancel,
                  Look, sharedVars, otherVars, idVars
  <2>2. CASE ReleaseSession(w)
      BY <2>2 DEF ReleaseSession, ReleaseValid, ReleaseCount, ReleaseCas,
                  ReleaseID, ReleaseOff, ReleaseUndo, ReleaseClose,
                  ReleaseLeave, Look, sharedVars, otherVars, idVars
  <2>3. CASE \/ SentUnflag(w) \/ SentMore(w) \/ WorkerDeref(w) \/ ReadID(w)
      BY <2>3 DEF SentUnflag, SentMore, WorkerDeref, ReadID, Look,
                  sharedVars, otherVars, idVars
  <2> QED
      BY <1>2, <2>1, <2>2, <2>3 DEF WorkerStep
<1>3. ASSUME NEW u, CallStep(u)
      PROVE  UNCHANGED <<sessionID, sessionAllocNum>>
    BY <1>3 DEF CallStep, FindRef, FindFlag, FindID, UserDeref,
                SendPacketEnqueue, SendPacketLast, SendPacketPost,
                DisconnectCut, GetUDPRead, UdpWrite, Look, sharedVars,
                otherVars, idVars
<1>4. CASE AcceptStep \/ \E s \in Slot : Complete(s) \/ PeerReset(s)
    BY <1>4 DEF AcceptStep, AcceptRef, AcceptValid, AcceptFlag, AcceptReset,
                AcceptJoin, AcceptRecv, Complete, PeerReset, otherVars,
                idVars
<1>5. ASSUME NEW u, NEW id,
             \/ HandleJobs(u, id) \/ UdpReceive(u, id)
             \/ \E o : UserCall(u, id, o)
      PROVE  UNCHANGED <<sessionID, sessionAllocNum>>
    BY <1>5 DEF HandleJobs, UdpReceive, UserCall, FindValid, sharedVars,
                otherVars, idVars
<1> QED
    BY <1>1, <1>2, <1>3, <1>4, <1>5 DEF Next
=============================================================================
