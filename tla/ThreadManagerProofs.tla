------------------------- MODULE ThreadManagerProofs -------------------------
(* A player is in one place, the locks make no cycle, and the content is   *)
(* what the session engine takes it for, for every number of slots and of  *)
(* game threads, wherever messages may move players.                       *)
EXTENDS ThreadManager, TLAPS, FiniteSetTheorems, SequenceTheorems

-----------------------------------------------------------------------------
(* Sequences without repetition.                                           *)

LEMMA Elements ==
    ASSUME NEW S, NEW q \in Seq(S)
    PROVE  /\ Len(q) \in Nat /\ DOMAIN q = 1 .. Len(q)
           /\ ToSet(q) = {q[i] : i \in 1 .. Len(q)} /\ ToSet(q) \subseteq S
    BY DEF ToSet

LEMMA Appended ==
    ASSUME NEW S, NEW q \in Seq(S), NEW x \in S
    PROVE  /\ ToSet(Append(q, x)) = ToSet(q) \cup {x}
           /\ IsInjective(q) /\ x \notin ToSet(q) => IsInjective(Append(q, x))
    BY DEF ToSet, IsInjective

LEMMA Beheaded ==
    ASSUME NEW S, NEW q \in Seq(S), q # << >>
    PROVE  /\ Head(q) \in ToSet(q) /\ Head(q) \in S
           /\ Tail(q) \in Seq(S) /\ Len(Tail(q)) = Len(q) - 1
           /\ IsInjective(q) => /\ IsInjective(Tail(q))
                                /\ ToSet(Tail(q)) = ToSet(q) \ {Head(q)}
<1>1. /\ Len(q) \in Nat \ {0} /\ Head(q) = q[1]
      /\ Tail(q) \in Seq(S) /\ Len(Tail(q)) = Len(q) - 1
      /\ \A i \in 1 .. Len(q) - 1 : Tail(q)[i] = q[i + 1]
    OBVIOUS
<1>2. ToSet(q) = {q[i] : i \in 1 .. Len(q)}
    BY Elements
<1>3. ToSet(Tail(q)) = {q[i + 1] : i \in 1 .. Len(q) - 1}
  <2>1. ToSet(Tail(q)) = {Tail(q)[i] : i \in 1 .. Len(q) - 1}
      BY <1>1, Elements
  <2> QED
      BY <1>1, <2>1
<1>4. ASSUME IsInjective(q) PROVE IsInjective(Tail(q))
    BY <1>1, <1>4 DEF IsInjective
<1>5. ASSUME IsInjective(q)
      PROVE  ToSet(Tail(q)) = ToSet(q) \ {Head(q)}
  <2>1. ASSUME NEW i \in 2 .. Len(q) PROVE q[i] \in ToSet(Tail(q))
      BY <1>1, <1>3, i - 1 \in 1 .. Len(q) - 1, (i - 1) + 1 = i
  <2>2. ASSUME NEW i \in 1 .. Len(q) - 1
        PROVE  q[i + 1] \in ToSet(q) /\ q[i + 1] # q[1]
      BY <1>1, <1>2, <1>5 DEF IsInjective
  <2> QED
      BY <1>1, <1>2, <1>3, <2>1, <2>2
<1> QED
    BY <1>1, <1>2, <1>4, <1>5

LEMMA Removed ==
    ASSUME NEW S, NEW q \in Seq(S), NEW k \in 1 .. Len(q)
    PROVE  /\ q[k] \in ToSet(q) /\ q[k] \in S
           /\ RemoveAt(q, k) \in Seq(S) /\ Len(RemoveAt(q, k)) = Len(q) - 1
           /\ IsInjective(q) => /\ IsInjective(RemoveAt(q, k))
                                /\ ToSet(RemoveAt(q, k)) = ToSet(q) \ {q[k]}
<1> DEFINE r == RemoveAt(q, k)
           from(i) == IF i < k THEN i ELSE i + 1
<1>1. /\ r \in Seq(S) /\ Len(r) = Len(q) - 1
      /\ \A i \in 1 .. Len(q) - 1 : r[i] = q[from(i)]
  <2> DEFINE a == SubSeq(q, 1, k - 1)
             b == SubSeq(q, k + 1, Len(q))
  <2>1. /\ Len(q) \in Nat /\ k \in Nat /\ k >= 1 /\ k <= Len(q)
        /\ \A i \in 1 .. Len(q) : q[i] \in S
      BY Elements
  <2>2. /\ a \in Seq(S) /\ Len(a) = k - 1
        /\ \A i \in 1 .. k - 1 : a[i] = q[i]
      BY <2>1, SubSeqProperties
  <2>3. /\ b \in Seq(S) /\ Len(b) = Len(q) - k
        /\ \A i \in 1 .. Len(q) - k : b[i] = q[i + k]
      BY <2>1, SubSeqProperties
  <2>4. r = a \o b
      BY DEF RemoveAt
  <2> HIDE DEF a, b, r
  <2>5. /\ r \in Seq(S) /\ Len(r) = Len(q) - 1
        /\ \A i \in 1 .. Len(q) - 1 :
               r[i] = IF i <= k - 1 THEN a[i] ELSE b[i - (k - 1)]
    <3>1. /\ a \o b \in Seq(S) /\ Len(a \o b) = Len(a) + Len(b)
          /\ \A i \in 1 .. Len(a) + Len(b) :
                 (a \o b)[i] = IF i <= Len(a) THEN a[i] ELSE b[i - Len(a)]
        BY <2>2, <2>3, ConcatProperties
    <3>2. Len(a) = k - 1 /\ Len(a) + Len(b) = Len(q) - 1
        BY <2>1, <2>2, <2>3
    <3> QED
        BY <2>4, <3>1, <3>2
  <2>6. ASSUME NEW i \in 1 .. Len(q) - 1 PROVE r[i] = q[from(i)]
    <3>1. CASE i < k
        BY <2>1, <2>2, <2>5, <3>1
    <3>2. CASE i >= k
      <4>1. i - (k - 1) \in 1 .. Len(q) - k /\ (i - (k - 1)) + k = i + 1
          BY <2>1, <3>2
      <4> QED
          BY <2>1, <2>3, <2>5, <3>2, <4>1
    <3> QED
        BY <2>1, <3>1, <3>2
  <2> QED
      BY <2>5, <2>6
<1> HIDE DEF r
<1>2. ToSet(q) = {q[i] : i \in 1 .. Len(q)} /\ Len(q) \in Nat
    BY Elements
<1>3. ToSet(r) = {q[from(i)] : i \in 1 .. Len(q) - 1}
  <2>1. ToSet(r) = {r[i] : i \in 1 .. Len(q) - 1}
      BY <1>1, Elements
  <2> QED
      BY <1>1, <2>1
<1>4. ASSUME IsInjective(q) PROVE IsInjective(r)
  <2>1. \A i, j \in 1 .. Len(q) - 1 :
            from(i) \in 1 .. Len(q) /\ (from(i) = from(j) => i = j)
      BY <1>2
  <2>2. DOMAIN r = 1 .. Len(q) - 1 /\ DOMAIN q = 1 .. Len(q)
      BY <1>1, Elements
  <2> QED
      BY <1>1, <1>4, <2>1, <2>2 DEF IsInjective
<1>5. ASSUME IsInjective(q) PROVE ToSet(r) = ToSet(q) \ {q[k]}
  <2>1. ASSUME NEW i \in 1 .. Len(q), i # k PROVE q[i] \in ToSet(r)
    <3>1. CASE i < k
        BY <1>2, <1>3, <3>1
    <3>2. CASE i > k
        BY <1>2, <1>3, <3>2, i - 1 \in 1 .. Len(q) - 1, from(i - 1) = i
    <3> QED
        BY <2>1, <3>1, <3>2
  <2>2. ASSUME NEW i \in 1 .. Len(q) - 1
        PROVE  q[from(i)] \in ToSet(q) /\ q[from(i)] # q[k]
    <3>1. from(i) \in 1 .. Len(q) /\ from(i) # k
        BY <1>2
    <3> QED
        BY <1>2, <1>5, <3>1 DEF IsInjective
  <2> QED
      BY <1>2, <1>3, <2>1, <2>2
<1> QED
    BY <1>1, <1>2, <1>4, <1>5 DEF r
-----------------------------------------------------------------------------
(* Types.                                                                  *)

LEMMA Constants ==
    /\ GameThreads \subseteq Thread /\ LoginThread \in Thread
    /\ LoginThread \notin GameThreads /\ Nobody \notin Thread
    /\ MaxAlloc \in Nat /\ MaxJobs \in Nat
    /\ \A t \in Thread : Moves[t] \subseteq GameThreads
    /\ \A id \in SessionID : IndexOf(id) \in Slot
    BY ManagerAssumption DEF Thread, SessionID, IndexOf

\* The range of a thread is a matter of its own list and queue.
LEMMA SameRange ==
    ASSUME NEW t \in Thread, InRange(t),
           UNCHANGED <<pc[t], iter[t], DesThreadNo[t], entering[t]>>,
           PlayerList'[t] = PlayerList[t],
           entering[t] \in Nat,
           t \in GameThreads =>
               /\ enterQueue[t] \in Seq(SessionID)
               /\ \/ enterQueue'[t] = enterQueue[t]
                  \/ \E x \in SessionID :
                         enterQueue'[t] = Append(enterQueue[t], x)
    PROVE  InRange(t)'
    BY DEF InRange

LEMMA CurrentType ==
    ASSUME TypeOK, NEW t \in Thread, iter[t] <= Len(PlayerList[t])
    PROVE  /\ iter[t] \in 1 .. Len(PlayerList[t])
           /\ Current(t) \in SessionID /\ IndexOf(Current(t)) \in Slot
           /\ Current(t) \in ToSet(PlayerList[t])
<1>1. PlayerList[t] \in Seq(SessionID) /\ iter[t] \in Nat \ {0}
    BY DEF TypeOK, ListType, LoopType
<1>2. iter[t] \in 1 .. Len(PlayerList[t])
    BY <1>1
<1> QED
    BY <1>1, <1>2, Elements, Constants DEF Current

LEMMA GotoType ==
    ASSUME LoopType, NEW t \in Thread, NEW p \in Label,
           pc' = [pc EXCEPT ![t] = p]
    PROVE  pc' \in [Thread -> Label] /\ pc'[t] = p
    BY DEF LoopType

LEMMA InitTypes == Init => TypeOK
<1> SUFFICES ASSUME Init PROVE TypeOK
    OBVIOUS
<1>1. EngineType
    BY Constants DEF Init, SessionID, EngineType
<1>2. ListType
    BY DEF Init, ListType
<1>3. LoopType /\ \A t \in Thread : InRange(t)
    BY DEF Init, LoopType, Label, InRange
<1> QED
    BY <1>1, <1>2, <1>3 DEF TypeOK

LEMMA EngineTypes ==
    ASSUME TypeOK, NEW s \in Slot, Engine(s) PROVE TypeOK'
<1>1. UNCHANGED <<PlayerList, enterVars, pc, loopVars, JobQueueLock>>
    BY DEF Engine, OnRecv, OnClientLeave, Push, OnClientJoin, LeaveDone,
           jobVars
<1>2. ListType /\ LoopType /\ \A t \in Thread : InRange(t)
    BY DEF TypeOK
<1>3. LoopType' /\ \A t \in Thread : InRange(t)'
    BY <1>1, <1>2 DEF LoopType, InRange, loopVars, enterVars
<1>4. CASE OnClientJoin(s)
  <2>1. /\ sessionAllocNum' = sessionAllocNum + 1
        /\ sessionAllocNum < MaxAlloc /\ sessionAllocNum \in 0 .. MaxAlloc
      BY <1>4 DEF OnClientJoin, TypeOK, EngineType
  <2>2. <<sessionAllocNum, s>> \in SessionID
      BY <2>1 DEF SessionID
  <2>3. EngineType'
    <3>1. sessionAllocNum' \in 0 .. MaxAlloc
        BY <2>1, Constants
    <3> QED
        BY <1>1, <1>4, <2>2, <3>1
           DEF OnClientJoin, TypeOK, EngineType, jobVars
  <2>4. ListType'
      BY <1>1, <1>2, <1>4, <2>2 DEF OnClientJoin, ListType, enterVars
  <2> QED
      BY <1>3, <2>3, <2>4 DEF TypeOK
<1>5. CASE ~OnClientJoin(s)
  <2>1. LoginQueue' = LoginQueue /\ sessionAllocNum' = sessionAllocNum
      BY <1>5 DEF Engine, OnRecv, OnClientLeave, Push, LeaveDone
  <2>2. ListType'
      BY <1>1, <1>2, <2>1 DEF ListType, enterVars
  <2>3. completions' \in [Slot -> Nat]
      BY <1>5 DEF Engine, OnRecv, OnClientLeave, Push, LeaveDone, TypeOK,
                  EngineType
  <2>4. \/ UNCHANGED session
        \/ session' = [session EXCEPT ![s].state = "left"]
        \/ session' = [session EXCEPT ![s].state = "free"]
      BY <1>5 DEF Engine, OnRecv, OnClientLeave, LeaveDone
  <2>5. session' \in [Slot -> [state : {"free", "live", "left"},
                               id : SessionID]]
      BY <2>4 DEF TypeOK, EngineType
  <2>6. ASSUME NEW type \in {"RECV", "LEAVE"}, Push(s, type)
        PROVE  JobQueue' \in [Slot -> Seq(Job)]
    <3>1. [type |-> type, id |-> session[s].id] \in Job
        BY DEF Job, TypeOK, EngineType
    <3> QED
        BY <2>6, <3>1 DEF Push, TypeOK, EngineType
  <2>7. JobQueue' \in [Slot -> Seq(Job)]
      BY <1>5, <2>6 DEF Engine, OnRecv, OnClientLeave, LeaveDone, TypeOK,
                        EngineType
  <2> QED
      BY <1>1, <1>3, <2>1, <2>2, <2>3, <2>5, <2>7 DEF TypeOK, EngineType
<1> QED
    BY <1>4, <1>5

\* What Enter, Leave and Stay do to the jobs and the completions.
LEMMA AnswerTypes ==
    ASSUME TypeOK, NEW s \in Slot, NEW leaves,
           JobQueue' = [JobQueue EXCEPT ![s] = << >>], Answer(s, leaves)
    PROVE  /\ JobQueue' \in [Slot -> Seq(Job)]
           /\ completions' \in [Slot -> Nat]
    BY DEF TypeOK, EngineType, Answer

LEMMA EnterTypes ==
    ASSUME TypeOK, NEW g \in GameThreads, EnterFunction(g)
    PROVE  TypeOK'
<1>1. ListType /\ LoopType /\ g \in Thread /\ \A t \in Thread : InRange(t)
    BY Constants DEF TypeOK
<1>2. CASE EnterLock(g) \/ EnterUnlock(g)
  <2>1. /\ UNCHANGED <<engineVars, jobVars, LoginQueue, PlayerList,
                       enterQueue, loopVars>>
        /\ \/ /\ pc' = [pc EXCEPT ![g] = "enter"] /\ pc[g] = "enterLock"
              /\ enterQueueLock' = [enterQueueLock EXCEPT ![g] = g]
           \/ /\ pc' = [pc EXCEPT ![g] = "round"]
              /\ enterQueueLock' = [enterQueueLock EXCEPT ![g] = Nobody]
      BY <1>2 DEF EnterLock, EnterUnlock, Goto
  <2>2. ListType' /\ LoopType'
      BY <1>1, <2>1 DEF ListType, LoopType, Label, loopVars
  <2>3. ASSUME NEW t \in Thread PROVE InRange(t)'
      BY <1>1, <2>1 DEF LoopType, InRange, loopVars
  <2> QED
      BY <2>1, <2>2, <2>3 DEF TypeOK, EngineType, engineVars, jobVars
<1>3. CASE Enter(g)
  <2> DEFINE id == Head(enterQueue[g])
             s == IndexOf(id)
  <2>1. /\ enterQueue[g] # << >> /\ entering[g] \in Nat \ {0}
        /\ enterQueue[g] \in Seq(SessionID)
        /\ entering[g] <= Len(enterQueue[g])
      BY <1>1, <1>3 DEF Enter, ListType, LoopType, InRange
  <2>2. /\ id \in SessionID /\ s \in Slot
        /\ Tail(enterQueue[g]) \in Seq(SessionID)
        /\ Len(Tail(enterQueue[g])) = Len(enterQueue[g]) - 1
      BY <2>1, Beheaded, Constants
  <2>3. EngineType'
    <3>1. JobQueue' \in [Slot -> Seq(Job)] /\ completions' \in [Slot -> Nat]
        BY <1>3, <2>2, AnswerTypes DEF Enter
    <3> QED
        BY <1>3, <3>1 DEF Enter, TypeOK, EngineType, engineVars
  <2>4. /\ Append(PlayerList[g], id) \in Seq(SessionID)
        /\ Len(Append(PlayerList[g], id)) = Len(PlayerList[g]) + 1
      BY <1>1, <2>2 DEF ListType
  <2> HIDE DEF s
  <2>5. /\ PlayerList' \in [Thread -> Seq(SessionID)]
        /\ \A t \in Thread \ {g} : PlayerList'[t] = PlayerList[t]
      BY <1>1, <1>3, <2>4 DEF Enter, ListType
  <2>6. /\ enterQueue' = [enterQueue EXCEPT ![g] = Tail(@)]
        /\ entering' = [entering EXCEPT ![g] = @ - 1] /\ pc[g] = "enter"
        /\ UNCHANGED <<LoginQueue, enterQueueLock, pc, round, iter,
                       DesThreadNo>>
      BY <1>3 DEF Enter
  <2>7. ListType' /\ LoopType'
      BY <1>1, <2>1, <2>2, <2>5, <2>6 DEF ListType, LoopType
  <2>8. ASSUME NEW t \in Thread PROVE InRange(t)'
    <3>1. CASE t # g
        BY <1>1, <2>5, <2>6, <3>1 DEF ListType, LoopType, InRange
    <3>2. CASE t = g
        BY <1>1, <2>1, <2>2, <2>6, <3>2 DEF ListType, LoopType, InRange
    <3> QED
        BY <3>1, <3>2
  <2> QED
      BY <2>3, <2>7, <2>8 DEF TypeOK
<1> QED
    BY <1>2, <1>3 DEF EnterFunction

LEMMA PopLoginTypes ==
    ASSUME TypeOK, PopLogin PROVE TypeOK'
<1>1. /\ LoginQueue # << >> /\ LoginQueue \in Seq(SessionID)
      /\ pc[LoginThread] = "frame" /\ LoginThread \in Thread
      /\ EngineType /\ ListType /\ LoopType /\ \A t \in Thread : InRange(t)
    BY Constants DEF PopLogin, TypeOK, ListType
<1>2. Head(LoginQueue) \in SessionID /\ Tail(LoginQueue) \in Seq(SessionID)
    BY <1>1, Beheaded
<1>3. /\ PlayerList' \in [Thread -> Seq(SessionID)]
      /\ \A t \in Thread \ {LoginThread} : PlayerList'[t] = PlayerList[t]
    BY <1>1, <1>2 DEF PopLogin, ListType
<1>4. ASSUME NEW t \in Thread PROVE InRange(t)'
    BY <1>1, <1>3 DEF PopLogin, InRange, enterVars, loopVars
<1>5. ListType'
    BY <1>1, <1>2, <1>3 DEF PopLogin, ListType, enterVars
<1>6. EngineType' /\ LoopType'
    BY <1>1 DEF PopLogin, EngineType, LoopType, engineVars, jobVars, loopVars
<1> QED
    BY <1>4, <1>5, <1>6 DEF TypeOK

LEMMA ListTypes ==
    ASSUME TypeOK, NEW t \in Thread,
           Frame(t) \/ Round(t) \/ RoundDone(t) \/ AcquireJobQueueLock(t)
    PROVE  TypeOK'
<1>1. EngineType /\ ListType /\ LoopType /\ \A u \in Thread : InRange(u)
    BY DEF TypeOK
<1>2. /\ UNCHANGED <<engineVars, LoginQueue, PlayerList, enterVars,
                     completions, JobQueue, DesThreadNo>>
      /\ ListType'
    BY <1>1 DEF Frame, Round, RoundDone, AcquireJobQueueLock, jobVars,
                loopVars, ListType, enterVars
<1>3. EngineType'
  <2>1. CASE AcquireJobQueueLock(t)
    <3>1. IndexOf(Current(t)) \in Slot
        BY <2>1, CurrentType DEF AcquireJobQueueLock
    <3> QED
        BY <1>1, <1>2, <2>1, <3>1
           DEF AcquireJobQueueLock, EngineType, engineVars
  <2>2. CASE ~AcquireJobQueueLock(t)
      BY <1>1, <1>2, <2>2 DEF Frame, Round, RoundDone, EngineType, engineVars,
                              jobVars
  <2> QED
      BY <2>1, <2>2
<1>4. Len(PlayerList[t]) \in Nat
    BY <1>1 DEF ListType
<1>5. CASE Frame(t)
  <2>1. PICK waiting \in Nat, label \in {"enterLock", "round"} :
            /\ label = "enterLock" =>
                   t \in GameThreads /\ waiting <= Len(enterQueue[t])
            /\ entering' = [entering EXCEPT ![t] = waiting]
            /\ pc' = [pc EXCEPT ![t] = label]
    <3> DEFINE waiting == IF t \in GameThreads THEN Len(enterQueue[t]) ELSE 0
               label == IF waiting > 0 THEN "enterLock" ELSE "round"
    <3>1. /\ waiting \in Nat /\ label \in {"enterLock", "round"}
          /\ label = "enterLock" =>
                 t \in GameThreads /\ waiting <= Len(enterQueue[t])
        BY <1>1 DEF ListType
    <3>2. /\ entering' = [entering EXCEPT ![t] = waiting]
          /\ pc' = [pc EXCEPT ![t] = label]
        BY <1>5 DEF Frame, Goto
    <3> HIDE DEF waiting, label
    <3> QED
        BY <3>1, <3>2
  <2>2. /\ round' = [round EXCEPT ![t] = Len(PlayerList[t])] /\ iter' = iter
        /\ label \in Label
      BY <1>5 DEF Frame, Label
  <2>4. LoopType'
    <3>1. DesThreadNo' = DesThreadNo
        BY <1>2
    <3>2. pc' \in [Thread -> Label]
        BY <1>1, <2>1, <2>2, GotoType
    <3>3. /\ round' \in [Thread -> Nat] /\ entering' \in [Thread -> Nat]
        BY <1>1, <1>4, <2>1, <2>2 DEF LoopType
    <3> QED
        BY <1>1, <2>2, <3>1, <3>2, <3>3 DEF LoopType
  <2>5. ASSUME NEW u \in Thread PROVE InRange(u)'
    <3>1. /\ PlayerList' = PlayerList /\ enterQueue' = enterQueue
          /\ DesThreadNo' = DesThreadNo
        BY <1>2 DEF enterVars
    <3>2. CASE u = t
      <4>1. pc'[t] = label /\ entering'[t] = waiting
          BY <1>1, <2>1 DEF LoopType
      <4> QED
          BY <2>1, <3>1, <3>2, <4>1 DEF InRange
    <3>3. CASE u # t
        BY <1>1, <2>1, <2>2, <3>1, <3>3 DEF InRange, LoopType
    <3> QED
        BY <3>2, <3>3
  <2> QED
      BY <1>2, <1>3, <2>4, <2>5 DEF TypeOK
<1>6. CASE Round(t) \/ RoundDone(t) \/ AcquireJobQueueLock(t)
  <2>1. /\ entering' = entering
        /\ \E p \in Label : pc' = [pc EXCEPT ![t] = p]
        /\ \/ /\ pc'[t] \in {"frame", "round"}
              /\ UNCHANGED <<round, iter>>
           \/ /\ pc'[t] = "list" /\ round[t] > 0
              /\ round' = [round EXCEPT ![t] = @ - 1]
              /\ iter' = [iter EXCEPT ![t] = 1]
           \/ /\ pc'[t] = "jobs" /\ iter[t] <= Len(PlayerList[t])
              /\ UNCHANGED <<round, iter>>
    <3>1. \/ Goto(t, "frame") \/ Goto(t, "round") \/ Goto(t, "list")
          \/ Goto(t, "jobs")
        BY <1>6 DEF Round, RoundDone, AcquireJobQueueLock
    <3>2. \E p \in Label : pc' = [pc EXCEPT ![t] = p]
        BY <3>1 DEF Goto, Label
    <3>3. CASE Round(t)
        BY <1>1, <3>2, <3>3 DEF Round, Goto, LoopType
    <3>4. CASE RoundDone(t)
        BY <1>1, <3>2, <3>4 DEF RoundDone, Goto, LoopType, loopVars
    <3>5. CASE AcquireJobQueueLock(t)
        BY <1>1, <3>2, <3>5 DEF AcquireJobQueueLock, Goto, LoopType, loopVars
    <3> QED
        BY <1>6, <3>3, <3>4, <3>5
  <2>2. LoopType'
    <3>1. pc' \in [Thread -> Label] /\ DesThreadNo' = DesThreadNo
      <4>1. PICK p \in Label : pc' = [pc EXCEPT ![t] = p]
          BY <2>1
      <4>2. pc' \in [Thread -> Label]
          BY <1>1, <4>1 DEF LoopType
      <4> QED
          BY <1>2, <4>2
    <3>2. /\ round' \in [Thread -> Nat] /\ iter' \in [Thread -> Nat \ {0}]
      <4>1. CASE UNCHANGED <<round, iter>>
          BY <1>1, <4>1 DEF LoopType
      <4>2. CASE /\ round[t] > 0 /\ round' = [round EXCEPT ![t] = @ - 1]
                 /\ iter' = [iter EXCEPT ![t] = 1]
          BY <1>1, <4>2 DEF LoopType
      <4> QED
          BY <2>1, <4>1, <4>2
    <3> QED
        BY <1>1, <2>1, <3>1, <3>2 DEF LoopType
  <2>3. ASSUME NEW u \in Thread PROVE InRange(u)'
      BY <1>1, <1>2, <1>4, <2>1 DEF LoopType, InRange, enterVars
  <2> QED
      BY <1>2, <1>3, <2>2, <2>3 DEF TypeOK
<1> QED
    BY <1>5, <1>6

JobStep(t) ==
    \/ Leave(t) \/ Stay(t) \/ MovePlayer(t) \/ EraseMoved(t)
    \/ \E n \in 1 .. MaxJobs, d \in GameThreads : Move(t, n, d)

LEMMA JobFrame ==
    ASSUME TypeOK, NEW t \in Thread, JobStep(t)
    PROVE  /\ pc[t] \in {"jobs", "move", "erase"}
           /\ pc'[t] \in {"list", "move", "erase"}
           /\ pc' = [pc EXCEPT ![t] = pc'[t]]
           /\ iter[t] \in 1 .. Len(PlayerList[t])
           /\ Current(t) \in SessionID /\ IndexOf(Current(t)) \in Slot
           /\ UNCHANGED <<engineVars, LoginQueue, enterQueueLock, entering,
                          round>>
<1>1. /\ pc[t] \in {"jobs", "move", "erase"}
      /\ UNCHANGED <<engineVars, LoginQueue, enterQueueLock, entering, round>>
    BY DEF JobStep, Leave, Stay, MovePlayer, EraseMoved, Move, Goto, jobVars,
           enterVars, loopVars
<1>2. pc'[t] \in {"list", "move", "erase"} /\ pc' = [pc EXCEPT ![t] = pc'[t]]
    BY DEF JobStep, Leave, Stay, MovePlayer, EraseMoved, Move, Goto, TypeOK,
           LoopType
<1>3. iter[t] <= Len(PlayerList[t])
    BY <1>1 DEF TypeOK, InRange
<1> QED
    BY <1>1, <1>2, <1>3, CurrentType

LEMMA JobTypes ==
    ASSUME TypeOK, NEW t \in Thread, JobStep(t)
    PROVE  TypeOK'
<1> DEFINE s == IndexOf(Current(t))
<1>1. /\ EngineType /\ ListType /\ LoopType
      /\ \A u \in Thread : InRange(u)
      /\ PlayerList[t] \in Seq(SessionID) /\ Len(PlayerList[t]) \in Nat
    BY DEF TypeOK, ListType
<1>2. /\ iter[t] \in 1 .. Len(PlayerList[t]) /\ s \in Slot
      /\ Current(t) \in SessionID /\ JobQueue[s] \in Seq(Job)
      /\ pc' = [pc EXCEPT ![t] = pc'[t]]
      /\ pc[t] \in {"jobs", "move", "erase"}
      /\ pc'[t] \in {"list", "move", "erase"}
      /\ UNCHANGED <<engineVars, LoginQueue, enterQueueLock, entering, round>>
    BY <1>1, JobFrame DEF EngineType
<1>3. Release(t) => JobQueueLock' \in [Slot -> Thread \cup {Nobody}]
    BY <1>1, <1>2 DEF Release, EngineType
<1>4. Erase(t) => /\ PlayerList' \in [Thread -> Seq(SessionID)]
                  /\ Len(PlayerList'[t]) = Len(PlayerList[t]) - 1
                  /\ \A u \in Thread \ {t} : PlayerList'[u] = PlayerList[u]
    BY <1>1, <1>2, Removed DEF Erase, ListType
<1>5. ASSUME NEW n \in 1 .. MaxJobs
      PROVE  SubSeq(JobQueue[s], n + 1, Len(JobQueue[s])) \in Seq(Job)
  <2>1. n \in Nat /\ Len(JobQueue[s]) \in Nat
      BY <1>2, Constants
  <2> QED
      BY <1>2, <2>1
<1> HIDE DEF s
<1>6. EngineType'
  <2>1. CASE Leave(t)
    <3>1. JobQueue' \in [Slot -> Seq(Job)] /\ completions' \in [Slot -> Nat]
        BY <1>2, <2>1, AnswerTypes DEF Leave, s
    <3>2. Release(t)
        BY <2>1 DEF Leave
    <3> QED
        BY <1>1, <1>2, <1>3, <3>1, <3>2 DEF EngineType, engineVars
  <2>2. CASE Stay(t) \/ EraseMoved(t)
    <3>1. /\ JobQueue' \in [Slot -> Seq(Job)] /\ completions' = completions
          /\ Release(t)
      <4>1. Stay(t) => JobQueue' = [JobQueue EXCEPT ![s] = << >>]
          BY DEF Stay, s
      <4>2. EraseMoved(t) => JobQueue' = JobQueue
          BY DEF EraseMoved
      <4>3. completions' = completions /\ Release(t)
          BY <2>2 DEF Stay, EraseMoved
      <4>4. << >> \in Seq(Job)
          OBVIOUS
      <4>5. JobQueue' \in [Slot -> Seq(Job)]
          BY <1>1, <2>2, <4>1, <4>2, <4>4 DEF EngineType
      <4> QED
          BY <4>3, <4>5
    <3> QED
        BY <1>1, <1>2, <1>3, <3>1 DEF EngineType, engineVars
  <2>3. CASE MovePlayer(t)
      BY <1>1, <1>2, <2>3 DEF MovePlayer, EngineType, engineVars, jobVars
  <2>4. ASSUME NEW n \in 1 .. MaxJobs, NEW d \in GameThreads, Move(t, n, d)
        PROVE  EngineType'
    <3>1. JobQueue' \in [Slot -> Seq(Job)]
        BY <1>1, <1>2, <1>5, <2>4 DEF Move, EngineType, s
    <3> QED
        BY <1>1, <1>2, <2>4, <3>1 DEF Move, EngineType, engineVars
  <2> QED
      BY <2>1, <2>2, <2>3, <2>4 DEF JobStep
<1>7. ListType'
  <2>1. CASE Leave(t) \/ EraseMoved(t)
      BY <1>1, <1>2, <1>4, <2>1 DEF Leave, EraseMoved, ListType, enterVars
  <2>2. CASE MovePlayer(t)
    <3>1. DesThreadNo[t] \in GameThreads
        BY <1>1, <2>2 DEF MovePlayer, InRange, Goto
    <3> QED
        BY <1>1, <1>2, <2>2, <3>1 DEF MovePlayer, ListType
  <2>3. CASE \/ Stay(t)
             \/ \E n \in 1 .. MaxJobs, d \in GameThreads : Move(t, n, d)
      BY <1>1, <1>2, <2>3 DEF Stay, Move, ListType, enterVars
  <2> QED
      BY <2>1, <2>2, <2>3 DEF JobStep
<1>8. LoopType'
  <2>1. Stay(t) => /\ iter' \in [Thread -> Nat \ {0}]
                   /\ DesThreadNo' = DesThreadNo
      BY <1>1 DEF Stay, LoopType
  <2>2. Leave(t) \/ MovePlayer(t) \/ EraseMoved(t)
            => UNCHANGED <<iter, DesThreadNo>>
      BY DEF Leave, MovePlayer, EraseMoved, loopVars
  <2>3. ASSUME NEW n \in 1 .. MaxJobs, NEW d \in GameThreads, Move(t, n, d)
        PROVE  /\ iter' \in [Thread -> Nat \ {0}]
               /\ DesThreadNo' \in [Thread -> Thread]
      BY <1>1, <2>3, Constants DEF Move, LoopType
  <2>4. /\ iter' \in [Thread -> Nat \ {0}]
        /\ DesThreadNo' \in [Thread -> Thread]
      BY <1>1, <2>1, <2>2, <2>3 DEF JobStep, LoopType
  <2>5. pc'[t] \in Label
      BY <1>2 DEF Label
  <2>6. pc' \in [Thread -> Label]
      BY <1>1, <1>2, <2>5, GotoType
  <2> QED
      BY <1>1, <1>2, <2>4, <2>6 DEF LoopType
<1>9. ASSUME NEW u \in Thread \ {t} PROVE InRange(u)'
  <2>1. /\ iter'[u] = iter[u] /\ DesThreadNo'[u] = DesThreadNo[u]
        /\ PlayerList'[u] = PlayerList[u] /\ pc'[u] = pc[u]
      BY <1>1, <1>2, <1>4 DEF JobStep, Leave, Stay, MovePlayer, EraseMoved,
                              Move, LoopType, loopVars
  <2>2. u \in GameThreads =>
            \/ enterQueue'[u] = enterQueue[u]
            \/ enterQueue'[u] = Append(enterQueue[u], Current(t))
      BY <1>1 DEF JobStep, Leave, Stay, MovePlayer, EraseMoved, Move,
                  enterVars, ListType
  <2>3. u \in GameThreads => enterQueue[u] \in Seq(SessionID)
      BY <1>1 DEF ListType
  <2> QED
      BY <1>1, <1>2, <2>1, <2>2, <2>3, SameRange DEF LoopType
<1>10. InRange(t)'
  <2>1. CASE Leave(t) \/ EraseMoved(t)
    <3>1. /\ pc'[t] = "list" /\ iter'[t] = iter[t]
          /\ Len(PlayerList'[t]) = Len(PlayerList[t]) - 1
        BY <1>1, <1>2, <1>4, <2>1
           DEF Leave, EraseMoved, Goto, LoopType, loopVars
    <3> QED
        BY <1>1, <1>2, <3>1 DEF InRange
  <2>2. CASE Stay(t)
    <3>1. /\ pc'[t] = "list" /\ iter'[t] = iter[t] + 1
          /\ PlayerList' = PlayerList
        BY <1>1, <1>2, <2>2 DEF Stay, Goto, LoopType
    <3> QED
        BY <1>1, <1>2, <3>1 DEF InRange
  <2>3. CASE MovePlayer(t)
    <3>1. /\ pc'[t] = "erase" /\ iter'[t] = iter[t]
          /\ PlayerList' = PlayerList
        BY <1>1, <1>2, <2>3 DEF MovePlayer, Goto, LoopType, loopVars
    <3> QED
        BY <1>1, <1>2, <3>1 DEF InRange
  <2>4. ASSUME NEW n \in 1 .. MaxJobs, NEW d \in GameThreads, Move(t, n, d)
        PROVE  InRange(t)'
    <3>1. /\ pc'[t] = "move" /\ iter'[t] = iter[t] /\ DesThreadNo'[t] = d
          /\ PlayerList' = PlayerList
        BY <1>1, <1>2, <2>4 DEF Move, Goto, LoopType
    <3> QED
        BY <1>1, <1>2, <3>1 DEF InRange
  <2> QED
      BY <2>1, <2>2, <2>3, <2>4 DEF JobStep
<1> QED
    BY <1>6, <1>7, <1>8, <1>9, <1>10 DEF TypeOK

\* Every variable keeps its type, and the positions and sizes a thread has
\* read stay within its lists (CThreadManager.cpp, the two thread functions):
\* a list shrinks only by its own thread's hand.
THEOREM ManagerTypes == Spec => []TypeOK
<1>1. TypeOK /\ [Next]_vars => TypeOK'
  <2> SUFFICES ASSUME TypeOK, [Next]_vars PROVE TypeOK'
      OBVIOUS
  <2>1. CASE UNCHANGED vars
      BY <2>1 DEF vars, TypeOK, EngineType, ListType, LoopType, InRange,
                  engineVars, jobVars, enterVars, loopVars
  <2> QED
      BY <2>1, EngineTypes, PopLoginTypes, EnterTypes, ListTypes, JobTypes
         DEF Next, ThreadFunction, JobStep
<1> QED
    BY <1>1, InitTypes, PTL DEF Spec
-----------------------------------------------------------------------------
(* The inductive invariant: OnePlace, with who holds a lock and what the   *)
(* jobs of a session are.                                                  *)

\* A thread that handles the jobs of a player has the lock of its slot.
LockHeld ==
    \A t \in Thread : pc[t] \in {"jobs", "move", "erase"}
                          => JobQueueLock[IndexOf(Current(t))] = t

\* A session leaves once, LEAVE is its last job, and its completion comes
\* when no job is left; a slot without session has neither.
JobsEnd(s) ==
    /\ completions[s] \in {0, 1} /\ IndexOf(session[s].id) = s
    /\ completions[s] = 1 => session[s].state = "left"
    /\ ~Owed(s) => JobQueue[s] = << >>
    /\ \A i \in 1 .. Len(JobQueue[s]) :
           JobQueue[s][i].type = "LEAVE" => /\ i = Len(JobQueue[s])
                                            /\ session[s].state = "left"

ManagerInv == LockHeld /\ OnePlace /\ \A s \in Slot : JobsEnd(s)

-----------------------------------------------------------------------------
(* Places.                                                                 *)

LoginPlace == <<"LoginQueue", LoginThread>>
ListPlace(t) == <<"PlayerList", t>>
EnterPlace(g) == <<"enterQueue", g>>

LEMMA PlaceKinds ==
    /\ LoginPlace \in Place /\ \A t \in Thread : ListPlace(t) \in Place
    /\ \A g \in GameThreads : EnterPlace(g) \in Place
    /\ \A p \in Place : \/ p = LoginPlace
                        \/ \E t \in Thread : p = ListPlace(t)
                        \/ \E g \in GameThreads : p = EnterPlace(g)
    /\ \A t, u : /\ LoginPlace # ListPlace(t) /\ LoginPlace # EnterPlace(t)
                 /\ ListPlace(t) # EnterPlace(u)
                 /\ ListPlace(t) = ListPlace(u) => t = u
                 /\ EnterPlace(t) = EnterPlace(u) => t = u
    BY DEF Place, LoginPlace, ListPlace, EnterPlace

LEMMA PlayersAt ==
    /\ Players(LoginPlace) = LoginQueue /\ Players(LoginPlace)' = LoginQueue'
    /\ \A t : /\ Players(ListPlace(t)) = PlayerList[t]
              /\ Players(ListPlace(t))' = PlayerList'[t]
              /\ Players(EnterPlace(t)) = enterQueue[t]
              /\ Players(EnterPlace(t))' = enterQueue'[t]
    BY DEF Players, LoginPlace, ListPlace, EnterPlace

LEMMA PlayersType ==
    ASSUME ListType, NEW p \in Place
    PROVE  /\ Players(p) \in Seq(SessionID)
           /\ ToSet(Players(p)) \subseteq SessionID
<1>1. Players(p) \in Seq(SessionID)
    BY PlaceKinds, PlayersAt DEF ListType
<1> QED
    BY <1>1, Elements

LEMMA MovingPlaces ==
    ASSUME TypeOK, NEW id
    PROVE  /\ \A t \in Thread : ListPlace(t) \in Moving(id)
                  <=> pc[t] = "erase" /\ Current(t) = id
           /\ Moving(id) \subseteq {ListPlace(t) : t \in Thread}
           /\ Moving(id) \subseteq Places(id)
<1>1. \A t \in Thread : ListPlace(t) \in Moving(id)
          <=> pc[t] = "erase" /\ Current(t) = id
    BY PlaceKinds DEF Moving, ListPlace
<1>2. Moving(id) \subseteq {ListPlace(t) : t \in Thread}
    BY DEF Moving, ListPlace
<1>3. ASSUME NEW t \in Thread, pc[t] = "erase", Current(t) = id
      PROVE  ListPlace(t) \in Places(id)
  <2>1. iter[t] <= Len(PlayerList[t])
      BY <1>3 DEF TypeOK, InRange
  <2> QED
      BY <1>3, <2>1, CurrentType, PlaceKinds, PlayersAt DEF Places
<1> QED
    BY <1>1, <1>2, <1>3

LEMMA NotMoving ==
    ASSUME NEW id
    PROVE  /\ LoginPlace \notin Moving(id)
           /\ \A g : EnterPlace(g) \notin Moving(id)
           /\ \A t \in Thread : pc[t] # "erase" \/ Current(t) # id
                                => ListPlace(t) \notin Moving(id)
    BY DEF Moving, LoginPlace, EnterPlace, ListPlace

\* A place is one of a player's when the player is in its list or queue.
LEMMA PlacesAt ==
    ASSUME NEW p \in Place, NEW id
    PROVE  /\ p \in Places(id) <=> id \in ToSet(Players(p))
           /\ p \in Places(id)' <=> id \in ToSet(Players(p))'
    BY DEF Places

\* The players listed are those of the sessions that are owed an answer.
LEMMA Listed ==
    ASSUME TypeOK, ManagerInv, NEW p \in Place, NEW id \in ToSet(Players(p))
    PROVE  /\ id \in SessionID /\ IndexOf(id) \in Slot
           /\ session[IndexOf(id)].id = id /\ Owed(IndexOf(id))
           /\ \E q \in Place : Places(id) \ Moving(id) = {q}
<1>1. id \in SessionID /\ IndexOf(id) \in Slot
    BY PlayersType, Constants DEF TypeOK
<1>2. session[IndexOf(id)].id = id
    BY DEF ManagerInv, OnePlace
<1>3. p \in Places(id)
    BY PlacesAt
<1> QED
    BY <1>1, <1>2, <1>3 DEF ManagerInv, OnePlace

\* Who has the lock of a player's slot is the one that may be moving it.
LEMMA MovedByHolder ==
    ASSUME TypeOK, ManagerInv, NEW id
    PROVE  /\ JobQueueLock[IndexOf(id)] = Nobody => Moving(id) = {}
           /\ \A t \in Thread :
                  /\ pc[t] \in {"jobs", "move", "erase"} /\ Current(t) = id
                  => Moving(id) = IF pc[t] = "erase" THEN {ListPlace(t)}
                                                     ELSE {}
<1>1. \A t \in Thread : pc[t] = "erase" /\ Current(t) = id
          => JobQueueLock[IndexOf(id)] = t
    BY DEF ManagerInv, LockHeld
<1>2. JobQueueLock[IndexOf(id)] = Nobody => Moving(id) = {}
    BY <1>1, MovingPlaces, Constants
<1>3. ASSUME NEW t \in Thread, pc[t] \in {"jobs", "move", "erase"},
             Current(t) = id
      PROVE  Moving(id) = IF pc[t] = "erase" THEN {ListPlace(t)} ELSE {}
  <2>1. JobQueueLock[IndexOf(id)] = t
      BY <1>3 DEF ManagerInv, LockHeld
  <2> QED
      BY <1>1, <1>3, <2>1, MovingPlaces
<1> QED
    BY <1>2, <1>3

\* OnePlace of one session, and of one list or queue.
Settled(s, id) ==
    IF Owed(s) THEN \E p \in Place : Places(id) \ Moving(id) = {p}
               ELSE Places(id) = {}

LEMMA Settles ==
    /\ OnePlace <=>
           /\ \A p \in Place : IsInjective(Players(p))
           /\ \A s \in Slot : \A id : id = session[s].id => Settled(s, id)
           /\ \A p \in Place : \A id \in ToSet(Players(p)) :
                  session[IndexOf(id)].id = id
    /\ OnePlace' <=>
           /\ \A p \in Place : IsInjective(Players(p))'
           /\ \A s \in Slot : \A id : id = session'[s].id => Settled(s, id)'
           /\ \A p \in Place : \A id \in ToSet(Players(p))' :
                  session'[IndexOf(id)].id = id
    BY DEF OnePlace, Settled, Places, Moving

LEMMA PlayersTypeNext ==
    ASSUME ListType', NEW p \in Place
    PROVE  /\ Players(p)' \in Seq(SessionID)
           /\ ToSet(Players(p))' \subseteq SessionID
<1>1. Players(p)' \in Seq(SessionID)
    BY PlaceKinds, PlayersAt DEF ListType
<1> QED
    BY <1>1, Elements

\* A step that moves one player, or none, keeps the players in their places.
LEMMA OneMoved ==
    ASSUME TypeOK, ManagerInv, TypeOK', NEW id \in SessionID,
           \A p \in Place : IsInjective(Players(p))',
           \A p \in Place : \A i \in SessionID \ {id} :
               i \in ToSet(Players(p))' <=> i \in ToSet(Players(p)),
           \A i \in SessionID \ {id} : Moving(i)' = Moving(i),
           \A s \in Slot \ {IndexOf(id)} :
               session'[s] = session[s] /\ Owed(s)' = Owed(s),
           \/ session[IndexOf(id)].id = id
           \/ ~Owed(IndexOf(id)),
           session'[IndexOf(id)].id = id,
           Settled(IndexOf(id), id)'
    PROVE  OnePlace'
<1>1. ASSUME NEW i \in SessionID \ {id} PROVE Places(i)' = Places(i)
    BY <1>1 DEF Places
<1>2. ASSUME NEW s \in Slot, NEW i, i = session'[s].id
      PROVE  Settled(s, i)'
  <2>1. CASE s = IndexOf(id)
      BY <1>2, <2>1
  <2>2. CASE s # IndexOf(id)
    <3>1. /\ session'[s] = session[s] /\ Owed(s)' = Owed(s)
          /\ i = session[s].id /\ i \in SessionID \ {id}
        BY <1>2, <2>2 DEF ManagerInv, JobsEnd, TypeOK, EngineType
    <3>2. Settled(s, i)
        BY <3>1, Settles DEF ManagerInv
    <3>3. Places(i)' = Places(i) /\ Moving(i)' = Moving(i)
        BY <1>1, <3>1
    <3> QED
        BY <3>1, <3>2, <3>3 DEF Settled
  <2> QED
      BY <2>1, <2>2
<1>3. ASSUME NEW p \in Place, NEW i \in ToSet(Players(p))'
      PROVE  session'[IndexOf(i)].id = i
  <2>1. i \in SessionID /\ IndexOf(i) \in Slot
      BY <1>3, PlayersTypeNext, Constants DEF TypeOK
  <2>2. CASE i # id
    <3>1. i \in ToSet(Players(p))
        BY <1>3, <2>1, <2>2
    <3>2. session[IndexOf(i)].id = i /\ Owed(IndexOf(i))
        BY <3>1, Listed
    <3>3. IndexOf(i) # IndexOf(id)
        BY <2>2, <3>2
    <3> QED
        BY <2>1, <3>2, <3>3
  <2> QED
      BY <2>2
<1> QED
    BY <1>2, <1>3, Settles

\* What a step of thread t does to the players being moved.
LEMMA SameMoving ==
    ASSUME NEW t \in Thread, NEW id,
           \A u \in Thread \ {t} :
               UNCHANGED <<pc[u], iter[u], PlayerList[u]>>
    PROVE  /\ Moving(id)' \ {ListPlace(t)} = Moving(id) \ {ListPlace(t)}
           /\ ListPlace(t) \in Moving(id)'
                  <=> pc'[t] = "erase" /\ Current(t)' = id
    BY DEF Moving, ListPlace, Current

LEMMA SameCurrent ==
    ASSUME NEW t, UNCHANGED <<iter[t], PlayerList[t]>>
    PROVE  Current(t)' = Current(t)
    BY DEF Current

LEMMA SameJobsEnd ==
    ASSUME NEW s, JobsEnd(s),
           UNCHANGED <<session[s], completions[s], JobQueue[s]>>
    PROVE  JobsEnd(s)'
    BY DEF JobsEnd, Owed

\* A step that leaves the lists alone.
LEMMA NoneMoved ==
    ASSUME TypeOK, ManagerInv,
           UNCHANGED <<LoginQueue, PlayerList, enterQueue>>,
           \A s \in Slot : session'[s].id = session[s].id
                           /\ Owed(s)' = Owed(s),
           \A t \in Thread : /\ pc'[t] = "erase" <=> pc[t] = "erase"
                             /\ pc[t] = "erase" => iter'[t] = iter[t]
    PROVE  OnePlace'
<1>1. \A p \in Place : Players(p)' = Players(p)
    BY PlaceKinds, PlayersAt
<1>2. \A id : Places(id)' = Places(id)
    BY <1>1 DEF Places
<1>3. \A t \in Thread : \A id : pc'[t] = "erase" /\ Current(t)' = id
                            <=> pc[t] = "erase" /\ Current(t) = id
    BY DEF Current
<1>4. \A id : Moving(id)' = Moving(id)
    BY <1>3 DEF Moving
<1>5. ASSUME NEW s \in Slot, NEW id, id = session'[s].id
      PROVE  Settled(s, id)'
  <2>1. Settled(s, id) /\ Owed(s)' = Owed(s)
      BY <1>5, Settles DEF ManagerInv
  <2> QED
      BY <1>2, <1>4, <2>1 DEF Settled
<1>6. ASSUME NEW p \in Place, NEW id \in ToSet(Players(p))'
      PROVE  session'[IndexOf(id)].id = id
  <2>1. id \in ToSet(Players(p))
      BY <1>1, <1>6
  <2> QED
      BY <2>1, Listed
<1>7. \A p \in Place : IsInjective(Players(p))'
    BY <1>1 DEF ManagerInv, OnePlace
<1> QED
    BY <1>5, <1>6, <1>7, Settles

LEMMA JoinKeeps ==
    ASSUME TypeOK, ManagerInv, TypeOK', NEW s \in Slot, OnClientJoin(s)
    PROVE  ManagerInv'
<1>0. PICK id : id = <<sessionAllocNum, s>>
    OBVIOUS
<1>1. /\ UNCHANGED <<completions, JobQueue, JobQueueLock, PlayerList,
                     enterQueue, pc, iter>>
      /\ LoginQueue' = Append(LoginQueue, id)
      /\ session' = [session EXCEPT ![s] = [state |-> "live", id |-> id]]
      /\ session[s].state = "free" /\ LoginQueue \in Seq(SessionID)
    BY <1>0 DEF OnClientJoin, jobVars, enterVars, loopVars, TypeOK, ListType
<1>2. id \in SessionID /\ IndexOf(id) = s
    BY <1>0 DEF OnClientJoin, TypeOK, EngineType, SessionID, IndexOf
<1>3. /\ \A r \in Slot \ {s} : session'[r] = session[r]
      /\ session'[s] = [state |-> "live", id |-> id]
    BY <1>1 DEF TypeOK, EngineType
<1>4. ~Owed(s) /\ completions[s] = 0 /\ JobQueue[s] = << >>
    BY <1>1 DEF ManagerInv, JobsEnd, Owed
<1>5. \A p \in Place : id \notin ToSet(Players(p))
    BY <1>2, <1>4, Listed
<1>6. /\ ToSet(LoginQueue') = ToSet(LoginQueue) \cup {id}
      /\ IsInjective(LoginQueue')
  <2>1. IsInjective(LoginQueue) /\ id \notin ToSet(LoginQueue)
      BY <1>5, PlaceKinds, PlayersAt DEF ManagerInv, OnePlace
  <2> QED
      BY <1>1, <1>2, <2>1, Appended
<1>7. /\ ToSet(Players(LoginPlace))' = ToSet(Players(LoginPlace)) \cup {id}
      /\ IsInjective(Players(LoginPlace))'
      /\ \A p \in Place \ {LoginPlace} : Players(p)' = Players(p)
  <2>1. \A p \in Place \ {LoginPlace} : Players(p)' = Players(p)
      BY <1>1, PlaceKinds, PlayersAt
  <2> QED
      BY <1>6, <2>1, PlayersAt
<1>8. \A i : Moving(i)' = Moving(i)
    BY <1>1 DEF Moving, Current
<1>9. OnePlace'
  <2>1. \A p \in Place : IsInjective(Players(p))'
      BY <1>7 DEF ManagerInv, OnePlace
  <2>2. \A p \in Place : \A i \in SessionID \ {id} :
            i \in ToSet(Players(p))' <=> i \in ToSet(Players(p))
      BY <1>7
  <2>3. \A r \in Slot \ {s} : Owed(r)' = Owed(r)
      BY <1>1, <1>3 DEF Owed
  <2>4. Settled(s, id)'
    <3>1. Owed(s)'
        BY <1>1, <1>3, <1>4 DEF Owed
    <3>2. Places(id)' = {LoginPlace}
        BY <1>5, <1>7, PlaceKinds DEF Places
    <3>3. Moving(id)' = {}
        BY <1>5, <1>8, MovingPlaces DEF Places
    <3> QED
        BY <3>1, <3>2, <3>3, PlaceKinds DEF Settled
  <2>5. session'[s].id = id
      BY <1>3
  <2> QED
      BY <1>2, <1>3, <1>4, <1>8, <2>1, <2>2, <2>3, <2>4, <2>5, OneMoved
<1>10. LockHeld'
    BY <1>1 DEF ManagerInv, LockHeld, Current
<1>11. ASSUME NEW r \in Slot PROVE JobsEnd(r)'
  <2>1. CASE r = s
      BY <1>1, <1>2, <1>3, <1>4, <2>1 DEF JobsEnd
  <2>2. CASE r # s
      BY <1>1, <1>3, <2>2, SameJobsEnd DEF ManagerInv
  <2> QED
      BY <2>1, <2>2
<1> QED
    BY <1>9, <1>10, <1>11 DEF ManagerInv

LEMMA WorkerKeeps ==
    ASSUME TypeOK, ManagerInv, TypeOK', NEW s \in Slot,
           OnRecv(s) \/ OnClientLeave(s) \/ LeaveDone(s)
    PROVE  ManagerInv'
<1>1. UNCHANGED <<JobQueueLock, LoginQueue, PlayerList, enterQueue, pc, iter>>
    BY DEF OnRecv, OnClientLeave, Push, LeaveDone, enterVars, loopVars
<1>2. LockHeld'
    BY <1>1 DEF ManagerInv, LockHeld, Current
<1>3. /\ session \in [Slot -> [state : {"free", "live", "left"},
                               id : SessionID]]
      /\ completions \in [Slot -> Nat] /\ JobQueue \in [Slot -> Seq(Job)]
    BY DEF TypeOK, EngineType
<1>4. /\ \A r \in Slot \ {s} :
             UNCHANGED <<session[r], completions[r], JobQueue[r]>>
      /\ session'[s].id = session[s].id
    BY <1>3 DEF OnRecv, OnClientLeave, Push, LeaveDone
<1>5. JobsEnd(s)
    BY DEF ManagerInv
<1>6. JobsEnd(s)' /\ Owed(s)' = Owed(s)
  <2>1. CASE OnRecv(s) \/ OnClientLeave(s)
    <3>1. PICK type \in {"RECV", "LEAVE"} :
              /\ Push(s, type)
              /\ type = "RECV" => session' = session
              /\ type = "LEAVE" => session'[s].state = "left"
        BY <1>3, <2>1 DEF OnRecv, OnClientLeave
    <3>2. /\ session[s].state = "live"
          /\ session'[s].state \in {"live", "left"}
          /\ completions'[s] = completions[s]
          /\ JobQueue'[s] = Append(JobQueue[s], [type |-> type,
                                                 id |-> session[s].id])
        BY <1>3, <3>1 DEF Push
    <3>3. /\ completions[s] = 0 /\ Owed(s) /\ Owed(s)'
          /\ \A i \in 1 .. Len(JobQueue[s]) : JobQueue[s][i].type # "LEAVE"
        BY <1>5, <3>2 DEF JobsEnd, Owed
    <3>4. /\ Len(JobQueue[s]) \in Nat
          /\ Len(JobQueue'[s]) = Len(JobQueue[s]) + 1
          /\ JobQueue'[s][Len(JobQueue[s]) + 1].type = type
          /\ \A i \in 1 .. Len(JobQueue[s]) : JobQueue'[s][i] = JobQueue[s][i]
      <4>1. JobQueue[s] \in Seq(Job)
          BY <1>3
      <4> QED
          BY <3>2, <4>1
    <3>5. ASSUME NEW i \in 1 .. Len(JobQueue'[s]),
                 JobQueue'[s][i].type = "LEAVE"
          PROVE  i = Len(JobQueue'[s]) /\ session'[s].state = "left"
        BY <3>1, <3>3, <3>4, <3>5
    <3>6. IndexOf(session'[s].id) = s
        BY <1>4, <1>5 DEF JobsEnd
    <3> QED
        BY <3>2, <3>3, <3>5, <3>6 DEF JobsEnd
  <2>2. CASE LeaveDone(s)
    <3>1. /\ completions[s] > 0 /\ completions[s] \in Nat
          /\ completions'[s] = completions[s] - 1
          /\ session'[s].state = "free" /\ JobQueue' = JobQueue
        BY <1>3, <2>2 DEF LeaveDone
    <3>2. completions[s] = 1 /\ ~Owed(s) /\ JobQueue[s] = << >>
        BY <1>5, <3>1 DEF JobsEnd, Owed
    <3> QED
        BY <1>4, <1>5, <3>1, <3>2 DEF JobsEnd, Owed
  <2> QED
      BY <2>1, <2>2
<1>7. ASSUME NEW r \in Slot
      PROVE  /\ JobsEnd(r)' /\ Owed(r)' = Owed(r)
             /\ session'[r].id = session[r].id
  <2>1. CASE r # s
    <3>1. UNCHANGED <<session[r], completions[r], JobQueue[r]>>
        BY <1>4, <2>1
    <3> QED
        BY <3>1, SameJobsEnd DEF ManagerInv, Owed
  <2> QED
      BY <1>4, <1>6, <2>1
<1>8. OnePlace'
    BY <1>1, <1>7, NoneMoved DEF ManagerInv
<1> QED
    BY <1>2, <1>7, <1>8 DEF ManagerInv

\* A step of thread t takes no lock from another thread.
LEMMA LocksKept ==
    ASSUME LockHeld, NEW t \in Thread,
           \A u \in Thread \ {t} :
               /\ UNCHANGED <<pc[u], iter[u], PlayerList[u]>>
               /\ \A s \in Slot : JobQueueLock[s] = u
                                  => JobQueueLock'[s] = u,
           \A u \in Thread : pc[u] \in {"jobs", "move", "erase"}
                             => IndexOf(Current(u)) \in Slot,
           pc'[t] \in {"jobs", "move", "erase"}
               => JobQueueLock'[IndexOf(Current(t)')] = t
    PROVE  LockHeld'
<1> SUFFICES ASSUME NEW u \in Thread, pc'[u] \in {"jobs", "move", "erase"}
             PROVE  JobQueueLock'[IndexOf(Current(u)')] = u
    BY DEF LockHeld, IndexOf
<1>1. CASE u # t
  <2>1. Current(u)' = Current(u) /\ pc'[u] = pc[u]
      BY <1>1 DEF Current
  <2> QED
      BY <1>1, <2>1 DEF LockHeld
<1> QED
    BY <1>1

LEMMA CurrentSlots ==
    ASSUME TypeOK
    PROVE  \A u \in Thread : pc[u] \in {"jobs", "move", "erase"}
                             => IndexOf(Current(u)) \in Slot
    BY CurrentType DEF TypeOK, InRange

\* The jobs of a session are handled, and LEAVE among them is answered.
LEMMA Answered ==
    ASSUME TypeOK, ManagerInv, NEW s \in Slot, Owed(s), NEW leaves,
           leaves = Leaves(s, Len(JobQueue[s])),
           JobQueue' = [JobQueue EXCEPT ![s] = << >>], Answer(s, leaves),
           session' = session
    PROVE  /\ \A r \in Slot : JobsEnd(r)'
           /\ \A r \in Slot \ {s} : Owed(r)' = Owed(r)
           /\ Owed(s)' <=> leaves = {}
<1>1. completions \in [Slot -> Nat] /\ JobQueue \in [Slot -> Seq(Job)]
    BY DEF TypeOK, EngineType
<1>2. /\ \A r \in Slot \ {s} : UNCHANGED <<completions[r], JobQueue[r]>>
      /\ JobQueue'[s] = << >>
    BY <1>1 DEF Answer
<1>3. completions[s] = 0 /\ completions'[s] = IF leaves = {} THEN 0 ELSE 1
    BY <1>1 DEF Answer, Owed
<1>4. leaves # {} => session[s].state = "left"
    BY DEF Leaves, ManagerInv, JobsEnd
<1>5. JobsEnd(s)' /\ (Owed(s)' <=> leaves = {})
    BY <1>2, <1>3, <1>4 DEF ManagerInv, JobsEnd, Owed
<1> QED
    BY <1>2, <1>5, SameJobsEnd DEF ManagerInv, Owed

\* A player in a list that nobody moves is in no other place.
LEMMA OnlyHere ==
    ASSUME TypeOK, ManagerInv, NEW p \in Place, NEW id \in ToSet(Players(p)),
           p \notin Moving(id)
    PROVE  /\ Places(id) \ Moving(id) = {p}
           /\ \A q \in Place \ {p} :
                  id \in ToSet(Players(q)) => q \in Moving(id)
<1>1. PICK q \in Place : Places(id) \ Moving(id) = {q}
    BY Listed
<1>2. Places(id) \ Moving(id) = {p}
    BY <1>1, PlacesAt
<1> QED
    BY <1>2, PlacesAt

LEMMA PopLoginKeeps ==
    ASSUME TypeOK, ManagerInv, TypeOK', PopLogin
    PROVE  ManagerInv'
<1> DEFINE t == LoginThread
<1>1. PICK id : id = Head(LoginQueue)
    OBVIOUS
<1>2. /\ UNCHANGED <<session, completions, JobQueue, JobQueueLock, enterQueue,
                     pc, iter>>
      /\ LoginQueue' = Tail(LoginQueue) /\ pc[t] = "frame"
      /\ PlayerList' = [PlayerList EXCEPT ![t] = Append(@, id)]
      /\ LoginQueue \in Seq(SessionID) /\ LoginQueue # << >>
      /\ PlayerList \in [Thread -> Seq(SessionID)] /\ t \in Thread
    BY <1>1, Constants
       DEF PopLogin, engineVars, jobVars, enterVars, loopVars, TypeOK, ListType
<1>3. id \in SessionID /\ id \in ToSet(Players(LoginPlace))
    BY <1>1, <1>2, Beheaded, PlayersAt
<1>4. /\ session[IndexOf(id)].id = id /\ Owed(IndexOf(id))
      /\ LoginPlace \in Places(id) /\ LoginPlace \notin Moving(id)
      /\ Places(id) \ Moving(id) = {LoginPlace}
      /\ ListPlace(t) \notin Moving(id) /\ id \notin ToSet(PlayerList[t])
  <2>1. LoginPlace \notin Moving(id) /\ ListPlace(t) \notin Moving(id)
      BY <1>2, NotMoving
  <2>2. id \notin ToSet(PlayerList[t])
      BY <1>2, <1>3, <2>1, OnlyHere, PlaceKinds, PlayersAt
  <2>3. session[IndexOf(id)].id = id /\ Owed(IndexOf(id))
      BY <1>3, Listed, PlaceKinds
  <2>4. /\ LoginPlace \in Places(id)
        /\ Places(id) \ Moving(id) = {LoginPlace}
      BY <1>3, <2>1, OnlyHere, PlacesAt, PlaceKinds
  <2> QED
      BY <2>1, <2>2, <2>3, <2>4
<1>5. /\ \A p \in Place \ {LoginPlace, ListPlace(t)} : Players(p)' = Players(p)
      /\ Players(LoginPlace)' = Tail(LoginQueue)
      /\ Players(ListPlace(t))' = Append(PlayerList[t], id)
  <2>1. \A u \in Thread \ {t} : PlayerList'[u] = PlayerList[u]
      BY <1>2
  <2>2. PlayerList'[t] = Append(PlayerList[t], id)
      BY <1>2
  <2>3. ASSUME NEW p \in Place \ {LoginPlace, ListPlace(t)}
        PROVE  Players(p)' = Players(p)
    <3>1. CASE \E u \in Thread : p = ListPlace(u)
        BY <2>1, <2>3, <3>1, PlayersAt
    <3>2. CASE \E g \in GameThreads : p = EnterPlace(g)
        BY <1>2, <3>2, PlayersAt
    <3> QED
        BY <2>3, <3>1, <3>2, PlaceKinds
  <2> QED
      BY <1>2, <2>2, <2>3, PlayersAt
<1>6. /\ IsInjective(Players(LoginPlace))'
      /\ IsInjective(Players(ListPlace(t)))'
      /\ ToSet(Players(LoginPlace))' = ToSet(Players(LoginPlace)) \ {id}
      /\ ToSet(Players(ListPlace(t)))' = ToSet(Players(ListPlace(t))) \cup {id}
  <2>1. IsInjective(LoginQueue) /\ IsInjective(PlayerList[t])
      BY <1>2, PlaceKinds, PlayersAt DEF ManagerInv, OnePlace
  <2>2. PlayerList[t] \in Seq(SessionID)
      BY <1>2
  <2>3. /\ IsInjective(Tail(LoginQueue))
        /\ ToSet(Tail(LoginQueue)) = ToSet(LoginQueue) \ {id}
      BY <1>1, <1>2, <2>1, Beheaded
  <2>4. /\ IsInjective(Append(PlayerList[t], id))
        /\ ToSet(Append(PlayerList[t], id)) = ToSet(PlayerList[t]) \cup {id}
      BY <1>3, <1>4, <2>1, <2>2, Appended
  <2> QED
      BY <1>5, <2>3, <2>4, PlayersAt
<1>7. \A i : Moving(i)' = Moving(i)
  <2>1. ASSUME NEW u \in Thread, NEW i
        PROVE  pc'[u] = "erase" /\ Current(u)' = i
                   <=> pc[u] = "erase" /\ Current(u) = i
      BY <1>2 DEF Current
  <2> QED
      BY <2>1 DEF Moving
<1>8. OnePlace'
  <2>1. \A p \in Place : IsInjective(Players(p))'
      BY <1>5, <1>6 DEF ManagerInv, OnePlace
  <2>2. \A p \in Place : \A i \in SessionID \ {id} :
            i \in ToSet(Players(p))' <=> i \in ToSet(Players(p))
      BY <1>5, <1>6
  <2>3. \A r : Owed(r)' = Owed(r)
      BY <1>2 DEF Owed
  <2>4. Settled(IndexOf(id), id)'
    <3>1. Places(id)' = (Places(id) \ {LoginPlace}) \cup {ListPlace(t)}
      <4>1. ASSUME NEW p \in Place
            PROVE  p \in Places(id)' <=>
                       p \in (Places(id) \ {LoginPlace}) \cup {ListPlace(t)}
          BY <1>5, <1>6, PlacesAt, PlaceKinds
      <4> QED
          BY <1>2, <4>1, PlaceKinds DEF Places
    <3>2. Places(id)' \ Moving(id)' = {ListPlace(t)}
        BY <1>4, <1>7, <3>1
    <3> QED
        BY <1>2, <1>4, <2>3, <3>2, PlaceKinds DEF Settled, IndexOf
  <2> QED
      BY <1>2, <1>3, <1>4, <1>7, <2>1, <2>2, <2>3, <2>4, OneMoved
<1>9. LockHeld'
  <2>1. \A u \in Thread : pc[u] \in {"jobs", "move", "erase"} => u # t
      BY <1>2
  <2>2. \A u \in Thread \ {t} : Current(u)' = Current(u)
      BY <1>2 DEF Current
  <2> QED
      BY <1>2, <2>1, <2>2 DEF ManagerInv, LockHeld, IndexOf
<1> QED
    BY <1>2, <1>8, <1>9, SameJobsEnd DEF ManagerInv

LEMMA OthersKept ==
    ASSUME NEW S,
           LoginPlace \notin S => LoginQueue' = LoginQueue,
           \A t \in Thread : ListPlace(t) \notin S
                             => PlayerList'[t] = PlayerList[t],
           \A g \in GameThreads : EnterPlace(g) \notin S
                                  => enterQueue'[g] = enterQueue[g]
    PROVE  \A p \in Place \ S : Players(p)' = Players(p)
    BY PlaceKinds, PlayersAt

LEMMA EnterKeeps ==
    ASSUME TypeOK, ManagerInv, TypeOK', NEW g \in GameThreads, Enter(g)
    PROVE  ManagerInv'
<1>1. PICK id, s, leaves : /\ id = Head(enterQueue[g]) /\ s = IndexOf(id)
                           /\ leaves = Leaves(s, Len(JobQueue[s]))
    OBVIOUS
<1>2. /\ UNCHANGED <<session, JobQueueLock, LoginQueue, pc, iter>>
      /\ JobQueueLock[s] = Nobody /\ pc[g] = "enter" /\ g \in Thread
      /\ JobQueue' = [JobQueue EXCEPT ![s] = << >>] /\ Answer(s, leaves)
      /\ PlayerList' = IF leaves = {}
                       THEN [PlayerList EXCEPT ![g] = Append(@, id)]
                       ELSE PlayerList
      /\ enterQueue' = [enterQueue EXCEPT ![g] = Tail(@)]
      /\ PlayerList \in [Thread -> Seq(SessionID)]
      /\ enterQueue \in [GameThreads -> Seq(SessionID)]
    BY <1>1, Constants DEF Enter, engineVars, TypeOK, ListType
<1>3. enterQueue[g] # << >> /\ enterQueue[g] \in Seq(SessionID)
    BY <1>2 DEF Enter, TypeOK, ListType, LoopType, InRange
<1>4. id \in SessionID /\ id \in ToSet(Players(EnterPlace(g))) /\ s \in Slot
    BY <1>1, <1>3, Beheaded, PlayersAt, Constants
<1>5. /\ session[s].id = id /\ Owed(s) /\ Moving(id) = {}
      /\ Places(id) = {EnterPlace(g)} /\ id \notin ToSet(PlayerList[g])
  <2>1. session[s].id = id /\ Owed(s)
      BY <1>1, <1>4, Listed, PlaceKinds
  <2>2. Moving(id) = {}
      BY <1>1, <1>2, MovedByHolder
  <2>3. Places(id) \ Moving(id) = {EnterPlace(g)}
      BY <1>4, <2>2, OnlyHere, PlaceKinds
  <2>4. id \notin ToSet(PlayerList[g])
      BY <1>2, <2>2, <2>3, PlacesAt, PlaceKinds, PlayersAt
  <2> QED
      BY <2>1, <2>2, <2>3, <2>4
<1>6. /\ \A p \in Place \ {EnterPlace(g), ListPlace(g)} :
             Players(p)' = Players(p)
      /\ IsInjective(Players(EnterPlace(g)))'
      /\ IsInjective(Players(ListPlace(g)))'
      /\ ToSet(Players(EnterPlace(g)))' = ToSet(Players(EnterPlace(g))) \ {id}
      /\ ToSet(Players(ListPlace(g)))' =
             ToSet(Players(ListPlace(g))) \cup
                 (IF leaves = {} THEN {id} ELSE {})
  <2>1. \A p \in Place \ {EnterPlace(g), ListPlace(g)} :
             Players(p)' = Players(p)
    <3>1. ASSUME NEW t \in Thread, ListPlace(t) # ListPlace(g)
          PROVE  PlayerList'[t] = PlayerList[t]
        BY <1>2, <3>1
    <3>2. ASSUME NEW h \in GameThreads, EnterPlace(h) # EnterPlace(g)
          PROVE  enterQueue'[h] = enterQueue[h]
        BY <1>2, <3>2
    <3> QED
        BY <1>2, <3>1, <3>2, OthersKept
  <2>2. IsInjective(enterQueue[g]) /\ IsInjective(PlayerList[g])
      BY <1>2, PlaceKinds, PlayersAt DEF ManagerInv, OnePlace
  <2>3. /\ IsInjective(enterQueue'[g])
        /\ ToSet(enterQueue'[g]) = ToSet(enterQueue[g]) \ {id}
    <3>1. enterQueue'[g] = Tail(enterQueue[g])
        BY <1>2
    <3> QED
        BY <1>1, <1>3, <2>2, <3>1, Beheaded
  <2>4. /\ IsInjective(PlayerList'[g])
        /\ ToSet(PlayerList'[g]) = ToSet(PlayerList[g]) \cup
                                       (IF leaves = {} THEN {id} ELSE {})
    <3>1. CASE leaves = {}
      <4>1. /\ PlayerList'[g] = Append(PlayerList[g], id)
            /\ PlayerList[g] \in Seq(SessionID)
          BY <1>2, <3>1
      <4> QED
          BY <1>4, <1>5, <2>2, <3>1, <4>1, Appended
    <3>2. CASE leaves # {}
        BY <1>2, <2>2, <3>2
    <3> QED
        BY <3>1, <3>2
  <2> QED
      BY <2>1, <2>3, <2>4, PlayersAt
<1>7. \A i : Moving(i)' = Moving(i)
  <2>1. ASSUME NEW u \in Thread, NEW i
        PROVE  pc'[u] = "erase" /\ Current(u)' = i
                   <=> pc[u] = "erase" /\ Current(u) = i
      BY <1>2 DEF Current
  <2> QED
      BY <2>1 DEF Moving
<1>8. /\ \A r \in Slot : JobsEnd(r)'
      /\ \A r \in Slot \ {s} : Owed(r)' = Owed(r)
      /\ Owed(s)' <=> leaves = {}
    BY <1>1, <1>2, <1>4, <1>5, Answered
<1>9. OnePlace'
  <2>1. \A p \in Place : IsInjective(Players(p))'
      BY <1>6 DEF ManagerInv, OnePlace
  <2>2. \A p \in Place : \A i \in SessionID \ {id} :
            i \in ToSet(Players(p))' <=> i \in ToSet(Players(p))
      BY <1>6
  <2>3. Settled(s, id)'
    <3>1. Places(id)' = IF leaves = {} THEN {ListPlace(g)} ELSE {}
      <4>1. ASSUME NEW p \in Place
            PROVE  p \in Places(id)' <=> leaves = {} /\ p = ListPlace(g)
          BY <1>5, <1>6, PlacesAt, PlaceKinds
      <4> QED
          BY <1>2, <4>1, PlaceKinds DEF Places
    <3> QED
        BY <1>2, <1>5, <1>7, <1>8, <3>1, PlaceKinds DEF Settled
  <2> QED
      BY <1>1, <1>2, <1>4, <1>5, <1>7, <1>8, <2>1, <2>2, <2>3, OneMoved
<1>10. LockHeld'
  <2>1. \A u \in Thread \ {g} : PlayerList'[u] = PlayerList[u]
      BY <1>2
  <2> QED
      BY <1>2, <2>1, LocksKept, CurrentSlots DEF ManagerInv
<1> QED
    BY <1>8, <1>9, <1>10 DEF ManagerInv

\* The player whose jobs thread t handles.
LEMMA JobPlayer ==
    ASSUME TypeOK, ManagerInv, NEW t \in Thread,
           pc[t] \in {"jobs", "move", "erase"}
    PROVE  LET id == Current(t) IN
           /\ id \in SessionID /\ IndexOf(id) \in Slot
           /\ session[IndexOf(id)].id = id /\ Owed(IndexOf(id))
           /\ JobQueueLock[IndexOf(id)] = t
           /\ id \in ToSet(Players(ListPlace(t)))
           /\ Moving(id) = IF pc[t] = "erase" THEN {ListPlace(t)} ELSE {}
           /\ pc[t] # "erase" => Places(id) = {ListPlace(t)}
<1>1. PICK id : id = Current(t)
    OBVIOUS
<1>2. /\ id \in SessionID /\ IndexOf(id) \in Slot
      /\ id \in ToSet(Players(ListPlace(t)))
  <2>1. iter[t] <= Len(PlayerList[t])
      BY DEF TypeOK, InRange
  <2> QED
      BY <1>1, <2>1, CurrentType, PlayersAt
<1>3. session[IndexOf(id)].id = id /\ Owed(IndexOf(id))
    BY <1>2, Listed, PlaceKinds
<1>4. JobQueueLock[IndexOf(id)] = t
    BY <1>1 DEF ManagerInv, LockHeld
<1>5. Moving(id) = IF pc[t] = "erase" THEN {ListPlace(t)} ELSE {}
    BY <1>1, MovedByHolder
<1>6. pc[t] # "erase" => Places(id) = {ListPlace(t)}
    BY <1>2, <1>5, OnlyHere, PlaceKinds
<1> QED
    BY <1>1, <1>2, <1>3, <1>4, <1>5, <1>6

\* Thread t handles a job: what stays as it was.
LEMMA JobOthers ==
    ASSUME TypeOK, ManagerInv, NEW t \in Thread, JobStep(t)
    PROVE  /\ \A u \in Thread \ {t} :
                  UNCHANGED <<pc[u], iter[u], PlayerList[u]>>
           /\ \A u \in Thread \ {t}, s \in Slot :
                  JobQueueLock[s] = u => JobQueueLock'[s] = u
<1>1. /\ IndexOf(Current(t)) \in Slot /\ JobQueueLock[IndexOf(Current(t))] = t
      /\ pc' = [pc EXCEPT ![t] = pc'[t]]
    BY JobFrame, JobPlayer
<1>2. /\ pc \in [Thread -> Label] /\ PlayerList \in [Thread -> Seq(SessionID)]
      /\ iter \in [Thread -> Nat \ {0}]
      /\ JobQueueLock \in [Slot -> Thread \cup {Nobody}]
    BY DEF TypeOK, EngineType, ListType, LoopType
<1>3. ASSUME NEW u \in Thread \ {t} PROVE PlayerList'[u] = PlayerList[u]
    BY <1>2 DEF JobStep, Leave, Stay, MovePlayer, EraseMoved, Move, Erase
<1>4. ASSUME NEW u \in Thread \ {t} PROVE iter'[u] = iter[u]
    BY <1>2 DEF JobStep, Leave, Stay, MovePlayer, EraseMoved, Move, loopVars
<1>5. Release(t) \/ UNCHANGED JobQueueLock
    BY DEF JobStep, Leave, Stay, MovePlayer, EraseMoved, Move, jobVars
<1>6. ASSUME NEW u \in Thread \ {t}, NEW s \in Slot, JobQueueLock[s] = u
      PROVE  JobQueueLock'[s] = u
  <2>1. CASE Release(t)
    <3>1. s # IndexOf(Current(t))
        BY <1>1, <1>6
    <3> QED
        BY <1>2, <1>6, <2>1, <3>1 DEF Release
  <2> QED
      BY <1>5, <1>6, <2>1
<1> QED
    BY <1>1, <1>2, <1>3, <1>4, <1>6

LEMMA StayMoveKeep ==
    ASSUME TypeOK, ManagerInv, TypeOK', NEW t \in Thread,
           Stay(t) \/ \E n \in 1 .. MaxJobs, d \in GameThreads : Move(t, n, d)
    PROVE  ManagerInv'
<1>1. PICK id, s : id = Current(t) /\ s = IndexOf(id)
    OBVIOUS
<1>2. JobStep(t)
    BY DEF JobStep
<1>3. pc[t] = "jobs" /\ pc'[t] \in {"list", "move"}
    BY JobFrame, <1>2 DEF Stay, Move, Goto, TypeOK, LoopType
<1>4. /\ UNCHANGED <<session, completions, LoginQueue, PlayerList, enterQueue>>
      /\ s \in Slot /\ Owed(s) /\ JobQueueLock[s] = t
      /\ JobQueue \in [Slot -> Seq(Job)]
    BY <1>1, <1>3, JobPlayer
       DEF Stay, Move, engineVars, enterVars, TypeOK, EngineType
<1>5. OnePlace'
  <2>1. ASSUME NEW u \in Thread
        PROVE  /\ pc'[u] = "erase" <=> pc[u] = "erase"
               /\ pc[u] = "erase" => iter'[u] = iter[u]
      BY <1>2, <1>3, JobOthers
  <2> QED
      BY <1>4, <2>1, NoneMoved DEF Owed
<1>6. LockHeld'
  <2>1. ASSUME pc'[t] \in {"jobs", "move", "erase"}
        PROVE  JobQueueLock'[IndexOf(Current(t)')] = t
    <3>1. ~Stay(t)
        BY <2>1 DEF Stay, Goto, TypeOK, LoopType
    <3>2. JobQueueLock' = JobQueueLock /\ iter' = iter
        BY <3>1 DEF Move
    <3> QED
        BY <1>1, <1>4, <3>2 DEF Current
  <2> QED
      BY <1>2, <2>1, LocksKept, JobOthers, CurrentSlots DEF ManagerInv
<1>7. ASSUME NEW r \in Slot PROVE JobsEnd(r)'
  <2>1. CASE Stay(t)
    <3>1. PICK leaves : leaves = Leaves(s, Len(JobQueue[s]))
        OBVIOUS
    <3>2. JobQueue' = [JobQueue EXCEPT ![s] = << >>] /\ Answer(s, leaves)
        BY <1>1, <1>4, <2>1, <3>1 DEF Stay, Answer
    <3> QED
        BY <1>4, <3>1, <3>2, Answered
  <2>2. ASSUME NEW n \in 1 .. MaxJobs, NEW d \in GameThreads, Move(t, n, d)
        PROVE  JobsEnd(r)'
    <3>1. JobQueue' = [JobQueue EXCEPT ![s] = SubSeq(@, n + 1, Len(@))]
        BY <1>1, <2>2 DEF Move
    <3>2. CASE r # s
        BY <1>4, <3>1, <3>2, SameJobsEnd DEF ManagerInv
    <3>3. CASE r = s
      <4>1. /\ JobQueue[s] \in Seq(Job) /\ Len(JobQueue[s]) \in Nat
            /\ n \in Nat /\ n >= 1 /\ n <= Len(JobQueue[s])
          BY <1>1, <1>4, <2>2, Constants DEF Move
      <4>2. /\ JobQueue'[s] = SubSeq(JobQueue[s], n + 1, Len(JobQueue[s]))
            /\ Len(JobQueue'[s]) = Len(JobQueue[s]) - n
            /\ \A i \in 1 .. Len(JobQueue[s]) - n :
                   JobQueue'[s][i] = JobQueue[s][i + n]
        <5>1. JobQueue'[s] = SubSeq(JobQueue[s], n + 1, Len(JobQueue[s]))
            BY <1>4, <3>1
        <5> QED
            BY <4>1, <5>1, SubSeqProperties
      <4>3. ASSUME NEW i \in 1 .. Len(JobQueue'[s]),
                   JobQueue'[s][i].type = "LEAVE"
            PROVE  i = Len(JobQueue'[s]) /\ session'[s].state = "left"
        <5>1. i + n \in 1 .. Len(JobQueue[s])
              /\ JobQueue[s][i + n].type = "LEAVE"
            BY <4>1, <4>2, <4>3
        <5>2. i + n = Len(JobQueue[s]) /\ session[s].state = "left"
            BY <1>4, <5>1 DEF ManagerInv, JobsEnd
        <5> QED
            BY <1>4, <4>1, <4>2, <5>2
      <4>4. JobsEnd(s) /\ Owed(s)'
          BY <1>4 DEF ManagerInv, Owed
      <4> QED
          BY <1>4, <3>3, <4>3, <4>4 DEF JobsEnd
    <3> QED
        BY <3>2, <3>3
  <2> QED
      BY <2>1, <2>2
<1> QED
    BY <1>5, <1>6, <1>7 DEF ManagerInv

\* A player is erased from the list of the thread that handled its jobs.
LEMMA Erased ==
    ASSUME TypeOK, ManagerInv, NEW t \in Thread,
           pc[t] \in {"jobs", "move", "erase"}, Erase(t),
           UNCHANGED <<LoginQueue, enterQueue>>
    PROVE  /\ \A p \in Place \ {ListPlace(t)} : Players(p)' = Players(p)
           /\ IsInjective(Players(ListPlace(t)))'
           /\ ToSet(Players(ListPlace(t)))' =
                  ToSet(Players(ListPlace(t))) \ {Current(t)}
           /\ \A p \in Place : IsInjective(Players(p))'
           /\ \A p \in Place : \A i \in SessionID \ {Current(t)} :
                  i \in ToSet(Players(p))' <=> i \in ToSet(Players(p))
<1>1. /\ PlayerList \in [Thread -> Seq(SessionID)]
      /\ PlayerList[t] \in Seq(SessionID)
      /\ iter[t] \in 1 .. Len(PlayerList[t])
      /\ PlayerList' = [PlayerList EXCEPT ![t] = RemoveAt(@, iter[t])]
    BY CurrentType DEF TypeOK, ListType, InRange, Erase
<1>2. \A p \in Place \ {ListPlace(t)} : Players(p)' = Players(p)
  <2>1. ASSUME NEW u \in Thread, ListPlace(u) # ListPlace(t)
        PROVE  PlayerList'[u] = PlayerList[u]
      BY <1>1, <2>1
  <2> QED
      BY <2>1, OthersKept
<1>3. IsInjective(PlayerList[t])
    BY PlaceKinds, PlayersAt DEF ManagerInv, OnePlace
<1>4. PlayerList'[t] = RemoveAt(PlayerList[t], iter[t])
    BY <1>1
<1>5. /\ IsInjective(PlayerList'[t])
      /\ ToSet(PlayerList'[t]) = ToSet(PlayerList[t]) \ {Current(t)}
    BY <1>1, <1>3, <1>4, Removed DEF Current
<1>6. /\ IsInjective(Players(ListPlace(t)))'
      /\ ToSet(Players(ListPlace(t)))' =
             ToSet(Players(ListPlace(t))) \ {Current(t)}
    BY <1>5, PlayersAt
<1> QED
    BY <1>2, <1>6 DEF ManagerInv, OnePlace

LEMMA LeaveKeeps ==
    ASSUME TypeOK, ManagerInv, TypeOK', NEW t \in Thread, Leave(t)
    PROVE  ManagerInv'
<1>1. PICK id, s, leaves : /\ id = Current(t) /\ s = IndexOf(id)
                           /\ leaves = Leaves(s, Len(JobQueue[s]))
    OBVIOUS
<1>2. JobStep(t)
    BY DEF JobStep
<1>3. /\ UNCHANGED <<session, LoginQueue, enterQueue, iter>>
      /\ JobQueue' = [JobQueue EXCEPT ![s] = << >>] /\ Answer(s, leaves)
      /\ leaves # {} /\ Erase(t) /\ pc[t] = "jobs" /\ pc'[t] = "list"
    BY <1>1, JobFrame, <1>2
       DEF Leave, engineVars, enterVars, loopVars, Goto, TypeOK, LoopType
<1>4. /\ id \in SessionID /\ s \in Slot /\ session[s].id = id /\ Owed(s)
      /\ Moving(id) = {} /\ Places(id) = {ListPlace(t)}
    BY <1>1, <1>3, JobPlayer
<1>5. /\ \A r \in Slot : JobsEnd(r)'
      /\ \A r \in Slot \ {s} : Owed(r)' = Owed(r)
      /\ ~Owed(s)'
    BY <1>1, <1>3, <1>4, Answered
<1>6. \A i : Moving(i)' = Moving(i)
  <2>1. ASSUME NEW u \in Thread, NEW i
        PROVE  pc'[u] = "erase" /\ Current(u)' = i
                   <=> pc[u] = "erase" /\ Current(u) = i
    <3>1. CASE u = t
        BY <1>3, <3>1
    <3>2. CASE u # t
        BY <1>2, <3>2, JobOthers, SameCurrent
    <3> QED
        BY <3>1, <3>2
  <2> QED
      BY <2>1 DEF Moving
<1>7. /\ \A p \in Place \ {ListPlace(t)} : Players(p)' = Players(p)
      /\ ToSet(Players(ListPlace(t)))' =
             ToSet(Players(ListPlace(t))) \ {id}
      /\ \A p \in Place : IsInjective(Players(p))'
      /\ \A p \in Place : \A i \in SessionID \ {id} :
             i \in ToSet(Players(p))' <=> i \in ToSet(Players(p))
    BY <1>1, <1>3, Erased
<1>8. Settled(s, id)'
  <2>1. Places(id)' = {}
    <3>1. ASSUME NEW p \in Place PROVE p \notin Places(id)'
        BY <1>4, <1>7, PlacesAt
    <3> QED
        BY <3>1 DEF Places
  <2> QED
      BY <1>5, <2>1 DEF Settled
<1>9. OnePlace'
    BY <1>1, <1>3, <1>4, <1>5, <1>6, <1>7, <1>8, OneMoved
<1>10. LockHeld'
    BY <1>2, <1>3, LocksKept, JobOthers, CurrentSlots DEF ManagerInv
<1> QED
    BY <1>5, <1>9, <1>10 DEF ManagerInv

LEMMA EraseMovedKeeps ==
    ASSUME TypeOK, ManagerInv, TypeOK', NEW t \in Thread, EraseMoved(t)
    PROVE  ManagerInv'
<1>1. PICK id, s : id = Current(t) /\ s = IndexOf(id)
    OBVIOUS
<1>2. JobStep(t)
    BY DEF JobStep
<1>3. /\ UNCHANGED <<session, completions, JobQueue, LoginQueue, enterQueue>>
      /\ Erase(t) /\ pc[t] = "erase" /\ pc'[t] = "list"
    BY <1>1, JobFrame, <1>2
       DEF EraseMoved, engineVars, enterVars, Goto, TypeOK, LoopType
<1>4. /\ id \in SessionID /\ s \in Slot /\ session[s].id = id /\ Owed(s)
      /\ Moving(id) = {ListPlace(t)}
    BY <1>1, <1>3, JobPlayer
<1>5. PICK q \in Place : Places(id) \ Moving(id) = {q}
    BY <1>1, <1>3, JobPlayer, Listed, PlaceKinds
<1>6. /\ \A p \in Place \ {ListPlace(t)} : Players(p)' = Players(p)
      /\ ToSet(Players(ListPlace(t)))' =
             ToSet(Players(ListPlace(t))) \ {id}
      /\ \A p \in Place : IsInjective(Players(p))'
      /\ \A p \in Place : \A i \in SessionID \ {id} :
             i \in ToSet(Players(p))' <=> i \in ToSet(Players(p))
    BY <1>1, <1>3, Erased
<1>7. ASSUME NEW i PROVE Moving(i)' = Moving(i) \ {ListPlace(t)}
  <2>1. /\ Moving(i)' \ {ListPlace(t)} = Moving(i) \ {ListPlace(t)}
        /\ ListPlace(t) \notin Moving(i)'
      BY <1>2, <1>3, SameMoving, JobOthers
  <2> QED
      BY <2>1
<1>8. \A i \in SessionID \ {id} : Moving(i)' = Moving(i)
    BY <1>1, <1>7, NotMoving
<1>9. Settled(s, id)'
  <2>1. Owed(s)'
      BY <1>3, <1>4 DEF Owed
  <2>2. Places(id)' = Places(id) \ {ListPlace(t)}
    <3>1. ASSUME NEW p \in Place
          PROVE  p \in Places(id)' <=> p \in Places(id) \ {ListPlace(t)}
        BY <1>6, PlacesAt
    <3> QED
        BY <3>1 DEF Places
  <2>3. Places(id)' \ Moving(id)' = {q}
      BY <1>4, <1>5, <1>7, <2>2
  <2> QED
      BY <2>1, <2>3 DEF Settled
<1>10. OnePlace'
    BY <1>1, <1>3, <1>4, <1>6, <1>8, <1>9, OneMoved DEF Owed
<1>11. LockHeld'
    BY <1>2, <1>3, LocksKept, JobOthers, CurrentSlots DEF ManagerInv
<1> QED
    BY <1>3, <1>10, <1>11, SameJobsEnd DEF ManagerInv

LEMMA MovePlayerKeeps ==
    ASSUME TypeOK, ManagerInv, TypeOK', NEW t \in Thread, MovePlayer(t)
    PROVE  ManagerInv'
<1>1. PICK id, s, d : id = Current(t) /\ s = IndexOf(id) /\ d = DesThreadNo[t]
    OBVIOUS
<1>2. JobStep(t)
    BY DEF JobStep
<1>3. /\ UNCHANGED <<session, completions, JobQueue, JobQueueLock, LoginQueue,
                     PlayerList, iter>>
      /\ enterQueue' = [enterQueue EXCEPT ![d] = Append(@, id)]
      /\ pc[t] = "move" /\ pc'[t] = "erase" /\ d \in GameThreads
      /\ enterQueue \in [GameThreads -> Seq(SessionID)]
    BY <1>1, JobFrame, <1>2
       DEF MovePlayer, engineVars, jobVars, loopVars, Goto, TypeOK, LoopType,
           ListType, InRange
<1>4. /\ id \in SessionID /\ s \in Slot /\ session[s].id = id /\ Owed(s)
      /\ JobQueueLock[s] = t
      /\ Moving(id) = {} /\ Places(id) = {ListPlace(t)}
    BY <1>1, <1>3, JobPlayer
<1>5. /\ \A p \in Place \ {EnterPlace(d)} : Players(p)' = Players(p)
      /\ IsInjective(Players(EnterPlace(d)))'
      /\ ToSet(Players(EnterPlace(d)))' =
             ToSet(Players(EnterPlace(d))) \cup {id}
  <2>1. \A p \in Place \ {EnterPlace(d)} : Players(p)' = Players(p)
    <3>1. ASSUME NEW g \in GameThreads, EnterPlace(g) # EnterPlace(d)
          PROVE  enterQueue'[g] = enterQueue[g]
        BY <1>3, <3>1
    <3> QED
        BY <1>3, <3>1, OthersKept
  <2>2. id \notin ToSet(enterQueue[d]) /\ IsInjective(enterQueue[d])
      BY <1>3, <1>4, PlacesAt, PlaceKinds, PlayersAt DEF ManagerInv, OnePlace
  <2>3. enterQueue'[d] = Append(enterQueue[d], id)
        /\ enterQueue[d] \in Seq(SessionID)
      BY <1>3
  <2>4. /\ IsInjective(enterQueue'[d])
        /\ ToSet(enterQueue'[d]) = ToSet(enterQueue[d]) \cup {id}
      BY <1>4, <2>2, <2>3, Appended
  <2> QED
      BY <2>1, <2>4, PlayersAt
<1>6. Current(t)' = id
    BY <1>1, <1>3 DEF Current
<1>7. ASSUME NEW i
      PROVE  Moving(i)' =
                 Moving(i) \cup (IF i = id THEN {ListPlace(t)} ELSE {})
  <2>1. /\ Moving(i)' \ {ListPlace(t)} = Moving(i) \ {ListPlace(t)}
        /\ ListPlace(t) \in Moving(i)' <=> i = id
      BY <1>2, <1>3, <1>6, SameMoving, JobOthers
  <2>2. ListPlace(t) \notin Moving(i)
      BY <1>3, NotMoving
  <2> QED
      BY <2>1, <2>2
<1>8. Settled(s, id)'
  <2>1. Owed(s)'
      BY <1>3, <1>4 DEF Owed
  <2>2. Places(id)' = {ListPlace(t), EnterPlace(d)}
    <3>1. ASSUME NEW p \in Place
          PROVE  p \in Places(id)' <=> p \in {ListPlace(t), EnterPlace(d)}
        BY <1>4, <1>5, PlacesAt
    <3> QED
        BY <1>3, <3>1, PlaceKinds DEF Places
  <2>3. Moving(id)' = {ListPlace(t)}
      BY <1>4, <1>7
  <2>4. Places(id)' \ Moving(id)' = {EnterPlace(d)}
      BY <2>2, <2>3, PlaceKinds
  <2> QED
      BY <1>3, <2>1, <2>4, PlaceKinds DEF Settled
<1>9. OnePlace'
  <2>1. \A p \in Place : IsInjective(Players(p))'
      BY <1>5 DEF ManagerInv, OnePlace
  <2>2. \A p \in Place : \A i \in SessionID \ {id} :
            i \in ToSet(Players(p))' <=> i \in ToSet(Players(p))
      BY <1>5
  <2>3. \A i \in SessionID \ {id} : Moving(i)' = Moving(i)
      BY <1>7
  <2> QED
      BY <1>1, <1>3, <1>4, <1>8, <2>1, <2>2, <2>3, OneMoved DEF Owed
<1>10. LockHeld'
  <2>1. JobQueueLock'[IndexOf(Current(t)')] = t
      BY <1>1, <1>3, <1>4, <1>6
  <2> QED
      BY <1>2, <2>1, LocksKept, JobOthers, CurrentSlots DEF ManagerInv
<1> QED
    BY <1>3, <1>9, <1>10, SameJobsEnd DEF ManagerInv

LEMMA LoopKeeps ==
    ASSUME TypeOK, ManagerInv, TypeOK', NEW t \in Thread,
           \/ Frame(t) \/ Round(t) \/ RoundDone(t) \/ AcquireJobQueueLock(t)
           \/ t \in GameThreads /\ (EnterLock(t) \/ EnterUnlock(t))
    PROVE  ManagerInv'
<1>1. /\ UNCHANGED <<session, completions, JobQueue, LoginQueue, PlayerList,
                     enterQueue>>
      /\ \A u \in Thread \ {t} : UNCHANGED <<pc[u], iter[u]>>
      /\ pc[t] \notin {"jobs", "move", "erase"}
      /\ pc'[t] \notin {"move", "erase"}
    BY DEF Frame, Round, RoundDone, AcquireJobQueueLock, EnterLock,
           EnterUnlock, engineVars, jobVars, enterVars, loopVars, Goto,
           TypeOK, LoopType
<1>2. OnePlace'
    BY <1>1, NoneMoved DEF Owed
<1>3. LockHeld'
  <2>1. CASE AcquireJobQueueLock(t)
    <3>1. PICK s : s = IndexOf(Current(t))
        OBVIOUS
    <3>2. /\ JobQueueLock' = [JobQueueLock EXCEPT ![s] = t]
          /\ JobQueueLock[s] = Nobody /\ iter' = iter
          /\ JobQueueLock \in [Slot -> Thread \cup {Nobody}] /\ s \in Slot
        BY <2>1, <3>1, CurrentType
           DEF AcquireJobQueueLock, loopVars, TypeOK, EngineType
    <3>3. /\ \A u \in Thread \ {t}, r \in Slot : JobQueueLock[r] = u
                                                => JobQueueLock'[r] = u
          /\ JobQueueLock'[IndexOf(Current(t)')] = t
        BY <1>1, <3>1, <3>2, Constants DEF Current
    <3> QED
        BY <1>1, <3>3, LocksKept, CurrentSlots DEF ManagerInv
  <2>2. CASE ~AcquireJobQueueLock(t)
    <3>1. JobQueueLock' = JobQueueLock /\ pc'[t] # "jobs"
        BY <2>2 DEF Frame, Round, RoundDone, EnterLock, EnterUnlock, jobVars,
                    Goto, TypeOK, LoopType
    <3> QED
        BY <1>1, <3>1, LocksKept, CurrentSlots DEF ManagerInv
  <2> QED
      BY <2>1, <2>2
<1> QED
    BY <1>1, <1>2, <1>3, SameJobsEnd DEF ManagerInv

LEMMA InitManager == Init => ManagerInv
<1> SUFFICES ASSUME Init PROVE ManagerInv
    OBVIOUS
<1>1. \A p \in Place : Players(p) = << >>
    BY PlaceKinds, PlayersAt, Constants DEF Init
<1>2. \A s \in Slot : JobsEnd(s) /\ ~Owed(s)
    BY DEF Init, JobsEnd, Owed, IndexOf
<1>3. LockHeld
    BY DEF Init, LockHeld
<1>4. OnePlace
  <2>1. \A id : Places(id) = {}
      BY <1>1 DEF Places, ToSet
  <2>2. \A p \in Place : IsInjective(Players(p)) /\ ToSet(Players(p)) = {}
      BY <1>1 DEF IsInjective, ToSet
  <2> QED
      BY <1>2, <2>1, <2>2, Settles DEF Settled
<1> QED
    BY <1>2, <1>3, <1>4 DEF ManagerInv

LEMMA StutterKeeps ==
    ASSUME TypeOK, ManagerInv, UNCHANGED vars PROVE ManagerInv'
<1>1. UNCHANGED <<session, completions, JobQueue, JobQueueLock, LoginQueue,
                  PlayerList, enterQueue, pc, iter>>
    BY DEF vars, engineVars, jobVars, enterVars, loopVars
<1>2. OnePlace'
    BY <1>1, NoneMoved DEF Owed
<1>3. LockHeld'
    BY <1>1 DEF ManagerInv, LockHeld, Current
<1> QED
    BY <1>1, <1>2, <1>3, SameJobsEnd DEF ManagerInv

\* The inductive invariant of the content threads: a thread that handles the
\* jobs of a player holds the lock of its slot from the first job to the
\* erasure (CThreadManager.cpp, the loops over PlayerList), a session's LEAVE
\* is the last job pushed and its only one, and the players are where OnePlace
\* says.
THEOREM ManagerInvariant == Spec => []ManagerInv
<1>1. TypeOK /\ TypeOK' /\ ManagerInv /\ [Next]_vars => ManagerInv'
  <2> SUFFICES ASSUME TypeOK, TypeOK', ManagerInv, [Next]_vars
               PROVE  ManagerInv'
      OBVIOUS
  <2>1. CASE UNCHANGED vars
      BY <2>1, StutterKeeps
  <2>2. ASSUME NEW s \in Slot, Engine(s) PROVE ManagerInv'
      BY <2>2, JoinKeeps, WorkerKeeps DEF Engine
  <2>3. CASE PopLogin
      BY <2>3, PopLoginKeeps
  <2>4. ASSUME NEW g \in GameThreads, EnterFunction(g) PROVE ManagerInv'
      BY <2>4, EnterKeeps, LoopKeeps, Constants DEF EnterFunction
  <2>5. ASSUME NEW t \in Thread, ThreadFunction(t) PROVE ManagerInv'
      BY <2>5, LoopKeeps, LeaveKeeps, StayMoveKeep, MovePlayerKeeps,
         EraseMovedKeeps DEF ThreadFunction
  <2> QED
      BY <2>1, <2>2, <2>3, <2>4, <2>5 DEF Next
<1> QED
    BY <1>1, InitManager, ManagerTypes, PTL DEF Spec

\* A player is in exactly one list or queue from the join of its session
\* until its LEAVE job was handled, whatever the threads do in between:
\* MovePlayer puts it into another thread's queue before the list it comes
\* from is rid of it, and the other thread waits for the lock of its jobs.
THEOREM PlayerInOnePlace == Spec => []OnePlace
<1>1. ManagerInv => OnePlace
    BY DEF ManagerInv
<1> QED
    BY <1>1, ManagerInvariant, PTL

\* The JobQueueLocks and the enterQueueLocks are nested in both orders
\* (MovePlayer, and the game threads' intake), and yet no thread that takes a
\* player in waits for the lock of a player that is being moved.
THEOREM NoCycle == Spec => []NoLockCycle
<1>1. TypeOK /\ ManagerInv => NoLockCycle
  <2> SUFFICES ASSUME TypeOK, ManagerInv, NEW g \in GameThreads,
                      NEW t \in Thread, pc[g] = "enter", entering[g] > 0,
                      pc[t] = "move",
                      IndexOf(Head(enterQueue[g])) = IndexOf(Current(t))
               PROVE  FALSE
      BY DEF NoLockCycle
  <2>1. PICK id, moved : id = Head(enterQueue[g]) /\ moved = Current(t)
      OBVIOUS
  <2>2. /\ enterQueue[g] # << >> /\ enterQueue[g] \in Seq(SessionID)
        /\ g \in Thread
      BY Constants DEF TypeOK, ListType, LoopType, InRange
  <2>3. id \in ToSet(Players(EnterPlace(g)))
      BY <2>1, <2>2, Beheaded, PlayersAt
  <2>4. session[IndexOf(id)].id = id
      BY <2>3, Listed, PlaceKinds
  <2>5. session[IndexOf(moved)].id = moved /\ Places(moved) = {ListPlace(t)}
      BY <2>1, JobPlayer
  <2>6. id = moved
      BY <2>1, <2>4, <2>5
  <2> QED
      BY <2>3, <2>5, <2>6, PlacesAt, PlaceKinds
<1> QED
    BY <1>1, ManagerTypes, ManagerInvariant, PTL

-----------------------------------------------------------------------------
(* The manager implements ContentView.                                     *)

\* The players there are: one for each session that is owed an answer.
LEMMA Owing ==
    TypeOK /\ ManagerInv
        => \A id : id \in Everywhere
                       <=> \E s \in Slot : Owed(s) /\ session[s].id = id
<1> SUFFICES ASSUME TypeOK, ManagerInv, NEW id
             PROVE  id \in Everywhere
                        <=> \E s \in Slot : Owed(s) /\ session[s].id = id
    OBVIOUS
<1>1. ASSUME id \in Everywhere
      PROVE  \E s \in Slot : Owed(s) /\ session[s].id = id
  <2>1. PICK p \in Place : id \in ToSet(Players(p))
      BY <1>1 DEF Everywhere
  <2> QED
      BY <2>1, Listed
<1>2. ASSUME NEW s \in Slot, Owed(s), id = session[s].id
      PROVE  id \in Everywhere
  <2>1. PICK p \in Place : p \in Places(id)
      BY <1>2, Settles DEF ManagerInv, Settled
  <2> QED
      BY <2>1, PlacesAt DEF Everywhere
<1> QED
    BY <1>1, <1>2

LEMMA OwingNext ==
    TypeOK' /\ ManagerInv'
        => \A id : id \in Everywhere'
                       <=> \E s \in Slot : Owed(s)' /\ session'[s].id = id
<1>1. (TypeOK /\ ManagerInv
           => \A id : id \in Everywhere
                          <=> \E s \in Slot : Owed(s) /\ session[s].id = id)'
    BY Owing, PTL
<1> QED
    BY <1>1

LEMMA SamePlayers ==
    ASSUME TypeOK, ManagerInv, TypeOK', ManagerInv',
           \A s \in Slot : session'[s].id = session[s].id
                           /\ (Owed(s)' <=> Owed(s))
    PROVE  Everywhere' = Everywhere
<1>1. \A id : id \in Everywhere' <=> id \in Everywhere
    BY Owing, OwingNext
<1> QED
    BY <1>1 DEF Everywhere

LEMMA JoinImplements ==
    ASSUME TypeOK, ManagerInv, TypeOK', ManagerInv', NEW s \in Slot,
           OnClientJoin(s)
    PROVE  View!Join
<1>1. PICK id : id = <<sessionAllocNum, s>>
    OBVIOUS
<1>2. /\ session \in [Slot -> [state : {"free", "live", "left"},
                               id : SessionID]]
      /\ session' = [session EXCEPT ![s] = [state |-> "live", id |-> id]]
      /\ UNCHANGED <<completions, JobQueue>> /\ session[s].state = "free"
    BY <1>1 DEF OnClientJoin, jobVars, TypeOK, EngineType
<1>3. /\ ~Owed(s) /\ Owed(s)' /\ session'[s].id = id
      /\ \A r \in Slot \ {s} : session'[r] = session[r] /\ Owed(r)' = Owed(r)
    BY <1>2 DEF ManagerInv, JobsEnd, Owed
<1>4. Everywhere' = Everywhere \cup {id}
    BY <1>3, Owing, OwingNext
<1>5. \A p \in Everywhere : View!IndexOf(p) # View!IndexOf(id)
  <2>1. \A r \in Slot : IndexOf(session[r].id) = r
      BY DEF ManagerInv, JobsEnd
  <2>2. IndexOf(id) = s
      BY <1>1 DEF IndexOf
  <2> QED
      BY <1>3, <2>1, <2>2, Owing DEF View!IndexOf, IndexOf
<1>6. id \in Everywhere' \ Everywhere
    BY <1>4, <1>5
<1> QED
    BY <1>2, <1>4, <1>5, <1>6 DEF View!Join

LEMMA PushImplements ==
    ASSUME TypeOK, ManagerInv, TypeOK', ManagerInv', NEW s \in Slot,
           OnRecv(s) \/ OnClientLeave(s)
    PROVE  \E id \in Everywhere : View!Push(id)
<1>0. PICK id : id = session[s].id
    OBVIOUS
<1>1. PICK type \in {"RECV", "LEAVE"} :
          /\ Push(s, type) /\ id = session[s].id
          /\ type = "RECV" => session' = session
          /\ type = "LEAVE" => session' = [session EXCEPT ![s].state = "left"]
    BY <1>0 DEF OnRecv, OnClientLeave
<1>2. /\ session \in [Slot -> [state : {"free", "live", "left"},
                               id : SessionID]]
      /\ completions' = completions /\ session[s].state = "live"
      /\ JobQueue' = [JobQueue EXCEPT
                         ![s] = Append(@, [type |-> type, id |-> id])]
    BY <1>1 DEF Push, TypeOK, EngineType
<1>3. Owed(s) /\ \A r \in Slot : session'[r].id = session[r].id
                                 /\ Owed(r)' = Owed(r)
    BY <1>1, <1>2 DEF ManagerInv, JobsEnd, Owed
<1>4. Everywhere' = Everywhere /\ id \in Everywhere
    BY <1>1, <1>3, SamePlayers, Owing
<1>5. View!IndexOf(id) = s
    BY <1>1 DEF ManagerInv, JobsEnd, View!IndexOf, IndexOf
<1> QED
    BY <1>2, <1>4, <1>5 DEF View!Push

LEMMA LeaveDoneImplements ==
    ASSUME TypeOK, ManagerInv, TypeOK', ManagerInv', NEW s \in Slot,
           LeaveDone(s)
    PROVE  View!LeaveDone(s)
<1>1. /\ session' = [session EXCEPT ![s].state = "free"]
      /\ completions' = [completions EXCEPT ![s] = @ - 1]
      /\ completions[s] > 0 /\ JobQueue' = JobQueue
      /\ completions \in [Slot -> Nat]
      /\ session \in [Slot -> [state : {"free", "live", "left"},
                               id : SessionID]]
    BY DEF LeaveDone, TypeOK, EngineType
<1>2. completions[s] = 1
    BY <1>1 DEF ManagerInv, JobsEnd
<1>3. \A r \in Slot : session'[r].id = session[r].id /\ Owed(r)' = Owed(r)
    BY <1>1, <1>2 DEF Owed
<1>4. Everywhere' = Everywhere
    BY <1>3, SamePlayers
<1> QED
    BY <1>1, <1>4 DEF View!LeaveDone

LEMMA SameCardinality ==
    ASSUME NEW S PROVE View!Cardinality(S) = Cardinality(S)
    BY Zenon DEF View!Cardinality, Cardinality

LEMMA Handles ==
    ASSUME NEW s, NEW id, View!IndexOf(id) = s,
           NEW n \in 1 .. Len(JobQueue[s]),
           Leaves(s, n) # {} => n = Len(JobQueue[s]),
           JobQueue' = [JobQueue EXCEPT
                           ![s] = SubSeq(@, n + 1, Len(JobQueue[s]))],
           completions' = [completions EXCEPT
                              ![s] = @ + Cardinality(Leaves(s, n))],
           Everywhere' = IF Leaves(s, n) = {} THEN Everywhere
                                              ELSE Everywhere \ {id}
    PROVE  View!HandleJobs(id)
<1> DEFINE
      leave(r, m) == {i \in 1 .. m : JobQueue[r][i].type = "LEAVE"}
      handled(r) ==
          \E m \in 1 .. Len(JobQueue[r]) :
              /\ leave(r, m) # {} => m = Len(JobQueue[r])
              /\ JobQueue' = [JobQueue EXCEPT
                                 ![r] = SubSeq(@, m + 1, Len(JobQueue[r]))]
              /\ completions' =
                     [completions EXCEPT
                         ![r] = @ + View!Cardinality(leave(r, m))]
              /\ Everywhere' = IF leave(r, m) = {} THEN Everywhere
                                                   ELSE Everywhere \ {id}
<1>1. leave(s, n) = Leaves(s, n)
    BY DEF Leaves
<1> HIDE DEF leave
<1>2. handled(s)
    BY <1>1, SameCardinality
<1> HIDE DEF handled
<1>3. handled(View!IndexOf(id))
    BY <1>2
<1> QED
    BY <1>3, Zenon DEF handled, leave, View!HandleJobs

\* Enter, Leave and Stay handle all the jobs of a session.
LEMMA AnswerImplements ==
    ASSUME TypeOK, ManagerInv, TypeOK', ManagerInv', NEW s \in Slot, Owed(s),
           NEW leaves, leaves = Leaves(s, Len(JobQueue[s])),
           JobQueue' = [JobQueue EXCEPT ![s] = << >>], Answer(s, leaves),
           session' = session
    PROVE  \/ \E id \in Everywhere : View!HandleJobs(id)
           \/ UNCHANGED View!vars
<1>1. PICK id, q, size : id = session[s].id /\ q = JobQueue[s] /\ size = Len(q)
    OBVIOUS
<1>2. /\ completions \in [Slot -> Nat] /\ JobQueue \in [Slot -> Seq(Job)]
      /\ q \in Seq(Job) /\ size \in Nat
    BY <1>1 DEF TypeOK, EngineType
<1>3. /\ \A r \in Slot \ {s} : Owed(r)' = Owed(r)
      /\ Owed(s)' <=> leaves = {}
    BY Answered
<1>4. /\ id \in Everywhere /\ View!IndexOf(id) = s
      /\ Everywhere' = IF leaves = {} THEN Everywhere ELSE Everywhere \ {id}
  <2>1. \A r \in Slot : IndexOf(session[r].id) = r
      BY DEF ManagerInv, JobsEnd
  <2>2. View!IndexOf(id) = s
      BY <1>1, <2>1 DEF View!IndexOf, IndexOf
  <2>3. id \in Everywhere
      BY <1>1, Owing
  <2>4. CASE leaves = {}
    <3>1. \A r \in Slot : Owed(r)' <=> Owed(r)
        BY <1>3, <2>4
    <3> QED
        BY <2>2, <2>3, <2>4, <3>1, SamePlayers
  <2>5. CASE leaves # {}
    <3>1. \A r \in Slot : session[r].id = id => r = s
        BY <1>1, <2>1
    <3>2. \A i : i \in Everywhere' <=> i \in Everywhere \ {id}
        BY <1>1, <1>3, <2>5, <3>1, Owing, OwingNext
    <3>3. Everywhere' = Everywhere \ {id}
        BY <3>2 DEF Everywhere
    <3> QED
        BY <2>2, <2>3, <2>5, <3>3
  <2> QED
      BY <2>4, <2>5
<1>5. CASE size = 0
  <2>1. q = << >>
      BY <1>1, <1>2, <1>5, EmptySeq
  <2>2. leaves = {}
      BY <1>1, <1>5 DEF Leaves
  <2>3. JobQueue' = JobQueue
      BY <1>1, <1>2, <2>1
  <2> QED
      BY <1>4, <2>2, <2>3 DEF Answer, View!vars
<1>6. CASE size > 0
  <2>1. leaves = {i \in 1 .. size : q[i].type = "LEAVE"}
      BY <1>1 DEF Leaves
  <2>2. leaves = {} \/ leaves = {size}
      BY <1>1, <1>2, <2>1 DEF ManagerInv, JobsEnd
  <2>3. Cardinality(leaves) = IF leaves = {} THEN 0 ELSE 1
    <3>1. leaves = {} => Cardinality(leaves) = 0
        BY FS_EmptySet
    <3>2. leaves = {size} => Cardinality(leaves) = 1
        BY FS_Singleton
    <3> QED
        BY <2>2, <3>1, <3>2
  <2>4. completions' = [completions EXCEPT ![s] = @ + Cardinality(leaves)]
    <3>1. CASE leaves = {}
        BY <1>2, <2>3, <3>1 DEF Answer
    <3>2. CASE leaves # {}
        BY <1>2, <2>3, <3>2 DEF Answer
    <3> QED
        BY <3>1, <3>2
  <2>5. SubSeq(q, size + 1, size) = << >>
      BY <1>1, <1>2
  <2>6. size \in 1 .. size
      BY <1>2, <1>6
  <2>7. JobQueue' = [JobQueue EXCEPT ![s] = SubSeq(@, size + 1, size)]
      BY <1>1, <2>5
  <2>8. View!HandleJobs(id)
      BY <1>1, <1>4, <2>4, <2>6, <2>7, Handles
  <2> QED
      BY <1>4, <2>8
<1> QED
    BY <1>2, <1>5, <1>6
LEMMA QuietImplements ==
    ASSUME TypeOK, ManagerInv, TypeOK', ManagerInv',
           UNCHANGED <<session, completions, JobQueue>>
    PROVE  UNCHANGED View!vars
    BY SamePlayers DEF Owed, View!vars

LEMMA MoveImplements ==
    ASSUME TypeOK, ManagerInv, TypeOK', ManagerInv', NEW t \in Thread,
           NEW n \in 1 .. MaxJobs, NEW d \in GameThreads, Move(t, n, d)
    PROVE  \E id \in Everywhere : View!HandleJobs(id)
<1>1. PICK id, s : id = Current(t) /\ s = IndexOf(id)
    OBVIOUS
<1>2. /\ n \in 1 .. Len(JobQueue[s]) /\ Leaves(s, n) = {}
      /\ JobQueue' = [JobQueue EXCEPT ![s] = SubSeq(@, n + 1, Len(@))]
      /\ completions' = completions /\ session' = session
      /\ completions \in [Slot -> Nat] /\ pc[t] = "jobs"
    BY <1>1 DEF Move, engineVars, TypeOK, EngineType
<1>3. s \in Slot /\ session[s].id = id /\ Owed(s)
    BY <1>1, <1>2, JobPlayer
<1>4. Everywhere' = Everywhere /\ id \in Everywhere
    BY <1>2, <1>3, SamePlayers, Owing DEF Owed
<1>5. completions' = [completions EXCEPT ![s] = @ + Cardinality(Leaves(s, n))]
  <2>1. Cardinality(Leaves(s, n)) = 0
      BY <1>2, FS_EmptySet
  <2> QED
      BY <1>2, <1>3, <2>1
<1>6. View!IndexOf(id) = s
    BY <1>1 DEF View!IndexOf, IndexOf
<1>7. JobQueue' = [JobQueue EXCEPT
                      ![s] = SubSeq(@, n + 1, Len(JobQueue[s]))]
    BY <1>2
<1>8. View!HandleJobs(id)
    BY <1>2, <1>4, <1>5, <1>6, <1>7, Handles
<1> QED
    BY <1>4, <1>8

LEMMA EnterImplements ==
    ASSUME TypeOK, ManagerInv, TypeOK', ManagerInv', NEW g \in GameThreads,
           Enter(g)
    PROVE  [View!Next]_(View!vars)
<1>1. PICK id, s, leaves : /\ id = Head(enterQueue[g]) /\ s = IndexOf(id)
                           /\ leaves = Leaves(s, Len(JobQueue[s]))
    OBVIOUS
<1>2. enterQueue[g] # << >> /\ enterQueue[g] \in Seq(SessionID)
    BY DEF Enter, TypeOK, ListType, LoopType, InRange
<1>3. s \in Slot /\ Owed(s)
  <2>1. id \in ToSet(Players(EnterPlace(g)))
      BY <1>1, <1>2, Beheaded, PlayersAt
  <2> QED
      BY <1>1, <2>1, Listed, PlaceKinds
<1>4. /\ JobQueue' = [JobQueue EXCEPT ![s] = << >>] /\ Answer(s, leaves)
      /\ session' = session
    BY <1>1 DEF Enter, engineVars
<1> QED
    BY <1>1, <1>3, <1>4, AnswerImplements DEF View!Next

LEMMA JobImplements ==
    ASSUME TypeOK, ManagerInv, TypeOK', ManagerInv', NEW t \in Thread,
           Leave(t) \/ Stay(t)
    PROVE  [View!Next]_(View!vars)
<1>1. PICK s, leaves : /\ s = IndexOf(Current(t))
                       /\ leaves = Leaves(s, Len(JobQueue[s]))
    OBVIOUS
<1>2. s \in Slot /\ Owed(s)
    BY <1>1, JobPlayer DEF Leave, Stay
<1>3. /\ JobQueue' = [JobQueue EXCEPT ![s] = << >>] /\ Answer(s, leaves)
      /\ session' = session
    BY <1>1 DEF Leave, Stay, Answer, engineVars
<1> QED
    BY <1>1, <1>2, <1>3, AnswerImplements DEF View!Next

\* The content threads are to the session engine what ContentView says of
\* them: the jobs of a session are taken in order by one owner, LEAVE comes
\* last, ends the player and is answered by one completion, and no player is
\* made in a slot that still has one.  Locks, moves and passes over the lists
\* (CThreadManager.cpp) make no other difference.
THEOREM ImplementsContent == Spec => IsContent
<1>1. Init => View!Init
  <2> SUFFICES ASSUME Init PROVE View!Init
      OBVIOUS
  <2>1. \A s \in Slot : ~Owed(s)
      BY DEF Init, Owed
  <2>2. \A id : id \notin Everywhere
      BY <2>1, InitTypes, InitManager, Owing
  <2>3. Everywhere = {}
      BY <2>2
  <2> QED
      BY <2>3 DEF Init, View!Init
<1>2. /\ TypeOK /\ ManagerInv /\ TypeOK' /\ ManagerInv' /\ [Next]_vars
      => [View!Next]_(View!vars)
  <2> SUFFICES ASSUME TypeOK, ManagerInv, TypeOK', ManagerInv', [Next]_vars
               PROVE  [View!Next]_(View!vars)
      OBVIOUS
  <2>1. CASE UNCHANGED vars
      BY <2>1, QuietImplements DEF vars, engineVars, jobVars
  <2>2. ASSUME NEW s \in Slot, Engine(s) PROVE [View!Next]_(View!vars)
      BY <2>2, JoinImplements, PushImplements, LeaveDoneImplements
         DEF Engine, View!Next
  <2>3. CASE PopLogin
      BY <2>3, QuietImplements DEF PopLogin, engineVars, jobVars
  <2>4. ASSUME NEW g \in GameThreads, EnterFunction(g)
        PROVE  [View!Next]_(View!vars)
    <3>1. CASE EnterLock(g) \/ EnterUnlock(g)
        BY <3>1, QuietImplements
           DEF EnterLock, EnterUnlock, engineVars, jobVars
    <3> QED
        BY <2>4, <3>1, EnterImplements DEF EnterFunction
  <2>5. ASSUME NEW t \in Thread, ThreadFunction(t)
        PROVE  [View!Next]_(View!vars)
    <3>1. CASE \/ Frame(t) \/ Round(t) \/ RoundDone(t)
               \/ AcquireJobQueueLock(t) \/ MovePlayer(t) \/ EraseMoved(t)
        BY <3>1, QuietImplements
           DEF Frame, Round, RoundDone, AcquireJobQueueLock, MovePlayer,
               EraseMoved, engineVars, jobVars
    <3>2. ASSUME NEW n \in 1 .. MaxJobs, NEW d \in GameThreads, Move(t, n, d)
          PROVE  [View!Next]_(View!vars)
        BY <3>2, MoveImplements DEF View!Next
    <3> QED
        BY <2>5, <3>1, <3>2, JobImplements DEF ThreadFunction
  <2> QED
      BY <2>1, <2>2, <2>3, <2>4, <2>5 DEF Next
<1> QED
    BY <1>1, <1>2, ManagerTypes, ManagerInvariant, PTL
       DEF Spec, IsContent, View!Spec
=============================================================================
