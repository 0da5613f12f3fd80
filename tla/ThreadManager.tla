---------------------------- MODULE ThreadManager ----------------------------
(***************************************************************************)
(* The content threads (CThreadManager.cpp): the login thread makes a      *)
(* player of every session that joins; a game thread takes players from    *)
(* its enterQueue; each frame a thread goes over its PlayerList and        *)
(* handles the jobs of every player's session, and a message may move a    *)
(* player into another thread's enterQueue.                                *)
(*                                                                         *)
(* Two kinds of locks are nested, in both orders: MovePlayer takes the     *)
(* destination's enterQueueLock while it holds the JobQueueLock of the     *)
(* player's slot, and a game thread that takes players in holds its        *)
(* enterQueueLock while it takes their JobQueueLocks.  Each acquisition,   *)
(* and what is done up to the next one or to a release another thread may  *)
(* wait for, is a step.                                                    *)
(*                                                                         *)
(* The session engine appears as what NetServer shows of it: a slot gets a *)
(* new session only after its LEAVE completion was taken.  A player is the *)
(* session it plays for.                                                   *)
(***************************************************************************)
EXTENDS Integers, FiniteSets, SequencesExt

CONSTANTS
    Slot,         \* slots of the session table
    LoginThread,
    GameThreads,  \* GameThreadList
    Moves,        \* where a message that thread t handles may move a player
    Nobody,       \* no thread holds the lock
    MaxAlloc,     \* bound: sessions that join
    MaxJobs       \* bound: messages waiting in a JobQueue

Thread == {LoginThread} \cup GameThreads

ASSUME ManagerAssumption ==
    /\ LoginThread \notin GameThreads /\ Nobody \notin Thread
    /\ Moves \in [Thread -> SUBSET GameThreads]
    /\ MaxAlloc \in Nat /\ MaxJobs \in Nat

SessionID == (0 .. MaxAlloc) \X Slot
IndexOf(id) == id[2]
Job == [type : {"RECV", "LEAVE"}, id : SessionID]

VARIABLES
    (* the session engine *)
    sessionAllocNum,
    session,        \* per slot: what became of its session, and its ID
    completions,    \* LEAVE completions waiting in the port
    JobQueue, JobQueueLock, LoginQueue,
    (* the threads *)
    PlayerList, enterQueue, enterQueueLock,
    pc,
    round,          \* passes over the list left to do in this frame
    iter,           \* the position in the list
    entering,       \* players left to take in
    DesThreadNo

engineVars == <<sessionAllocNum, session>>
jobVars == <<completions, JobQueue, JobQueueLock>>
enterVars == <<enterQueue, enterQueueLock>>
loopVars == <<round, iter, entering, DesThreadNo>>
vars == <<engineVars, jobVars, LoginQueue, PlayerList, enterVars, pc,
          loopVars>>

Goto(t, p) == pc' = [pc EXCEPT ![t] = p]

Init ==
    /\ sessionAllocNum = 0
    /\ session = [s \in Slot |-> [state |-> "free", id |-> <<0, s>>]]
    /\ completions = [s \in Slot |-> 0]
    /\ JobQueue = [s \in Slot |-> << >>]
    /\ JobQueueLock = [s \in Slot |-> Nobody]
    /\ LoginQueue = << >>
    /\ PlayerList = [t \in Thread |-> << >>]
    /\ enterQueue = [g \in GameThreads |-> << >>]
    /\ enterQueueLock = [g \in GameThreads |-> Nobody]
    /\ pc = [t \in Thread |-> "frame"]
    /\ round = [t \in Thread |-> 0]
    /\ iter = [t \in Thread |-> 1]
    /\ entering = [t \in Thread |-> 0]
    /\ DesThreadNo = [t \in Thread |-> t]

-----------------------------------------------------------------------------
(* The session engine, and the callbacks of CNetServerHandler.             *)

OnClientJoin(s) ==
    /\ session[s].state = "free"
    /\ sessionAllocNum < MaxAlloc
    /\ sessionAllocNum' = sessionAllocNum + 1
    /\ session' = [session EXCEPT
                      ![s] = [state |-> "live", id |-> <<sessionAllocNum, s>>]]
    /\ LoginQueue' = Append(LoginQueue, <<sessionAllocNum, s>>)
    /\ UNCHANGED <<jobVars, PlayerList, enterVars, pc, loopVars>>

\* A worker pushes a job under the slot's lock, and holds no other.
Push(s, type) ==
    /\ session[s].state = "live"
    /\ JobQueueLock[s] = Nobody
    /\ JobQueue' = [JobQueue EXCEPT
                       ![s] = Append(@, [type |-> type, id |-> session[s].id])]
    /\ UNCHANGED <<sessionAllocNum, completions, JobQueueLock, LoginQueue,
                   PlayerList, enterVars, pc, loopVars>>

OnRecv(s) == /\ Len(JobQueue[s]) < MaxJobs
             /\ Push(s, "RECV")
             /\ UNCHANGED session

OnClientLeave(s) == /\ Push(s, "LEAVE")
                    /\ session' = [session EXCEPT ![s].state = "left"]

LeaveDone(s) ==
    /\ completions[s] > 0
    /\ completions' = [completions EXCEPT ![s] = @ - 1]
    /\ session' = [session EXCEPT ![s].state = "free"]
    /\ UNCHANGED <<sessionAllocNum, JobQueue, JobQueueLock, LoginQueue,
                   PlayerList, enterVars, pc, loopVars>>

-----------------------------------------------------------------------------
(* The beginning of a frame.                                               *)

\* The login thread makes players until its queue is empty.
PopLogin ==
    /\ pc[LoginThread] = "frame"
    /\ LoginQueue # << >>
    /\ PlayerList' =
           [PlayerList EXCEPT ![LoginThread] = Append(@, Head(LoginQueue))]
    /\ LoginQueue' = Tail(LoginQueue)
    /\ UNCHANGED <<engineVars, jobVars, enterVars, pc, loopVars>>

\* Both sizes are read before a player is taken in, and without the lock.
Frame(t) ==
    LET waiting == IF t \in GameThreads THEN Len(enterQueue[t]) ELSE 0 IN
    /\ pc[t] = "frame"
    /\ t = LoginThread => LoginQueue = << >>
    /\ round' = [round EXCEPT ![t] = Len(PlayerList[t])]
    /\ entering' = [entering EXCEPT ![t] = waiting]
    /\ Goto(t, IF waiting > 0 THEN "enterLock" ELSE "round")
    /\ UNCHANGED <<engineVars, jobVars, LoginQueue, PlayerList, enterVars,
                   iter, DesThreadNo>>

EnterLock(g) ==
    /\ pc[g] = "enterLock"
    /\ enterQueueLock[g] = Nobody
    /\ enterQueueLock' = [enterQueueLock EXCEPT ![g] = g]
    /\ Goto(g, "enter")
    /\ UNCHANGED <<engineVars, jobVars, LoginQueue, PlayerList, enterQueue,
                   loopVars>>

Leaves(s, n) == {i \in 1 .. n : JobQueue[s][i].type = "LEAVE"}

\* PostLeaveCompletion, when there was a LEAVE job.
Answer(s, leaves) ==
    completions' =
        IF leaves = {} THEN completions
                       ELSE [completions EXCEPT ![s] = @ + 1]

\* Slips used for mutation testing: a LEAVE job is dropped with the messages;
\* a player that left is taken into the list.
EnterUnanswered(g) ==
    LET id == Head(enterQueue[g])
        s == IndexOf(id)
    IN
    /\ pc[g] = "enter"
    /\ entering[g] > 0
    /\ JobQueueLock[s] = Nobody
    /\ JobQueue' = [JobQueue EXCEPT ![s] = << >>]
    /\ PlayerList' = [PlayerList EXCEPT ![g] = Append(@, id)]
    /\ enterQueue' = [enterQueue EXCEPT ![g] = Tail(@)]
    /\ entering' = [entering EXCEPT ![g] = @ - 1]
    /\ UNCHANGED <<engineVars, completions, JobQueueLock, LoginQueue,
                   enterQueueLock, pc, round, iter, DesThreadNo>>

EnterTheDeparted(g) ==
    LET id == Head(enterQueue[g])
        s == IndexOf(id)
    IN
    /\ pc[g] = "enter"
    /\ entering[g] > 0
    /\ JobQueueLock[s] = Nobody
    /\ JobQueue' = [JobQueue EXCEPT ![s] = << >>]
    /\ Answer(s, Leaves(s, Len(JobQueue[s])))
    /\ PlayerList' = [PlayerList EXCEPT ![g] = Append(@, id)]
    /\ enterQueue' = [enterQueue EXCEPT ![g] = Tail(@)]
    /\ entering' = [entering EXCEPT ![g] = @ - 1]
    /\ UNCHANGED <<engineVars, JobQueueLock, LoginQueue, enterQueueLock, pc,
                   round, iter, DesThreadNo>>

\* A player is taken in, under the lock of its session's jobs.  All of them
\* are dropped; with a LEAVE among them the player ends here.
Enter(g) ==
    LET id == Head(enterQueue[g])
        s == IndexOf(id)
        leaves == Leaves(s, Len(JobQueue[s]))
    IN
    /\ pc[g] = "enter"
    /\ entering[g] > 0
    /\ JobQueueLock[s] = Nobody
    /\ JobQueue' = [JobQueue EXCEPT ![s] = << >>]
    /\ Answer(s, leaves)
    /\ PlayerList' = IF leaves = {}
                     THEN [PlayerList EXCEPT ![g] = Append(@, id)]
                     ELSE PlayerList
    /\ enterQueue' = [enterQueue EXCEPT ![g] = Tail(@)]
    /\ entering' = [entering EXCEPT ![g] = @ - 1]
    /\ UNCHANGED <<engineVars, JobQueueLock, LoginQueue, enterQueueLock, pc,
                   round, iter, DesThreadNo>>

EnterUnlock(g) ==
    /\ pc[g] = "enter"
    /\ entering[g] = 0
    /\ enterQueueLock' = [enterQueueLock EXCEPT ![g] = Nobody]
    /\ Goto(g, "round")
    /\ UNCHANGED <<engineVars, jobVars, LoginQueue, PlayerList, enterQueue,
                   loopVars>>

-----------------------------------------------------------------------------
(* The list of players is gone over as many times as it was long when the  *)
(* frame began.                                                            *)

Round(t) ==
    /\ pc[t] = "round"
    /\ IF round[t] > 0
       THEN /\ round' = [round EXCEPT ![t] = @ - 1]
            /\ iter' = [iter EXCEPT ![t] = 1]
            /\ Goto(t, "list")
       ELSE Goto(t, "frame") /\ UNCHANGED <<round, iter>>
    /\ UNCHANGED <<engineVars, jobVars, LoginQueue, PlayerList, enterVars,
                   entering, DesThreadNo>>

RoundDone(t) ==
    /\ pc[t] = "list"
    /\ iter[t] > Len(PlayerList[t])
    /\ Goto(t, "round")
    /\ UNCHANGED <<engineVars, jobVars, LoginQueue, PlayerList, enterVars,
                   loopVars>>

Current(t) == PlayerList[t][iter[t]]

AcquireJobQueueLock(t) ==
    LET s == IndexOf(Current(t)) IN
    /\ pc[t] = "list"
    /\ iter[t] <= Len(PlayerList[t])
    /\ JobQueueLock[s] = Nobody
    /\ JobQueueLock' = [JobQueueLock EXCEPT ![s] = t]
    /\ Goto(t, "jobs")
    /\ UNCHANGED <<engineVars, completions, JobQueue, LoginQueue, PlayerList,
                   enterVars, loopVars>>

Release(t) ==
    JobQueueLock' = [JobQueueLock EXCEPT ![IndexOf(Current(t))] = Nobody]
Erase(t) ==
    PlayerList' = [PlayerList EXCEPT ![t] = RemoveAt(@, iter[t])]

\* A slip: the iterator goes on after the element was erased.
LeaveAndSkip(t) ==
    LET s == IndexOf(Current(t))
        leaves == Leaves(s, Len(JobQueue[s]))
    IN
    /\ pc[t] = "jobs"
    /\ leaves # {}
    /\ JobQueue' = [JobQueue EXCEPT ![s] = << >>]
    /\ Answer(s, leaves)
    /\ Erase(t) /\ Release(t)
    /\ iter' = [iter EXCEPT ![t] = @ + 1]
    /\ Goto(t, "list")
    /\ UNCHANGED <<engineVars, LoginQueue, enterVars, round, entering,
                   DesThreadNo>>

\* The jobs end with LEAVE, and no message before it moved the player.
Leave(t) ==
    LET s == IndexOf(Current(t))
        leaves == Leaves(s, Len(JobQueue[s]))
    IN
    /\ pc[t] = "jobs"
    /\ leaves # {}
    /\ JobQueue' = [JobQueue EXCEPT ![s] = << >>]
    /\ Answer(s, leaves)
    /\ Erase(t) /\ Release(t)
    /\ Goto(t, "list")
    /\ UNCHANGED <<engineVars, LoginQueue, enterVars, loopVars>>

\* No job moves the player, or there is none.
Stay(t) ==
    LET s == IndexOf(Current(t)) IN
    /\ pc[t] = "jobs"
    /\ Leaves(s, Len(JobQueue[s])) = {}
    /\ JobQueue' = [JobQueue EXCEPT ![s] = << >>]
    /\ Release(t)
    /\ iter' = [iter EXCEPT ![t] = @ + 1]
    /\ Goto(t, "list")
    /\ UNCHANGED <<engineVars, completions, LoginQueue, PlayerList, enterVars,
                   round, entering, DesThreadNo>>

\* The n-th job moves the player: the jobs after it are left in the queue.
Move(t, n, d) ==
    LET s == IndexOf(Current(t)) IN
    /\ pc[t] = "jobs"
    /\ d \in Moves[t]
    /\ n <= Len(JobQueue[s])
    /\ Leaves(s, n) = {}
    /\ JobQueue' = [JobQueue EXCEPT ![s] = SubSeq(@, n + 1, Len(@))]
    /\ DesThreadNo' = [DesThreadNo EXCEPT ![t] = d]
    /\ Goto(t, "move")
    /\ UNCHANGED <<engineVars, completions, JobQueueLock, LoginQueue,
                   PlayerList, enterVars, round, iter, entering>>

\* MovePlayer takes the destination's lock while it holds the session's.
MovePlayer(t) ==
    LET d == DesThreadNo[t] IN
    /\ pc[t] = "move"
    /\ enterQueueLock[d] = Nobody
    /\ enterQueue' = [enterQueue EXCEPT ![d] = Append(@, Current(t))]
    /\ Goto(t, "erase")
    /\ UNCHANGED <<engineVars, jobVars, LoginQueue, PlayerList,
                   enterQueueLock, loopVars>>

\* A slip: the player stays in the list it was moved from.
EraseNothing(t) ==
    /\ pc[t] = "erase"
    /\ Release(t)
    /\ Goto(t, "list")
    /\ UNCHANGED <<engineVars, completions, JobQueue, LoginQueue, PlayerList,
                   enterVars, loopVars>>

\* Only now is it erased from the list of the thread that moved it.
EraseMoved(t) ==
    /\ pc[t] = "erase"
    /\ Erase(t) /\ Release(t)
    /\ Goto(t, "list")
    /\ UNCHANGED <<engineVars, completions, JobQueue, LoginQueue, enterVars,
                   loopVars>>

-----------------------------------------------------------------------------

Engine(s) ==
    OnClientJoin(s) \/ OnRecv(s) \/ OnClientLeave(s) \/ LeaveDone(s)

ThreadFunction(t) ==
    \/ Frame(t) \/ Round(t) \/ RoundDone(t) \/ AcquireJobQueueLock(t)
    \/ Leave(t) \/ Stay(t)
    \/ \E n \in 1 .. MaxJobs, d \in GameThreads : Move(t, n, d)
    \/ MovePlayer(t) \/ EraseMoved(t)

EnterFunction(g) == EnterLock(g) \/ Enter(g) \/ EnterUnlock(g)

Next ==
    \/ \E s \in Slot : Engine(s)
    \/ PopLogin
    \/ \E g \in GameThreads : EnterFunction(g)
    \/ \E t \in Thread : ThreadFunction(t)

Spec == Init /\ [][Next]_vars

\* Every thread goes on when it can, a completion is taken in the end, and a
\* thread that waits for an enterQueueLock gets it when it is free time and
\* again: the other threads take it once a frame, and sleep.  Sessions,
\* messages and departures come as they like.
FairSpec ==
    /\ Spec
    /\ WF_vars(PopLogin)
    /\ \A t \in Thread : WF_vars(ThreadFunction(t)) /\ SF_vars(MovePlayer(t))
    /\ \A g \in GameThreads : WF_vars(EnterFunction(g))
    /\ \A s \in Slot : WF_vars(LeaveDone(s))

-----------------------------------------------------------------------------
Label == {"frame", "enterLock", "enter", "round", "list", "jobs", "move",
          "erase"}

\* An iterator is never past the end of its list, and no thread takes in more
\* players than wait.
InRange(t) ==
    /\ pc[t] = "list" => iter[t] <= Len(PlayerList[t]) + 1
    /\ pc[t] \in {"jobs", "move", "erase"} => iter[t] <= Len(PlayerList[t])
    /\ pc[t] = "move" => DesThreadNo[t] \in GameThreads
    /\ pc[t] \in {"enterLock", "enter"}
           => t \in GameThreads /\ entering[t] <= Len(enterQueue[t])

EngineType ==
    /\ sessionAllocNum \in 0 .. MaxAlloc
    /\ session \in [Slot -> [state : {"free", "live", "left"}, id : SessionID]]
    /\ completions \in [Slot -> Nat]
    /\ JobQueue \in [Slot -> Seq(Job)]
    /\ JobQueueLock \in [Slot -> Thread \cup {Nobody}]

ListType ==
    /\ LoginQueue \in Seq(SessionID)
    /\ PlayerList \in [Thread -> Seq(SessionID)]
    /\ enterQueue \in [GameThreads -> Seq(SessionID)]
    /\ enterQueueLock \in [GameThreads -> GameThreads \cup {Nobody}]

LoopType ==
    /\ pc \in [Thread -> Label]
    /\ round \in [Thread -> Nat] /\ entering \in [Thread -> Nat]
    /\ iter \in [Thread -> Nat \ {0}] /\ DesThreadNo \in [Thread -> Thread]

\* Types; and what a thread has read of a list still holds when it is used.
TypeOK ==
    EngineType /\ ListType /\ LoopType /\ \A t \in Thread : InRange(t)

\* The lists and queues a player can be in.
Place == {<<"LoginQueue", LoginThread>>} \cup ({"PlayerList"} \X Thread)
             \cup ({"enterQueue"} \X GameThreads)
Players(p) == IF p[1] = "LoginQueue" THEN LoginQueue
              ELSE IF p[1] = "PlayerList" THEN PlayerList[p[2]]
              ELSE enterQueue[p[2]]

Places(id) == {p \in Place : id \in ToSet(Players(p))}

\* Where a player still is, although it was put into an enterQueue already.
Moving(id) == {<<"PlayerList", t>> :
                   t \in {u \in Thread : pc[u] = "erase" /\ Current(u) = id}}

\* The LEAVE job of the session was not handled yet.
Owed(s) == session[s].state # "free" /\ completions[s] = 0

\* A player is in exactly one list or queue until its LEAVE job was handled,
\* and in two only while the thread that moves it is about to erase it: were
\* it in two, two threads would handle its jobs and free it; in none, nobody
\* would answer its LEAVE, and the slot would be lost.
OnePlace ==
    /\ \A p \in Place : IsInjective(Players(p))
    /\ \A s \in Slot :
        LET id == session[s].id
        IN  IF Owed(s) THEN \E p \in Place : Places(id) \ Moving(id) = {p}
                       ELSE Places(id) = {}
    /\ \A p \in Place : \A id \in ToSet(Players(p)) :
        session[IndexOf(id)].id = id

\* The two locks are taken in both orders, yet a game thread that takes a
\* player in never waits for a thread that waits for an enterQueueLock: the
\* JobQueueLock it needs is that of a player in no other thread's list.
NoLockCycle ==
    \A g \in GameThreads, t \in Thread :
        pc[g] = "enter" /\ entering[g] > 0 /\ pc[t] = "move"
            => IndexOf(Head(enterQueue[g])) # IndexOf(Current(t))

\* The manager is what the session engine takes it for.
Everywhere == UNION {ToSet(Players(p)) : p \in Place}
View == INSTANCE ContentView WITH players <- Everywhere
IsContent == View!Spec

\* Whoever owns the player when its session leaves, or while it moves, the
\* LEAVE job is answered and the slot is free again.
LeaveAnswered == \A s \in Slot : session[s].state = "left"
                                     ~> session[s].state = "free"
=============================================================================
