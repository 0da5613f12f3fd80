# POMainServer in TLA+

POMainServer is a Windows game server: an I/O completion port engine in C++
with lock-free containers of its own, and game content that runs in threads
of its own. This directory holds its TLA+ models, the TLC configurations that
check them on small instances, and proofs for TLAPS. Paths without a
directory name files of `src/POMainServer`.

## 1. The system

### Threads

| thread | code | what it does |
| --- | --- | --- |
| accept thread, 1 | `CNetServer::AcceptThread` | accepts a connection, takes a free slot, starts a session in it, tells the login thread, posts the first receive |
| workers, 3 | `CNetServer::WorkerThread` | take completions from the port: receives, sends, and the requests SENDPOST, RELEASE and LEAVE that threads post to one another |
| login thread, 1 | `CLoginThread::LoginThreadFunction` | makes a player of each new session, handles its jobs, moves it on to a game thread |
| game thread, 1 | `CParentThread::ThreadFunction` | each frame: takes players in, handles the jobs of its players, calls the engine's API |
| UDP thread | `CNetServer::UDPThread` | notes the UDP address of a session; `Start` creates no such thread |
| control thread, `main` | `ControlThread`, `main.cpp` | console, statistics |

### Components, their state, and what makes them correct

**Session engine** (`CNetServer.cpp/.h`). A fixed table of `st_Session` slots
and a stack of free indexes. Per slot: the session's ID, `isValid`,
`releaseFlag`, the reference count `IOcount`, `disconnectStep`, the socket,
`sendFlag`, `sendQueue`, `sentPacketArray`, the receive ring, the `JobQueue`.
No lock protects a slot: whoever uses it holds a reference, and the worker
that drops the last one runs `releaseSession`, which claims the session with
a compare-and-swap on `releaseFlag`. Correct means: the count is exact; a slot
is in one place (free, in use, being cleaned up, on its way back) and is
handed out once; a session with no reference is released, and only then; one
thread sends and one receives for a session at a time; nothing of one session
reaches the next one in its slot.

**Ring buffer and receive framing** (`ringbuffer.cpp`, `WorkerThread`,
`recvPost`). The kernel writes received bytes straight into the free part of a
ring of 10001 bytes, described by two WSABUFs; the worker advances `rear` and
takes whole messages out. Correct means: the ring holds exactly the bytes that
were not taken out; a pending receive covers only free cells; the content gets
the peer's messages whole, in order, and as soon as they are there. (For the
longest messages that are accepted, and for the last point, the code is
otherwise: section 3.)

**Thread manager** (`CThreadManager.cpp/.h`). Lists of players per thread, an
`enterQueue` per game thread through which players move. Correct means: a
player is in one list or in one queue; each job of a session is handled by its
owner, in order; a LEAVE job is never lost, for it gives the slot back.

**Game content** (`GameServer.cpp/.h`). Answers messages through
`sendPacket`, `getUDPAddress` and `disconnectSession`.

**Packet** (`Packet.cpp/.h`). A buffer with a header, an optional encoding and
a reference count, shared by the send queues of several sessions.

Correct means: freed once, by whoever drops the last reference; what
`WSASend` reads is one whole message with its header; a reader gets the
message that was received, though buffers are used again and never erased.

**Lock-free queue, lock-free stack, memory pools** (`LockFreeQueue.h`,
`LockFreeStack.h`, `MemoryPoolBucket.h`). Linked nodes with a stamp in the
upper 16 bits of each pointer against reuse; the pool gives each thread a
bucket of objects, which the last free puts back on a shared list. Correct
means: they are a FIFO queue, a stack and an allocator, whatever the
interleaving; no item, node, object or bucket is lost or has two users.

**Profiler, log, crash dump, database connector.** Measuring, formatting and
output; no other component's decisions depend on them, and nothing uses the
database connector.

### How they interact

* The workers and the accept thread share each slot's fields; content threads
  reach them through `findSession`.
* Threads post requests to the port: SENDPOST from `sendPacket` (it carries a
  reference), RELEASE from whoever drops a last reference outside the workers,
  LEAVE from the content when it has let a player go.
* A worker pushes RECV and LEAVE jobs into the slot's `JobQueue`; the content
  thread that owns the player takes them out. Only after the LEAVE job has
  gone through the content does the slot index return to the free stack.
* The kernel writes into the ring buffer, and completes or cancels operations
  while the threads run.

### What is hard

Reads and compare-and-swaps that are not one step (`findSession`,
`releaseSession`, `sendPost`); a slot reused while threads still run with the
old session's ID; failures half way (first receive, send, posting a request);
flags cleared after the condition they guard was looked at; bytes cut into
receives at any point; a ring that wraps. PROJECT.json lists each hazard with
its line and the properties that watch it.

## 2. Modules

| module | models | how |
| --- | --- | --- |
| `NetServer` | session engine | one action per access to shared state |
| `NetServerProperties` | | type invariant, safety, liveness |
| `MCNetServer` | | sets of threads, calls and symmetry for TLC |
| `NetServerProofs` | | `TypeCorrect`, `RefExact`, `CountNeverNegative` |
| `NetServerCustodyProofs` | | `CustodyKept`, `RollbackSafe` |
| `NetServerReceiverProofs` | | `ReceivesAlone`, `PlayerKeepsSlot` |
| `NetServerSenderProofs` | | `SendsAlone`, `LastSendKept`, `PacketsKept` |
| `RingBuffer` | ring buffer | operators on `front` and `rear` |
| `MessageStream` | what a connection promises | abstract specification |
| `RecvFraming` | receives of one connection | extends `RingBuffer`; refines `MessageStream` |
| `RecvFramingProofs` | | `FramingTypes`, `FramingInvariant`, `BufferHoldsStream`, `CutHasReason`, `ReceiveHasRoom`, `ImplementsStream` |
| `MCRecvFraming` | | the peers for TLC |
| `FifoQueue` | what a `sendQueue` promises | abstract specification |
| `LockFreeQueue` | lock-free queue | one action per access; refines `FifoQueue` |
| `MCLockFreeQueue` | | producers and consumers for TLC |
| `MemoryPool` | `CMemoryPoolBucket` on `CMemoryPool` | one action per access, run by calls of its user |
| `AtomicStack` | what `emptyIndexStack` promises | abstract specification |
| `LockFreeStack` | lock-free stack and index stack | composed with `MemoryPool`; refines `AtomicStack` |
| `LockFreeStackProofs` | | `StackInvariant`, `StackTyped`, `StackIndexOnce`, `StackObjectsApart`, `StackBucketsAccounted`, `ImplementsStack` |
| `MCLockFreeStack` | | who pushes and pops, for TLC |
| `Packet` | `CPacket` | operators on a record |
| `PacketFlow` | packets in the whole server | extends `Packet`; builders, senders, releases, receives, jobs, datagrams |
| `PacketFlowProofs` | | `FlowInvariant`, `FlowTypes`, `ReferencesExact`, `BuffersWhole`, `JobsWhole` |
| `MCPacketFlow` | | messages, payloads and symmetry for TLC |
| `ContentView` | what `NetServer` assumes of the content | abstract specification |
| `ThreadManager` | login and game threads | lock by lock; refines `ContentView` |
| `ThreadManagerProofs` | | `ManagerTypes`, `ManagerInvariant`, `PlayerInOnePlace`, `NoCycle`, `ImplementsContent` |
| `MCThreadManager` | | the threads `main.cpp` creates, for TLC |

Definitions whose comment calls them a slip are not part of the models: each
is a variant of an operator as a plausible mistake would leave it, and shows
that a property notices.

### NetServer

State and code correspond field by field; the variables have the names of the
fields. The others:

* `sock` is what the handle refers to: an open connection, one that was reset,
  or a closed handle. `udpKnown` is `UDPPort # -1`.
* `hcp` holds the completions that wait in the port, per slot and kind. It is a
  bag: a worker can be preempted right after it dequeued, so the port's order
  promises nothing about effects. `recvIO`, `sendIO` count operations pending
  in the kernel.
* `players` and `JobQueue` are what the engine sees of the content.
  `issued` is the set of IDs the content has been told.
* `pc`, `slot`, `sid`, `tempCount` and `op` are the threads' program counters
  and locals. Labels begin with the function: `a.` AcceptThread, `w.`
  WorkerThread, `rp.` recvPost, `sp.` sendPost, `r.` releaseSession, `f.`
  findSession, `s.` sendPacket, `d.` disconnectSession, `g.` getUDPAddress,
  `p.` UDPThread, `u.` the end of a call.
* `leaked` counts the references `getUDPAddress` loses. `raced` notes that a
  session was claimed for release while some thread was using it; `Passing`
  are the threads that hold a reference but will give it back untouched.

Two accesses share a step only where one commutes with whatever others can do
in between: a plain store that only the thread itself reads before its next
step, or a completion posted a moment early, which is one that waits longer.
The receive completion's loop is one step with its outcomes: no message,
a message for the content, or a disconnect (`RecvFraming` has the loop).

Facts of the code that the model relies on or shows:

* `sessionAllocNum` has no initialiser, but the server is a global of
  `main.cpp`, so it begins at 0, as in the model.
* `wcscmp(...) == true` in `getUDPAddress` holds only for the answer 1. Strings
  that differ may answer any other value, so with a known address the call
  succeeds or leaks; with an unknown one it leaks.
* When the table is full `AcceptThread` closes the socket and goes on, with
  index 0. This is the fault `tableFull`; `firstRecvFails` and `postFails` are
  the failures of the first `WSARecv` and of `PostQueuedCompletionStatus` in
  `sendPacket`. Runs that ask other questions leave the faults out, since the
  first two break what the other properties need. The failure of posting a
  RELEASE or LEAVE request, which the code does not look at, is left out.
* `OnConnectionRequest` returns true always, and `onPlayerJoin` always gives a
  player.
* `sendQueue` and the index stack are atomic here. `LockFreeQueue` and
  `LockFreeStack` show that they are, one producer at a time for the queue.
* A player belongs to one content thread, so two content threads never call for
  the same session at a time. `HandleJobs` handles a prefix of the queue: the
  loop stops at a message that moves the player, and a message's handler may
  call the API before the loop goes on.

### RingBuffer and RecvFraming

Positions are offsets from `begin`. A byte is its position in the peer's
stream, a message is where it begins, its length and whether its code is right.
`PeerSends` extends the stream, `Receive(n)` completes the pending receive
with `n` bytes and writes them where its WSABUFs point; then come the loop's
turns: `Drained`, `Malformed`, `Incomplete`, `OnRecv`, and `RecvPost`.
`leftByte` is a DWORD, so its subtraction is modulo `Word`. When `Peek`
fails, `header.len` is 0 and `header.code` is not initialised: any value. The
failure branches of `Dequeue` and `Decode` cannot be reached (the size was
tested, and `Decode` is compiled to return TRUE: `Encode_option` is not
defined). Disconnects by other threads are in `NetServer`, whose `OneReceiver`
is what lets this module be sequential.

The check of the length (`CNetServer.cpp:1016`) is against `BUFFER_DEFAULT`,
2000, which is the whole allocation of a packet, and the header of 5 bytes is
not counted; `end` is the last byte, so a packet takes 1999 bytes
(`PacketSize`). A message of length 1995 to 2000 passes, is dequeued into the
packet (1031), and then `MoveWritePos` (1043) and `MoveReadPos` (1056) refuse
to move, which nobody looks at: the content is called with an empty packet.
`Readable(n)` is what it finds in the packet. From 1996 on the copy also goes
past the end of the allocation; what that does is up to the build, and
`Overrun` is the process that does not survive it (stage `crashed`), next to
`OnRecv`, in which it does. `MaxLen` is `BUFFER_DEFAULT`, in both its uses.
`MessageStream` promises accordingly a packet for each message, in order,
whole if it has no more than `Longest` bytes and else empty (`Given`).

### ThreadManager

`PlayerList`, `enterQueue`, `enterQueueLock` and `JobQueueLock` are the code's;
a player is the ID of the session it plays for, `iter` a position in the list.
`session` and `completions` stand for the session engine and show what
`NetServer` shows: a session joins, gets RECV jobs and one LEAVE job, and its
slot is reused only after its LEAVE completion was taken.

* A frame begins by reading the two sizes (`Frame`), without a lock and before
  anybody is taken in. `EnterLock`, `Enter` (one player) and `EnterUnlock` take
  in as many players as were waiting then; `PopLogin` is the login thread's
  counterpart. All jobs that arrived while a player moved are dropped on the
  way in, and a LEAVE among them is answered: the comment at
  `CThreadManager.cpp:41` says that this is meant.
* The list is gone over as many times as it was long (`Round`), which is what
  the code does, although once would do. Under the session's `JobQueueLock` the
  jobs end with `Leave`, `Stay` or `Move`; `MovePlayer` takes the destination's
  lock while the `JobQueueLock` is held, and `EraseMoved` follows.
* Both locks are exclusive SRW locks. A worker pushes a job under the
  `JobQueueLock` and holds no other lock, so a push is one step, and so is
  `MovePlayer`'s own critical section.

`ContentView` is the `players`/`JobQueue`/LEAVE-completion part of
`NetServer`, with the same `HandleJobs`. `IsContent` says that the content
threads with their locks and moves are such a content; `players` is everything
in a list or a queue.

`enterQueueLock` and `shutdown` are never initialised (`CThreadManager.h:111`
and `:114`); the model starts with free locks and threads that run. A move to a
thread that does not exist and a refused join, which lose the slot at once, are
left out: the content asks for neither.

### FifoQueue and LockFreeQueue

`front`, `rear`, `nodeCount`, `next` and `data` are the code's, a pointer is a
node and a stamp. `free` is `NodePool`, last in first out, so a node that was
dequeued is the next one allocated; its `next` keeps its value until `EnqNull`.
Every read, store and swap of shared memory is an action: `EnqLink` is the swap
of `pNode->next`, which has no stamp; `EnqSwing` and `EnqHelp` move `rear` on;
`DeqLook` and `DeqReserve` are the test of `nodeCount` and its decrement;
`DeqRear`, `DeqRearLook` and `DeqHelp` take `rear` off a node before `DeqFree`.
`crew` fixes who uses the queue: a session's queue has one producer at a time
(the owner of its player) and one consumer (the sender or whoever drains it);
a session released in use adds one of either kind.

With two producers the queue keeps every item but not the order of one
producer's items: a producer that slept on a rear node while it was dequeued
and allocated again links its item behind a node that is not in the list yet.
So `IsFifo` speaks of crews with one producer, and `NothingLost` of all.
`Dequeue` may answer FALSE though an item is there, because `nodeCount` is
raised after an item is linked and lowered before one is taken; `FifoQueue`
allows that only as far as running calls account for the items. The stamp is
a short, and its wrap is not explored: `StampMod` is larger than the number of
swaps in the runs, as a thread would have to sleep through 65536 swaps of one
pointer.

### MemoryPool, AtomicStack and LockFreeStack

A bucket is a number, an object a bucket and a position; `object[t]` is the
argument or the result of a call. `CallAlloc` and `CallFree` begin a call,
`PoolStep` is the rest: `AllocTop`, `AllocNext`, `AllocCas` pop a bucket from
the shared list (`AllocNew` is `new`), `BorrowBucket` makes it the thread's
own, `TakeObject` allocates from it without any lock; `FreeCount` lowers
`useCount`, and the last free pushes the bucket back with `FreeTop`,
`FreeLink`, `FreeCas`. `LockFreeStack` takes its nodes from there: a stack
call waits while its pool call runs (`InPool`). `Init` is the stack after
`Start` pushed the indexes. The bucket `Start`'s thread was filling stays with
that thread, so its last objects are never allocated (`StartBucket`).

`held` are the indexes that the accept thread or a session has; a push takes
one of these. `maxPops` bounds the pops, by the stamp that each raises: a pop
begins only below it, so with the pops that have begun by then the stamp does
not wrap, which `StackAssumption` says of every setup.
A pop can answer FALSE with an index on the stack, while another pop that
found none has not given its reservation back yet, or a push has not counted
its node: `AtomicStack` bounds that as `FifoQueue` does. The server has one
popper, for which only a push under way can cause it.

### Packet and PacketFlow

A packet is a record of `refCount`, `encodeFlag`, `DataSize`, the two
positions and its bytes. A byte is a cell that names the message it was
written for, so a stale byte is a cell of an earlier message. The header is
one cell. `DataSize` is counted by `Put`, `Get` and the moves but
`GetDataSize` answers from the positions, as in the code; `Encode` tests
`DataSize`.

`PacketFlow` follows each packet. `Build` is a content thread's message with
its reference; per target `SendRef`, `SendEncode` (skipped once encoded) and
`SendEnqueue`, or `SendSkip` when the session is gone; `SendDone` drops the
builder's. `sendPost`, `WSASend`, `Kernel`, `SendCompleted` and `SendAborted`
are a send, `WSASendFails` its failure; `RecvMessage`, `OnRecv` and `PushJob`
make a job of a received message, `PopJob`, `ReadJob` and `JobDone` are its
reader; `releaseSession` and `Accept` drop what they find in the queue. All
drop through `SubRef` and `MFree`, a reference at a time.
From `NetServer` it takes that no thread is inside a session that is released,
that `sendFlag` lets one sender in and that one worker receives (`OneSender`,
`OneReceiver`, and `ReleasedUnreferenced` with its known exception).

`Payloads` are all lengths that the check at `CNetServer.cpp:1016` lets through,
up to `BufferSize` itself. `Received` copies header and payload and moves the
positions, as far as they let themselves be moved: a message that does not fit
leaves an empty packet, with bytes in it that no position covers. Bytes past
the allocation meet nothing of this module (the process they end is in
`RecvFraming`).

`UDPThread` does not move the write position after `recvfrom`
(`CNetServer.cpp:1126`), so its reads find nothing: `Datagram` shows it as it
is.

## 3. Runs

All with a single slot unless said otherwise: the code never relates two slots
except through the free stack and index 0, and one slot is reused soonest.
Deadlock is not checked in the runs of `NetServer`, `RecvFraming` and
`index_stack`: they stop when the allowed connections, calls, messages or pops
are used up, and the real server idles when nobody calls. `content_threads`
has two slots, for the locks of two players, and checks deadlock, since
content threads never stop; so do `send_queue`, where a consumer can always
look, and `packets`, where sessions end and begin without bound.

### Properties that hold

| run | properties | what it shows |
| --- | --- | --- |
| `session_reuse` | `SlotCustody` `PlayerOwnsSlot` `OneReceiver` `PacketsStayInSession` `RollbackHitsLiveSession` | one slot, two connections in turn, two workers, a content thread that sends: releases for the old session race with the new one in every order |
| `session_send` | `OneSender` `LastSendIsAwaited` | one connection, two workers, ordinary and last packets, two waiting at a time, requests that fail to be posted |
| `session_faults` | `TypeOK` `RefAccounting` | every fault, sends, address queries and disconnects: the count stays exact |
| `session_live` | `ZeroIsReleased` `SlotComesBack` `DisconnectReleases` | under fairness, with disconnects, address queries and the UDP thread |
| `recv_framing` | `TypeOK` `BufferIsStream` `RoomToReceive` `CutForAReason` `DeliversStream` | four messages, right, too long or with a wrong code, in receives of every size; the ring (8 usable bytes) wraps at least once; three bytes fit in a packet, so messages of lengths 2 and 4 pass the check (4 is the greatest length that does) and arrive empty, and 4 also overruns; a peer is cut for a message that is wrong, or because less than a header had arrived |
| `content_threads` | `TypeOK` `OnePlace` `NoLockCycle` `IsContent` `LeaveAnswered` | three connections, players move from the login thread to the game thread and within it, while jobs and LEAVE arrive: one owner each, no cycle of locks, every LEAVE answered once |
| `send_queue` | `TypeOK` `NothingLost` `FreedNodeIsGone` `IsFifo` `CallsReturn` | one producer and two consumers, or two producers and one consumer, on four nodes that are used again: no item lost or taken twice, no freed node in reach, FIFO with one producer, every call returns |
| `index_stack` | `TypeOK` `IndexOnce` `ObjectsApart` `BucketsAccounted` `IsStack` | three indexes, three threads that push and pop over buckets of one or two nodes: an index is in one place, so is a node and a bucket, push and pop are atomic |
| `packets` | `TypeOK` `RefsExact` `WholeOnWire` `ReadsOwnMessage` | two packets, two sessions, every thread: exact reference counts, whole messages on the wire, readers find their own message, or nothing when it was too long for a packet |

`OneSender`, `LastSendIsAwaited` and `PacketsStayInSession` are stated for
behaviours in which no session was released in use (`raced`): the first
violation below breaks them. In these runs nothing else does, and in general
nothing but a connection accepted on a full table may (section 4).

### Properties that the code violates

Each states what a comment of the code says, and is found violated.

| run | property | what happens |
| --- | --- | --- |
| `released_in_use` | `ReleasedUnreferenced` | `releaseSession` reads the count and swaps `releaseFlag` in two steps; a reference taken in between is not noticed |
| `lost_wakeup` | `QueuedPacketIsSent` | a send request is dropped while a worker that found the queue empty still holds `sendFlag` |
| `recv_left` | `EveryMessageDelivered` | `leftByte` reaches 0 with a whole message left in the ring; it waits for the peer's next bytes |

Other disagreements, seen while modelling and kept in the models, are not runs
of their own:

* The accept thread drops the reference of a session whose first `WSARecv`
  failed without looking whether it was the last (`CNetServer.cpp:933`): the
  session is never released. The fault `firstRecvFails` has it, and
  `ZeroIsReleased` is checked without that fault.
* A sender that took its packets before the last one was queued moves the state
  to SENDPOST_LAST all the same (`CNetServer.cpp:333`), and the session is cut
  with the last packet still queued. `LastSendIsAwaited` says only that a send
  is awaited.
* `header.code` is tested after `Peek` failed, when nothing was read into it
  (`CNetServer.cpp:1009`): an honest peer of which less than a header has
  arrived may be cut. `CutForAReason` names this exception.
* A message of length 1995 to 2000 passes the check at `CNetServer.cpp:1016`,
  whose comment says that a wrong length is a wrong packet, and reaches the
  content as an empty packet (section 2, RecvFraming); from 1996 on it is also
  copied past the end of the packet's allocation. `DeliversStream` and
  `ReadsOwnMessage` say which lengths arrive whole and which empty, and that no
  message arrives in part or with bytes of another.
* On a full table the code logs it and closes the socket, and goes on all the
  same: the live session in slot 0 is overwritten (`CNetServer.cpp:873`). Then a
  slot has two sessions, and there is no custody left to speak of. Only
  `session_faults` has this fault, `tableFull`: `RefAccounting` holds even so.

### Bounds

`MaxAlloc` 2 lets a slot be reused once, which is what makes an ID stale; a
third connection would meet the same states with other numbers. Two workers are
enough for two holders of every race on one slot; the third worker of the real
server only adds a bystander, and `RefExact` covers any number. With
`MaxPacket` 1 and one or two packets waiting (`MaxQueue`) a sender leaves
packets behind, or finds the queue empty. `MaxQueue`, `MaxPost` and `MaxJobs`
bound packets, requests and messages that wait; a RECV job and a LEAVE job
together are what `HandleJobs` tells apart. `MaxLeak` 1 lets a leak happen.
`WorkerSymmetry` is sound: the workers are interchangeable, and the runs that
use it check no liveness. For the ring, `Size` 9 with payloads of at most 4
bytes behind a header of 2 lets a whole message and the beginning of the next
share the buffer and makes every wrap happen at every offset; `Word` is larger
than any difference of byte counts, as 2^32 is. For the content threads one
RECV job at a time and a LEAVE job give every end of the loop, and a job left
behind by a move; two slots and three sessions reuse a slot while another
player is on its way. With a second game thread and two sessions the safety
properties and `IsContent` hold as well, but the liveness check is too large
for a routine run.

For the queue, four nodes let a node be dequeued, freed, allocated and linked
again while another thread still has it from its first life: three items of one
producer past two consumers, or two items each of two producers, give every
such reuse. For the stack, buckets of one node go back to the shared list at
each free, and buckets of two are shared by an allocating and a freeing thread;
four pops suffice for a top to be popped, pushed and seen again. Each stamp
bound is larger than the number of swaps. Two packets for two messages, built
or received, over sessions that end and begin again make every buffer be used
again with a longer and a shorter message (`BufferSize` 5 lets a header and
three cells in; of the messages built one is cut off where its next value does
not fit, and of those received one fits and one does not). `Symmetry` exchanges
packets, sessions and workers, and `WorkerSymmetry` workers; no liveness is
checked with them.

### Fairness

A thread that can take a step is scheduled: weak fairness of the accept
thread's, each worker's and each caller's steps. Completions are taken with
strong fairness per slot and kind, because a worker may be busy with others in
between: the port hands completions out in order to a pool in which nothing
blocks for ever. `HandleJobs` is strongly fair, as the content looks at every
`JobQueue` each frame. In `RecvFraming` the worker goes on and bytes that were
sent arrive. In `ThreadManager` every thread goes on; `MovePlayer` is strongly
fair, because the game thread holds its `enterQueueLock` for a moment once a
frame and sleeps between frames; LEAVE completions are taken, which is the fair
`LeaveDone` of `NetServer`. In `LockFreeQueue` a thread inside a call keeps
running. Nothing is assumed of the peer, of new connections or of calls.

## 4. Proofs

Assumed is only what the named assumptions of the modules say. `ConstAssumption`
and `ThreadAssumption` (`NetServer`): bounds are naturals, the kinds of threads
are finite and disjoint. `ManagerAssumption` (`ThreadManager`): bounds are
naturals, the login thread is none of the game threads, players move to game
threads. `SizeAssumption` and `FramingAssumption` (`RingBuffer`, `RecvFraming`):
the ring is larger than a header, the longest payload and one byte, a packet's
buffer is larger than a header, and what
the loop counts fits the word `leftByte` is. `PacketAssumption` and
`FlowAssumption` (`Packet`, `PacketFlow`): a buffer is longer than the header,
the first value of a message that is built fits into it, a received payload is
no longer than `BUFFER_DEFAULT`, which is what the code checks, and there are
finitely many sessions and threads. `PoolAssumption` and
`StackAssumption` (`MemoryPool`, `LockFreeStack`): there are finitely many
threads, the heap has buckets for the indexes, and `maxPops` and the number of
poppers together are less than `StampMod`, the values of a stamp. So the
theorems about the stack are about fewer pops than that (65536 in the code):
past it, a thread that slept through exactly one turn of the stamp could swap
on a top of another life, in the code as in the model. So the theorems hold for any
number of slots, threads, connections, players, packets and jobs, and any size
of ring and packet, with every call and, but for the one that some of the groups
below exclude, every fault.

The session engine:

* `TypeCorrect` (`NetServerProofs`): `TypeOK` is inductive, one lemma per group
  of actions. It is not only a matter of shape: the counters of pending
  operations, completions and free indexes are naturals, so no step takes one
  that is not there.
* `RefExact` (`NetServerProofs`): `IOcount` equals the references held by
  threads (`Held`, a sum of two cardinalities over the program counters), those
  under way with operations and completions (`UnderWay`), and those leaked.
  `RefAccounting` is inductive together with `TypeOK`. The argument is a
  balance: `Weights` says what each label holds; `HeldMoves` and `GotoHeld` say
  that a step of one thread changes `Held` by the difference of two weights;
  `CancelExact` that cancelling moves references from the kernel to the port;
  `HandOver` that taking a completion moves its reference to a worker;
  `MoveExact` covers the steps that change the count and nothing else. Each
  action is then one line of bookkeeping.
* `CountNeverNegative` follows: the wrong count that `releaseSession` logs
  (`CNetServer.cpp`, line 480) is unreachable, and with it a swap that takes -1
  for the flag of a session under release.
* `CustodyKept`, `RollbackSafe` (`NetServerCustodyProofs`): `SlotCustody` and
  `RollbackHitsLiveSession`, under one more assumption, `"tableFull" \notin
  Faults`: on a full table the code itself breaks custody, in one step.
  `SlotCustody` is not inductive. That a worker finds one place to take the
  slot from when it takes it to the next rests on the flag, and the flag on
  what the worker read before. The strengthening `CustodyInv` says of each
  slot, beside the sum of its places: one worker has claimed it, the flag is
  set meanwhile, and the session is valid until that worker clears it
  (`Claimed`); when the accept thread is about to clear the flag nobody has
  claimed the session, and where the flag is clear already nobody is about to
  swap on a count of 0 (`Starting`); a slot that is not valid has its flag set,
  or nobody near the swap (`Unused`); no count that was read can be taken for
  `DELFLAG_ON` (`CountRead`); LEAVE finds its slot through the slot's ID
  (`IndexKept`). `Starting` and `CountRead` need to know which counts can be
  read, and this is where `RefAccounting` enters: the accept thread holds a
  reference at that point, so nobody reads 0, and nobody ever reads -1. The
  order of the accept thread's stores (reference, valid, flag) matters for each
  of the three steps. `SlotFrame` disposes of all steps that leave a slot
  alone, among them all of `sendPost`, `recvPost` and the API.
* `ReceivesAlone` (`NetServerReceiverProofs`): `OneReceiver`, under the same
  assumption. The receives of a session are a chain: the accept thread makes
  the first link and each later one is posted by the worker that handled the
  one before. `Chain(s)` counts the link, whoever has it: the kernel, the port,
  or a thread on its way to `WSARecv`. Only `Accept` lengthens it, all other
  steps keep or shorten it (`ChainFalls`), so it is at most 1 if `Accept` finds
  it at 0. `Ended` says where it is 0: on a slot that is neither valid nor
  being filled, for the worker that closes a session, and already for one that
  is about to claim a session on a count of 0, provided the ID it was called
  with is still the slot's. That proviso is the hard part. A worker with the
  old ID may read a count of 0 and win the swap after the slot was reused; it
  is harmless because it compares IDs before it closes, and this needs that no
  ID is given out twice (`Numbers`, `Unnamed`, `Untouched`). That a count of 0
  means an ended chain is `RefAccounting` once more: each link holds a
  reference.
* `PlayerKeepsSlot` (`NetServerReceiverProofs`): `PlayerOwnsSlot`, under the same
  assumption. `PlayerInv` says of each slot: while a player has it, it is not
  free, not on its way back and not being filled (`Keeps`); a session has its
  player from `OnClientJoin` until the content takes LEAVE (`Played`); jobs are
  the session's, and LEAVE is the last (`Jobs`). `CustodyInv` gives that a
  session is in no second place when LEAVE is posted, and `ChainInv` that no
  receive is left then whose messages could follow LEAVE into the queue.
* `SendsAlone`, `LastSendKept`, `PacketsKept` (`NetServerSenderProofs`):
  `OneSender`, `LastSendIsAwaited` and `PacketsStayInSession`, under the same
  assumption; like the properties, the invariant speaks of behaviours in which
  no session was released in use. None of the three is inductive, and none can
  be had without the others. `Sends` says of a session: `sendFlag` is set as
  long as it has a sender, and there is one at most (`Elected`); where the
  sender has not filled `sentPacketArray`, and while `sendFlag` is clear, the
  array is empty (`Emptied`); a session in SENDPOST_LAST has a send that did
  not fail, or a worker that is about to cut it (`Awaited`); a call that found
  its session is still on that session (`Found`), hence the packets it queues
  are addressed to it (`Packets`). The other half, `Quieted`, is about reuse:
  a slot whose session is not in use has nothing under way, nobody inside and
  no packet. It becomes true at the swap in `releaseSession`: the count that
  was read is 0 and nobody took a reference since, which is what `~raced`
  says, so by `RefAccounting` no operation, completion or thread is left. It
  stays true because a thread that comes later cannot get in: `findSession`
  sees the flag, or another ID (`FlagTells`), and the swap of a worker with an
  old ID is taken back. For this `Named` says that nobody calls for a session
  before `OnClientJoin`, so no thread can hold the ID of the session the
  accept thread is making, and `Uncalled` that nobody looks for one in a slot
  never used. `SoundFrame` disposes of the slots a step does not touch.

The thread manager (`ThreadManagerProofs`), for any number of game threads and
players:

* `ManagerTypes`: `TypeOK`.
* `PlayerInOnePlace`: `OnePlace`. It is not inductive. That a game thread which
  takes a player from its `enterQueue` does not meet a second one in the same
  slot rests on the slot's owner having let go, and that rests on the lock the
  owner held; that the login thread can admit a player rests on LEAVE having
  come last in the queue before. `ManagerInv` adds both: a thread at work on a
  player's jobs holds the slot's `JobQueueLock` until the player is erased or
  the loop is over (`LockHeld`); LEAVE is the last job of a queue and there is
  one, and a completion is owed only for a slot with no job left (`JobsEnd`).
  `ManagerInvariant` is that it is preserved by every step.
* `NoCycle`: `NoLockCycle`. It follows from the invariant: who waits for an
  `enterQueueLock` while holding a `JobQueueLock` is moving a player, and a
  player that is being moved is in no `enterQueue`, so that whoever holds the
  `enterQueueLock` does not wait for that player's lock.
* `ImplementsContent`: `IsContent`. Every step of the login and game threads is
  a step of `ContentView` or leaves it alone: taking jobs and answering LEAVE is
  its `HandleJobs`, wherever the player is then kept; the locks, the passes over
  the lists and the move of a player through an `enterQueue` stutter. That the
  mapped set of players is the same before and after is `OnePlace`.

Framing (`RecvFramingProofs`), for every size of the ring:

* `FramingTypes`: `TypeOK`.
* `BufferHoldsStream`, `CutHasReason`, `ReceiveHasRoom`: `BufferIsStream`,
  `CutForAReason`, `RoomToReceive`. The invariant `FramingInv` says: the bytes
  sent are whole messages in a row, in the order of their numbers; what lies
  between `front` and `rear` is the part of the stream that arrived and was not
  handled; a pending receive was given all free cells, in one piece or two;
  before a receive is posted less than a message with its header is left in
  the ring; and the loop's `leftByte`, a variable of `Word` values, is the bytes
  in the ring less those handled (`Counted`). `RoomToReceive` alone is not
  inductive: that the loop leaves less than a message behind needs the header it
  reads to be that of the next message (`HeaderRead`), hence
  `BufferIsStream`. The lemmas about `RingBuffer` (`UseWritten`, `UseRead`,
  `CellAfter`, `KeepCell` and others) are arithmetic on two positions modulo the
  size.
* `ImplementsStream`: `DeliversStream`. Every step of the loop and of the
  completion is a step of `MessageStream` or leaves it alone; a message is
  delivered in its turn, whole if a packet holds it with its header, and empty
  if not, for every length that the check lets through.

The life of packets (`PacketFlowProofs`), for every number of packets, sessions
and threads, and every size of a buffer and of the values put in it:

* `FlowInvariant`: `FlowInv` is inductive. `RefsExact` is not: that a step which
  drops a reference finds one to drop rests on what the thread holds at that
  point (`Locals`), on a session having one sender, whose array nobody else
  empties (`SendTurns`), and one receiver (`RecvTurns`). `RefInv` counts the
  places that hold a packet: there is none while it is in the pool; otherwise
  `refCount` is their number, and when that is 0 exactly one thread is about to
  return the packet. A packet sent to several sessions has a place in each, so
  senders, failed sends, releases and the builder can drop it in any order.
* `FlowTypes`, `ReferencesExact`: `TypeOK` and `RefsExact`.
* `BuffersWhole`: `WholeOnWire`. `OutInv` says of a packet that a builder has, or
  that is queued or in an array, that it holds the values of its message from
  behind the header on (`Sendable`), and that it is encoded wherever a sender
  may take it from. `Fill` is proved to write what `Length` counts, by induction
  over the values of a message; of a message too long for the buffer it writes
  the values that fit.
* `JobsWhole`: `ReadsOwnMessage`, for every length that is not refused. `InInv`
  says of a packet in a job queue, and of the one a content thread is about to
  read, that its payload lies between `readPos` and `writePos` if a packet holds
  it with its header, and else nothing does (`Readable`), and that nobody else
  is to read it, so that reading moves `readPos` of no packet that is sent or
  read elsewhere.

The index stack and its pool (`LockFreeStackProofs`), for every number of
threads, indexes and buckets, every size of a bucket, and fewer pops than a
stamp has values:

* `StackInvariant`: `Inv` is inductive. The properties speak of what the
  pointers reach, but a pointer that a thread is about to swap says nothing of
  the rest of the list. `Inv` therefore says that there are two sequences, of
  nodes and of free buckets, which the pointers link (`Lists`); a step of the
  code pushes on one of them, pops from it or leaves it (`NodeStep`,
  `BlockStep`), and everything else is said of the sequences. The heart is
  `StaleTop`: a thread that read the top and still finds the same stamp there
  has a node that is on the list and, if it read `next` already, the node after
  it still. Only a pop takes a node off, and it raises the stamp; a push does
  not, but then the node is deeper in the list and its `next` is not written,
  as only the holder of a node writes it (`NodesApart`, `Writes`). So the swap
  of a pop takes the node that is on top, although the node may have been
  popped, freed, allocated and pushed again meanwhile. `StaleBlock` says the
  same of the pool's list. That no stamp wraps is `Stamps`: an allocation in
  the pool comes of a push, whose index was popped before, so the stamp of the
  pool's list is never ahead of the stack's. `Counts` ties `nodeCount` to the
  length of the list by the calls that are between their swap and their count.
* `StackTyped`, `StackIndexOnce`, `StackObjectsApart`, `StackBucketsAccounted`:
  `TypeOK`, `IndexOnce`, `ObjectsApart`, `BucketsAccounted`. `IndexApart` and
  `IndexSomewhere` say where each index is. `BucketOK` says of a bucket that is
  away from its threads that none of its objects is in use, and of one that is
  lent that `useCount` is what is in use and what is still to be allocated, so
  the free that brings it to 0 is the last, and that the thread which allocates
  from it is alone and has not given out the objects beyond `allocCount`.
  `NodeChainIs` and `BlockChainIs` show that what the properties walk over are
  the two sequences.
* `ImplementsStack`: `IsStack`. The swaps of a push and a pop that win are
  `Push` and `Pop` of `AtomicStack`, the answer FALSE is its `PopFalse` by
  `Counts`, and all steps in the pool and the reads in between stutter.

The library has no induction this prover could instantiate over an operator.
Where a proof needs one, over the values of a message or the nodes of a list,
it comes from sets:
`NatSetInduction` follows from the well-foundedness of finite subsets.

Every safety invariant that a run checks of the session engine, the framing,
the content threads, the packets and the index stack with its pool is thus a
theorem, as are three of the four refinements. Only model-checked: the queue.
Liveness stays with TLC, as the prover has no rules for it.

## 5. Limits

The components are checked one at a time and meet at stated interfaces:
`ThreadManager` refines the content that `NetServer` assumes, `RecvFraming`
the stream its outcomes stand for, `LockFreeQueue` and `LockFreeStack` the
atomic containers it uses; `PacketFlow` takes the properties of `NetServer`
that it names. The queue's nodes come from a pool that is one atomic step;
`MemoryPool` is checked with the stack only. What would come next: the queue
for any number of threads, with an invariant of the kind the stack has, whose
sequence also holds the nodes behind `front` that a thread may still read.

## 6. Not modelled

`Start`, `Stop` and the control thread (sequential set-up and statistics); the
profiler, the log and the crash dump (output only); the database connector (not
used); `main`; the destructors of the containers and pools, which run when the
process ends; the encryption of `Packet`, which is compiled out. The failure of
posting a RELEASE or LEAVE request, which nobody looks at, would lose the slot
at once; a move to a thread that does not exist and a refused join occur
nowhere in the repository.
Memory is sequentially consistent: the fields the threads race on are accessed
with Interlocked operations or, for `isValid` and `disconnectStep`, as aligned
words of x64, whose only reordering, a store after a later load, is not
modelled.
