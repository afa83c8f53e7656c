# A verification project for MultiThreadTest

TLA+ modules that model the multithreaded core of the repository, TLC runs that
check them on small instances, and theorems that TLAPS proves for every value of
their constants.

The paths below are relative to the repository; `ServerCore/…` and
`GameServer/…` are under `JobTimer_소스코드 (1)/`.

## 1. The system

The repository holds one complete server framework (`JobTimer_소스코드 (1)`, an
IOCP game server and its dummy client) and several smaller programs by the same
team: two thread pools, boost.asio clients and a server, a message connection and
MFC front ends.

### 1.1 Components

| Component | State | Operations | What makes it correct | Modules |
|---|---|---|---|---|
| `Lock` (ServerCore/Lock) | `_lockFlag` = writer id and read count in one word, `_writeCount` | `WriteLock`, `WriteUnlock`, `ReadLock`, `ReadUnlock`, by scoped guards | one writer or many readers, re-entrance, exact counts, no leaked owner or reader, crashes only on misuse | `RWSpinLock`, `RWLock` |
| `LockQueue`, `JobQueue`, `GlobalQueue` | `_jobs`, `_jobCount`, the global queue, `LCurrentJobQueue`, `LEndTickCount` | `Push`, `Execute`, `ClearJobs`, `DoGlobalQueueWork` | jobs of one queue run one at a time and in order, none twice, none forgotten | `JobQueue`, `SerialQueue` |
| `JobTimer` | heap `_items`, flag `_distributing` | `Reserve`, `Distribute`, `Clear` | no job early, none lost, due order, no timer stops for ever | `JobTimer` |
| `Session`, `IocpEvent`, `IocpCore` | `_connected`, `_sendQueue`, `_sendRegistered`, four events with owners, `_recvBuffer` | `Send`, `Disconnect`, `Register*`, `Process*` | one send and one receive at a time, order of buffers, events own the session while the kernel uses them, one disconnect | `Session`, `SendStream` |
| `Service`, `Listener` | `_sessions`, pending accepts | `AddSession`, `ReleaseSession`, `Broadcast`, `ProcessAccept` | each session added and released once | `Session`, `GameRoom` |
| `RecvBuffer`, `PacketSession` | cursors | `OnWrite`, `OnRead`, `Clean`, `OnRecv` | no byte lost or read twice, the write fits | `RecvBuffer`, `PacketPipe` |
| `SendBuffer` chunks | per-thread chunk, open flag, use size | `Open`, `Close`, recycling | no two buffers overlap, none is overwritten on its way | `PacketPipe` |
| protobuf classes, packet handler tables | the fields of a message | make, size, serialise, parse | the other end reads what was written | `Protocol`, `Protobuf` |
| `Room`, `GameSession`, packet handlers; `DummyClient` | players of the room, current player of the session | `Enter`, `Leave`, `Broadcast`, `Handle_C_*`, `OnDisconnected`; the client's handlers and its broadcasting loop | a session that is gone leaves no player behind, members hear everything once and in order | `GameRoom`, `ChatRoom` |
| memory pool experiment | free lists, counters, block headers | `Pop`, `Push`, `Allocate`, `Release`, the tests of main | a block is in one place, goes back to its own pool, exact statistics | `MemoryPool`, `PoolExperiment`, `BlockStore` |
| `Memory`, `MemoryPool` of ServerCore | table of pools by size | `Allocate`, `Release` | every size has its pool | not modelled (section 6) |
| `DeadLockProfiler` | lock-order graph, per-thread lock stack | `PushLock`, `PopLock`, `CheckCycle` | reports exactly the order inversions | not modelled |
| `ThreadPool` (ThreadPoolTest) | `jobs_`, `m_job_q_`, `cv_job_q_`, `stop_all` | `EnqueueJob`, `WorkerThread`, destructor | every job runs once, the destructor returns | `ThreadPool` |
| boost.asio RPC client and loader (test/Session, AsyncTcpClient, dataloading) | request, read timer, cancelled flag, map of sessions | the chain of handlers, `cancel_request`, `cancel_all`, `join_all` | exactly one callback per request, the load ends | `CotreeRpc`, `CotreeMessages` |
| boost.asio server (ThreadPool/…/Server) | accept loop, the service of a connection, workers | `start`, `stop`, `on_accept`, `Service`, request and worker factories | answers with what was asked for, or with an error | `CotreeRpc`, `CotreeMessages` |
| data server messages (ThreadPool/…/Common) | fields of 13 requests and 9 responses, archives | `on_save_to`, `on_load_from`, `save_to`, `load_from` | what one end writes the other reads | `CotreeSchema`, `CotreeArchive` |
| request client of the MFC programs (client/ASyncTCPClient) | map of active sessions, cancel flag, two mutexes | connect, write and read handlers, `cancelRequest`, `close` | a failed request is reported as one | `LongCalcClient` |
| message connection (test/MMO_ASIO/NetCommon) | two queues, message being built | `Send`, `ReadHeader`, `ReadBody`, `wait` | framing, no lost wakeup | not modelled |
| second thread pool, MFC programs, schemas, templates | | | generated, user interface or a copy | not modelled |

### 1.2 How they interact

Every worker thread runs `DoWorkerJob` (GameServer/GameServer.cpp:20-35): it sets
its deadline, dispatches one completion (`IocpCore::Dispatch`), distributes the
due timers (`ThreadManager::DistributeReservedJobs`) and executes queues from the
global queue (`DoGlobalQueueWork`). A completion runs a `Process*` handler of a
`Session`, which may call `Send` of any session and `DoAsync` or `DoTimer` of any
`JobQueue` (the room is one). A job may do the same. `JobTimer::Distribute` calls
`JobQueue::Push`, which may execute the queue inline. All containers are guarded by
`Lock`; everything else is atomics and thread-local variables.

### 1.3 What is hard here

* hand-over of a queue: an atomic counter that is raised before the job is in the
  container and lowered after a batch has run decides who executes the queue;
* code that runs inside code: a job that pushes while its executor is inside
  `Execute`, which is itself inside `Distribute`, with `_distributing` set;
* values read early and used late: `now`, the tick of `Reserve`, the read count of
  `ReadLock`, `_connected` before every `Register*`;
* calls that fail half-way: `WSASend`, `WSARecv`, `DisconnectEx`;
* a lock word in which two counters share one integer, and a plain counter beside it;
* a condition variable whose predicate is written without the mutex;
* bytes that are cut anywhere: packets in a byte stream, in two buffers whose
  memory is used again;
* handlers of one session on two workers at once: a receive and its disconnect;
* a request whose answer, timeout and cancellation arrive together;
* formats without names or widths, written by one program and read by another;
* lock-free free lists with counters that lag behind.

`PROJECT.json` lists each as a hazard at the line where it bites, with the
properties that would catch it, or why none does yet.

## 2. Plan

The order is that of dependence: everything rests on the lock, then the queue.

| # | Modules | State |
|---|---|---|
| 1 | `RWLock` (abstract), `RWSpinLock`, `MCRWSpinLock`, `RWSpinLockProofs` | done |
| 2 | `SerialQueue` (abstract), `JobQueue`, `MCJobQueue` | done |
| 3 | `JobTimer` on top of `JobQueue`, `MCJobTimer`, `JobTimerProofs` about both | done |
| 4 | `SendStream` (abstract), `Session`, `MCSession`, `SessionProofs` | done |
| 5 | `ThreadPool`, `MCThreadPool`, `ThreadPoolProofs` | done |
| 6 | `CotreeMessages`, `CotreeRpc`, `MCCotreeRpc`: client, loader and server of one request | done |
| 7 | `RecvBuffer`; `Protobuf`, `Protocol`, `PacketChannel` (abstract), `PacketPipe`, `MCPacketPipe`, `PacketPipeProofs` about both | done |
| 8 | `CotreeSchema`, `CotreeArchive`, `MCCotreeArchive`; `CotreeProofs` about the requests and the archives | done |
| 9 | `ChatRoom` (abstract), `GameRoom` on the promise of `SerialQueue`, `MCGameRoom`, `GameRoomProofs` | done |
| 10 | `BlockStore` (abstract), `MemoryPool`, `PoolExperiment`, `MCPoolExperiment`, `PoolExperimentProofs` | done |
| 11 | `LongCalcClient`, `MCLongCalcClient` | done |
| 12 | proofs: invariants and refinement of `Session`; `JobQueue` implements `SerialQueue`; invariants of `ThreadPool` and of `CotreeRpc`; invariants and refinement of the memory pools | done |
| 13 | proofs: `RoomInv` of `GameRoom` and its refinement of `ChatRoom`; `PipeInv` of `PacketPipe` and its refinements of `RecvBuffer` and `PacketChannel`; `ArchiveInv` of `CotreeArchive` | done |

Abstract specifications: `RWLock`, `SerialQueue`, `SendStream`, `PacketChannel`,
`ChatRoom`, `BlockStore`; `RecvBuffer` is the one `PacketPipe` must respect.
`GameRoom` uses `SerialQueue` in the place of `JobQueue`, which implements it.

## 3. The modules

### 3.1 RWSpinLock, RWLock

`RWSpinLock` is Lock.cpp with one step for every access of `_lockFlag` and of
`_writeCount`. `flag` is the packed word as a record `[owner, readers]` with the
carry of `fetch_add` and `fetch_sub` between the halves; `ReadSpan` is the width of
a half (2^16 in the code). `pc[t]` is where a thread is inside an operation,
`expected[t]` the local copy of the read count, `held[t]` the stack of the live
guards (`ReadLockGuard`, `WriteLockGuard`): guards are scoped, so threads release
last in, first out. A `CRASH` ends the process (`crash`). A compare-exchange of
`WriteLock` that fails has no effect and is not a step; the spin counter and the
timeout's clock are abstracted to `LockTimeout`, which can always happen while a
thread spins.

`RWLock` is the promise: only the stacks of guards; a write guard needs that no
other thread has a guard and that the thread does not already read without
writing; a read guard needs that no other thread writes. `RefinesRWLock` says that
the spin lock implements it.

### 3.2 JobQueue, SerialQueue

A `LockQueue` operation is one step, justified by `RWSpinLock`; `fetch_add` and
`fetch_sub` of `_jobCount` are steps of their own.

| Code | Model |
|---|---|
| `_jobs`, `_jobCount`, `GGlobalQueue`, `LCurrentJobQueue`, "now >= LEndTickCount" | `jobs`, `jobCount`, `globalQ`, `cur`, `expired` |
| JobQueue.cpp:9-28 `Push` | `PushCount`, `PushItem`, then `PushInline` or `PushGlobal` |
| JobQueue.cpp:31-60 `Execute` | `ExecPopAll`, `JobBegin`, `JobEnd`, `ExecSub`, `ExecAgain` or `ExecYield` |
| ThreadManager.cpp:55-69, GameServer.cpp:20-35 | `EndDispatch`, `EndTimers`, `GlobalPop`, `EndGlobalWork` |
| JobQueue.h:39 `ClearJobs` | `ClearJobs` |

`push[t]` and `exec[t]` are the calls thread `t` is inside; a job that is running
(`exec[t].stage = "job"`) may itself push to any queue, so a thread can be in both.
Every job is pushed once, hence a job's identity can be followed. `LockQueue::PopAll`
also re-enters its own lock, which is why 3.1 models re-entrance.

`SerialQueue` is the promise Room.h relies on when it says its methods are written
as if single-threaded: submitted jobs start in order, one at a time, at most once.
The refinement mapping takes a job as submitted when it reaches the container, and
as pending what is left of the executor's batch followed by the container.

### 3.3 JobTimer

Extends `JobQueue` with `_items`, `_distributing`, the clock, the two calls
`Reserve` (`ReserveRead`, `ReserveInsert`) and `Distribute` (`DistRead` the time,
`DistSkip` or `DistEnter`, `DistCollect`, then `DistPush` or `DistDrop` for each
job, `DistEnd`), `Clear`, and the release of a queue by its last owner: `_items`
holds a `weak_ptr`, but a job made of a member function keeps its queue alive
(Job.h:17-24), which is `MethodJobs`. `DistPush` begins a `Push` of the queue
module, which may execute the queue inline before the loop of `Distribute` goes
on. The heap is a set from which jobs with equal ticks leave in any order.

`RefinesJobQueue` says that with the timer in place the queues still behave as
`JobQueue` alone, so what holds of it carries over.

### 3.4 Session, SendStream

One session, with several threads that dequeue its completions, send on it and
disconnect it. Each read or write of `_connected` and `_sendRegistered`, each
critical section and each Winsock call is a step; `frame[t]` is what a thread is
doing, with the place to return to after `RegisterSend` (`then`) and `Disconnect`
(`next`). The lock is a variable because `ProcessSend` calls `RegisterSend` while
holding it. A Winsock call may fail with a code on which `HandleError` disconnects
or with one it only prints. The completion of `ConnectEx` or `AcceptEx` is one
event; `ProcessConnect` does the same in either case. Winsock itself is external:
a pending operation completes at most once, with or without bytes.

`SendStream` is the promise of `Send`: accepted buffers reach the socket in order,
at most once, and are lost only by a failed `WSASend`.

### 3.5 ThreadPool

ThreadPoolTest/ThreadPool with the mutex, the predicate test inside
`condition_variable::wait`, the atomic unlock-and-sleep, notifications, spurious
wakeups, and the destructor. `stop_all` is a plain bool written without the mutex;
the model gives each access a step. A job that enqueues once `stop_all` is set gets
an exception (`EnqueueThrows`, ThreadPool.cpp:64-67); if the job does not catch it, it
leaves the worker's function and ends the process, which the properties count as an end.

### 3.6 PacketPipe, RecvBuffer, Protocol, Protobuf, PacketChannel

A packet from `MakeSendBuffer` to its handler, byte by byte, because its subject
is where bytes lie. The sender's threads each have a chunk; `MakeSendBuffer`
(ClientPacketHandler.h, SendBuffer.cpp) opens a buffer, writes header and message
and closes it. That is one step: in between only the thread's own chunk and buffer
are touched, apart from `Pop`, which is under a lock. `Recycle` returns the chunks
that lost their last reference, in the same step in which they lose it, as the
deleter of the `shared_ptr` does. `Send` and `ProcessSend` are those of `Session`,
reduced to the queue and the one pending `WSASend`, whose bytes the kernel reads
when it completes: memory that was used again by then would show. `ProcessRecv`
takes as many bytes as there are or a cut; `OnRecvPacket` and `EndRecv` are the
loop of `PacketSession::OnRecv` and its end, with `Clean`.

`RecvBuffer` is the cursors alone, with nothing assumed of the content but that it
leaves less than one packet unread; `RefinesRecvBuffer` shows that `OnRecv` keeps
that promise. `Protocol` is what the generated classes do with the six messages,
`Protobuf` the part of the library's wire format they use (external). Values 128
and above take two bytes, so sizes and lengths are not one byte per field.

`PacketChannel` is the promise: a packet handed to `Send` is handled once, in order
and with its content, or skipped if the other end cannot parse it. The mapping reads
the packets that are under way from the bytes themselves. Packets have their header
(at least 4 bytes): a header with a smaller size comes from no sender here.

### 3.7 GameRoom, ChatRoom

The server's session objects, one per dummy client: accepting, receives that
complete with some of the packets that arrived, `Handle_C_LOGIN`,
`Handle_C_ENTER_GAME`, `Handle_C_CHAT` with each access of the session's members a
step (`step`), `OnDisconnected` in two. As in `Session`, a disconnect may overlap
with the handling of a receive. The room's jobs go through `SerialQueue`, which may
be executed by any thread at any time: more interleavings than `JobQueue` with its
inline execution has, so what holds here holds there. `Broadcast` reaches one
member per step. Player ids are counted over all sessions, as `idGenerator` is.

The code does not guard `_players` and `_currentPlayer`. What undefined behaviour
this gives (an index into no players, a null player, a vector cleared while it is
used) is `MayCrash`; `raced` remembers that a disconnect overlapped with a handler.

`ChatRoom` is the promise to the members: who is in the room when a chat is said
hears it, once and in one order for all, until its connection is cut.

### 3.8 CotreeRpc, CotreeMessages

One session of the client carries one request. Its handlers are chained and never
overlap each other, but the read timer's handler and `do_cancel` run on other
threads and may fall between any two steps. Each handler is therefore several: it
tests the flags (with the error of the operation, one step), and later starts the
next operation or, if it is the last, makes the response, reads it and calls the user
back (`Callback`), and then leaves the map (`EndSession`). `ec` keeps what the last
handler has decided to report. A `do_cancel` that sets the flag behind the last test
(Session.cpp:154) is too late: nothing looks at the flag again, and the request may be
answered with success. `late`, a history variable, remembers for which sessions that
happened. `header` is what the session read, `outcome` the calls of the user's
callback. `IsValid` has both its bounds (imessage.h:15-18).

The server's part is `Acceptor`, `Service` and the choice of request,
worker and response (`CotreeMessages`, which also says which stored procedure a
worker calls, at which level, and whether it keeps the fraction of an area). The
service answers without a body, because `save_to` is commented out there (and a
header without a body is invalid to the client); the
loader is meant for another server of the family, which is one of the peers, and a
port where nobody answers is the third. What the other server's header says is chosen
when the client reads it: its rows, an error, an id the client does not know, or a body
beyond the limit. Only the server of this repository can stop in the model
(`StopServer`); another one that goes away is a broken connection to the client.

### 3.9 CotreeArchive, CotreeSchema

The lists of fields every message of request_common.h and response_common.h writes
and reads, in their order and with their widths, and an archive as the sequence of
their bytes, each known by its field and place. `Save`, `LoadFrom` and `LoadRow`
carry a message from one end to the other. Requests and responses are the classes
the two ends really make for an id (`RequestCreator`, `ResponseCreator`).

### 3.10 MemoryPool, PoolExperiment, BlockStore

The pools of MultiThreadMemoryPoolTest: the interlocked list operations are atomic
(Windows), every other access of a header or a counter is a step. `PoolExperiment`
is main: its tests one after the other with `new` and with `xnew`, in the order and
with the patterns of main.cpp, some in several threads. Objects are told apart by
size only. ServerCore has the same `Push` and `Pop` (MemoryPool.cpp), but does not
use them in this build (section 6). `BlockStore` is the promise of an allocator.

### 3.11 LongCalcClient

ASyncTCPClient of the MFC programs: the user's thread starts, cancels and closes,
one I/O thread runs the handlers, which hold the cancel guard of their session until
they return.

## 4. The runs

| Run | Bounds | States | Checks |
|---|---|---|---|
| `RWSpinLock` | 3 threads, 3 guards deep, halves of 4 bits | 43,987 | `LockInv`, `MutualExclusion`, `WriteCountRaceFree`, `OnlyUpgradesCrash`, `RefinesRWLock`, `FreeLockIsTaken` |
| `JobQueue` | 2 workers, 2 queues, 3 jobs, both values of `pushOnly`, 1 `ClearJobs` | 273,448 | `QueueInv`, `SerialExecution`, `NoLostWakeup`, `RefinesSerialQueue`, `EveryJobLeaves`, `ComesToRest` |
| `JobTimer` | 2 workers, 1 queue, 2 jobs, delays 0 and 1, 2 ticks, 1 `Clear`, 1 `ClearJobs` | 166,456 | `TimerInv`, `TickOrder`, `NotEarly`, `NothingLost`, `TimersFire`, `RefinesJobQueue` |
| `Session` | 3 threads, 2 buffers, 1 failing `WSASend` | 74,733 | `SessionInv`, `CompletionsOwned`, `ReleaseFindsSession`, `NoForgottenSend`, `RefinesSendStream`, `EveryBufferSent`, `DisconnectReleases` |
| `ThreadPool` | 2 workers, 3 jobs, 1 spurious wakeup | 15,555 | `PoolInv`, `NoJobAbandoned`, `EveryJobStarts` |
| `CotreeRpc` | 2 requests, 3 peers, 1 cancel, break or server stop | 1,251,245 | `RpcInv`, `CancelInTime`, `LoadEnds` |
| `PacketPipe` | 2 threads, 2 or 3 packets each, both directions, chunks of 24 bytes, receive buffer 3 x 20, receives of 7 bytes or all there is | 36,729 | `PipeInv`, `RefinesRecvBuffer`, `RefinesPacketChannel`, `EveryPacketHandled` |
| `CotreeArchive` | every message, rows up to 2, lists of 0 or 2 elements | 8,244 | `ArchiveInv` |
| `GameRoom` | 2 clients, 1 chat each, 1 broken connection | 2,784,178 | `RoomInv`, `RefinesChatRoom` |
| `PoolExperiment` | main and 2 workers, the smallest and the largest object size, 2 or 3 iterations a test, 8 blocks (never reached) | 186,579 | `BlocksInv`, `RefinesBlockStore` |
| `ThreadPoolStop` | 2 workers, 1 job, none | | `StopEndsWorkers`, violated |
| `LongCalcClient` | 2 requests, 1 cancel | | `ErrorsReported`, violated |

Why the bounds are enough to be interesting. Lock: write inside read inside write,
two readers while a third thread writes, a stale read count. Queue: a push between
the last pop and the `fetch_sub`, a nested push to the own and to the other queue,
hand-over through the global queue; three jobs give a batch of two with a third
behind it. Timer: two jobs with different ticks reserved by different threads, two
distributors with different times, a job reserved by a job. Session: a sender, a
completion and a disconnect at once. Pool: one worker awake, one asleep, and a job
that enqueues another. Requests: one that is served and one no worker serves, so that
a cancel can meet either in any stage. Pipe: the longest packet has 20 of the 24
bytes of a chunk, so a second such one never fits and chunks are replaced and recycled; a
receive of 7 bytes ends inside headers and inside packets; the buffer is rewound and
moved. Archive: a list between two others that are empty or not shifts what follows.
Room: one client chats while the other enters, and either loses its connection at any
point. Blocks: two threads pop the last block of a list, and one frees what the other
is about to get.

What each run shows beyond its invariants:

* `RWSpinLock`: the lock implements `RWLock`; only a thread that takes a write guard
  inside its own read guard (and could therefore not get it without already
  writing) can meet `INVALID_UNLOCK_ORDER`, `MULTIPLE_UNLOCK` is unreachable. A
  thread that upgrades from read alone waits for itself: it has no way on but
  `LOCK_TIMEOUT`. The program never does (`READ_LOCK` is not used in it).
* `JobQueue`: every job that was pushed is executed or dropped by `ClearJobs`.
  `ComesToRest` is conditional: `ClearJobs` does not lower `_jobCount`, so after it
  the queue circulates through the global queue for ever. Nothing calls it today.
* `JobTimer`: no deadlock, no early and no lost job, and `_distributing` is always
  reset although arbitrary jobs run while it is set.
* `Session`: `RegisterSend` leaves `_sendRegistered` set when the session is not
  connected; no buffer is expected to go out then, and no property is broken by it.
  After a `WSASend` that failed without a disconnect, buffers that were queued
  meanwhile wait for the next `Send` (the history variable `stuck`), and a
  `DisconnectEx` that fails leaves the session in the service for ever (`refused`):
  the properties exclude these two cases by name, and hold otherwise.
* `ThreadPoolStop`: the destructor sets `stop_all` and notifies without the mutex
  (ThreadPool.cpp:13-18). A worker that has tested the predicate and is about to
  sleep misses both, sleeps for ever, and `join` never returns, against the comment
  of the flag in ThreadPool.h:34.

* `CotreeRpc`: a request is called back once whatever cancels, breaks or runs out
  meanwhile. One that was cancelled while a handler that tests the flag was still to
  come may be called back with the error it met, never with an answer; one that was
  cancelled behind the last test may be answered, and the caller is not told which of
  the two it was (`do_cancel` has no result). The read timer is what ends a request nobody answers (`LoadEnds`
  fails without it); its handler may be queued when the answer arrives and is then
  harmless.
* `PacketPipe`: chunks are recycled while other buffers of them wait, no buffer is
  overwritten on its way, and the receiver handles what was sent, whatever the cuts.
* `CotreeArchive`: both ends of all 22 messages agree on every field.
* `GameRoom`: without an overlap of a disconnect and a handler of the same session,
  nobody is left behind in the room and nothing crashes. With it, a player of a gone
  session may stay for ever (Leave queued before Enter), or the server crash: the
  exception is named in the property.
* `PoolExperiment`: `_reserveCount` may be negative while threads are behind; after
  the joins the statistics are exact.
* `LongCalcClient`: the condition in the handler of `async_read_until`
  (ASyncTCPClient.cpp:84) is the wrong way round. With a second `cancelRequest` of one
  request, which the dialog never makes, the two mutexes can also deadlock.

Deadlock is checked in `JobQueue`, `JobTimer` and `CotreeRpc` (whose merged load
stutters). The others may really stop: a crashed process, a released session, an ended (or hanging)
pool.

### Fairness

* Lock: a thread inside an operation keeps running; it need not begin one, and no
  timeout need fire. No stronger progress is claimed: a given thread may spin for
  ever while others take the lock (the code has no queue), so only
  `FreeLockIsTaken`, progress of somebody, is stated.
* Queue: every worker's own steps, as its loop never ends; nobody has to post. Jobs
  terminate.
* Timer: time passes; every worker runs; a worker that goes round in `Execute`
  for ever reaches its deadline (strong fairness of `ExecYield`, as `LEndTickCount`
  is a fixed time and the clock advances).
* Session: threads inside a handler run; sends complete, i.e. the peer reads or the
  connection breaks; a `DisconnectEx` that was accepted completes. Receives need not
  complete.
* Requests: threads run their handlers, operations that can end do, the servers that
  answer answer, and time passes. Nobody is made to cancel or to fail.
* Pipe: not all steps stop. Nothing more is needed, as every behaviour is finite.
* Pool: threads run. The pool need not be destroyed, nothing need be enqueued and no
  spurious wakeup need come.

## 5. The proofs

All theorems are about every value of the constants. Assumptions on them are named
in the modules: `LockAssumption` (thread ids fit the upper half, and all guards that
can exist fit the lower half: without it the read count would carry into the
owner), `JobQueueAssumption`, `JobTimerAssumption`, `SessionAssumption`,
`ThreadPoolAssumption`, `RpcAssumption`, `ArchiveAssumption` (a count fits the `int` it is
written as), `RecvBufferAssumption`, `MemoryPoolAssumption`
(finitely many threads, without which counting them means nothing; a size's pool is at
least as large, which the doubling in `Allocate` gives) and `PoolExperimentAssumption`.
`PlanAssumption` (PacketPipe) is about the packets that are to be sent. Each is of a kind
its sender has a `MakeSendBuffer` for and fits a chunk, a `uint16` and the receiver's
largest packet; what `SerializeToArray` writes is as long as `ByteSizeLong` says; and if the
other end can parse those bytes, it gets a message that would be written as the same bytes. The
last two are about the loops of the wire format, so they are assumed of the plan; TLC
evaluates them for every packet of the run, of all six kinds.

**RWSpinLockProofs.** `LockInv` is inductive: the word's owner is the thread that
has, is about to have, or has just had a write guard (`OwnerInv`); the lower half is
the number of live read guards, `_writeCount` the number of the owner's live write
guards (`CountInv`). Mutual exclusion alone is not inductive: that no other thread
has a guard when the compare-exchange succeeds follows only from the exact count.
From it: `LockMutualExclusion`, `LockWriteCountRaceFree`, `LockOnlyUpgradesCrash`,
`LockFreeWhenQuiescent` (when all guards are gone the word is zero again), and
`LockRefinesRWLock`, step by step: `WriteAcquired`, `ReadAdd`, a successful `ReadCas`,
`WriteDec` and `ReadUnlock` are the abstract steps, the others stutter.

**JobTimerProofs, the queues.** `QueueInv` is inductive: the frames of a thread fit together
(`FrameInv`); the right to execute a queue is with exactly one of its first pusher,
its executor and one entry of the global queue, and somebody has it exactly while
`_jobCount` is positive (`TokenInv`); `_jobCount` covers the pushes under way, the
jobs in the container and the batch being executed (`CountInv`). "Greater or equal"
is what survives `ClearJobs`. `QueueSerialExecution` and `QueueNoLostWakeup` follow:
the first from the uniqueness of the right, the second because a job in the
container keeps the counter positive.

`QueueIsSerial` is the refinement of `SerialQueue`, which `GameRoom` takes in the place
of the queue. `PushItem` submits, `JobBegin` starts, `JobEnd` finishes, `ClearJobs`
drops, and the other steps stutter. The mapping looks for the executor of a queue
(what is left of its batch comes first in `pending`, the job it is in is `active`);
that it finds one only, before and after a step, is `TokenInv`, so the argument is
by cases on who executes the queue: nobody (`NobodyFetched`), or one thread, which
takes the step or does not (`FetchedHere`, `FetchedElsewhere`). `ExecPopAll` moves the
container into the batch: the concatenation of the two stays. That an abstract
submission is of a new job needs `ItemsInv`: no two pushes under way carry the
same job.

**JobTimerProofs, the timer.** `TimerStepIsQueueStep` shows that each step of the timer is a
step of the queues or leaves them alone: `TimerRefinesJobQueue`, and with it
`TimerSerialExecution`. `TimerInv` is inductive together with `QueueInv`: one
distributor (`FlagInv`); it is in the timer part of its loop and has taken only jobs
due at the time it read (`DistInv`); a reserved job is in one place (`PlaceInv`); of
two jobs that were in the heap together, the earlier is in the heap only if the
later is (`OrderInv`). Each step is first reduced to what it does to the items
(`TimerMoves`), so that these and `TimerNotEarly`, `TimerNothingLost` and
`TimerTickOrder` are proved over six kinds of move. `TickOrder` is not inductive:
it needs `OrderInv`, to know that the earlier job is in the distributor's hands
when the later one is handed over.

**PacketPipeProofs.** First the cursors alone: `CursorSafety` for every buffer size, every
buffer count of at least 3 (10 in the code) and every largest packet up to the buffer
size: the cursors stay in order, a whole buffer is free whenever a receive is posted (a
receive of no bytes would be taken for the end of the connection), and the `memcpy` of
`Clean` never overlaps. The last follows from the first two: when bytes are moved less
than one buffer is free, so they lie at least two buffers from the front, and they are
less than one packet.

`PipeIInv` is inductive for every plan, number of threads, chunk size and receive buffer. Its
parts:

* `SenderInv`: every buffer that is being filled or on its way lies below `_usedSize` of
  its chunk, two of the same chunk are apart, a chunk of the pool is there once and is
  nobody's, a chunk is current for one thread, and the buffer a thread has made holds its
  next packet. `BuffersDisjoint` alone is not inductive: that a fresh buffer is
  apart from the older ones of its chunk follows from `InsideUsed` when the chunk has
  room, and from the chunk having no user when it comes from the pool.
* `ReceiverType`: the cursors, and `OnRecv` within them.
* `InStream`: the bytes underway (unread in the receive buffer, on the wire, in the
  buffers being sent and queued) are whole packets of the plan, one after the other,
  without a gap (`Framed`). So the header that `OnRecv` reads is always one that
  `MakeSendBuffer` wrote, wherever receives cut the stream.

Each step is shown to keep the bytes underway as they are, to add a packet at the end
(`Send`) or to take the first away (`OnRecvPacket`); that `Clean` moves bytes, that
`MakeSendBuffer` writes into a chunk other buffers lie in, and that a recycled chunk is
written from its start are the cases where this takes an argument. `PipeIsSafe`,
`PipeRefinesRecvBuffer` and `PipeRefinesChannel` follow. The last needs that `PacketsIn`,
the mapping, finds the packets the bytes were made of (`PacketsInFramed`). `PacketsIn` and the
gluing of buffers are recursive functions; what they compute is proved by the least
number for which it would fail (`LeastNumber`).

**SessionProofs.** `SessionInv` (one send, one receive under way) is not inductive by
itself. `SessionIInv` adds: the buffer of a pushing thread is its own (`FrameInv`); owners are
set before the call that needs them (`OwnerInv`); nothing happens before the session
is in the service (`EarlyInv`); one thread makes the session leave, and only
while it is in the service (`LeaveInv`, from the exchange of `_connected`); while
`_sendRegistered` is set on a connected session somebody has promised to look at the
queue (`FlowInv`); buffers are in the send event exactly while they are under way
(`StreamInv`). `OneOperationEach`, `DispatchFindsOwner`, `SessionLeavesOnce` and
`QueueIsAttended` are conjuncts or consequences. Steps that leave sending alone are proved
together (`QuietStepKeeps`); the others say of one thread that it enters the sending
code, stays in it, or leaves (`OneSendEntered`, `OneSendKept`, `OneSendLeft`).
`SendIsAStream`: `SendPush` is Accept; a `WSASend` that succeeds is Transmit and one that
fails is Fail of everything gathered; the rest stutter, the gathering too, as it
moves buffers from the queue to the event and what is held is the two in this order. The
mapping drops the event's buffers once they are on the wire or lost, which it
tells by who has them; `OneSend` says that one has.

**ThreadPoolProofs.** `PoolIInv`: the mutex is held exactly by the worker inside `wait`'s
test, a worker is asleep exactly while the condition variable has it, and a job is about to
be pushed by one call, in the queue once, or taken. `PoolIsSound` follows. `PoolFinishesItsJobs` adds that
a worker returns only when it finds the queue empty after `stop_all` and that, while the
queue is not empty, some worker has not returned (`DutyInv`): a job that is running when
the others return has its worker left, so what it pushes is taken. `NoWakeupLost` is what
the liveness property `EveryJobStarts` rests on. Both have the hypothesis `Workers # {}`: a
pool of no workers takes no job.

**CotreeProofs, the requests.** `RpcIInv`: each session is called back once when its chain of handlers has
ended and not before (`CalledBackOnce`); what a server answers fits what was asked
(`ServerAnswers`, for which a listener that is not this program must not be mixed up with
one that is, `ServiceInv`); what the loader needs to merge stays true (`MergedInv`).
Handlers are first sorted by what they change (`HandlerFields`: go on, or be the last and
decide what to report, success only if the flag was not set when it was tested);
`CallbackFields` says what the callback then does with it. `CancelInv` carries a cancel that
came in time from the test to the callback: once the last handler has run, such a session
has an error to report or has reported one. `RpcIsSound` and `CancelWins` follow.

**CotreeProofs, the archives.** `ArchiveRoundTrip` is for every number of rows and of
elements in every counted field. `ArchiveIInv`: what was read is what was written, and the
archive holds exactly the rows that have not been read. The loop over the rows and the
loop over the fields of a row are the same argument: what is written is a list of pieces,
`Left(pieces, k)` is what it is without the first k, and reading a piece off the front
of `Left(pieces, k)` leaves `Left(pieces, k + 1)` (`LeftStep`, `FieldReads`). A field reads
back because its width depends on nothing but its class and the count in front of it.
That the two ends have the same class for each id is `Schemas`, by the definitions of the
22 messages. Both the library's `FlattenSeq` and `ReadRow` are recursive functions; what
they give is shown by `Induction` over a set of numbers.

**PoolExperimentProofs.** That no two objects are in one block is not inductive: a pop
must find that the block at the head of the list is in no other list, in no thread's
hands and in no object. `PoolIInv` therefore says where every block is (`PlaceInv`: the
lists, the hands and the objects share nothing and together are all blocks), what its
header says there (`HeaderInv`: `Release` finds the pool a block goes back to by the size
in its header, which `PushClear` zeroes and `Constructed` writes), that the pools are
used in every other test only (`PhaseInv`), and how far behind the counters are
(`CountsBehind`). Lemmas say what it is for a block to enter or leave a list, a hand or
an object (`ListGives`, `HandTakes`, `UseBegins`, ...), and `CountStep` reduces the
counting of threads and blocks to the one thread and the one block of a step; each
action is then put together from these. `BlocksAreSound` draws `BlocksInv` from it: the
statistics are exact because a list of distinct blocks that has all blocks of its pool
is as long as there are blocks (`ListLength`). In `PoolsAreAStore` making a block is
Grow, the end of `Allocate` is Get, the start of `Release` is GiveBack, and the other
steps stutter.

**GameRoomProofs.** `RoomInv` is about what is left when the room is idle; what makes it
inductive is where everything of a session is meanwhile. `Inbox` is the packets on their way to
a session's handlers, the batch that is being handled first, and `Line` the jobs of the room,
the one that is running first: with these two a receive, a start and a hand-over change
nothing. `SessionInv` says of one session: nothing happens before it is accepted, and after
its disconnect only what a race allows (`FreshInv`); a client logs in and enters once
(`OnceInv`), so until its `C_ENTER_GAME` is handled it has no player in the room and no job
for one (`EntryInv`); its players are its own (`PlayerInv`); it has at most one seat
and one `Enter` in the line, never both (`SeatInv`); if no race touched it, the player
it entered with is seated or has its `Enter` in the line, and once it has left, its seat has a
`Leave` in the line, behind its `Enter` (`PlaceInv`); a session with a seat was told that it
entered or is in the step before that, with no chat of its own behind its `Enter` (`ToldInv`).
A step is of one session or of the room: `SessionFrame` carries the invariant of
all the others across it (they may hear a chat, jobs of others come and go), and one
lemma per action re-establishes it for the session of the step. `RoomIsSound` draws `RoomInv` from it.
`RoomRefinesChat`: the start of a `Broadcast` is Say, `Enter` is Join, `Leave` is Part if
the player is still there, `Disconnect` is Cut, the rest stutter, `BroadcastSend` too: what a member has
heard is what was sent to it and the chat that has yet to reach it. That needs
`SeatInv` (a session with two seats would hear everything twice) and `ToldInv`, by which a
member is connected until it is cut off. `ChatsOf` picks the chats out of a queue by a
recursive function; what it does with one more packet (`ChatsOfAppend`) is proved by the
least number for which it fails.

**Only model-checked.** All liveness properties (`FreeLockIsTaken`,
`EveryJobLeaves`, `ComesToRest`, `TimersFire`, `EveryBufferSent`,
`DisconnectReleases`, `EveryJobStarts`, `LoadEnds`, `EveryPacketHandled`), since
fairness and ENABLED are beyond the prover. That a message that the protobuf library writes is
parsed as the same message is assumed of the plan (`PlanAssumption`) and evaluated by TLC for
the messages of the run: `Protocol` is the generated code of six classes over the loops of the
library, so a proof would be about the library's format. `ErrorsReported` and
`StopEndsWorkers` are violated.

## 6. What is not modelled

* The heap, smart pointers and pools behind the containers; a queue is a sequence,
  a released owner a flag.
* Weak memory: the code uses sequentially consistent atomics, except `stop_all`
  and `_writeCount`. The latter is shown race free; the former is a data race that
  is modelled as interleaved accesses.
* Winsock, the completion port, GetTickCount64, condition variables: modelled by
  how the code uses them.
* `Service::Start` and `CloseService`, the limit of accepts, `RegisterConnect` beyond
  its pending operation; `OnSend`, which is empty.
* A client other than DummyClient: a second `C_ENTER_GAME`, an index of a player that
  does not exist (the TODO in ClientPacketHandler.cpp:72), a packet header that states
  less than its own size. `C_CHAT` before `C_LOGIN` is modelled, as DummyClient does it.
* The reflection, arena, copy and merge code of the generated protobuf classes, which
  nothing calls. `S_CHAT.playerId` is never set by the server.
* zlib and LZMA: an archive is what was packed. The values of fields, coordinates and
  strings are cells.
* The database behind the data server's workers: a query succeeds or fails.
* `Memory` and `MemoryPool` of ServerCore. Types.h:43 defines `_STOMP`, so every
  allocation is a `VirtualAlloc` of its own and neither pools nor table are used. (The
  table ends at 3872 bytes, as the loops of Memory.cpp:26 and :38 go on from 1056 and
  2080, and would not serve the sizes up to 4096 that Memory.h:14 speaks of.)
* `DeadLockProfiler`: debug builds only; it watches the locks and changes nothing.
* NetCommon of test/MMO_ASIO: net_server.h is empty and nothing calls `wait` or
  `ConnectToClient`, so there is no program around its queues. (`wait` tests for
  emptiness outside the mutex it sleeps on, and would miss a push in between.)
* The second thread pool (ThreadPool/ThreadPool/ThreadPool) is the same algorithm
  and does not compile; test/ThreadPool is a near copy of ThreadPool/.
* BufferReader, BufferWriter, SocketUtils, NetAddress: straight-line calls.
* User interface, database access, wizards, packet generator templates.
