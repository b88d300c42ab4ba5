# A verification development for muduoWindows

muduoWindows is a port of Chen Shuo's *muduo* network library to Windows: one event loop per
thread, non-blocking TCP, and an emulation of `epoll` on the AFD driver. This directory holds
TLA+ models of its core, configurations that model-check them with TLC, and proofs checked by
TLAPS. Paths below are relative to the repository; `PROJECT.json` maps every definition to the
lines it was translated from.

1. [The system](#1-the-system)
2. [The modules](#2-the-modules)
3. [What is checked](#3-what-is-checked)
4. [What is proved](#4-what-is-proved)
5. [What the models show about the code](#5-what-the-models-show-about-the-code)
6. [What is not modelled](#6-what-is-not-modelled)
7. [Plan](#7-plan)

## 1. The system

### 1.1 Components

| Component | Its state | Operations | What makes it correct |
|---|---|---|---|
| **EventLoop** `net/eventLoop.cpp` | `quit_`, `pendingFunctors_` (under `mutex_`), `callingPendingFunctors_`, the wake-up socket pair, `activeChannels_` | `loop`, `quit`, `runInLoop`, `queueInLoop`, `wakeup`, `handleRead`, `doPendingFunctors` | every functor queued runs, once, in order; neither a functor nor a `quit()` waits behind a poll that nothing ends |
| **EventLoopThread** `net/eventLoopThread.cpp` | `loop_` (under `mutex_`), the thread, the `EventLoop` on the thread's stack | constructor, `startLoop`, `threadFunc`, destructor | the pointer handed out stays good until the destructor; the destructor ends the thread and returns |
| **TimerQueue**, **Timer**, heap `net/timerQueue.cpp`, `net/timer.cpp`, `net/timeMinHeap.h` | the binary heap, `expiration_`, `min_heap_idx` of each timer | `addTimer`, `cancel`, their `...InLoop` halves, `expiredProcess`, `earliestExpiredTime` | the heap holds exactly the timers that are set; they run in order; none is lost |
| **epoll emulation** `net/epoll.cpp` | the port, its peer sockets, the table of sockets; per socket: the registered events, an operation generation, the operations outstanding, membership of the attention list | `epoll_create`, `epoll_add`, `epoll_mod`, `epoll_del`, `submit`, `epoll_wait`, `epoll_close` | what is the case and asked for is reported; data lives as long as an operation refers to it; nothing is reported of a socket that is gone |
| **Channel**, **EPollPoller** `net/channel.cpp`, `net/epollPoller.cpp` | `events_`, `revents_`, `index_`, `addedToLoop_`, the table of channels | `enable...`/`disable...`, `update`, `remove`, `handleEvent`, `poll` | what the poller asks for follows `events_`; removed before destroyed |
| **TcpConnection** `net/tcpConnection.cpp` | `state_`, `reading_`, `outputBuffer_`, its channel, its references | `send`, `shutdown`, `forceClose`, `forceCloseWithDelay`, `startRead`, `stopRead`, `connectEstablished`, `connectDestroyed`, `handleRead/Write/Close/Error` | the byte stream is intact; FIN follows the output; a connection closes once and is destroyed in its loop, clean |
| **TcpServer**, **Acceptor**, **EventLoopThreadPool** | the map of connections, the next loop, the idle descriptor | `start`, `newConnection`, `removeConnection`, destructor | every connection is destroyed in its own loop, and none is dropped from the map twice |
| **Connector**, **TcpClient** | `connect_`, `state_`, the retry delay, the channel | `start`, `stop`, `restart`, `connect`, `retry`, `removeAndResetChannel` | at most one attempt at a time; none after `stop()` |
| **Buffer** `net/buffer.h`, `net/buffer.cpp`, `net/endian.h` | `readerIndex_`, `writerIndex_`, the storage | `append`, `retrieve`, `prepend`, `makeSpace`, `shrink`, `readFd`, the searches and integers | it is a string of bytes: growing, moving to the front and shrinking lose and change nothing |
| **Threadpool**, **CountDownLatch** `base/threadpool.cpp` | the deque of tasks, `running_`, the conditions, the threads | `start`, `stop`, `run`, `take`, `runInThread`, `wait`, `countDown` | no lost notification; every task in one place; `stop` joins every thread |
| **Blocking queues**, **Condition**, **MutexLock** `base/` | the queue, two conditions | `put`, `take`, `drain` | a FIFO of bounded size; no call sleeps while it could go on |
| **Thread** `base/thread.cpp` | `started_`, `joined_`, `tid_`, `name_` | constructor, `start`, `join`, destructor, `runInThread` | who has joined finds the function done; nobody writes to an object that is gone |
| **AsyncLogging**, **LogFile** `base/` | current and next buffer, the list of full buffers; the file, its size, day and last roll | `append`, `start`, `stop`, `threadFunc`; `append`, `rollFile`, `flush` | every line is written once, in order, or dropped on purpose; files have different names |
| **Logger**, **LogStream**, **FixedBuffer** `base/logging.cpp`, `base/logStream.h` | the line being built, the level, the time last formatted | the macros, `<<`, the destructor of `Logger` | a line has its header and end and leaves room for its last byte; nothing follows a fatal one |
| **conversions** `base/logStream.cpp`, `Date.cpp`, `timezone.cpp`, `stringPiece.h`, `net/inetAddress.cpp` | — | integers, SI and IEC units, Julian days, UTC, comparisons, addresses | what is converted means what it meant, at the limits too |
| **openedFiles** `base/processInfo.cpp` | the list of files, the answer of a helper thread | `openedFiles`, its helper thread | every file once, whenever a thread is terminated |
| **ReadSmallFile** `base/fileUtil.cpp` | the file and its position | `readToString`, `readToBuffer` | no gaps and no more than was asked for |
| **sockets::pipe** `net/socketsOps.cpp` | three sockets | `pipe` | two sockets, or none left open |
| **SelectPoller** `net/selectPoller.cpp` | a vector of descriptors, the index of each channel | `poll`, `updateChannel`, `removeChannel` | every channel is at its index |

### 1.2 How they interact

* One thread runs `EventLoop::loop`: poll, expired timers, active channels, pending functors,
  again. All the rest of a loop's objects (timers, channels, connections) is touched in that
  thread only. Another thread gets something done there by `runInLoop`/`queueInLoop`: it pushes a
  functor under `mutex_` and then writes eight bytes to a socket pair that the loop polls.
* `EventLoopThread` puts such a loop on the stack of a thread and publishes its address.
* A `TcpConnection` belongs to one loop; its owner (`TcpServer` or `TcpClient`) keeps a reference
  in a loop that may be another. `handleClose` calls the owner; the owner drops its reference and
  queues `connectDestroyed` back into the connection's loop.
* A channel's interest goes through `EPollPoller` to the emulation, which submits an AFD operation
  for each change. Completed operations become `revents_` and, in the order of the completions,
  entries of `activeChannels_`.
* Threads of a `Threadpool`, the callers of a blocking queue and the logging thread share their
  queues under a mutex and wait for one another on conditions. A line goes from a `Logger` to
  `AsyncLogging::append`, from there to a `LogFile` and so to an `AppendFile`.

### 1.3 Where it is hard

*Interleaving* (push, wake-up and poll; `quit` and `loop`; the destructor and `threadFunc`; two
senders on one connection), *callbacks in the middle of something* (a timer's callback runs between
the heap's top and its pop; a user's callback closes the connection that is dispatching), *partial
failure* (a write takes part of a buffer), *stale state* (an AFD operation that has been
superseded; a handle that is used again; `min_heap_idx` of a timer that has fired), *limits* (a
socket pair full of wake-ups, a full queue, more log buffers than are kept, a line longer than its
buffer), *notifications* (one goes to a thread that cannot use it), *arithmetic at boundaries*,
*ownership* (raw pointers and `shared_ptr`s in queued functors). `PROJECT.json` lists the hazards
line by line, with the properties that cover them.

## 2. The modules

```
TaskQueue <--implements-- EventLoop <--extends-- EventLoopThread

TimerHeap <--extends-- TimerQueue

Epoll <--extends-- Channel <--extends-- TcpConnection

EpollPort <--extends-- EPollPoller

TcpServer        TcpClient

Monitor <--extends-- Threadpool ------+
   ^------extends-- BlockingQueues ---+--> MCThreads --implements--> Fifo
LogFile <--extends-- AsyncLogging ----+
Thread -------------------------------+

ByteString <--implements-- Buffer ----+
Formatting <--extends-- LogLine ------+--> MCSequential
Calendar, StringPiece, OpenedFiles, --+
SelectPoller, SocketPipe, SmallFile,
Addresses
```

Theorems stand in modules of their own, which extend what they are about: `EventLoopProof` (the
loop, its owner in `EventLoopThread` and the abstract `TaskQueue`), `TimerQueueProof`,
`TcpConnectionProof`, `TcpServerProof`, `TcpClientProof`, `EPollPollerProof`; `MCThreadsProof` for
the pool, the queues, the threads and the logging; and `MCSequentialProof` for all the parts of
`MCSequential`.

`TcpServer` and `TcpClient` stand alone: what they need of a loop (batches of functors, `quit_`)
and of a connection (its state, its place in the poller, and how it closes, which may be more than
once) is stated in them in the reduced form that `EventLoop` and `TcpConnection` justify.

Modules named `MC...` give model values and quotas to TLC. `MCThreads` and `MCSequential` also put
components side by side that have nothing to do with each other: a variable `part`, chosen in the
initial state, says which one moves, while the others stay where they begin; each behaviour is one
of one component. An operator commented *Faulty variant* is a plausible bug, defined beside what it
would replace and used by nothing; it shows that the property it is listed with in `PROJECT.json`
can fail.

### TaskQueue, EventLoop

`TaskQueue` is what `queueInLoop` promises: tasks are submitted once, queue up, and leave from the
front by being run. `EventLoop` is the code. The correspondence:

| code | model |
|---|---|
| position in `loop()` | `loopPc`: `start`, `test` (`while (!quit_)`), `poll`, `handle` (timers and channels), `swap`, `run` / `body` / `wakeup` (in `doPendingFunctors`), `done` |
| `queueInLoop` of another thread | `CallerQueues` (the locked push), then `CallerWakeup` (the write, which waits for room) |
| `quit` of another thread | `CallerQuits`, then `CallerWakeup` |
| `queueInLoop` in the loop thread | `LoopQueues`, then `LoopWakeup` if `callingPendingFunctors_` |
| `handleRead` | `HandleRead`: eight bytes, so one wake-up however many are there |
| `poll` returning for another reason | `PollOther` (no fairness) |
| `doPendingFunctors` | `EndHandlers` (sets the flag), `SwapFunctors`, `BeginFunctor`/`EndFunctor`, `EndBatch` |

A functor is identified by who queued it and the how-manieth of theirs it is. The refinement maps
the abstract queue to `functors \o pendingFunctors`: the batch being run, then the vector.

### EventLoopThread

Adds the owner (`new`, `starting`, `using`, `dtorQuit`, `join`, `gone`) and the life of
`threadFunc` (`none`, `callback`, `loop`, `locked`, `unlocked`, `dead`). Touching an object that
is already destroyed is undefined in C++; the model lets the step change nothing and records it in
`misuse`, so that a property can say it does not happen.

### TimerHeap, TimerQueue

`TimerHeap` gives the array heap of `timeMinHeap.h` as operators on a record
`[event, size, idx]`: the array (the slots past `size` included), the size, and `min_heap_idx` of
every timer. Both sift loops are recursive functions that compute the chain of slots the hole
visits. `TimerQueue` is the queue in its loop: `RunTimer` (top, callback starts), `CallbackReturns`
(pop *whatever is on top by then*, push again if it repeats), `NoMoreDue`, functors queued by other
threads run in batches, and `Tick`. `earliestExpiredTime` gives the poll its end, `until`, at which
the clock stops until the loop goes on: 10 s without a timer, 100 ms when one is overdue, and
otherwise the seconds that are left taken as milliseconds, which for these times is none.
`Careless` says what its users do without care; the passing
run has careful users, who never cancel the timer whose callback runs or one that may have fired.

### Epoll, Channel, TcpConnection

`Epoll` is one socket of the emulation. An operation outstanding is its generation and the events
it asks for. Every add and mod submits one, and none is cancelled; the new generation makes older
ones stale, but it starts again from zero after each report. `epoll_wait` takes what the socket
shows and says which operations complete, how often the channel is reported, and what is
registered afterwards.

`Channel` is `update` (with the `kNew`/`kAdded`/`kDeleted` of `EPollPoller`), `remove`, and the
dispatch order of `handleEventWithGuard`.

`TcpConnection` composes them with the connection, its loop, the user's callbacks in the loop
thread, one other thread that calls `send()` and `forceClose()`, the owner's close callback, and the peer:

| code | model |
|---|---|
| `loop()` | `PollReturns`, `DelayedForceClose` (a timer), `StartDispatch`, `HandleEvent` and the `Dispatch...` actions, `SwapFunctors`, one action per functor, `EndIteration` |
| a user callback | `pc = "user"`: any of `Send`, `Shutdown`, `ForceClose`, `ForceCloseWithDelay`, `StopRead`, `StartRead`, any number of times, then `CallbackReturns` |
| `send()` of another thread | `OtherSendChecks` (reads `state_`), then `OtherSendQueues` (the functor with the raw pointer) |
| `forceClose()` of another thread | `OtherForceCloseChecks` (reads `state_`), `OtherForceCloseSets`, `OtherForceCloseQueues` (the functor with a reference) |
| `handleRead` | `DispatchReadData`, or `DispatchReadEnd` when nothing was read |
| `sendInLoop` | `SendInLoop`: a direct write takes any non-empty part of the message, or fails and leaves `FailedRest` to send |
| `handleWrite` | `DispatchWrite` (any non-empty part), `DispatchWriteFails`, or `DispatchNoWrite` when the interest in output is gone; `Keep` is what they do with the rest |
| `removeConnection`, `removeConnectionInLoop` | `OwnerRemoves` |
| references | `userRef`, `ownerRef`, `closing`, and the functors that hold a `shared_ptr`; the destructor runs when all are gone (`Unreferenced`) |

Bytes are numbered in the order in which `sendInLoop` takes them; `outBuf` and `wire` are sequences
of such numbers. `assert` is compiled out, as in the Release build, so that what follows a failing
assertion is part of the model. A write that fails is not seen to fail, as `types.h` makes
`ssize_t` an unsigned type: the -1 passes `nwrote >= 0` and `n > 0`. A direct write leaves one byte
more to send than the message has, counted from the byte in front of it (`Stray`, number 0);
`handleWrite` retrieves all there is, and goes on as if all had been written: it gives up the
interest in output, queues the completion callback and, in `kDisconnecting`, sends FIN. The history
variable `dropped` has the bytes that this throws away.

What the model assumes of the user: reading is stopped and started only while the connection is
open; the other thread keeps its reference until the functors of its `send()` calls have run
(they hold none); in the callback that reports the disconnection, nothing is called.

### TcpServer

The server in its base loop with the loops of its pool and several connections.

| code | model |
|---|---|
| `setThreadNum`, `start`, `EventLoopThreadPool::start` | `Start` |
| `Acceptor::handleRead`, `newConnection`, `getNextLoop` | `NewConnection`, with `NextLoop` and `Wrap` |
| a loop's iteration | `SwapFunctors`, one `Run...` action per functor, `EndIteration` (tests `quit_`) |
| `connectEstablished`, `connectDestroyed` | operators of those names, run at once in the loop's own thread or queued |
| `handleClose` and the close callback | `HandleClose` with `RemoveConnection`, from an event (`CloseByEvent`, twice in an iteration perhaps), from the loop's own `forceClose()` (`CloseByFunctor`) or from another thread's (`RunForceClose`) |
| `forceClose()` of another thread | `ForceCloseChecks` (reads `state_`), `ForceCloseSets`, `ForceCloseQueues` |
| `shutdown()` | `Shutdown` |
| `~TcpServer` | `DtorBegins`, `DtorDisposes` for each connection, then for each thread of the pool `DtorQuits` and `DtorJoins`, then `DtorEnds` |

The destructor is only safe when no other loop has anything left to do for a connection and no
connection of the base loop is in `kDisconnecting`, has been put back into the poller by a second
close, or is about to be closed by another thread's `forceClose()`. The history variable `hasty`
records that it came earlier, or that a `forceClose()` came later, and the properties make an
exception of that: `removeConnection` is bound to the server's address ("FIXME: unsafe"), and a
loop of the pool may test `quit_` and end before it runs the `connectDestroyed` the destructor has
queued.

A connection may close more than once, as `TcpConnection` shows (section 5): `closes` counts, and
`reported` remembers that the poller has reported the channel in this iteration, so that a second
report may follow the close. Each `handleClose` tells the connection callback and removes the
connection again; a second one finds the channel out of the poller, perhaps, and puts it back.

### TcpClient

`Connector` and `TcpClient` in their loop, with another thread that calls `connect`, `stop`,
`disconnect`, and `forceClose` of the connection.

| code | model |
|---|---|
| a loop's iteration | `PollReturns`, `RunRetryTimer`, `StartDispatch`, the handlers, `SwapFunctors`, the functors, `EndIteration` |
| `startInLoop`, `Connector::connect`, `connecting`, `retry` | `StartInLoop` with its three outcomes, `Retry` |
| `handleWrite`, `handleError` | `HandleWriteConnected`, `HandleFailure` |
| `handleClose` of a connection | `HandleClose`, from an event (`CloseByEvent`) or a functor (`RunForceClose`) |
| `removeConnection`, `restart` | `RemoveConnection`, which tests, then `Restart`, which acts |
| the last `TcpConnectionPtr` goes | `LetGo`: the object is destroyed and closes its socket |
| `stop()`, `connect()` of another thread | `UserStops`, `UserConnects` (the flags), then `UserQueues` (the functor) |
| `disconnect()` of another thread | `UserDisconnects` (the flag), then `UserShutsDown` (under the lock) |
| `forceClose()` of another thread | `UserForces` (reads `state_`), `UserForceSets`, `UserForceQueues` |

`errno` is not what Winsock reports errors in, so `Connector::connect` may take any branch of its
`switch`. The user calls `connect()` only when nothing is under way. The history variable
`raced` records that a `restart()` has undone a `stop()`; `ChannelInStep` and `StopEndsAttempts`
make an exception of it, which is needed (see section 5).

`obj` has the connections there are: an object outlives `connection_` while a functor or the other
thread refers to it, and may close again meanwhile. `removeConnection` does not ask which
connection closed. When a second close of one makes it restart the connector again, or drop a newer
connection, the history variable `confused` records it, and the three properties make an exception
of what follows. A second close that does neither (without `enableRetry()`, or after `stop()` with
nothing newer) is within them.

### EpollPort, EPollPoller

`Epoll` is what one connection sees of the emulation; `EpollPort` is the whole of it, for several
sockets. A socket is a handle and the number of times the handle has been closed before, so that
handles are used again. `tree` is `_sock_data_tree`, `data` what is allocated at each address,
`attn` the attention list, `ops` the operations in the kernel and `completed` the completions that
wait to be dequeued.

| code | model |
|---|---|
| `epoll__initialize`, `epoll_create` | `epoll_create`, which may fail |
| `epoll_add`, `get_peer_socket`, `create_peer_socket` | `epoll_add`, with the peer socket that is tried for once |
| `epoll_mod`, `epoll_del` | operators of those names |
| `epoll_sock_data_t::submit` | `Submit`, which may be refused |
| the AFD driver | `OpCompletes`, `OpOfClosed` (the socket was closed), `OpFails` |
| `epoll_wait` | `submit` (the attention list), then `Dequeue` of a batch: `Looked`, one `Look` after the other, with `DataAfter`, `add_attn`, `find` |
| `epoll_close` | `CloseBegins`, `CloseDequeues` (`Closed`, one `CloseLooks` after the other), `CloseEnds` |

`EPollPoller` adds the tables of the poller (`index`, `channels`), the growing `events_`, the loop
(`PollSubmits`, `PollReturns`, `HandleEvent`, `Dispatched`), and the users: a channel changes its
interest, is withdrawn, and another one is made for the same socket, as `TcpConnection` does after
`Connector`, or for another socket with the same handle. A failing `EPOLL_CTL_ADD` or `_MOD` ends
the process, as the code's `LOG_SYSFATAL` does. Channels change interest in callbacks and functors.
Some want output alone: the Connector's, and that of a connection with output waiting after
`stopRead()`. The history variable `deaf` has those that have been registered for no input since
they were added to the port; they need not be told of input they want later (see section 5).

### Monitor, Threadpool, BlockingQueues, Fifo

`Monitor` is what thread pool and queues share: a queue under a mutex with `notEmpty_` and
`notFull_`. What a thread does between taking the mutex and letting it go, or waiting, is one step.
A thread that was notified takes the mutex in a step of its own, so that others may come first, and
`SpuriousWakeup` wakes one for no reason.

| code | model |
|---|---|
| `Threadpool::start`, `stop` | `Start` (any number of threads), `Stop` (under the lock) and `Join` |
| `run` | `CallRun`, then `RunInline` (no threads), `RunWaits`, `RunDrops` (stopped) or `RunQueues` |
| `runInThread`, `take` | `TestRunning` (without the lock), `TakeWaits`, `TakeNothing`, `TakeTask`, `RunTask`, `TaskThrows` |
| `CountDownLatch` | `latch`, `AwaitLatch`, `Execute` counts down |
| `put`, `take`, `drain` of both queues | `PutWaits`/`Put`, `QueueTakeWaits`/`Take`, `drain` |

`Fifo` is what a queue promises; the mapping is the queue itself with the items taken so far, and
the capacity is the bound, or what can be put at all.

### LogFile, AsyncLogging

`AsyncLogging` has `append` of any thread (`AppendLine`), the owner (`StartLogging`, `Started`,
`StopLogging`, `Joined`) and `threadFunc`: `TestLogRunning`, `WaitFor` (any wait ends after
`flushInterval_`, so that the condition needs no model), `Swap` under the lock, `CheckPending` (the
drop rule), `WriteBuffer` or `WriteFails`, `Recycle`, `ThreadEnds`. `LogFile` has the files, of
which the last is being written, with `rollFile`, `flush` and `AppendUnlocked`, which rolls by size,
by day and never twice in a second.

### Thread

`Thread` objects, each with its owner (`Construct`, `StartThread`, `JoinThread`, `JoinEnds`,
`DestroyThread`) and its thread (`RunInThread`, which writes `tid_` through a pointer, and
`FunctionEnds`, perhaps by an exception). `StartThread` may get no thread: `std::thread` throws,
with `started_` already set.

### Buffer, ByteString

A `Buffer` is the vector and its two indices; bytes beside the contents keep what they were, so
that a search that strays would find them. `ByteString` is what a buffer promises; its string is
the part between the indices (`Contents`). Every call records what it answered, so that the answers
of `findCRLF`, `findEOL` and `peekInt` are part of the refinement. Integers go through `endian.h`
in two's complement, with a byte of `Base` values.

### The other sequential parts

| module | what it is | how it is checked |
|---|---|---|
| `Calendar` | Julian days, weekdays, UTC | a walk from day to day through the Gregorian calendar |
| `Formatting` | `convert`, `convertHex`, `formatSI`, `formatIEC` | digits against the value they stand for, quantities against exact rounding |
| `LogLine` | the `Logger`, its line in a `FixedBuffer`, levels, the cached time; lines nested in lines | any texts of given lengths |
| `StringPiece` | comparisons, `starts_with`, moving the ends | all triples of short pieces |
| `OpenedFiles` | `openedFiles`, its helper thread, which may be terminated anywhere | all small tables of processes and handles |
| `SelectPoller` | `updateChannel`, `removeChannel`, `poll` | any sequence of calls on three channels |
| `SocketPipe` | `pipe()`, where any call may fail | all failures |
| `SmallFile` | `ReadSmallFile` of a file that grows while it is read | all sizes up to a bound |
| `Addresses` | `InetAddress`, `toIpPort`, `fromIpPort`, `resolve`, `isSelfConnect` | all addresses of a small set |

## 3. What is checked

Deadlock is checked in every run except `threads`, `epoll_poller` and `sequential`, whose bounded
work comes to an end (or whose process ends, as the code makes it), and `timer_lost`, which shows a
problem. State counts are TLC's distinct states.

| Run | Properties | Bounds, and why they suffice |
|---|---|---|
| `event_loop` | `TypeOK`, `NoLostWakeup`, `NoLostQuit`, `TaskQueueSafety` (refinement), `LoopAnswers` | two callers, one functor from each of five contexts, one `quit`, room for four wake-ups. Two callers are needed to have a push and a write of different threads around one poll. Four wake-ups are all that can wait while the loop thread writes, so that it never blocks. 123 086 states. |
| `loop_thread` | `OwnershipHolds`, `StartLoopReturns`, `JoinReturnsUnlessQuitLost` | one owner that queues two functors and destroys; the thread queues and quits in the init callback, in handlers and, quitting only, in functors. The pair holds one wake-up, so that the owner does block. 12 464 states. |
| `timer_queue` | `HeapMatchesTimers`, `RunsEarliestArmed`, `TimerFires` | three timers, one repeating, three clock values of 100 ms. Three is the least number with both a left and a right child, hence with both ways to sift; with three clock values a poll of 100 ms and one of 10 s differ. 334 415 states. |
| `timer_lost` | `NoTimerLost` is violated | the same, with careless cancels |
| `tcp_connection` | `OutputAccounted`, `DestroyedClean`, `FinAfterOutput` | two messages of two bytes, a kernel that takes one byte before the peer reads, a high-water mark of three, one arrival, one `stopRead`. Two messages give an overtaking, and a failing write with a message before and after it; two bytes a partial write. 897 812 states. |
| `tcp_liveness` | `DestroyedClean`, `ClosedIsDestroyed`, `ForceCloseCloses`, `ShutdownSendsFin` | one message of two bytes: a partial direct write and a `handleWrite` that finishes a `shutdown()`; one `forceClose` of the other thread, at any time, beside any number in the loop, so that the connection closes twice. 276 444 states. |
| `output_stalls` | `OutputDrains` is violated | one message of three bytes |
| `tcp_server` | `RemovalFindsConnection`, `DestroyedClean`, `ConnectionsServed`, `LifeCompletes` | two connections, pools of no, one and two threads; one connection is closed by another thread or twice by events. Two threads give shares to compare; with one the second connection comes round to its loop again; a removal is on its way while another connection closes, in its loop or in the base loop, or the server is destroyed. 169 107 states. |
| `tcp_client` | `ChannelInStep`, `AttemptsAccounted`, `StopEndsAttempts` | two `connect()`, two `stop()`, one `forceClose` of the other thread, one event that closes a connection again, two connections at a time; retries and reconnections without bound. Two of each give a stop of the second attempt and a second attempt after a stop; a connection that closes again is there beside a newer one. 937 740 states. |
| `threads` | `TasksDone`, `NoNotificationLost`, `LogKept`, `ImplementsFifo` (refinement), `CallsReturn`, `LineIsWritten` | two workers, two producers of two tasks or items, two consumers, queues of two, one task that throws: two of each are needed for a notification to reach the wrong one. Three lines of one or three bytes, buffers of three bytes, two buffers pending where the code has 25, a file rolled at one byte, days of two seconds: buffers fill, are dropped and recycled, and files roll for both reasons. Two `Thread` objects. 124 757 states. |
| `epoll_poller` | `TablesAgree`, `ReadersAreWatched`, `ReportsAreChannels` | two handles, two data, two channels for each handle, two operations of a data, three changes of interest, one failure; interests are nothing, output alone, or both. (Input alone goes the same way as both here; with it as a fourth interest the run passes with 6 138 837 states.) A handle is used again while operations of its last socket are outstanding, and another is served meanwhile. 3 650 293 states; the two handles are symmetric. |
| `sequential` | `IndicesInOrder`, `ImplementsByteString` (refinement), `ConversionsRight`, `LineWhole`, `HandlesAccounted`, `SlotsMatch` | for `Buffer` two byte values, arguments of two bytes, a front of two and a reserve of one: every way to have, to make and to lack room. Dates about leap and century years; quantities at every limit of the units below 10^9 (TLC's integers have 32 bits); lines of up to two texts, nested twice; two processes with two handles; three channels; files of four bytes read two at a time. 326 079 states. |

What the properties say, each stated at its definition:

* `NoLostWakeup`: from the swap of a batch until the next poll returns, a waiting functor has a
  wake-up in the pair or on its way, although each iteration consumes only one.
* `TaskQueueSafety`: `EventLoop` implements `TaskQueue`. `LoopAnswers`: what is queued is run, and
  `quit()` ends the loop.
* `OwnershipHolds`: unless the loop thread quits its own loop, nothing destroyed is touched but
  the pipe, by the wake-up of the very `quit()` that ended the loop.
* `HeapMatchesTimers`: the heap is a heap, every `min_heap_idx` is right, and its members are
  exactly the timers that are set. `RunsEarliestArmed`: no timer runs before one that is set for an
  earlier time, and no poll keeps a timer waiting for more than the 100 ms of `defaultOuttime`.
* `OutputAccounted`: what the kernel has taken followed by `outputBuffer_` is what `sendInLoop`
  took and no failing `handleWrite` threw away, each byte once and in order; what a failing direct
  write adds stands only in front of a message (`StreamIntact`). Until the connection is closed the
  channel wants output just when there is some left (`WritingIffBuffered`), which makes
  `shutdownInLoop` right to look at `isWriting()`. `FinAfterOutput`: when FIN is sent, every byte
  accepted is in the kernel or was thrown away.
* `DestroyedClean`: when the last reference goes, the connection is disconnected, out of its loop,
  and no functor bound to its raw pointer is left. `TcpServer!DestroyedClean` says it of many
  connections in many loops, and of the destructor of the server.
* `RemovalFindsConnection`: a removal on its way finds a server, and its connection in the map
  unless `handleClose` has run twice for it. `ConnectionsServed`: the connection callback is told of
  a connection first and then of its end, once for each time `handleClose` ran or once by
  `connectDestroyed`, and the loops get connections in turn. `LifeCompletes`: what is accepted is
  announced, what is closed is released, and the destructor returns.
* `AttemptsAccounted`: an attempt, a retry, a connection or a call on its way, never two of them,
  and never none while the client should be connected; and every open socket is the attempt's or of
  a connection somebody refers to. `ChannelInStep`: a channel is in the poller exactly while
  connecting and is destroyed after it has left it. `StopEndsAttempts`: after the last `stop()` the
  attempts cease, although the retry timer is not cancelled. All three hold of a client that no
  second close has `confused`.
* `TasksDone`: every task given to `run()` is in one place, in order, and dropped only after
  `stop()`; an owner that waited for the latch finds all of them done; and who has joined a
  `Thread` finds its function done and its id known.
* `NoNotificationLost`: while somebody sleeps, those awake are enough for all the items, or all the
  room, there is. `CallsReturn`: `run()` returns (unless tasks that threw ended all workers), and
  so do `stop()` of the pool and of the logging.
* `LogKept`: every line is in one place, in order: in a file, in a buffer, or among those dropped
  on purpose or by an error; the logging thread never lacks a spare buffer; and the files have
  different names and hold one day each but for the first lines of the next. `LineIsWritten`: while
  the logging is not stopped a line gets into a file.
* `TablesAgree`: a channel is `kAdded` exactly while its handle is in the tree with data that
  points to it, and nothing that is deleted is used again by an operation, the tree or the list.
  `ReportsAreChannels`: whatever completions of closed sockets and removed channels there are,
  what `poll()` reports is of a channel that is there. `ReadersAreWatched`: unless something
  failed, while the loop waits every channel in the poller has an operation or a completion, and
  one that has wanted to read ever since it was added has one that will tell it of input.
* `ImplementsByteString`, `IndicesInOrder`: a `Buffer` is a string of bytes, its assertions hold,
  and integers come back as they were written.
* `HandlesAccounted`: `openedFiles()` lists every file once and in order, and the duplicates that
  are open are exactly those of threads it terminated, of pipes it does not ask about, and the one
  in hand; `pipe()` returns two open sockets or leaves none; a small file is read without gaps.
* `ConversionsRight`, `LineWhole`, `SlotsMatch`: see the table in section 2.

**Fairness.** `WF` of the loop thread's own steps and of a caller's pending wake-up says that
threads are scheduled. There is no fairness on `PollOther`: no property may lean on unrelated
traffic, or on poll's 10 s timeout, to end a poll. Nobody is obliged to call anything: `send`,
`quit`, adding a timer, starting a thread have no fairness. For timers, time passes: `SF` of
`Tick`, as a loop whose polls take 0 ms enables and disables it forever. For connections, the peer
reads (`WF` of `PeerReads`; without it no output need ever drain), the owner's loop runs (`WF` of `OwnerRemoves`), the other
thread finishes a `forceClose()` it has begun (`WF` of `OtherForceCloses`), and a delayed
`forceClose` is not passed over forever (`SF` of
`DelayedForceClose`): its delay ends, and the next iteration's `expiredProcess` runs it before the
events — `TimerFires` is the justification — while it is only enabled in that part of each
iteration, hence strong fairness. The retry timer of `TcpClient` is treated alike (`SF` of
`RunRetryTimer`). Nobody has to connect to the server, to close a connection or to destroy the
server; no attempt of the client has to succeed, or even to be answered; the steps a thread has
begun (`DtorStep`, `ForceCloses` in the server, `UserReturns` in the client) are finished. In the pool a thread that can go on
does so (`WF` of each producer's `RunStep` and each worker's `WorkerStep`, of `Join`), tasks end,
and an owner that has started the pool stops it; no fairness makes a thread wake up for no reason.
The logging thread runs, and its waits end by their timeout (`WF` of `ThreadStep`), which is what
the timed wait of the code grants.

## 4. What is proved

Every theorem holds for every value of the constants: any callers, producers, workers,
connections, sockets and quotas, any message length, any capacity of a pipe, a kernel or a queue.

| Theorem | States |
|---|---|
| `EventLoopProof!TypeCorrect` | `Spec => []TypeOK` |
| `EventLoopProof!WakeupNeverLost` | `Spec => []NoLostWakeup` |
| `EventLoopProof!QuitNeverLost` | `Spec => []NoLostQuit` |
| `EventLoopProof!ImplementsTaskQueue` | `Spec => TaskQueueSafety`, the refinement |
| `EventLoopProof!FunctorsExactlyOnce` | every functor submitted has run or waits, and none twice: along the refinement |
| `EventLoopProof!OwnershipKept` | `ThreadSpec => []OwnershipHolds` |
| `EventLoopProof!WakeupsSurviveOwnership` | no wake-up and no `quit()` is lost either when the loop has an owner |
| `TimerQueueProof!HeapIsRight` | `Spec => []HeapMatchesTimers`, if `Careless = {}` |
| `TimerQueueProof!EarliestRuns` | `Spec => RunsEarliestArmed`, an action property, if `Careless = {}` |
| `TimerQueueProof!TimersKept` | `Spec => []NoTimerLost`, if `Careless = {}` |
| `TcpConnectionProof!NoOutputLost` | `Spec => []OutputAccounted` |
| `TcpConnectionProof!DestructorFindsOrder` | `Spec => []DestroyedClean` |
| `TcpConnectionProof!ShutdownAfterOutput` | `Spec => FinAfterOutput`, an action property |
| `TcpServerProof!RemovalIsExpected` | `Spec => []RemovalFindsConnection` |
| `TcpServerProof!ConnectionsEndInOrder` | `Spec => []DestroyedClean` |
| `TcpServerProof!ServedInTurn` | `Spec => []ConnectionsServed` |
| `TcpClientProof!ChannelFollowsState` | `Spec => []ChannelInStep` |
| `TcpClientProof!OneAttempt` | `Spec => []AttemptsAccounted` |
| `EPollPollerProof!TablesAlwaysAgree` | `Spec => []TablesAgree` |
| `EPollPollerProof!ReportsAreOfChannels` | `Spec => ReportsAreChannels`, an action property |
| `EPollPollerProof!ReadersAreAlwaysWatched` | `Spec => []ReadersAreWatched`, for any `Interests` |
| `MCThreadsProof!TasksAreDone` | `Spec => []TasksDone` |
| `MCThreadsProof!NotificationsAreKept` | `Spec => []NoNotificationLost` |
| `MCThreadsProof!QueuesAreFifo` | `Spec => ImplementsFifo`, the refinement |
| `MCThreadsProof!LogsAreKept` | `Spec => []LogKept` |
| `MCSequentialProof!BufferIndices` | `Spec => []IndicesInOrder` |
| `MCSequentialProof!BufferIsString` | `Spec => ImplementsByteString`, the refinement |
| `MCSequentialProof!PollSlots` | `Spec => []SlotsMatch` |
| `MCSequentialProof!WhatStaysOpen` | `Spec => []HandlesAccounted` |
| `MCSequentialProof!LinesAreWhole` | `Spec => []LineWhole` |
| `MCSequentialProof!ConversionsAreRight` | `Spec => []ConversionsRight`: dates, digits and quantities, pieces, addresses |
| `MCSequentialProof!DatesThereAndBack`, `!AddressTexts` | its parts about dates and about addresses |

So every invariant and every action property that a run checks is a theorem, and so are the three
refinements.

The assumptions are those the modules name, and the code grants them. TLC evaluates each of them
in the runs of section 3.

* Threads: callers are not contexts of the loop thread, the owner of a loop is one of its callers,
  the owner of a pool is neither a worker nor a producer, producers are finitely many.
* Sizes: quotas and bounds are natural numbers, a message and a logged line have at least one byte,
  the socket pair holds at least one wake-up, at least two buffers may be pending.
* Names: addresses are numbers other than 0 and finitely many; timers are finitely many, and
  "none" is neither a timer nor a channel.
* Values: a byte has an even number of values, at least two; characters are bytes; years are those
  from 1 to 9999 and seconds those of a day; integers have 64 bits, for which `kMaxNumericSize`
  (48) is more than the 20 characters they need; the names in the header of a log line are short
  (`TextsFit`); quantities are below 2^52. A double holds such a number with half a unit more, so
  that the comparisons of `formatSI` are as exact as the model's; beyond, it rounds first, and
  nothing is claimed.

The theorems of `TimerQueueProof` say `Careless = {}`: no user cancels a timer that may have fired
or cancels the one that is running, and no timer is added for a time in the past while another one
runs. Without it they are false, as the run `timer_lost` shows (section 5).

Every proof has the same shape. The properties are not inductive; a stronger invariant `IInv` is,
and TLC has checked it on the run of its module before it was proved. Lemmas about sequences (what
a queue of functors holds after a push and after its head is taken, how many of a kind) come first,
then one lemma for each action, then the theorems. What `IInv` adds, and why it is needed:

* **EventLoop.** `Control`: `callingPendingFunctors_` is set exactly inside `doPendingFunctors` (so
  a functor that queues a functor writes a wake-up, and a handler that does so need not), a batch
  exists only while it is run (so that the swap leaves the abstract queue alone), a channel reported
  readable has a wake-up to read (so that `HandleRead` never takes the count below zero).
  `NoLostWakeup` covers the positions from `run` to `poll` and not `handle` and `swap`: there the
  batch is still to be taken. It does not speak of functors the loop thread queued before `loop()`,
  for which `queueInLoop` writes nothing.
* **EventLoopThread.** Most of its steps are steps of the event loop, whose `IInv` is carried
  along. `Places` ties the position of `threadFunc` to the loop's: `loop_` is published exactly
  while the loop can run. `QuitByOwner`: unless the loop thread quits by itself, the loop is left
  only once the destructor waits in `join`. That is why an owner between `startLoop()` and the
  destructor never holds a dangling pointer.
* **TimerQueue** (`QueueInv`). `HeapRight`: the heap is ordered and holds the armed timers, each in
  the slot its index names, and besides them at most the one that runs. `OnTop`: while a callback
  runs its timer is still on top and due, so that the `pop` after it takes that one and no other;
  here `Careless = {}` is needed. `SlotsKnown`: a slot of the heap that was never written belongs to
  a timer nobody may cancel, and what has been cancelled is known not to be in the heap.
  `QueueOrdered`: a timer on its way to the loop has exactly one `add` to come, and every `cancel`
  comes after it. The sift loops are argued by the path of the hole: all other slots are in order,
  what is below the hole fits what is above it, and each exchange brings it nearer to an end.
* **TcpConnection.** `Whole`: messages are taken whole, so that the byte in front of one is in front
  of a multiple of its length. `Referenced`: whoever may still call, and every functor bound to the raw
  pointer, has a reference behind it. `Closing`: a closed connection stays closed, but for the
  moment in which another thread's `forceClose()` has set `state_` back, and then its
  `forceCloseInLoop` is still to come. `Removed`: a channel that came back to its loop after the
  close leaves it again with a `connectDestroyed` that is on its way. Together they make the
  destructor find a clean connection, although the code may close one twice (section 5).
  `Established` and `Control` say that nothing reaches the connection before `connectEstablished`
  has run, and where the work of `handleEvent` may be interrupted.
* **TcpServer.** `Places`: a functor waits only in the loop that has to run it. `Once`: no
  connection is established by two functors, and none that has closed once is removed by two.
  `Phases`: what `state_`, the closes so far and a `forceClose()` under way tell of a connection and
  of what the callback has heard (`Heard`), whatever the destructor does. `Stages`: unless the
  destructor came too early, a connection that has left the map is out of its poller, or has a
  removal or a `connectDestroyed` to come; that holds of one that a second close has put back, as
  that close has queued another removal. `Dealt`: the loops up to `next_` serve one connection more
  than the others.
* **TcpClient.** `Stopping`: nobody sets `connect_` while a `stopInLoop` is coming, unless a
  `restart()` undoes the `stop()`, which is why `ChannelInStep` has that exception and
  `AttemptsAccounted` has not. `Resetting`: a channel that has been removed is destroyed before an
  attempt can begin, as `resetChannel` is among the functors of this iteration and a retry or a
  lost connection waits for the next; `Before`: a `forceClose` of the connection is queued behind
  it. `Refs`: an object is there exactly while somebody refers to it, even in a confused client;
  `SocketsHold` counts their sockets. `Sound`: `connection_` is the one object that has not closed,
  so that who closes for the first time is the one that is dropped.
* **EPollPoller.** `Counted`: data counts the operations that refer to it, in the kernel and
  completed; where nothing is, nothing refers to. It is kept through a batch, of which each
  completion takes one from what is counted (`BatchOK`), and makes the last operation the one that
  frees removed data. `Heard`: unless something has failed, what is registered is on the attention
  list with generation 0, or has an operation that is not superseded. A completion of the newest
  generation starts the generations again and puts the data on the list, which `submit` empties by
  an operation for all that have none. `Tables`: the tree has the handle exactly while `index_` is
  `kAdded`, with data that points to the present channel, so that a report, which is made only of
  what is found in the tree, is of a channel of `channels_`. `Reading`: what is registered for a
  channel that is not `deaf`, and each operation in the kernel for it, asks for input.
* **Threadpool, queues, Thread.** `OnePlace`: hands of producers, queue, busy workers, tasks run
  and tasks dropped share no task and are all that was given to `run()`. `QueueInOrder`: what a
  worker has taken came before all that its producer has queued. `LatchBehind`: the latch is never
  ahead of the last tasks that have run, as a task that throws does not count down; so an owner
  whose wait ends finds them done. `PoolPlaces`, `PoolPhase`: who sleeps is where its condition is
  waited for, and after `stop()` nobody does. `NotificationsSuffice` itself is inductive beside
  these: each `notify()` wakes as many as it adds items or room, and who goes to sleep has seen
  none. `ItemsFresh` numbers the items of a producer, which bounds an unbounded queue by all that
  can be put. `BodyFollowsLife` tells from the owner's calls how far a thread can be.
* **Logging** (`LogInv` of `MCThreadsProof`). `BufferPlaces`: which buffers there are at each place
  of the logging thread. `FilesKnown`: files follow the clock, the last is the one `lastRoll_`
  names, `startOfPeriod_` is its period, and `count_` stays below `checkEveryN_`, so that a file is
  late by no more chunks than that. `LinesAccounted`: files, the buffers to write, the pending ones
  and the current one, read in this order, are one increasing sequence, and no line of it is among
  the lost. From these follows the order of what was written.
* **Sequential parts** (`SeqInv`). One conjunct for each part, as the steps of one leave the others
  alone. `SelectInv`: each channel knows its slot and the slot its channel, a negative number stands where
  nothing is wanted, and there are as many slots as channels. `FilesInv`: the place in the table
  that is looked at, and the duplicates made so far. `PipeInv` and `FileInv`: what the locals hold
  before each call that may fail. `BufInv`: the bounds of the two indices, beside which each call is
  a step of `ByteString`. `AddrInv`: memory has the port and the address that were meant once there
  is a family. `LogInv`: a line has its header, is never full, is ended when it is written, and a
  fatal one is the last; the time in the cache is that of the cached second. `CalInv`: today is a
  day, and `jdn` its number. `PieceInv` and `NumInv` only say where the inputs lie; that the answers
  are right is a lemma for every input. Among these lemmas: a Julian day number, split into
  centuries, years and months of the March year, gives back the date it was made of; the digits of
  `convert` stand for the number, and no two numbers have the same; a rounded quantity is within
  half a unit of its last digit, with the first unit that is large enough; two pieces are ordered
  by the first place where they differ.

The refinement of `Fifo` follows from the same invariant, step by step: `Put`, `Take` and `drain`
are those of `Fifo`, all other steps leave items, takers and capacity alone.

Induction with an operator as its parameter is not available to the provers, so where a count, a
place in a queue, a batch of completions, a loop or a recursive function is argued by induction,
the proof takes the least counterexample: the natural numbers are well-founded, for the one set at
hand. A recursive function is first shown to be what its definition says (`RecursionExists`
for `Looked` and `Closed`, `WeightsExist` for `Weight`, `ApplicationsExist` and `DigitsExist` for
powers and digits), from functions that satisfy the definition up to `n` and agree where both are
defined. `BatchKept` says what holds after any number of completions.

Only model-checked is liveness, and with it `ENABLED`, which are out of TLAPS' reach: `LoopAnswers`,
`StartLoopReturns`, `JoinReturnsUnlessQuitLost`, `TimerFires`, `ClosedIsDestroyed`,
`ForceCloseCloses`, `ShutdownSendsFin`, `LifeCompletes`, `StopEndsAttempts`,
`CallsReturn` and `LineIsWritten`. These hold of the instances of section 3, under the fairness
stated there.

tlapm reads `UNION A \cup B` as the union of `A \cup B`, TLC as the union of `A`, with `B`. The
modules have parentheses wherever the two would differ.

## 5. What the models show about the code

Two runs exhibit a problem by themselves:

* **Cancelling a timer in its own callback loses another one** (`timer_lost`). `expiredProcess`
  pops the top after the callback, whatever is on top by then.
* **Output stalls after a partial write** (`output_stalls`). The emulation drops `EPOLLOUT` with
  each report and `handleWrite` does not ask again, so that the rest of `outputBuffer_` stays
  there until something else updates the channel. `ShutdownSendsFin` therefore excludes that case
  (`OutputForgotten`).

The others are found when a constant or a property of a cfg is changed; the properties named are
defined in the modules, and TLC finds each of them violated:

* **A direct write that fails sends a byte too many** (`RemainingAssert` of `TcpConnection`, the
  `assert(remaining <= len)` of `sendInLoop`). `ssize_t` is `size_t` here, so that the test
  `nwrote >= 0` holds of -1. What is appended to `outputBuffer_` begins one byte in front of the
  message, and the error is never looked at. When the kernel has no room at that moment, the peer
  receives that byte.
* **A `handleWrite` that fails throws the output away** (`RetrieveAssert`, the
  `assert(len <= readableBytes())` of `Buffer::retrieve`; with one message of four bytes). The test
  `n > 0` holds of -1, and `retrieve(SIZE_MAX)` empties `outputBuffer_`; in `kDisconnecting` FIN
  follows. On a healthy connection a doubled report of output (see below) is enough, when the first
  `handleWrite` has filled the kernel. `OutputAccounted` and `FinAfterOutput` make an exception of
  what is lost.
* **A second close removes a connection twice** (`RemovalAssert` of `TcpServer`, the
  `assert(n == 1)` of `removeConnectionInLoop`). Nothing worse comes of it: with the assertion
  compiled out a second `connectDestroyed` is queued, which takes the channel out of the poller
  again, and the user hears of the end twice.
* **A second close restarts the connector twice** (`ChannelAssert` of `TcpClient`, the
  `assert(!channel_)` of `connecting()`). With `enableRetry()` each `removeConnection` calls
  `restart()`; the second attempt replaces, and so destroys, the channel that the first is polled
  by, whose socket is never closed. If the first attempt has become a connection by then, the
  second close drops it from `connection_` while it is open.
* **A full socket pair stops the loop** (`PipeCap = 2` in `MCEventLoop.cfg`: `LoopAnswers` is
  violated). `wakeup()` writes with a blocking `send`, and `handleRead` consumes one wake-up per
  iteration. If the pair is full when a functor queues another one, the loop thread waits for room
  that only it could make. With the default socket buffers this takes many thousand `queueInLoop`
  calls in one iteration; non-blocking sockets, as in muduo, or reading all that is there, would
  remove it.
* **`stop()` may be undone** (`StopStops` of `TcpClient`). Between the test of `removeConnection`
  and `restart()` a `stop()` of another thread clears both flags; `restart()` sets `connect_` of
  the connector again. The queued `stopInLoop` ends one attempt, `retry()` starts the next.
* **One close becomes two** (`HandleCloseAssert` of `TcpConnection`).
  Generations restart from zero after each report while older operations are outstanding. When a
  `send` had to wait for room, two operations with generation 1 exist afterwards; the peer's close
  completes both, the channel is active twice, and `handleClose` and later `connectDestroyed` run
  twice. They also do when a `forceClose()` of another thread sets `kDisconnecting` over a
  `kDisconnected` that came after its test (`tcpConnection.cpp:118`): the second `handleClose` adds
  a channel that was removed to the poller again, and the second `connectDestroyed` removes it.
  `DestroyedClean` shows that the connection ends clean nevertheless; what its owners make of it is
  in `RemovalAssert` and `ChannelAssert`.

The rest is part of the models, and an exception of the properties where it touches one.

*The loop, its threads and its timers.*

* A destructor that comes too early waits forever: `loop()` begins with `quit_ = false`, so that a
  `quit()` between the publication of `loop_` and that line is lost, and `~EventLoopThread` joins a
  thread that does not end. The source has a FIXME there; `JoinReturnsUnlessQuitLost` shows that
  this is the only way for the join to hang.
* `earliestExpiredTime` returns seconds where `poll` takes milliseconds. Until a timer that is due
  within a second expires, the loop polls with a timeout of 0 and spins; a timer that is overdue
  when the poll begins waits for up to 100 ms more.
* A server must not be destroyed before its connections: with connections left in loops of the
  pool, in `kDisconnecting`, or with a `forceClose()` of another thread under way,
  `RemovalFindsConnection` and `DestroyedClean` of `TcpServer` do not hold without their exception.

*The epoll emulation.*

* A channel that wants only output goes deaf: after its `EPOLLOUT` was reported it is polled again
  with no interest, that operation never completes, and it also keeps the attention list from
  submitting another one. If the channel then asks for input, it need not be told of it.
  `ReadersAreWatched` excepts it (`deaf`); without the exception TLC finds it violated.
* An operation that fails is reported, but neither deleted nor put on the attention list: its
  socket is not polled again and its data is never freed. An operation that cannot be submitted
  again from the attention list is forgotten. Data that `EPOLL_CTL_DEL` removes while no operation
  is outstanding is never freed.
* A port that cannot be created is a null pointer, which passes the test `epollfd_ < 0`; the first
  `epoll_ctl` uses it. A peer socket that cannot be made is never tried for again.
* `epoll_close` returns early, with the completion port open, when a socket is still registered and
  nothing has completed.

*Threads, queues and logging.*

* Tasks that are queued when `stop()` is called are dropped. A task that throws ends its worker, as
  the handler is outside of the loop; when all have ended, `run()` on a full queue never returns.
* Lines appended after the last swap of the logging thread are never written. `stop()` notifies
  without the lock, so that it may take until `flushInterval_` to be noticed.
* When a `Thread` cannot be started, `started_` is set nevertheless, and the destructor detaches a
  thread that is none, which terminates the process. A detached thread may write its id to an
  object that is gone.

*The sequential parts.*

* An over-long log line loses its newline when only one byte is left.
* `openedFiles()` leaves open the duplicates of pipes it does not ask about (`continue` without a
  `CloseHandle`) and of helper threads it terminates, and looks at a status that such a thread may
  never have set. `HandlesAccounted` says that these are all.
* `SelectPoller` puts the number of a disabled channel, which is no socket, into the set of
  exceptions: `select()` fails, and nothing is reported, as long as one channel is disabled.
* `readFd` never sees an error either: `ssize_t` is unsigned.
* When a small file cannot be opened, the destructor of `ReadSmallFile` closes a null pointer, as
  it tests `fp_ >= 0`.
* `InetAddress::resolve` of an IPv6 address writes an IPv4 address over its flow information.

Read, but not modelled: `sockets::accept` compares the errors of Winsock with values of `errno`, so
that any failure ends the process and the idle descriptor of `Acceptor` is never given up;
`getSocketError` passes one byte for `SO_ERROR`; `deleteLogFile` closes a file that its
`AppendFile` closes again; `~TcpClient` has a `resetChannel` bound to a raw pointer pending when its
connector goes.

## 6. What is not modelled

* `shutdown()`, `startRead()` and `stopRead()` of threads other than the loop's; the header marks
  the first as not thread safe, and the others are bound to the raw pointer as `send()` is.
* Failures of `accept`, which end the process; the destructors of `Connector` and `TcpClient`,
  since nothing in the repository says in which thread they may run; the delays between retries.
* The holder that `MutexLock` records, but for the unlock at the end of `threadFunc`: nothing but
  assertions depends on it.
* `deleteLogFile`; `setOutput` and `setFlush` of the `Logger`; floating-point numbers and the
  layout of dates, which go to `snprintf`.
* `Singleton`, `AtomicInt`, `WeakCallback` by itself, `Exception`: wrappers without a protocol.
* `timerQueueWin.cpp` and `eventLoopSimple.cpp`: not part of the build.
* `ntapi.h`: 4 087 lines of declarations of the operating system, without code.
* The examples and the tests, which were read for what they rely on.

## 7. Plan

What is left:

1. Models of `~TcpClient`, once its users say in which thread it may run, and of an accept that
   fails.
2. Proofs of liveness, when the prover has a calculus for `ENABLED`: `LoopAnswers` first, on which
   the others rest.
