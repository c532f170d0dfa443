# A TLA+ model of windz

windz is a C++11 network library in the Reactor style (one loop per thread,
epoll, eventfd wakeups, timers in a binary heap, asynchronous logging). This
directory holds TLA+ modules that model its concurrent core and its logging,
configuration and daemon utilities, TLC configurations that check them, and TLAPS
proofs about the event loop and its thread, timers, buffers, connections, the client,
the server, the thread pool, the logging back end and the daemon. Source paths below are relative to `src/windz`.

## 1. Inventory

| Component | State | Operations | What is hard | What makes it correct |
|---|---|---|---|---|
| `net/EventLoop` | `quit_`, `looping_`, `pending_functors_calling_`, functor queue, eventfd | `Loop`, `Quit`, `RunInLoop`, `QueueInLoop`, `WakeUp` | pushes and `Quit` by other threads against the test of `quit_`, the size read once and `epoll_wait` | no lost wakeup, functors once and in order, `Quit` ends `Loop` |
| `net/EventLoopThread` | `loop_`, the thread, a loop on its stack | `Start`, destructor | lifetime of the loop, `Quit` before `Loop` | destructor joins and returns, no call on a dead loop |
| `net/TcpConnection` (with `Channel`, `Epoller`) | `state_`, interest, `output_buf_` | `Send`, `Shutdown`, `ForceClose(After)`, the handlers, the high-water-mark callback | unlocked `state_`, deferred close while output is pending, closures after destruction | byte order, `EPOLLOUT` iff output, graceful close, one close |
| `net/Connector`, `net/TcpClient` | `start_` (two), `state_`, `channel_`, retry timer, `connection_` | `Connect`, `Disconnect`, `Stop`, destructor, retry, `Restart` | a reset that is queued, timers that survive `Stop` | one attempt at a time, reconnects, stops |
| `net/Timer` | vector of timers | `AddTimer`, `Cancel`, `HandleExpired`, `NextTimeout` | callbacks that add and cancel in the middle of `HandleExpired` | min-heap, nothing lost, nothing twice, no oversleeping |
| `base/BlockingQueue`, `base/ThreadPool` | queue, two conditions, `wakeup_`, `running_` | `Push`, `Pop`, `WakeUp`, `Restore`, `Start`, `Stop`, `AddTask` | signals, spurious wakeups, full queue, stop | no lost signal, bound, order, `Stop` returns |
| `log/AsyncLogging` | four groups of buffers | `Append`, `Start`, `Stop`, thread | overload, unlocked `Notify`, spare buffers | order, refill, progress |
| `log/LogFile`, `log/FileUtil` | present file, counters, times | `Append`, `Flush`, `RollFile` | seconds, days, every n lines, uninitialised counter | unique names, few late lines |
| `net/Buffer` | vector and two indices | `Write`, `Release`, `Prepend`, `Shrink`, `ReadFd`, ... | overlapping copies, index arithmetic | holds what a queue of bytes holds |
| `net/TcpServer`, `Acceptor`, `EventLoopThreadPool` | connections by name, the spare descriptor, the pool's loops | `Start`, `NewTcpConnection`, `RemoveTcpConnection`, destructors | two loops per connection, no descriptor left, the end of the server against loops that still run | each connection ends once and is removed, waiting clients are served or turned away |
| `util/Daemon` | the pid file, its lock | `Start`, `Stop`, `Restart` | several invocations at a time, daemons that die, a lock that is dropped early | the pid file names the daemon that runs |
| `util/Config` | map from keys to values | `Parse`, the `Get` functions | words, comments and continuations told apart | reads what the file means |
| `log/Logger`, `log/LogStream` | a buffer of fixed size per statement | `operator<<`, header, trailer | lines that do not fit, conversion of numbers | nothing written behind the buffer, lines whole |
| `net/Socket`, small `base` headers | - | - | see section 8 | not modelled |

How they interact: other threads reach a loop through `RunInLoop`/`QueueInLoop`
(a closure in a `BlockingQueue`, and a write to the eventfd). A loop iteration
is *poll, channel handlers, timers, pending functors*. `TcpConnection`,
`Connector` and `TimerManager` are used only in their loop thread, except for
the flags that `Send`, `Shutdown`, `ForceClose`, `Connect`, `Stop` read or write
in the caller's thread. A connection's close callback tells its owner, which
queues `DestroyConnection` in the connection's loop: with a `TcpServer` and a
pool that takes two hops, from the connection's loop to the server's and back.
`Logger` makes a line on the stack of the logging statement; `AsyncLogging` writes
through a `LogFile` in a thread of its own.

`PROJECT.json` lists the hazards line by line with the properties that cover
them.

## 2. Modules

| Module | Models | State and actions |
|---|---|---|
| `EventLoop` | `EventLoop.cpp` | `pc` walks through `Loop()`; members keep their names. `Callers` are the other threads; a push (or the store to `quit_`) and the `WakeUp()` after it are two steps |
| `FunctorExecutor` | what `EventLoop` promises | a queue and what has run; the target of a refinement |
| `EventLoopThread` | `EventLoopThread.cpp`, `Thread::Start/Join` | extends `EventLoop` with the thread and the owner; `touched` records calls on a destroyed loop |
| `TcpConnection` | `TcpConnection.cpp`, its `Channel`, the owner's `RemoveTcpConnection` | a method is an operator from the record `conn` to the next, in which `taken` records the bytes `SendInLoop` took; loop phases as in `EventLoop`; unlocked calls of other threads are two steps; the high-water-mark callback runs where the code calls it and does one of `HighWaterCalls` |
| `BlockingQueue` | `BlockingQueue.h`, `Condition.h` | a step is one critical section; waiting threads have a status; a signal chooses a waiter; spurious wakeups |
| `ThreadPool` | `ThreadPool.cpp` | extends `BlockingQueue` and calls its actions; workers are some of its threads |
| `TimerHeap`, `TimerManager` | `Timer.cpp`, `Timer.h` | the heap as operators on a sequence (index + 1), a loop as its rounds; `HandleExpired` one iteration at a time, its callbacks interleaved with adds and cancels; time passes at any moment |
| `AsyncLogging` | `AsyncLogging.cpp` | lines are numbers; a buffer is the sequence of its lines |
| `Connector`, `TcpClient` | `Connector.cpp`, `TcpClient.cpp` | operators on the record `connector`; a failed assert is recorded in `failed` and ends the behaviour; `hurried` records that an iteration was so long that a timer set in it was due in it |
| `Buffer` | `Buffer.cpp` | operators on a record; `content` is the queue of bytes they are compared with |
| `LogFile` | `LogFile.cpp`, `FileUtil.cpp` | a line is its second; `written_bytes_` of a new file is any value of `Garbage` |
| `TcpServer` | `TcpServer.cpp`, `Acceptor.cpp`, `EventLoopThreadPool.cpp` | the server's loop, the loops of the pool and their functor queues; `~TcpServer` queues its closures one at a time while those loops run; of a connection what its owner has to do with, and the timers that keep it alive; a client may reset it; descriptors are counted, and each of the three calls with which `HandleRead` turns a client away is a step |
| `Daemon` | `Daemon.cpp` | a process is an invocation, a system call a step; file contents belong to inodes, so that an unlinked file lives on |
| `Logger` | `Logger.cpp`, `Logger.h`, `LogStream.cpp`, `LogStream.h` | operators: from a statement's pieces to the pieces in the buffer, and how far into it was written |
| `Config` | `Config.cpp` | operators: from the lines of a file, as sequences of characters, to the map and the result |
| `EventLoopThreadProofs`, `VectorProofs`, `TcpConnectionProofs`, `TcpClientProofs`, `ThreadPoolProofs`, `TcpServerProofs`, `LoggingProofs`, `DaemonProofs` | theorems about the modules they extend | section 6; `LoggingProofs` is about `AsyncLogging` and `LogFile`, `VectorProofs` about `TimerManager` and `Buffer` |

`MC*.tla` instantiate them for TLC. A definition whose comment starts with "A
slip" is not part of the model: it is a variant of the definition below it with
a plausible programming error, kept to show that a property can fail
(`PROJECT.json`, "mutants").

Abstractions. A functor, message, task or timer is a model value or a number.
The eventfd counter is zero or not. Plain `bool` members that several threads
use (`quit_`, `state_`, `running_`) are single steps: a data race on them has
the outcomes of some order of the accesses. In `TcpConnection` and `TcpClient`
that a queued closure gets the loop out of `epoll_wait` is taken from module
`EventLoop`, where it is proved. Asserts are compiled out in the default Release
build (`-DNDEBUG`); the model states them as properties and, after a failure,
says nothing about what follows.

Composition: `EventLoopThread` and `ThreadPool` extend the modules of the
components they use and call their actions. `TimerManager` uses `TimerHeap`,
`TcpClient` uses `Connector`. `TcpServer` composes the server's loop with those of
the pool and keeps of a connection only its owner's side. `TcpConnection`, `TcpClient`, `TcpServer` and
`TimerManager` each contain the loop's phases, not the whole of `EventLoop`, to keep their state
spaces within reach.

## 3. Runs

Passing runs:

- **event_loop_thread** (the owner and another caller, three functors): no lost
  wakeup for a functor or a `Quit`; functors once and in order; refinement of
  `FunctorExecutor`; a queued functor runs. The destructor joins if it alone
  quits the loop, no callback runs once it has returned, and it does return if
  the loop was running. The one access to a dead loop that remains, unless user
  code quits it too, is the second half of the destructor's own `Quit()`. Three
  functors suffice for one that is being run, one in the batch and one pushed
  behind it; two callers for a wakeup that is consumed on behalf of both.
- **connection**: the connection of a client or a server (`conn.elsewhere`), every
  call from the loop thread, from the high-water-mark callback and from another
  thread; two messages of two bytes (a partial write, one message behind
  another), one chunk from the peer, FIN and RST at any time. The bytes on the
  wire and in the output buffer are those `SendInLoop` took, in order; `EPOLLOUT` is watched exactly while there is
  output; `SHUT_WR` waits for the output; the connection closes once and is not
  registered again after it was destroyed.
- **tcp_server** (no pool, one or two loops; two clients; three descriptors, of which
  another thread may take one): the disconnect callback comes once, also when a step
  of the destructor meets a close under way in another loop, and for every connection
  but those the end of a loop catches; a timer of `ForceCloseAfter()` that outlives
  the server does not make a connection call it; the spare descriptor is opened
  again. A close travels through both loops, also with output pending; a client that
  finds no descriptor is turned away. Three descriptors are the spare one, and two
  for which two clients and the other thread compete, so that `accept` fails with one
  connection and with two.
- **thread_pool** (two workers, a client, bound one, five tasks, which may add
  tasks): no lost signal, complete stops, `Stop` returns, tasks run. Five tasks
  are what it takes to have both workers blocked in `AddTask` on a full queue.
- **timer_manager** (three timers, two intervals, two ticks to the millisecond).
  `MCTimerManager` also has TLC evaluate `HeapOperators`: each of the heap's
  operations on every heap of up to six timers (three levels, ties) gives a heap
  of the right timers.
- **async_logging** (buffers of two lines, overload beyond three buffers, ten
  lines, so that overload happens): file, buffers on their way and buffers still
  to fill hold, one behind the other, the lines appended but for those an
  overload dropped; the refill finds its buffers; a `Stop()` that finds the thread
  in its wait loses nothing.
- **client**: `Connect` once or twice, with `Disconnect`, `Stop` or the destructor in
  the loop thread or in another; attempts under way, refused and failed for good,
  with the backoff up to its cap; iterations of the loop of any length. After
  `Stop()` no connection comes up, and a connection that was lost is made again.
  Unless `Connect` comes with something left of the call before (`hasty`), there is
  one attempt at a time, and of the connector's asserts only `assert(!channel_)` can
  fail, in a `hurried` loop (`AssertsHold`).
- **buffer** (prepend area 2, size 1, two byte values, up to four bytes): growth,
  both directions of overlapping moves and the extra buffer of `ReadFd` occur.
- **log_file**: seven lines in days of four seconds, `written_bytes_` starting
  below, at or above the roll size: no file name twice, and the check for a new
  day or a flush is not put off for more than its `check_every_n_` lines.
- **daemon** (three invocations, two signals before `Stop()` gives up): a start, a
  stop and a third one that meets what they left behind. Invocations differ in
  their names only and no liveness is checked, so symmetry is sound.

Violation runs, each a disagreement between the code and what the repository says
of it ("findings" in `PROJECT.json` quotes the lines):

- **loop_thread_early**: destroying an `EventLoopThread` right after `Start()`
  can hang, `Loop()` having reset `quit_`.
- **connection_graceful**: `Send(); Shutdown();` in another thread can lose the
  message.

`Logger` and `Config` are functions and have no run of their own. What they compute
is stated as assumptions, which TLC evaluates at the start of a run:
**async_logging** those about `Logger` (`NumbersReadBack`, `LinesAreWhole`,
`LongLinesMayNotEnd`, `LevelsFilter`, on a buffer of 110 bytes that some
statements just fill and some do not fit in) and **daemon** those about `Config`
(`ParsesWhatIsMeant`, `FirstErrorReported`, `LongLinesSplit`, `Lookups`, on files
of up to three lines, each written in three styles).

The `TypeOK` definitions say what the variables hold; `EventLoop`'s is a theorem,
and none is listed in a run.

## 4. Bounds, and what lies beyond the passing runs

Every bound is a constant: `MaxRx`, `MaxQueued`, `MaxConnects`, `MaxTime`, `N`,
`MaxRuns`, `MaxLines`, `MaxLen`, `MaxReadable`, `MaxThreads`, `MaxClients`, `MaxOthers`,
`MaxTries`; functors, messages and items are
used once each, and which of the unused ones comes next makes no difference.
Counters of calls stop at two (`closes`, `downs`): the properties only
distinguish none, one and more. `CHECK_DEADLOCK FALSE` is set where the system
may come to rest: a destroyed connection, a stopped logger, all lines appended, a
destroyed client, a server without clients, a program that was stopped.

Two constants restrict a passing run to what the code gets right. Lifting the
restriction shows where it does not:

- `EarlierAdds = TRUE` (**timer_manager**): a callback that adds a timer due
  before its own moves its timer off the top of the heap; `HandleExpired` then
  sifts or pops the wrong entry (`Timer.cpp:46-51`) and `HeapOrdered` fails.
- `HighWaterCalls` with `"shutdown"` (**connection**): a `Shutdown()` in the
  high-water-mark callback comes before the rest of the message is in
  `output_buf_`; it does `SHUT_WR` at once and `ShutdownAfterDrain` fails: the
  rest is written to a socket that is shut down (`TcpConnection.cpp:106-120`).

Some properties name the one case in which they do not hold, as a history
variable; without that condition TLC finds it:

- `conn.revived` (`CloseOnce`, `NotRegisteredAfterDestroy`): `Shutdown()` in
  another thread may overwrite the `kDisconnected` of a close, and a
  `ForceCloseAfter` timer then calls the close callback again
  (`TcpConnection.cpp:124-125`, against the assert of `TcpClient.cpp:85`).
- `hasty` (`OneAttemptAtATime`, `AssertsHold`): a `Connect()` that comes while something
  is left of the call before - a state, a channel, a closure, a timer, a connection.
  `Disconnect()` leaves the connector alone, connecting or connected, and Start()'s
  closure then fails `assert(state_ == kDisconnected)` (`Connector.cpp:31`,
  `StartFindsDisconnected`). A retry timer survives `Stop()` and fires into the attempt
  of the next call: two attempts at a time, and `Connector.cpp:115` fails
  (`RetryFindsDisconnected`).
- `hurried` (`AssertsHold`): in an iteration that takes longer than a retry timer the
  next attempt comes before the channel of the last one is reset, and
  `assert(!channel_)` fails (`Connector.cpp:100`, `ConnectingFindsNoChannel`; it is the
  FIXME at `:161`). `AutoReconnect` ends where an assert does.
- `caught` (`DownOnce`): `~TcpServer` queues one `DestroyConnection` after the other
  and then has the loops quit. A loop that is calling a batch at that moment leaves
  at its test of `quit_` (`EventLoop.cpp:57-66`), and the closures behind the batch
  with it: their connections get no disconnect callback. `DownOnce` says that
  these are all, and that all of these are lost.
- `conn.reset /\ conn.out` (`PeerCloseRemoves`): the write to a connection that was
  reset fails, which is only logged (`TcpConnection.cpp:192-194`); the output
  stays, and so does the connection.
- `acceptor.stolen` (`SpareKept`, `BacklogServed`): another thread may open a file
  between the `close` and the `open` of the spare descriptor, which may then be
  gone for good, and a client be left waiting (`Acceptor.cpp:54-62`).
- `raced` (`PidFileNamesDaemon`, `StopLeavesNone`): of two overlapping starts both
  may run, since the lock of the pid file is taken after it was read and truncated
  and dropped as soon as the pid is written; a stop's `unlink` may remove the file
  of the next daemon (`Daemon.cpp:19-48, 100-123`).
- `misread` (the same two): `GetPidFromFile` ends the pid at the end of its
  uninitialised buffer, so digits left on the stack may lengthen it; `Start()`
  then takes a running daemon for a dead one, and `Stop()` may signal a stranger
  (`Daemon.cpp:36-48`).

Two more properties are stated and do not hold. `StopReleasesClients` under
**thread_pool** (the comment on `BlockingQueue::WakeUp`): `Stop()` calls `Restore()`
after joining its workers only, and a client blocked in `AddTask` may sleep again.
`DestroyedWithoutChannel` under **client** (the assert of `~Connector`,
`Connector.cpp:24`): the closure that resets the channel captures `this` and holds no
reference, so that a client destroyed before it has run takes the connector, channel
and all, with it (`Connector.cpp:160`).

Two things `TcpServer` leaves out. With a pool, a `RemoveTcpConnection` that one of its
loops queued before the destructor ran is called after the server's end, on the
`this` it captured (`TcpServer.cpp:66-73`); what it does then is undefined, and the
model has it do nothing. And users do not call `Shutdown()` or `ForceClose()` in a
thread that is not the connection's: what an unlocked store to `state_` may undo
is in `TcpConnection` (`conn.revived`).

The statements and files over which `Logger` and `Config` are evaluated leave out
what the code does in its own way. A line too long for the buffer loses single
pieces and perhaps its newline (`LongLinesMayNotEnd` shows one). In a file, a
comment behind an empty value is taken for the value, an `=` anywhere behind
`name :` ends the name, a value is the first word only, and a line of `MAXLINE`
characters or more is parsed in pieces (`LongLinesSplit`).

## 5. Fairness

- `EventLoop`: weak fairness of the loop thread's own steps and of a caller
  between its push and its `WakeUp()` - threads run. `epoll_wait` has to return
  only if the eventfd is readable; the 10 s cap of `Loop()` is not relied on.
- `EventLoopThread`: the same for the thread and the destructor.
- `TcpServer`: the threads run. A loop handles every ready channel in an iteration
  (epoll is level-triggered) and then its functors, so that neither of them
  starves the other: strong fairness of `HandleRead`, `HandleReadEof`,
  `HandleWrite` and `BaseFunctor`. A client that has not reset its connection reads
  what it is sent. Nobody has to connect, to close or reset, to let a timer expire
  or to destroy the server.
- `TcpConnection`, `Daemon`, `Buffer`, `LogFile`: safety only, no fairness.
- `ThreadPool`: threads run and get the mutex; tasks return.
- `AsyncLogging`: the thread runs and `TimedWait` ends.
- `TcpClient`: the threads run; a server that is up now and then lets an attempt
  made again and again get under way and succeed (strong fairness of the retry
  with outcome "pending", and of `ConnectorWritable`). Nobody has to call
  anything.

## 6. Proofs

The proof modules extend the modules they are about and hold for every value of
the constants, under the assumptions named here. Each theorem is proved from an
inductive invariant: it holds initially, each action preserves it (a lemma per
action or group of actions) and it implies the property. Induction over data, where
it is needed (heaps, copies, lines, files), is by the least element of a set of natural
numbers (`LeastNatural` or `InductionUpTo`, from the library's theorem that `<` is well founded).

### Loop and timers

The first part of `EventLoopThreadProofs` is about a loop, for every set of callers
and of functors:

- `TypeCorrect`: `Spec => []TypeOK`;
- `WakeupsAreKept`, `FunctorsInOrder`: the safety invariants of a loop in run
  **event_loop_thread**;
- `PopDoesNotBlock`: `Spec => []PopNeverBlocks`, the loop thread finds an element
  whenever `CallPendingFunctors` calls `Pop()`;
- `LoopImplementsExecutor`: `EventLoop` refines `FunctorExecutor`.

`NoLostWakeup` is not inductive: it speaks of `epoll_wait` only, while a wakeup
is lost or kept earlier. The inductive invariant `IInv` carries it backwards
(`WorkInv`): while `CallPendingFunctors` runs, anything queued beyond the batch
has a wakeup, because `pending_functors_calling_` is set (`FlagsInv`) and so the
loop thread writes the eventfd itself; at the `while` test after an iteration
anything queued has one. `PopNeverBlocks` holds because only the loop thread
pops; `FifoExactlyOnce` rests on two lemmas about sequences (`AppendConcat`,
`ShiftHead`). The refinement needs that a fresh functor is neither queued nor
run, which is `FifoExactlyOnce` again. This part needs no assumption on the
constants.

The second part (assumption: the owner is a caller, `OwnerAssumption`)
carries `IInv` over to a loop on a thread's stack: `LoopInThreadKeepsWakeups`
and `ThreadImplementsExecutor` are the loop's theorems again, since every step of
thread and owner is one of the loop, leaves it alone, or is a `WakeUp()` on a
destroyed loop. `NoLateCallback` and `OnlyOwnQuitTouches` need three more parts:
the flags follow from where the thread is (`ThreadFlagsInv`), what `Start()`
has waited for has happened (`StartedInv`), and while only the destructor quits,
the thread is in `Loop()` until it does (`QuitInv`).

The first part of `VectorProofs` proves all four properties of run **timer_manager** for any
number of timers, deadlines, intervals and resolution of the clock:
`HeapStaysOrdered`, `NoTimerIsLost`, `SleepsUpToDeadline`, `ExpiredHaveRun`. Their
premise is that no callback adds a timer due before its own (`~EarlierAdds`);
without it they are false, as section 4 shows. The heap comes first. The
loops of `UpInHeap` and `DownInHeap` are sequences of rounds, which exist
(`RoundsExist`); a round keeps the heap in order but for one place, above which
(`UpOK`) or below which (`DownOK`) there may still be something to exchange, and
there are enough rounds for it to have gone to the end of its path. `TopIsFirst`
is the induction that takes the order from parent and child to the whole heap.
`PushOrders` and `PopOrders` say that the heap then holds one timer more, or all
but its top. Then the protocol: each timer is in one place, once (`PlacesInv`),
and the one whose callback runs is at the top (`RunningInv`), which is what makes
`heap_[0]` after the callback the entry that it was before. That is where the
premise is used: a push of a timer not due earlier leaves the top where it is.

### Connections

`TcpConnectionProofs` (`TcpConnectionAssumption`: messages have a byte) proves the
five invariants of run **connection** for any messages, users, calls and
high-water mark: `WriteInterest`, `BytesComeInOrder`, `ClosesOnce`,
`DestroyedForGood` and, if the
high-water-mark callback does not call `Shutdown()`, `ShutdownComesLast`. Each
method has a lemma that takes a good record (`RecordOK`) to a good one, so that
a handler's lemma follows from those of the methods it calls. `ClosedOK` says
what makes a close final: the state stays `kDisconnected`, nothing is watched,
and no `EPOLLIN` of the present batch is left (`LoopInv`), so that neither a
handler nor a timer nor a closure gets to `HandleClose` again. `OrderOK` and
`ConnectingInv` order the closures: `EstablishConnection` first and once,
`DestroyConnection` behind a close. For the bytes, `InOrder` holds of the record
between any two methods: `SendInLoop` and `HandleWrite` change it together with
what they take and write (`AcceptInOrder`, `DrainInOrder`), and the others leave
the bytes alone (`SameBytes`).

The second part of `VectorProofs` (`BufferAssumption`: sizes and bytes are natural
numbers) proves `BufferIsQueue`, that is `HoldsTheBytes`, for any prepend area,
initial size and `extra_buf`. `CopyMoves` and `CopyBackwardMoves` say what a copy
between overlapping regions comes to, byte by byte: the right direction for each
case reads every byte before it is overwritten. Each operation then has a
lemma that takes a record that holds `q` (`Holds`) to one that holds what a queue
would. `Holds` also says that the vector never gets shorter than `kPrependSize`,
where both indices go when the last byte is released.

`TcpClientProofs` (`ConnectorAssumption`) proves `TypeCorrect`, `OneAttempt`,
`AssertsAreKept` and `StopIsFinal`. What may lead to an attempt - a queued `Start()`,
a channel, a timer, a connection, a `Restart()` under way - is counted
(`Attempts`), and there is never more than one (`Apart`): each step that adds one
takes another away, and a `Connect()` that is not `hasty` finds none. Beyond that
the code does not promise it (section 4). Nothing is assumed of the loop's speed.
Whatever comes, an attempt is made in state `kDisconnected`, so that two of the asserts never
fail (`FewAsserts`); for the third, until the loop has `hurried`, the queued reset
of a closed channel is run in the iteration in which it was queued (`ResetSoon`),
before a retry timer or a connection made in that iteration can lead to the next
attempt. `StopIsFinal` is about any
number of calls: with all calls in the loop thread, a `Stop()` leaves behind no
closure but a reset, and both `start_` flags false (`StopInv`), so that timers
and connections that are still to come end there.

`TcpServerProofs` (`FdLimit` positive) proves for any number of loops, clients and
descriptors:

- `SpareDescriptorKept`. The spare
  descriptor needs that `Free` is never negative and that `accept()`, after the
  spare one was closed, finds a free one unless another thread came first
  (`SpareInv`); for that no step may open a connection that is not counted, so
  functors have to name connections that are open already. `BatchInv` says that a
  loop has the functors it is about to call.
- `ToldOfEndOnce` (`DownOnce`), from `RouteInvariant`. What is left to do for a
  connection is a ticket: an "establish", "remove" or "destroy" functor in a queue.
  No ticket is there twice and no "establish" stands behind a "destroy"
  (`WellOrdered`); each is in the queue of the loop that may carry it out
  (`TicketOK`); `StageOK` says which tickets there may be for a connection and that
  it is listed in the server, has a "destroy" ticket or is in `caught` for as long as the user has
  not been told of its end. `PhaseInv` describes the loops from the beginning of `~TcpServer` on: none is told
  to quit before every connection has its ticket, and from then on a "destroy" ticket
  that is not in `caught` is in the batch its loop has yet to call or is met before
  the loop tests `quit_` again, while the loops go on running between any two steps of the
  destructor. The order in which it takes the connections is arbitrary.
- `DeadServerNotCalled` (`DeadServerUntouched`), from the same invariant: when the
  server is gone a connection that a timer still holds has been told of its end and is
  disconnected and unregistered, or it was in a loop of the pool, which has ended
  and dropped its timers.

### Threads, logging, daemon

`ThreadPoolProofs` (finitely many threads, workers among them, any `maxsize_`)
proves `NoElementIsLost`, `NoSlotIsLost`, `StopLeavesQuiet` and `BoundHolds`.
`NoLostElement` and
`NoLostSlot` compare the length of the queue with the number of threads in some
status; each is disturbed by steps the other one is about, so that they are
inductive together only (`QueueIInv`), with `WakeUpInv` for `Restore()`. The
lemmas count what a move of one thread, or of two when a signal wakes one,
changes. `WorkerInv` and `OwnerInv` tie the queue's threads to the workers:
joined workers are not in the queue's code, so `Start()` finds it at rest.

`LoggingProofs`, about `AsyncLogging` (buffers hold a line, an overload limit of two
or more):

- `RefillNeverFails`: a spare that is missing was exchanged for a written
  buffer, and an overload leaves two of those (`SparesInv`).
- `LinesStayInOrder`: file, buffers and current buffer, joined, are the lines
  appended, in increasing order, without those dropped (`LinesInv`). Appending, swapping and writing
  only regroup that sequence; an overload cuts a piece out of it. Increasing
  sequences with the same members are equal, so one says which lines there are
  rather than how the code moved them.
- `StopLosesNothing`: the lines before a `Stop()` that came in the wait stay where the
  thread will write them from, at each step up to its exit (`StopInv`).

About `LogFile` (positive intervals, any `written_bytes_`): `NamesUnique`
and `ChecksInTime`. Files are opened at increasing times (`OpenedInv`), since
`RollFile` does nothing in the second of the last roll. Late and overdue lines
are paid for by `count_` (`CountInv`): it counts every line that was appended
without the check, and only the check resets it.

`DaemonProofs` (pids differ from "none" and from a stranger's) proves
`PidFileNames` and `StopIsComplete` for any number of invocations. While nothing
has raced or been misread, an invocation in `Start()` is alone there
(`StartAlone`), the file is the one it opened (`OpenFile`), from the write to the
unlink it names the daemon (`FileNames`), and what `Start()` or `Stop()` has read
still is the daemon that runs (`SeenIsCurrent`). Processes may die in any state.

## 7. Only model-checked

Liveness under fairness (`QueuedRuns`, `DestructorOfRunningLoopReturns`,
`PeerCloseRemoves`, `BacklogServed`, `StopReturns`, `AutoReconnect`, ...) is out of
the prover's reach; every safety property of a passing run is a theorem.
What `Logger` and `Config` compute is evaluated on small inputs.

## 8. Not modelled, and the plan

Not modelled and not planned: `Socket`/`InetAddr` (wrappers of system calls, part
of the environment), `Duration`, `Timestamp`, `Atomic`, `Mutex`, `Memory`,
`CurrentThread`, `Util` (no protocol of their own), `example/` and the tests.

Of modelled components: several channels in one batch of `epoll_wait` and a
handler that destroys the owner of another one (the modules have one channel
each), `Channel::Tie`, a `Send()` inside the high-water-mark callback, `~TcpClient`
with a live connection, `Buffer::Swap`, `Config::GetDouble` (`strtod`), `kill()`
failing with `EPERM`, the calling-thread asserts of `EventLoopThreadPool`.

Order of the plan; items 1 to 9 are done but for what the last paragraph lists:

1. `EventLoop`, its abstract executor and the proofs;
2. `EventLoopThread`;
3. `BlockingQueue`, `ThreadPool`;
4. `TcpConnection`;
5. `TimerHeap`/`TimerManager`, `Connector`/`TcpClient`;
6. `AsyncLogging`, `LogFile`, `Buffer`;
7. `TcpServer`, `Acceptor`, `EventLoopThreadPool`;
8. the high-water-mark callback;
9. `Daemon`, `Logger`, `Config`;
10. proofs: the safety properties of all runs (done, section 6); left are that the
    blocking queue implements an abstract bounded queue, that `ThreadPool` runs
    each task once, and that no output of `Logger` passes the end of its buffer.
