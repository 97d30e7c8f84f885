# A TLA+ verification of oop_muduo

oop_muduo is a C++11 network library in the style of muduo: one reactor
(`EventLoop`) per thread, an epoll wrapper, timers, TCP servers and clients built
on the reactor, and a small HTTP server on top. This directory holds TLA+ models
of it, the TLC configurations that check them on small instances, and theorems
about them that TLAPS checks for every value of the constants. The models follow
the code in `src/`; where a comment and the code disagree, the code is modelled
and the disagreement is recorded by a run that is expected to fail.

## 1. Inventory

Everything runs on threads that share memory. A loop thread owns an `EventLoop`
and all the handlers registered with it; other threads reach it only through
`runInLoop`, `queueInLoop`, `quit`, `wakeup` and the calls built on them.

| Component | State it keeps | Operations | Talks to |
|---|---|---|---|
| `EventLoop`, `WakeupFd` (net/EventLoop.*) | `looping_`, `quit_`, `functorPending_`, `pendingFunctors_` (under `mutex_`), the counter of the eventfd, the list of active handlers | `loop`, `quit`, `wakeup`, `runInLoop`, `queueInLoop`, `doPendingFunctors` | handlers (callbacks), any thread (functors) |
| `EventLoopThread`, `Thread`, `CountDownLatch` (net/EventLoopThread.*, base/Thread.*, base/ThreadUtil.*) | `loop_` (a pointer to a local variable of the child), `mutex_`, `cond_`, the start latch | `startLoop`, `threadFunc`, the destructor | its `EventLoop`, its owner |
| `Epoll`, `FdHandler` (net/Epoll.*, net/FdHandler.*) | `events_`, `state_in_poll`, `fd2handler`, the interest list in the kernel | `updateHandler`, `removeHandler`, `updateInPoll`, `poll`, `handleEvent` | the kernel, every subclass of `FdHandler` |
| `TimerQueue`, `Timer` | `timers_` by time, `activeTimers_` by address, `cancelingTimers_`, the timerfd | `addTimer`, `cancel`, `handleRead`, `reset` | its loop; any thread through `runInLoop` |
| `ListeningSocket` | the socket, `idleFd_` | `startListen`, `handleRead`, `accept` | `TcpServer` |
| `LinkedSocket` | `state_`, `outputBuffer_`, `inputBuffer_`, its reference count | `send`, `shutdown`, `forceClose`, `handleRead/Write/Close` | its owner (`LinkOwner`), its loop |
| `TcpServer`, `EventLoopThreadPool` | `name2connection`, the loops, `next_` | `start`, `newConnection`, `delConnection`, `getNextLoop` | base loop, IO loops |
| `TcpClient`, `ConnectSocket` | `connect_`, `retry_`, `tcpLinkSPtr_`, `connectState_`, `retryTimeMs_` | `connect`, `disconnect`, `stop`, `retry`, `handleWrite` | loop, timers |
| `Buffer` | reader and writer index into a vector | `append`, `retrieve`, `prepend`, `readFd` | `LinkedSocket`, `HttpContext` |
| `HttpContext`, `HttpServer` | the parse state of each connection | `parseRequest`, `rcvMessage`, `rcvRequest` | `TcpServer` |
| `Logging`, `InetAddress`, `Socket`, `StringPiece`, `Timestamp`, `Atomic`, the two `main`s | none that matters to a protocol | | |

What is hard in it, and what makes each part correct:

* **Reactor.** A functor is queued in one step and the loop woken in another; the
  same holds for `quit()`. No wakeup may be lost, functors run once each and in
  order, they cannot starve the descriptors, a quit ends the loop.
* **Loop threads.** A pointer to another thread's stack is published, used and
  withdrawn; the destructor reads it without the lock. The pointer must be that of
  a live loop, `startLoop()` and the destructor must return.
* **Registration.** Handler, map and kernel must agree while descriptor numbers
  are reused, no assertion may fail in a legal life cycle, no descriptor may leak.
* **Timers.** The two sets must hold the same timers, and a nonempty set must have
  its timerfd armed for the earliest; `cancel` may overtake or race the timer.
* **Connections.** Calls of other threads race the close of the connection, a
  handler may be destroyed inside its own `handleEvent()`, bytes must leave in the
  order they were sent, and shutdown must wait for the buffer.
* **Server and pool.** The connection map is used by two threads.
* **Client.** Retries, stop and restart in any order; one descriptor, one owner.
* **Buffer and HTTP.** Index arithmetic at its boundaries; the parser must not
  depend on how the bytes were split.

`PROJECT.json` lists the hazards one by one at their lines, with the properties
that cover them.

## 2. Modules

| Module | Models |
|---|---|
| `SerialExecutor` | abstract: a queue whose tasks are run one at a time, in order, once, while it is open |
| `EventLoop` | net/EventLoop.*; implements `SerialExecutor` |
| `EventLoopThread` | net/EventLoopThread.*; extends `EventLoop` with the owner, the child's life and the end of the objects |
| `Poller` | net/Epoll.*, net/FdHandler.*, and the registrations of every subclass over its life |
| `ByteStream` | abstract: bytes leave once and in order, and the end of the stream after them |
| `LinkedSocket` | net/LinkedSocket.*, the dispatch of net/FdHandler.cpp; implements `ByteStream` |
| `TimerQueue` | net/TimerQueue.*, net/Timer.* |
| `TcpClient` | net/TcpClient.*, net/ConnectSocket.* |
| `ByteQueue` | abstract: a queue of bytes written at its end, read from its front, with a header put before it |
| `Buffer` | base/Buffer.*; holds what a `ByteQueue` holds |
| `HttpContext` | the parser of net/simple_http/HttpContext.*, HttpRequest.h, as operators, and a reference for it |
| `TcpServer` | net/TcpServer.*, net/EventLoopThreadPool.*: connections, their map and the loops of a pool |
| `HttpServer` | net/simple_http/HttpServer.* on `TcpServer` and `HttpContext`, with its clients |
| `SequenceLemmas` | facts about sequences the proofs share |
| `EventLoopProofs`, `PollerProofs`, `LinkedSocketProofs`, `TimerQueueProofs`, `TcpClientProofs`, `BufferProofs`, `HttpServerProofs` | theorems, one module for each component; `EventLoopProofs` also covers `EventLoopThread` |
| `MCPoller` | the symmetry of the `Poller` instance |

How they fit together: `EventLoop` proves that a loop is a serial executor, and
`LinkedSocket`, `TimerQueue` and `TcpClient` use a loop as exactly that, a queue of
functors between whose runs the poller reports events. Their fairness rests on the
progress `EventLoop` checks. `HttpServer` composes: it extends `TcpServer` and
`HttpContext`, takes a buffer for the queue `Buffer` shows it to be, and a loop for
one that runs what is queued and looks at what is readable. What a descriptor's registration may and may not do is
in `Poller` alone; the others assume it, except where an assertion of the poller depends on
a race of their own (`ModifiedIsAdded` of `LinkedSocket`).

Operators whose comment begins with "Mutation" are faulty variants of the
definition that follows them. No specification uses them: each shows that a
property would notice that fault. Variables carry the names of the fields where there is one.
A variable marked "history" is no state of the program; it records what a property speaks of.

### EventLoop

`pc` is where the loop thread is: outside `loop()`, at the `while` test, in
`epoll_wait` (`poll`), dispatching, about to swap the queue, running the batch. `stack`
is the user code the loop thread is in, `call[th]` the second half of a call a thread
still owes: `queueInLoop()` is `QueueInLoop` (the `push_back` under the mutex) and then
`QueueWake` (the test of `functorPending_` and the write), `quit()` is `Quit` and then
`QuitWake`. User code is anything: in a callback or functor, and before and after
`loop()`, the loop thread makes any calls, nests `runInLoop()` up to `MaxDepth`, and
returns. The eventfd is a Boolean, since one read empties it. `quit_` and
`functorPending_` are plain `bool`s: the second is read by the loop thread only (the test
short-circuits for the others), the first once per round across calls the compiler cannot
see through.

`early` is how many of the queued functors the loop thread queued before it entered
`loop()`. Those set no eventfd; the code leaves them to the timeout of `epoll_wait`,
10 s. `NoLostWakeup` leaves them out; `ExecutorProgress` covers them: if
the timeout does occur, the loop keeps every promise of progress of the executor. That a
wakeup is not missed, and the 10 s not waited for, is `NoLostWakeup`.

The refinement maps the executor's queue to `functors \o pendingFunctors_`, so that
the swap is a stutter, and its running task to the outermost function of the batch.

A comment at TcpServer.cpp:62 says that an eventfd written by another thread cannot
wake the main one, and that connections are therefore removed in their own threads;
`NoLostWakeup` and `ExecutorProgress` show that it does wake it.

### EventLoopThread

`child` and `owner` are program counters for `threadFunc()` and for the owner in
`startLoop()` and `~EventLoopThread()`. The loop exists while `Alive`. A step on an object that
was destroyed, or through `loop_` after it became NULL, sets `fate` to `undefined`, a
failed assertion sets it to `abort`, and the model stops. `userQuit` splits the two cases
the comment in the destructor mixes: if the program itself quits the loop, the
destructor's unsynchronised read can go wrong; if not, the only access to a dead object is
the late write to the eventfd of a call that was under way when the loop ended
(`OnlyLateWakeIsUndefined`, and that is the "not 100% thread safe" of `quit()`).
An owner that destroys the object while its child is still starting leaves a detached
thread; `owner = "gone"` and `Destroy` from state `new` cover what the program can do
sequentially; a destructor that runs concurrently with `startLoop()` is not a legal use.

`src/CMakeLists.txt` does not define NDEBUG, and there the end of any loop aborts the
process: `~TimerQueue()` removes its handler with events enabled (`isNoneEvent`, one
of the failures `FailuresAreKnown` of `Poller` names). The runs of this module set `NDebug` to TRUE,
so that what follows the end of the loop is explored at all.

### Poller

One record, `table`, holds the three views: the fields of the handlers, `fd2handler`, and
the kernel's interest list and masks. Operations on the table are operators that
compose as the calls do, and the first failed assertion or LOG_FATAL stays in
`table.failed`, with the handler it concerns in `table.culprit`. Each action is a whole
callback of a class: a link that is closed is disabled, dropped by its owner and destroyed
in one action, or in two when a shared pointer keeps it. The destructor of a server is a
sequence of actions, one for each link it still holds and one for its descriptors, and no
other action runs before the last of them (`Destroying`). Descriptor numbers are given out
arbitrarily among the free ones, so they are reused in every way. Any call that opens a
descriptor may instead be refused (`NoFd` among the `Offered`), whether or not one is free,
since other loops, the program and other processes use up the same limits; so may `bind()`,
`listen()`, `accept()`, and the `getpeername()` of a connection that the peer has just reset
(`PeerGone`). All of these are LOG_FATAL, `epoll_create1()` by way of the first `epoll_ctl`;
only the reserve of the listening socket can be missing. `epoll_fd` itself is not counted.
A link of a client may be shared like one of a server, so that the next attempt, or the end
of the client, comes while its descriptor is still open. Server links run in the
base loop here (a pool of no threads). Data, callbacks and timers are left out: when the
kernel reports an event is arbitrary.

`ViewsAgree` is about all three views at once. `Program` says what a program does; the run
is about all of them. `FailuresAreKnown` draws the line: beside the refused calls
(`KernelRefused`), the removals that do fail are those of the timerfd (`~TimerQueue()` removes it with events enabled), of a client's
handlers (its link is removed by `delConnection()` and again by its destructor) and of a
server that was never started, and `accept()` aborts on every error, so that the branch for
EMFILE in `handleRead()` is dead; nothing else in the life of a server or of the eventfd fails.
It speaks of `FdHandler`, `Epoll` and the calls named above. An `epoll_ctl` that
is refused for want of memory, with a right descriptor, is not in it, nor are the assertions of other
classes, which the other modules state.

### LinkedSocket

One connection of a server whose base loop is also its IO loop, with its socket:
`output` is `outputBuffer_`, `wire` what the socket has taken, `fin` the shutdown of the write
side, `broken` a connection the peer has reset. `pc` and `revents` place the loop thread in
`handleEvent()`, whose branches are separate actions, because user callbacks run
between them and may send, shut down, force a close or drop pointers. A message is two
bytes, so a write can take none, a part or all of it. `OtherCode` is what the loop thread does
outside the functors and events of this link.

Calls of other threads are as many steps as they have unsynchronised accesses:
`shutdown()` and `forceClose()` test `state_`, set it, and queue their functor. The
functors of `send()` and `shutdown()` hold raw pointers; `queue`, `owned` and `holds` are
the places a pointer can be, and a step on a link without any shared pointer makes
`fate` `undefined`: when the last one goes outside the loop thread, under a handler
that still runs, or before a raw functor. `Keeper` is the set of threads that never give theirs
up. `prepare()` is queued even where `runInLoop()` would call it directly; its caller is in the loop thread and
nothing comes in between.

`carry` is for the high-water-mark callback, which is called in the middle of
`sendInLoop()`, between the write and the `append`: a callback that sends again is a level of its own, and
its bytes enter the buffer before those of the call it interrupts. Hence `StreamSafety`
and `SentInOrder` are about links without such a callback (`HighWater` FALSE), the safety
of the state about links with one.

Two things the code does and the model has accordingly: `forceClose()` closes nothing (it
sets `state_` to kDisconnecting, and its functor acts only on kConnected), and a message a
thread has handed over is dropped if its functor finds a link that was closed meanwhile.
Assumed: the server outlives its links; SIGPIPE is ignored, as
net/EventLoop.h:30 does. The branch of FdHandler.cpp:48 for a hangup without data to read is not
reached: a TCP socket that is hung up is also readable, and every registered link asks for
reading, so the read branch, which is modelled, closes it.

### TimerQueue

`timers_` is a set of pairs (expiration, address), `activeTimers_` of (address, sequence),
as in the code; timers live at addresses that are reused, and a freed address keeps its
content until it is. Functors of other threads wait in `queue`. A due timerfd is reported
(`Poll`) and dispatched (`HandleRead`) in two steps, with functors possibly between them;
`handleRead()` takes the expired timers, runs them one at a time, in an arbitrary order
where the code's is by address, with any calls of the loop thread inside each callback,
and `Reset` is the rest.

A unit of `clock` is no shorter than the 100 microseconds below which the code never arms
the timerfd; one clock stands for `gettimeofday` and for the timerfd's. `addTimer()`
of another thread is the hand-over and then the read of the sequence for its `TimerId`; a late
read gives what memory holds. A `Timestamp` of 0 is invalid, as in `reset()`. A cancel that overtakes
the add it refers to is ignored by the code, and one made by another callback
of the same batch does not keep the timer from running once more: `CancelSticks` says
what is left of the promise, that such a timer never waits again.

### TcpClient

A client and the socket that connects for it. `connectState_` and `polled` are those of
`ConnectSocket`, `link` what `tcpLinkSPtr_` points to, `open` counts the descriptors. The calls
`connect()`, `stop()` and `disconnect()` are two steps each, the assignment of
`connect_` and the rest, in the loop thread too; `disconnect()` is three, for it looks at the pointer under
a mutex that the loop thread does not take when it resets it. `undefined` is set where that goes wrong, and the model stops.
`status` says whether the client is trying or why not: stopped, dropped
(a link ended and no other was wanted), or hopeless (`connect()` failed for good, which leaves
`connectState_` at kConnecting; ConnectSocket.h:19 and :21 promise retries without this exception, which
`NeverGivesUp` makes).

A retry timer may be due at any time, so the growth of `retryTimeMs_` is left out. The
registrations, and the assertions they violate, are in `Poller`; here the build is one
without assertions. What happens to a link between its creation and its end is in
`LinkedSocket`. Code behaviour the model shows and no comment speaks of: `stop()` does not
cancel the retry timer; it is always queued while `start()` of the loop thread is done at once, so
the two can change places; after a link was dropped the state stays kConnected and
`connect()` does nothing. `delConnectionCallback_` has no setter, and is left out.

### Buffer

`buf` has the vector and the two indices; the private functions (`makeSpace()`,
`ensureWritableBytes()`) are operators on it, the public ones actions, and those that only
call another (`retrieveUntil()`, `appendInt64()`) are named at the action they come to. The caller
keeps what the functions assert of their arguments, as guards. The assertions about the
state are checked: that there is room after `makeSpace()`, and that where the content is moved
down it has somewhere to go (`RoomAsserted`), for the copy overwrites as it reads.
`readFd()` is what `readv()` does with two pieces of memory. `content` is a history, changed by the
operations of `ByteQueue`: `HoldsQueue` is the refinement, stated as an invariant. `peak` is the
most that was ever wanted at once, in terms of which `GrowthIsBounded` bounds the vector.

Left out: `swap()`, which exchanges two buffers, and `shrink()`, which is commented out. The integers are
written as bytes. `findCRLF()` is in `HttpContext`, where it is used.

### HttpContext

The parser is a recursive function over a record of progress, `Parse`, whose rounds are those
of the loop in `parseRequest()`. Text is abstracted to the questions the parser asks of a line (is there
a space, a known method before it, a colon); a line is a symbol for it and the two characters of its
end, which may be read apart. `Reading` is what lines mean when they are
read as a whole, written without the parser and without recursion: a request is a request line, fields and a
line that is none (`IsRequest`), a cut of the lines is where requests end that follow each other
from the first line on (`Cuts`), and the requests are those of the longest cut. What the code does and the model has accordingly: a bad request
line stays in the buffer with the method it began with, and the next read of that connection
finds it again, where `setMethod()` asserts that no method is set; a header line without a
colon ends the header, whether it is empty or not; one request is taken at a time, and what
arrived behind it waits for the next read.

### TcpServer and HttpServer

`at[t]` is where the thread of loop `t` is and with which connection: in `epoll_wait`, at one of
the steps of `newConnection()` of either class, or inside `erase()`. An operation on
`name2connection` is two steps, since the map has no lock: a second one that begins
before the first has ended is `mapRace`, and the model stops, as it does at the failed
assertion of HttpServer.cpp:101 (`notFound`), at the null pointer that `operator[]` inserts
(`nullLink`), and in `setMethod()` (`methodTwice`). `prepare()` runs at once if the
connection is given to the base loop, and through the queue of its loop otherwise, in the
order of the hand-over.

The clients in `Talker` write arbitrary lines and close when they like; the sockets deliver
them in pieces of any length. `HttpServer::rcvMessage()` is one step (`Receive`): it is one callback
of one loop, and touches nothing of another thread but the context, whose setting by the base loop
is a step of its own. So a connection can be read before it has a context (`early`: the
bytes stay in the buffer), or be closed before it gets one (`Leaked`).
`HttpFailuresAreKnown` says under what conditions each of these happens, and that none but
`methodTwice` does in a server without threads. `WaitingClientIsAnswered` is
about clients that wait for their answer, have a context, and wrote nothing `ahead` of it: for the others
the code promises nothing, because of what waits in the buffer. `spins` would be a `parseRequest()` entered in the state
kGotAll, which has no case there and loops for ever; `HttpFailuresAreKnown` includes that it does not happen.

A server whose pool is still running when it is destroyed is left out: nothing in the
repository stops the loops of a pool or destroys a server before the process ends.
`state_` of the connections is what `LinkedSocket` allows; their output, which is that module's
subject, is a count of answers.

## 3. Runs

| Run | Checks | Bounds |
|---|---|---|
| `EventLoop` | `TypeOK`, `NoLostWakeup`, `NoLostQuit`, `ExecutorSafety`, `ExecutorProgress`, `LoopPolls` | 2 callers, 2 functors, 1 descriptor, 3 pending, nesting 2 |
| `EventLoopThread` | `ThreadTypeOK`, `OnlyLateWakeIsUndefined`, `StartLoopReturns`, `DestructorReturnsIfLooping` | owner, child and a third thread |
| `EventLoopThreadQuitLost` | `DestructorReturns` fails | owner and child |
| `Poller` | `TypeOK`, `ViewsAgree`, `DescriptorsOwned`, `FailuresAreKnown` | a server and a client with 2 links each in a loop, 6 descriptors, any call refused at any time, every program; symmetric |
| `LinkSafety` | `TypeOK`, `WriteInterest`, `ClosedOnce`, `KeptIsSafe` | 2 callers, one keeps its pointer, 1 message, high-water-mark callback |
| `LinkStream` | `SentInOrder`, `StreamSafety`, `ShutdownEnds` | 1 caller and the loop thread, both keep their pointer, 2 messages |
| `LinkLateShutdown` | `ModifiedIsAdded` fails | 1 caller, 1 message |
| `TimerQueue` | `TypeOK`, `SetsAgree`, `OwnedOnce`, `ArmedForEarliest`, `CancelSticks`, `TimersRun` | 1 caller, 2 addresses, 2 timers created, times to 2, intervals 0 and 1, 2 functors |
| `TimerIdRace` | `SequenceOfLiveTimer` fails | 1 caller, 1 address |
| `TcpClient` | `TypeOK`, `OneConnection`, `NeverGivesUp`, `OneChainPerCall`, `KeepsTrying` | 2 callers and the loop thread, 3 calls of `connect()`, 3 functors |
| `Buffer` | `TypeOK`, `HoldsQueue`, `GrowthIsBounded` | 2 bytes, header 2, initial size 1, extra 2, 3 bytes a call, 4 readable |
| `HttpServer` | `TypeOK`, `OpenLinksAreOwned`, `HttpFailuresAreKnown`, `ParsedAsWritten`, `WaitingClientIsAnswered` | a pool of 0 or 1 threads, 2 connections, one of which writes, 4 lines of 3 kinds |

The bounds are enough for what the properties are about. A lost wakeup needs one
queued functor and one thread between its two steps; two callers let one be in the
middle while another completes, and a queue of three holds a functor of each thread
and one from inside the batch. Order needs two distinguishable functors or messages. Nesting 2
is a functor that calls `runInLoop()` inside a callback. In the poller, a number must be
freed and given to another kind of handler, and a second link be made while the first is
still shared, of a server and of a client; six descriptors are the two of a loop, the two of a
listening socket, and two that the links and the connector take from each other. In a
link, two callers let one be between its test and its assignment while another closes
the race, and the split message gives a buffer that is empty, partly and completely written. Two
timers are one that expires and one that its callback cancels or adds, with repeating ones
adding themselves for as long as the clock runs; the addresses are reused by a timer
created after one was deleted. Three calls of `connect()` are an attempt, its retry, and calls that
meet both. In a buffer, a chunk is longer than the initial room and than what can be prepended,
so that every write meets a buffer that has room, has it after a move, or must grow, and 4 readable bytes let
a read spill over after both. In the HTTP server, one thread besides the base loop is
what it takes to race for the map, and a pool of none is the default of SimpleHttpServer.cpp;
4 lines are a request with a field and the line that ends its header, and the next request line, good or bad.
A request line in the place of a header has no colon and ends the header, so the empty line needs no symbol in this run.
Four lines are too few for a second request with a field to be complete; that several requests keep their order
and their own headers is `ParsedAsWrittenHolds`, for any number of lines.

Runs that stop by nature say `CHECK_DEADLOCK FALSE`: a thread that has ended, a
process that has aborted, a clock or a number of messages used up. The `EventLoop` run checks deadlock.

### Fairness

* `EventLoop`, `EventLoopThread`: every thread is scheduled, so a step of library code that
  stays enabled is taken (weak fairness), and so is the second half of a call. User code returns:
  its return is disabled each time it makes a call, so that is strong fairness, one
  condition for each depth of nesting. Nothing is assumed of the outside: no
  descriptor becomes ready, no thread calls, `loop()` need not be entered, no condition
  variable wakes spuriously. `epoll_wait` must return only if the eventfd is set;
  that its timeout occurs is a premise of `ExecutorProgress` alone.
* `LinkedSocket`: what the loop has begun it goes on with, queued functors run, callbacks
  return and calls that began end; these are strong because other code of the loop thread
  disables them now and then. A peer that has not reset the connection goes on reading, so a
  socket is reported writable again and again: TCP promises no more, and `ShutdownEnds`
  excepts a connection that ends.
* `TimerQueue`: time passes, the loop polls and runs its functors, callbacks return: weak
  fairness, from `LoopPolls` and `ExecutorProgress`. `TimersRun` excepts a timerfd armed for a
  time beyond the bound of the clock.
* `TcpClient`: the loop runs functors and due timers, calls end, an attempt gets an answer. Of
  the server strong fairness assumes what no client can do without: among attempts made for ever
  some get under way, and among those some succeed.
* `HttpServer`: the base loop goes on with the connection it accepts, and the loop of a
  connection runs its functors and looks at it while it is readable: weak fairness, from `LoopPolls` and
  `ExecutorProgress`. Nothing is assumed of the clients, who may stop in the middle of a line.

## 4. What the expected violations show

* `EventLoopThreadQuitLost`: `loop()` resets `quit_`, so the destructor's `quit()` is
  forgotten if it comes between the publication of the loop and `loop()`; `join()` then hangs.
* `LinkLateShutdown`: a `shutdown()` or `forceClose()` between test and assignment overwrites
  the state of a link that was closed meanwhile; a queued `send()` then enables writing on a
  handler that is not registered, and the assertion of `updateInPoll()` fails.
* `TimerIdRace`: `addTimer()` of another thread reads the sequence of a timer the loop may have run
  and deleted by then.

## 5. Proofs

All theorems hold for every value of the constants under the assumptions the modules
name: the loop thread is none of the callers, descriptors, functors and stand-ins such as
`NoMsg` are distinct, bounds are natural numbers.

`EventLoopProofs`:

* `TypeCorrect`: `Safety => []TypeOK`.
* `NoLostWakeupHolds` and `NoLostQuitHolds`. Neither property is inductive: each speaks of
  the moment before `epoll_wait` only. `WakeInv` strengthens them to every place of
  the loop thread: where the queue will still be looked at before the next `epoll_wait`
  nothing is asked, and where it will not (from the swap to the poll) what is
  queued beyond `early` is accompanied by an eventfd or by a caller in the middle of
  `queueInLoop()`; and `functorPending_` is true exactly in the part of the round in which
  the loop thread must wake itself. `WakeInvariant` is its invariance.
* `LoopIsSerialExecutor`: `Safety => ExecutorSafety`. `BatchInv` says where a batch can exist and
  what the stack holds; with it each step of the loop is a step of the executor or a stutter.
* For a loop with a thread and an owner: `ThreadUsesLoop`, every step of a loop with its thread and owner is a step of
  `EventLoop` or leaves it alone, so that all of the above holds there; and, from
  `LifeInvariant`, `ThreadTypeCorrect` and `OnlyLateWakeHolds`. `LifeInv` relates the two threads: `loop_`
  is set exactly from its publication to its withdrawal (`Published`), the child is in the library where
  the loop says so (`ChildPlace`), how far the child is when the owner is where it is (`OwnerPlace`), and
  that before the destructor has called `quit()` the loop ends only because the user quit it
  (`EndsByUser`). The last is what excludes every access but that of a late call (`LateOnly`).

`PollerProofs`: `PollerTypeCorrect`, `ViewsAgreeHolds`, `DescriptorsOwnedHolds` and
`FailuresAreKnownHolds`, from `PollerInvariant`, for any links, any number of descriptors and any
program. The work is done on tables, not on states. `Consistent(t, S, X)` says of a table that each
open descriptor has exactly one holder, a handler of S or the reserve X (`Held`), that only holders
are registered, and that the three views agree (`Views`). A first group of lemmas says what
each operation of the code, down to its last check, does to the fields of a consistent table: `AddEvent`,
`ModEventSome`, `DelEventAdded`, `DestructDeleted` and so on; in each the assertions and the
results of `epoll_ctl` follow from consistency (`Entries`). A second group says that the result is consistent again, with
what was handed over: a descriptor that moves from the connector to a link leaves S for X and comes back under
its new holder. Then each action is a short composition. What consistency alone cannot give is
where in its life a handler is, on which the assertions depend: a live link is registered and reads
(`ServerStage`), a client has one live link at most, does not connect meanwhile, and has removed the
links it dropped, and a registered connector is connecting (`ClientStage`), the two
handlers of the loop come and go together (`LoopStage`). The failures that are known are exactly those the
invariant does not exclude. Where a call is refused the table only has to say so (`RefusedIsSafe`,
`ConnectTableRefused` and the lemmas of the actions); for each removal a lemma shows that it does fail (`RemoveUnknown`, `StepDestroyLoop`).

`LinkedSocketProofs`:

* `LinkTypeCorrect`, and from `LinkInv` `WriteInterestHolds` and `KeptIsSafeHolds`. `LinkInv` adds to the two
  what makes them inductive: a `sendInLoop()` inside its callback has something left to append
  (`CarryInv`), `prepare()` is first in the queue or done (`PrepareInv`), and the map of the server holds
  a link that is not closed (`OwnedInv`).
* `ClosedOnceHolds`: `CloseInv` relates the closing of the link to its events and to what
  is left of `revents`, not to `state_`, which a late `setState()` can undo.
* `LinkIsByteStream`: without a high-water-mark callback, `Safety => StreamSafety`. `StreamInv` says that no
  `sendInLoop()` is interrupted and that the end of the stream found the buffer empty.
* `SentInOrderHolds`: under the same condition, `Safety => []SentInOrder`. `OrderInv` follows a message
  from its call through the queue to the stream: a message is nowhere unless it was sent, and that once
  (`KnownInv`); the call a thread is in is its last (`LastCallInv`); and what is queued is another
  thread's, nothing of what that thread sent later is taken, and it is queued behind (`QueuedInv`). That
  the loop thread, which sends without the queue, has nothing in it is what keeps its own order.

`TimerQueueProofs`: `TimerTypeCorrect`, and `TimerInvariant`, from which `SetsAgreeHolds`,
`OwnedOnceHolds`, `ArmedForEarliestHolds` and `CancelSticksHolds` follow. `TimerInv` adds: a
queued add carries the sequence of its timer and no timer is queued twice (`QueueInv`), a
batch exists inside `handleRead()` only (`BatchInv`), inside it the timerfd is armed for those
expirations `reset()` would not arm it for (`ArmInv`), sequences identify the timers that exist
(`SequenceInv`), and a cancelled timer is gone or has expired and carries a mark (`CancelInv`).
The four properties need each other: that a cancelled timer stays away rests on
its sequence being its own, and that on each timer being owned once.

`TcpClientProofs`: `ClientTypeCorrect`, `OneConnectionHolds` and `NeverGivesUpHolds`, from
`ClientInv`, which adds what `connectState_` says of the descriptor and the link (`StateInv`); and
`OneChainPerCallHolds`, from `ChainInv`, which also counts the starts that are still queued and the
threads that are inside `connect()`: each step moves an attempt from one of these to the next and none makes two of
one. The lemmas are about the cardinalities of the two sets.

`BufferProofs`, for every size of the header, the vector, the extra memory and the data:
`IndicesInOrder`, `BufferIsQueue` and `VectorDoesNotCreep`. The three properties together are inductive as they
stand. The lemmas are about the private functions: that a resize and a move keep
the readable bytes (`Readable`), that either leaves the room asked for, and that the assertion on
`readerIndex_` follows from the test that chose to move. Since `HoldsQueue` says that
the readable bytes are `content`, which only the operations of `ByteQueue` change, it is the refinement.

`HttpServerProofs`, for any pool, connections and clients: `OpenLinksAreOwnedHolds`, from
`ServerInvariant`. `OwnInv` adds where each thread can be and with which connection (`PlaceInv`), and what
is known of a connection before it is accepted, between its insertion and its hand-over, while its `prepare()` is queued
and while it is polled (`LinkInv`). The argument needs the order of
newConnection(): a connection is in the map before its loop hears of it, so only its
own loop can take it out. That the base loop comes back to the map afterwards is what the property does not
cover, and `HttpFailuresAreKnown` does.

`HttpTypeCorrect` and `ParsedAsWrittenHolds` need the parser. In TLA+ a recursive function is one that
satisfies its equation if there is one, so the first thing to prove is that there is: the function that takes a
state of the parser to the end of the chain of its rounds satisfies it (`ParseUnfold`). Then what every round keeps
holds where the loop ends, and it does end, for each round that goes on leaves less to read (`ParseReaches`,
by the least number of bytes for which it would not). `ParseEnds` gives the types from that: no context
that is kept has got all, and only one that a refused request has left can make `setMethod()` assert.
For `ParsedAsWritten`, `StreamInv` says of each connection that some cut of the lines its client wrote
has the headers that were handled; that the bytes not yet parsed, in the buffer and in the socket,
are the lines from some line on, whole (`Laid`); and that the context says of the lines between the cut
and that line what they are (`Knows`). It is kept by a write, which adds a line at the end (`LineWritten`), and by
a read: the first line end that `findCRLF()` sees in the buffer ends the first of those lines, wherever the
stream was split (`FirstLine`), so each round of the parser takes that line and knows it, or
leaves both as they are (`TurnReads`). That any cut agrees with the longest is `CutIsReading`. Before a connection has its
context nothing of it was parsed, which rests on `FreshInv`: `setContext()` is the last step of `newConnection()`.

`HttpFailuresAreKnownHolds` follows from `KnownInv` and `AloneInv` on top of these. The first says that a
connection that was accepted and is not in the map was closed, unless it is about to be inserted; the
second what a server without threads can rely on: all connections are the base loop's, nothing waits
in a queue, while a connection is accepted it stays connected and in the map, and one that is
polled has its context or is the one that is being accepted.

Only model-checked: every progress property; fairness, leads-to and ENABLED are beyond the
prover. All safety properties of the passing runs are proved.

## 6. Plan

Done: every component with a protocol of its own, and the proofs above.

The number of runs is kept small, so that all of them stay quick to repeat. A question of
the same component shares the run of that component.

## 7. Not modelled

Logging, addresses, thin wrappers over system calls, `StringPiece`, time formatting
and the example programs keep no state that a protocol depends on. `BlockingQueue` and
`Condition::waitForSeconds()` of base/ThreadUtil.h and `getLoopForHash()` and `getAllLoops()`
of the pool are called by nothing in the repository. LOG_FATAL aborts. `Poller` has it
for `timerfd_create()`, `eventfd()`, `socket()`, `bind()`, `listen()`, `accept()`, `getpeername()` and
`epoll_ctl()` on a wrong descriptor. It is left out for `epoll_ctl()` without memory, `getsockname()`, which
does not fail on an open socket, `pthread_create()` (base/Thread.cc:183), an address that does not parse
(base/InetAddress.cpp:43, 53), a null pointer in `CHECK_NOTNULL`, a second loop in one thread
(EventLoop.cpp:43), and a call in the wrong thread (EventLoop.h:124): the models make such
calls in the loop thread, as the code does. Memory order is sequentially
consistent in the models; the data races that matter are split into steps or, like the
destructor's read of `loop_`, resolved both ways. The double close of the timerfd at the end of
a loop is in `Poller`, but no descriptor can take its number between the two closes, because
both happen in one destructor and other threads opening descriptors meanwhile are left out.
