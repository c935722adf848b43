# TLA+ models of chtho

chtho is a C++11 network library in the style of muduo: one event loop per
thread, non-blocking TCP connections on top of it, a thread pool and an
asynchronous logger, with an HTTP server and a client on top.  The modules here
model its concurrent parts, the protocols between them and the data structures
they rest on; TLC checks them on small instances, and TLAPS proves
the central invariants for instances of every size.  Paths below are relative
to `src/chtho/`.

Run one with `tlc -config <cfg> <module>`, the two names that `PROJECT.json` gives
for each run (for most, `tlc -config X.cfg MCX`), and check the proofs of a
component with `tlapm XProofs.tla`.

## Inventory

| part | state it keeps | operations | meets | what is hard |
|---|---|---|---|---|
| `net/EventLoop` | `quit_`, functor queue, eventfd, active channels | `loop`, `runInLoop`, `queueInLoop`, `wakeup`, `quit` | its thread, any number of other threads, channels | wakeups and quit requests lost between the test and the poll; functors that queue functors |
| `net/EventLoopThread` | `loop_`, mutex, condition, thread | `startLoop`, `func`, destructor | an `EventLoop` on the thread's stack | publication and destruction of the stack object |
| `net/EventLoopThreadPool` | loops, next index | `start`, `getNextLoop`, `getLoopForHash` | `EventLoopThread`, `TcpServer` | destroyed after the connections its loops serve |
| `net/TimerQueue`, `Timer`, `TimerID` | two sets of timers, cancelled set, timerfd | `addTimer`, `rmTimer`, `handleRead`, `reset` | `EventLoop` queue, user callbacks | cancelling inside a callback, addresses reused, rearming |
| `net/Channel`, `net/poller/*` | events, index, `addedToLoop_`; fd maps | `update`, `remove`, `handleEvent`, `poll` | `EventLoop`, kernel | registration state across update and remove; `Poll`'s array with ignored entries |
| `net/TcpConnection` | `state_`, channel, output buffer | `send`, `shutdown`, `forceClose`, `handle*`, `connEstablished`, `connDestroyed` | io loop, base loop, user threads, peer | lifetime over two loops, unsynchronised `state_`, functors with a bare `this` |
| `net/TcpServer`, `Acceptor` | map of connections, spare descriptor | `start`, `handleRead`, `newConn`, `rmConn`, `rmConnInLoop`, destructor | `TcpConnection`, loop pool | destruction while connections close; no descriptor left to accept with |
| `net/Connector`, `TcpClient` | state, `connect_`, retry delay, connection | `start`, `stop`, `connect`, `retry`, `handleWrite` | timers, `TcpConnection` | stop racing with a connect, a retry or a lost connection; functors with a bare `this` |
| `net/Buffer` | bytes, two indices | `append`, `retrieve`, `prepend`, `readFd` | `TcpConnection` | index arithmetic when the space is moved or grown |
| `net/http/*` | parser state, request | `parse`, `onMsg`, `onReq` | `Buffer`, `TcpConnection` | requests cut at any byte, pipelining |
| `threads/ThreadPool` | bounded queue, two conditions, `running_` | `start`, `run`, `take`, `stop` | workers, callers, tasks that call `run` | one notify per event, stop with sleepers |
| `threads/Thread`, `CountDownLatch` | start data, latch | `start`, `join`, `wait` | pthreads | start handshake |
| `threads/MutexLock`, `Condition` | pthread mutex, `holder_` | `lock`, `unlock`, `wait`, `notify` | all of the above | `holder_` is kept beside the mutex and given up during a wait |
| `logging/AsyncLogging` | four buffers, batch, condition | `append`, `threadFunc`, `start`, `stop` | `LogFile` | buffers swapped between threads, overload, stop |
| `logging/LogFile`, `FileUtil` | file, counters, last roll | `append`, `roll`, `flush` | `AsyncLogging` | two rolls in one second, a period that is looked at only now and then |
| `logging/Logger`, `LogStream`, `time/*`, `base/*`, `net/Socket`, `net/InetAddr` | one line, one number, one address | formatting and system calls | | no shared state |

What makes each part correct, in a sentence: the loop runs every functor once,
in order, and never sleeps on one; a loop handed out by `startLoop()` is alive
and its thread can be joined; the two timer sets agree, the timerfd is armed
for the first timer and a deleted timer is never touched; a connection is
closed once, removed once, and deleted only when it is closed and nothing
refers to it, with its output written before the socket is shut down; no
sleeping worker misses a task and no sleeping caller a free slot; no log
message is lost on its way through the buffers, and the file it goes to is
rolled and flushed in time; the kernel watches exactly the events that are
enabled, and no deleted channel is handled; a client keeps trying until it is
connected or stopped and leaks no socket; a buffer holds the bytes put in and
not taken out; requests are served as they were sent, however they were cut; a
server out of descriptors refuses connections instead of spinning on them.

## Modules

| module | models | checked by | proved in |
|---|---|---|---|
| `CallbackQueue` | the promise of `EventLoop`'s queue, abstractly | refinement in `eventloop` | `EventLoopProofs` |
| `EventLoop` | `net/EventLoop` | `eventloop` | `EventLoopProofs` |
| `Monitor` | `threads/MutexLock`, its guards and `Condition` | in `EventLoopThread` | `TcpServerProofs` |
| `Thread` | `threads/Thread`, `ThreadData`, `CountDownLatch`, over a `Monitor` | in `EventLoopThread` | `TcpServerProofs` |
| `EventLoopThread` | `net/EventLoopThread`: `EventLoop`, `Thread` and `Monitor` composed by `INSTANCE` | `thread`, `thread_lostquit` | `TcpServerProofs` |
| `TcpServer` | `net/TcpServer`, `Acceptor`, `EventLoopThreadPool`, extending `EventLoopThread` | `thread` | `TcpServerProofs` |
| `ThreadPool` | `threads/ThreadPool` | `pool` | `ThreadPoolProofs` |
| `AsyncLogging` | `logging/AsyncLogging` | `logging`, `logging_stop` | `StreamProofs` |
| `LogFile` | `logging/LogFile`, `FileUtil`, extending `AsyncLogging` | `logging` | `StreamProofs` |
| `TimerQueue` | `net/TimerQueue`, `Timer`, `TimerID` | `timers` | `TimerQueueProofs` |
| `TcpConnection` | `net/TcpConnection`, the connection side of `TcpServer`, `Channel` and `EPoll` | `tcp`, `tcp_race` | `TcpConnectionProofs` |
| `InterestSet` | the promise of a `Poller`, abstractly | refinement in `poller` | `PollerProofs` |
| `Poller` | `net/Channel`, `net/poller/*`, the channel calls of `EventLoop` | `poller` | `PollerProofs` |
| `TcpClient` | `net/TcpClient`, `Connector` | `client` | `TcpClientProofs` |
| `Buffer` | `net/Buffer` | `http` | `StreamProofs` |
| `HTTPServer` | `net/http/HTTPContext`, `HTTPServer`, over a `Buffer` | `http` | `StreamProofs` |

Variables carry the names of the members they stand for.  A critical section
is one action, and so is what a thread does between two accesses to shared
state; a call made on the loop's own thread runs to its end in the action that
makes it.  Definitions whose name contains `_` and a capitalised word
(`Keep_NoEnable`) and whose comment begins with "Mutant" are plausible mistakes
in the definition that follows; no specification uses them.

**EventLoop.**  The loop thread goes through test of `quit_`, poll, handlers,
functors; other threads call `queueInLoop()`, `runInLoop()` and `quit()`, where
the write to the eventfd is a step of its own.  Functors and handlers may call
all of these too.  The eventfd's counter is kept as "is not zero".

**Monitor, Thread.**  The owner of the pthread mutex and `holder_` are two
variables, because they are assigned at different moments; `Condition::wait()`
gives up `holder_`, sleeps and takes it back, and may wake up spuriously.
`Thread` is the start handshake over a latch built on such a monitor, the
thread function and `join()`.

**EventLoopThread.**  The owner starts, uses and destroys; the thread function
builds the loop, publishes it, runs it, clears the pointer.  The composition
shares the variables of one `EventLoop`, one `Thread` and one `Monitor`, and
adds five of its own.  Every step that takes or gives up the mutex is an action.

**TcpServer.**  The base loop's thread is the owner above.  It starts the pool,
accepts, hands each connection to the pool's loop, removes it when the peer
closes, and destroys everything.  Descriptors are counted: when none is left
`handleRead()` closes its spare one, accepts, closes and opens the spare again,
four steps between which another thread may open a file.  A connection is here
only a stage of its life; the details are in `TcpConnection`.  The functors of
the pool's loop are its `connEstablished()` and `connDestroyed()`.  Behaviours
that begin with `spc = "none"` use an `EventLoopThread` with no server.

**ThreadPool.**  A thread is in a condition's wait set, about to (re)test its
condition, or elsewhere; `notify` moves one waiter, or none when there is none.
Tasks may call `run()` (`Nested`).

**AsyncLogging.**  A buffer is the sequence of the messages in it and a pointer
is a buffer or `Null`, so a use of a moved-from pointer shows.  `MaxBufs` stands
for 25, and a batch over it is cut to two buffers as the code does.

**LogFile.**  The steps of the back end that write or flush are joined with the
calls they make on the file.  The clock is the two answers the code asks it for at
an append: is it later than the last roll, is it in another period than the file.
Either may be so or not each time: `time()` may be set back, and the code reads it
twice.  Sizes are in messages.

**TimerQueue.**  A timer is an address, which may be allocated again after
deletion, and a sequence number, which may not.  Times are what is left until
them, so the clock needs no bound.

**TcpConnection.**  One connection, served by the base loop or by a loop of its
own (chosen in `Init`).  `state_` is a plain member: on another thread the test,
the assignment and the queueing are three steps.  `Held` says whether a
`shared_ptr` exists; the object is deleted in the step that makes it false.
The code drops the copies held by functors only at the end of their batch, so
the model deletes at the earliest moment.  Channel registration follows
`EPoll`.  A failed assertion, or a call into a deleted server, is recorded in
`failed` and ends the behaviour.

**Poller.**  Channels are made, enabled, disabled, removed, deleted and made again
at the same address, between batches and inside the callback of one.  `Init`
chooses the poller.  `Poll` has its array, the index each channel keeps into it
and the encoding `-fd-1` of an ignored entry; `EPoll` has the three values of the
index and the kernel's set.  `InterestSet` is a table of watched descriptors
and a batch taken from it; both pollers implement it.

**TcpClient.**  The loop polls a set of events (timers, the channel of the
attempt, lost connections), handles them one at a time, then runs the functors
queued by then.  `connect_` is a plain member that users on another thread write:
each read of it by the loop thread is in a step of its own (`rmConn()`,
`restart()`, `startInLoop()`, then `connect()` with the `retry()` in it), between
which `lpc` says what comes next and any call may come.  The retry timer keeps the
`Connector` alive, also while it is run (`held`); functors and channel callbacks do
not.

**Buffer, HTTPServer.**  A buffer is the vector with its stale bytes and the two
indices, so a wrong index shows as wrong bytes.  `Buffer`'s calls are pure
operators; a run drives them with a queue of bytes beside it as reference, and
`HTTPServer` uses the same operators for the input of a connection.  There an
element of the stream is CR, LF or the text of a line: the parser looks for
CR LF only, and at a line once it is whole.  `onMsg()` makes a new context for
each read, as the code does.  A request is what the code takes for one, a line and
headers with a colon.  `HTTPContext` accepts POST and PUT and never reads a body:
to it the body, up to the next CR LF, is the next request line, and that is how a
body appears here, as a malformed request (`junk`) behind the one it belongs to.

## Runs and what they show

| run | instance | result |
|---|---|---|
| `eventloop` | 2 clients, 3 functors, 1 I/O channel | no functor or quit request is slept on; functors run once and in order (refinement of `CallbackQueue`); each is run, and `quit()` ends `loop()`, with only the eventfd to end a poll |
| `thread` | owner and loop thread, alone and as the pool of a server with 2 connections and 3 descriptors | `startLoop()` returns and its loop lives until somebody quits it; `holder_` and the thread id are right; members are not destroyed in use; a destructor that meets a running loop joins; no descriptor leaks, the spare comes back, connections are destroyed by their loop, none waits in the backlog for ever |
| `thread_lostquit` | owner, 2 functors, poll may time out | violated: `loop()` resets `quit_`, so a destructor that comes between publication and `loop()` waits for ever |
| `pool` | 2 workers, 2 callers, 4 tasks, queue of 2, nested calls | no lost notification on either condition, queue bound, `stop()` releases and joins everybody, at most one task per worker afterwards |
| `logging` | 3 messages, one too long for a buffer, buffers and files of one message, batches of 2 | messages are neither lost nor reordered but for what is dropped on purpose; the assertions hold; everything is written while the back end runs; the file is rolled when full and when its period is over, and flushed before the back end waits |
| `logging_stop` | 3 messages, buffers of 2 | violated: what is appended before `stop()` but after the last swap is never written |
| `timers` | 2 addresses, 2 timers, delays up to 2 | the sets agree, no deleted timer is used, the timerfd is armed for the first timer, cancelled timers stay cancelled, others run |
| `tcp` | 2 user threads, either loop arrangement, one call at a time beside the work queued | the assertions and the destructor's assertions, no functor on a deleted object, output registered and written before the shutdown, and cleanup after the peer closes; exceptions named in the properties |
| `tcp_race` | 1 user thread | violated: `shutdown()` racing with the peer's close deletes the connection in state Disconnecting |
| `poller` | 3 channels on descriptors 0, 1, 2, both pollers, `EPoll` with room for 2 events | assertions hold but for two calls only `EPoll` accepts; the kernel watches what is enabled; no deleted channel is reachable; both implement `InterestSet` |
| `client` | delays 1, 2, 3; 2 connections, 4 calls by the user | which calls can fail an assertion, no socket leaks, `stop()` is final but for two races, a connection is made in the end |
| `http` | a buffer of 1 + 3 bytes, at most 4 bytes kept; 1 or 2 requests with up to 2 headers, cut anywhere | the buffer holds its data and its assertions hold; requests are served in order with their own headers; a good request without a body is refused or waits in exactly three cases: it was cut after its request line, it is behind a malformed one (or a body), it came in one read with the end of another |

A property that a run names is often a conjunction of parts with names of their
own, the type invariant of the module among them: `NothingSleptOn` is `TypeOK`,
`NoLostWakeup` and `NoLostQuit`.  The sections below use the names of the parts.

**Bounds.**  Two clients are the least with which calls overlap each other and
the loop; a third functor lets one be queued while another runs and a third
waits.  Two workers and two callers let a notification reach the wrong sleeper,
and a queue of two can be neither empty nor full.  Buffers of one message fill
on every append; two buffers are the shortest batch the code can cut, and three
messages fill both and one more.  Files of one message make every second append
a roll by size, and a count of 2 is the least with an append at which the period
is not looked at.  Two timers on two addresses give a batch of
two, cancelling each other, and reuse after deletion; a delay of 2 is the least
with an earlier and a later timer.  In `TcpConnection`, `MaxWork` limits when
a new call starts, not what it queues; with two threads in calls and callbacks
of their own the queue still reaches four functors.  The properties were also
found to hold with `MaxWork = 2` (550,776 states).  Three channels are the
least with which the slot of a removed one is refilled by another that is
neither first nor removed itself, and descriptor 0 is the one whose ignored
form differs from a plain change of sign.  Three delays are the initial one,
its double cut to the maximum, and the maximum again; four calls are two on each
side of a race.  A buffer of three bytes with one in front reaches every branch
of `expand()` at its exact size, and a second request after each first one
shows what a request leaves behind.  Two connections and three descriptors let
the server run out with one connection open, and another thread take the spare;
the pool has one thread, and user callbacks do not quit its loop.

**Fairness.**  Weak fairness of the loop thread (it is scheduled), of a thread
between queueing and its write to the eventfd, of owners in `stop()` and in
destructors, and of timed waits.  `eventloop` and `thread` assume no poll
timeout, which makes their liveness stronger; `thread_lostquit` adds it, to
show that the timeout does not help.  In `ThreadPool`, strong fairness of
`FinishTask` says that a task, which may call `run()`, does not call it for
ever.  In `TcpConnection`, weak fairness of `HandleWrite` says that the peer
goes on reading; nothing makes the peer close.  In `EventLoopThread`, strong
fairness of taking the mutex is needed because an owner may wake up spuriously
again and again, and the mutex is free each time it sleeps.  In `TcpServer`,
strong fairness of `HandleRead` says that the base loop handles a connection
that is ready however often descriptors come and go.  In `TcpClient`, strong
fairness of `Connected` and of opening a socket says that the network does not
refuse for ever, which no client can do without.  Clients, users and peers may
otherwise do nothing.

**Deadlock** is not checked where the system may stop: the pool and the logger
when they are stopped and have no more calls to come, the connection when it is
deleted, the client, the pollers and the HTTP connection when an assertion failed
or a bound is reached.  `eventloop`, `thread` and `timers` check it.

## Proofs

Each theorem has the form `Spec => []P` (or `Spec => P` for an action property or a
refinement) and is proved from an inductive invariant, with no assumptions but
those on the constants (finite sets where cardinalities occur, positive
capacities, distinct names).

* **EventLoopProofs**: `NothingSleptOn` (`TypeOK`, `NoLostWakeup`, `NoLostQuit`) and
  the refinement `RunsInOrder` of `CallbackQueue`.  `NoLostWakeup` speaks of a loop
  blocked in poll; the invariant says for every position of the loop thread
  that a functor it will not see before the poll has a wakeup on its way.
* **ThreadPoolProofs**: `NoSleeper` (`TypeOK`, `QueueBounded`, `NoSleepingWorker`,
  `NoSleepingCaller`) and `StoppedCleanly` (`NobodySleepsAfterStop`,
  `AtMostOneLateTask`).  The two sleeping properties compare the queue with the
  number of awake threads; each action changes both by one, which needs the
  cardinality lemmas.
* **StreamProofs** has the components that hand a stream on through buffers,
  which need the same lemmas about sequences.  First, for `AsyncLogging`,
  `SparesSuffice` and `NoSleepOnFullBuffer`.  The spares
  suffice because `nxtBuf_` is null only while a filled buffer waits, so a batch
  that took both spares brings two buffers back (`SpareInv`).
* **TimerQueueProofs**: `TimersOwned` (`TypeOK`, `SetsAgree`, `NoDanglingTimer`),
  `CancelIsFinal`, `TimerfdArmed`.  The invariant `OwnInv` is about ownership:
  each Timer is owned by the sets, by the running batch or by one queued
  `addTimerInLoop()`, and sequence numbers tell two lives of an address apart.
* **TcpConnectionProofs**: `LifetimeAsserts` (`TypeOK`, `AssertsHold`,
  `DtorAsserts`), `OutputFirst` (`OutputRegistered`, `ShutdownAfterOutput`),
  `NoDanglingThis`.  The invariant follows the
  phases of a connection that no late call disturbs: in use, waiting to be
  erased by the base loop, waiting for `connDestroyed()`, finished.  While
  it waits, `connDestroyed()` is queued once and last, because nothing is queued
  after the close; hence every functor with a bare `this` has run before the
  connection is let go.

* **TcpServerProofs**, first for an `EventLoopThread` alone: `MembersSafe`
  (`TypeOK`, `HoldersExact`, `StartedWithTid`, `MembersUnused`),
  `LoopValidUntilQuit`, and `NoLostWakeup` and `NoLostQuit` of its loop while it
  exists.  The last needs no new argument: each step of the composition is
  a step of the `EventLoop` it instantiates or leaves it alone, so the invariant
  of `EventLoopProofs` carries over.  The rest of `ThreadInv` orders the two
  threads: the latch is counted down once, after the thread id is known; `loop_`
  is set and cleared in critical sections; and the destructor frees the members
  only when the thread has ended or has not been given a loop to quit.
  Then, for a server: `DescriptorsKept`, `ConnsDestroyed`, and the theorems about
  the thread again (`TcpServerThreadSafe`).  `ServerInv` counts descriptors
  (one of each open connection, the spare, those others hold, those free) and
  links each connection's stage to the functors queued for it.
* **TcpClientProofs**: `SocketsOwned`, `ClientAsserts` and the action property
  `StopIsFinal`.  At most one attempt exists because every attempt spends one
  `connect()`: retry timers, queued starts and a state other than Disconnected
  are together no more than the starts made (`TokenInv`), which is one until the
  user calls `connect()` a second time; the loop thread on its way from a test of
  `connect_` to the socket counts as one (`Launching`).
* **PollerProofs**: `RegistryConsistent` (`TypeOK`, `KernelWatches`,
  `NoDanglingChannel`), `PollerAsserts`, and the refinement of `InterestSet`.
  The map has the channels that are added and no other (`MapInv`); in `Poll` an
  entry and its channel know each other (`PollInv`), so that no two channels
  share an entry and the array is no longer than the set of descriptors; in
  `EPoll` the index says whether the kernel has the channel (`EPollInv`); and
  what is left of a batch is still added (`BatchInv`), by the assertion of
  `EventLoop::removeChannel()`.  For the refinement, `Watched`, which searches the
  array, is shown to be what the channel's own entry says (`WatchedFacts`).
* In **StreamProofs** also `TypeOK` of `AsyncLogging`, and for the file `RolledInTime`
  (`TypeOK`, `LogFileTypeOK`, `RolledWhenFull`, `RolledEachPeriod`) and
  `FlushedWhenIdle`: `FileInv` bounds the count of appends since the period was
  last looked at, whatever the clock says at each.  Last, `MessagesConserved`.  `Total` puts the file, the batch,
  the filled buffers and the current buffer in a row; one lemma for each move of a
  buffer (`TotalAppend`, `TotalFilled`, `TotalSwap`, `TotalWrite`, `TotalCut`) says
  what it does to the row, and `ConservedAppend`, `ConservedSkip` and
  `ConservedCut` what that means for order and completeness.  The invariant adds
  that only what was appended is dropped.  The row is a `FlattenSeq`, a recursive
  definition: what it gives for a longer batch is proved by induction on the set
  of lengths for which it is right (`SetInduction`, from the well-foundedness of
  the natural numbers), which needs no induction schema.
* In **StreamProofs**, for `Buffer`: `BufferCorrect` (`HTTPTypeOK`, `HoldsItsData`,
  `BufferAsserts`).  `Holds(T, b, d)` says that `b` is a buffer with its indices in
  order, at least `kPre` bytes long, whose readable bytes are `d`; one lemma for
  each call (`appendHolds`, `prependHolds`, `retrieveHolds`, `shrinkHolds`,
  `readFdHolds`, and under them `ensureHolds`, `moveToFrontHolds`, `GrowHolds`)
  says that it takes a buffer that holds `d` to one that holds what `d` becomes,
  and that its assertions do not fail.
* In **StreamProofs**, for `HTTPServer`: `ServesWhatWasAsked`, `BadOnlyWhenBad` and
  `ServedInTime`.  None is inductive: all three rest on where in the stream the
  parser is (`HTTPWhere`).  It is before a request, behind some of its lines with
  `request_` being what those lines ask for (`AskedTo`), behind all of it, behind
  the last request, or, once a context was dropped, for good before a header or an
  empty line, which `procReq()` never takes for a request line.  `StreamAt` says
  where each line of each request lies in the stream, from lemmas about
  `FlattenSeq`; with `HTTPData` (the buffer has what was received and not
  parsed) it gives what `findCRLF()` finds in each of these places (`HeadLine`,
  `HeadBlank`).  The only assumption is `RequestsAssumption`: a request is a first
  line, of any text, and headers, without a body.  TLC has checked the invariant `HTTPInv` on
  instances of the `http` run.

Only model-checked: the liveness properties (`QueuedFuncRuns`, `QuitStopsLoop`,
`StopReleasesAll`, `QueuedTaskIsTaken`, `EveryMessageWritten`, `Reconnects`,
`StartsAndJoins`, `BacklogServed`, `CloseIsCleanedUp`, `ShutdownCompletes`,
`EveryTimerRuns`), because the prover does not handle fairness.  Every other
property of a passing run is a theorem.

The proofs led to some changes of the models.  `OwnerAssumption` (the two
threads differ, `None` is not one, the eventfd's channel is not one of the
others) and the finiteness of `Fd` were tacit.  `PollFill` says which order
the batch has instead of building it.  The failures of `Poller` are nested
conditions in the order in which the code asserts, where they were a `CASE`
whose guards overlapped.  `MessagesConserved` speaks of ranges and of the order of
indices where it used to filter the history with `SelectSeq`, about which the
provers know nothing; TLC has found the two forms equal in every reachable state.
`RequestsAssumption` was tacit.  `Asked` finds the last `Connection` header by its
index, for the same reason; TLC has found it equal to the form with `SelectSeq`
for all requests of up to four lines.

## Disagreements with the code

Three runs show the code doing otherwise than it says; `PROJECT.json` quotes the
lines: the lost `quit()` of `~EventLoopThread`, messages that
`AsyncLogging::stop()` leaves unwritten, and `state_` overwritten by a
`shutdown()` that races with the close.

The others are excepted by name in the property that would otherwise fail, so
that the property says exactly when the code may be relied on:

* `MembersUnused`, `LoopValidUntilQuit`: `~EventLoopThread` reads `loop_` without
  the mutex; when a functor has quit the loop it may destroy the mutex while
  `func()` holds it, or call `quit()` on a loop that is gone.
* `AssertsHold`: `~TcpServer()` with a connection that is Disconnecting runs into
  `Channel::remove()`'s assertion, and a connection on another loop may call the
  server after it is gone.
* `NoDanglingThis`: a late call leaves functors on a deleted connection.
* `ConnsDestroyed`: the `quit()` of the pool's threads may come before the
  `connDestroyed()` that `~TcpServer()` queued; the connection is then deleted
  without it.
* `SpareKept`, `BacklogServed`: the spare descriptor is lost when another thread
  opens a file while `handleRead()` has it closed.
* `PollerAsserts`: `Poll` rejects the removal of a channel that never enabled an
  event, and the reuse of a removed one; `EPoll` accepts both.  Channels are
  removed only once they were added, as all owners do; `Channel::remove()` does
  not assert it.
* `ClientAsserts`: a second `connect()`, and the destructor while the loop still
  has work of the client, fail an assertion or use a deleted object.  So does
  `stop()` with no attempt in progress: `stopInLoop()` tests for Disconnected,
  where there is no channel, and not for Connecting.  The model ends there also
  when the channel is removed and not yet reset, where the code may go on if the
  number of its closed descriptor is in use again.
* `StopIsFinal`: a `stop()` on another thread is undone by a `restart()` that
  `rmConn()` has already decided on, and comes too late for a `connect()` that
  `startInLoop()` has already decided on.
* `BadOnlyWhenBad`, `ServedInTime`: a request whose lines come in several reads
  after its request line is refused, because the context does not outlive the
  read; a second request in one read waits for the next read; a body is taken for
  the start of the next request, which is refused.
* `RolledWhenFull`, `RolledEachPeriod`: a file is not rolled within the second in
  which it was opened, nor while a clock that was set back is behind it.

Two remarks on the text of the source: `rollPerSec_` is one day where its comment
says "60 days" (`logging/LogFile.h:36`), and `addTimer()` reads `timer->seq()`
after it has queued the timer (`net/TimerQueue.cpp:161`), when the loop may have
run and deleted it; the model reads it before.

## Not modelled

`Logger`, `LogStream`, `Timestamp`, `InetAddr`, `Socket`, `HTTPResponse` and the
base helpers format text or wrap one system call; the results of the system calls
are choices in the modules that make them.  A connection's input and its
callbacks appear in `TcpConnection` only as the calls that user code makes.
`POLLPRI`, failing `epoll_ctl` and `eventfd` calls, failing writes to the log
file and a failing `pthread_create()` are left out: the code logs them or ends.
The destructor of `TimerQueue`, which runs after its loop, is left out, and so are
`getLoopForHash()` and `getAllLoops()`, which have no caller.  Memory handed to
`send()` on another thread is not tracked.

## Plan

What could be added: `TcpConnection` as an implementation of an abstract
connection (opened once, closed once, deleted last), and a pool of several threads
in `TcpServer`.
