# A TLA+ model of ReactorServer

ReactorServer is an HTTP server in C++11 on the reactor pattern: one *base*
event loop accepts connections and deals them out to a pool of *io* loops, each
a thread of its own around `epoll`. This directory holds TLA+ modules translated
from its source, TLC configurations that check them on small instances, and
proofs of the results that hold for instances of any size.

Paths below are relative to the root of the repository.

## The system

| component | source | state | operations | works with |
|---|---|---|---|---|
| EventLoop | `src/EventLoop.*` | `quit_`, `looping_`, `pendingFunctor_` under `mutex_`, `callingPendingFunctor_`, `activeChannels_`, the eventfd | `loop`, `runInLoop`, `queueInLoop`, `wakeup`, `handleRead`, `quit` | any thread calls `runInLoop`, `queueInLoop` and `quit`; the owner calls handlers and functors |
| Channel, EpollPoller | `src/Channel.*`, `src/EpollPoller.*` | `events_`, `rcvEvents_`, `status_`, `addToLoop_`; the map `channels_`, `eventVec_`, the kernel's interest list | `enableRead` ... `disableAll`, `remove`, `update`, `poll`, `handleEvent` | called by the handlers it dispatches |
| TcpConnection | `src/TcpConnection.*` | `state_`, `readBuf_`/`readIdx_`, `writeBuf_`/`writeIdx_`, its Channel, the socket | `connectionEstablished`, `connectionDestroyed`, `send`, `shutdown`, `startRead`, `stopRead`, `handleRead`, `handleWrite`, `handleClose` | callbacks of TcpServer and HttpServer |
| TcpServer, Acceptor, EventLoopThreadPool | `src/TcpServer.*`, `src/Acceptor.*`, `src/EventLoopThreadPool.*` | `connections_`, `loops_`, `next_`, the listening socket | accept, `newConnection`, `removeConnection`, `removeConnectionInLoop`, `getNextLoop`, `start`, the destructor | functors sent between the base loop and the io loops |
| EventLoopThread, Thread, Mutex, Condition, CountDownLatch | `src/EventLoopThread.*`, `src/Thread.*`, `src/Mutex.*` | `loop_`, `exiting_`, `started_`, `joined_`, `count_`, `holder_` | `startLoop`, `threadFunc`, `start`, `join`, `wait`, `countDown` | starts an EventLoop in its thread and hands out its address |
| HttpContext, HttpRequest, HttpServer, HttpResponse | `src/Http{Context,Request,Server,Response}.*` | `checkState_`, `checkedIdx_`, `startLine_`, the request | `parseRequest`, `onMessage`, `onRequest`, `reset` | message callback of TcpConnection |
| TimerHeap | `src/Timer.*` | `array`, `capacity`, `cur_size`, a mutex | `add_timer`, `del_timer`, `pop`, `top`, `tick`, `resize` | callbacks of timers, which may add timers |
| Slog | `src/Slog.*` | one rwlock per level | `slog`, and `slog` again for its own failures | every thread |
| ConfigUtil | `src/ConfigUtil.*` | a map | `init`, `getValue` | read at start-up |
| v0.1 thread pool | `v0.1/thread_pool.*` | a job list, a semaphore, a mutex | `add_work`, `job_do`, `destroy` | the reactor of v0.1 |
| v0.1 reactor, HttpConn | `v0.1/reactor.*`, `v0.1/server.*`, `src/HttpConn.*`, `src/handler_*.cc` | the table `ehs` under `mutex_eh`; per client the buffers, the parser and the answer under no lock | `event_loop`, `find_eh`, `add_eh`, `rm_eh`; `read`, `process`, `write`, `closeConn` | the reactor makes events into jobs, the pool's workers run the handlers |

What is hard in it:

* **Concurrency.** `queueInLoop` pushes under a mutex but decides about the wakeup
  and writes it outside; `quit_` is a plain flag; the life of a connection is a
  chain of functors between two threads (established on the io loop, removed on
  the base loop, destroyed on the io loop again) while events of the same
  connection keep being dispatched.
* **Ordering.** Everything is registered edge-triggered, so whoever leaves
  something unread or unwritten gets no second event for it. A batch of events
  is dispatched from a snapshot, while its handlers add and remove Channels.
* **One lock too few.** In v0.1 one-shot registration is the only thing that keeps two
  workers out of one `HttpConn`; `TimerHeap` reads its array outside its mutex; `slog` leaves a
  lock behind when it fails, and reports that through itself.
* **Lifetime.** A TcpConnection is freed with the last `shared_ptr`, which may be
  the map's, a queued functor's, or one of the functors already run whose vector
  `doPendingFunctors` has not dropped yet. Its Channel must have left the poller
  and every batch by then.
* **Failure.** Clients close, reset and stop reading anywhere; `write` takes a part,
  nothing, or fails. Nothing is persisted, so there is no recovery to model.

What makes each component correct: for the loop, that functors run once, in order,
and are never slept over; for the poller, that its three records of a Channel agree
whatever its callers do in whatever order; for a connection, that bytes leave whole and
in order, the FIN last, and that handlers give the thread back; for the server, that
every connection is torn down once, in order, with nothing left that points to it,
and that a connection whose client has gone does not stay; for the timer heap, that it is a heap
whenever it can be used and that nothing is deleted before it ran; for the log, that a failure is
found in it and that its locks come free; for v0.1, that requests are answered in order, each once,
by one worker at a time.

## The modules

**`FunctorExecutor`** is the promise of an EventLoop to its callers: accepted functors
run one at a time, each once, in the order of acceptance, and while the executor is
open none waits for ever.

**`EventLoop`** is one loop with any number of foreign threads. `lpc` names the places
of `loop()` between which other threads can be seen; `looping_` and
`callingPendingFunctor_` are functions of it. One action each: the start and the exit
of `loop()`, the test of `quit_`, the return of `epoll_wait` with and without events,
`handleRead`, another handler, the swap of the queue, the run of one functor, and the
end of the batch. `queueInLoop` and `quit` of a foreign thread are two steps (the push
or the flag; then `wakeup`), since the mutex covers the push alone. `wakeupBytes` is the
`sizeof(one)` of `wakeup()`: an eventfd refuses transfers of fewer than eight bytes,
and on the platforms the project builds for an `int` has four. It is chosen at the start
(from `IntSizes`) so that the protocol is checked both as it is built and as it is written.
Two variables are history: `woken`, that `wakeup()` has been called since the queue was last
swapped out, whatever the eventfd made of it; and `early`, the functors that the owner queued
outside `loop()`, for which `queueInLoop` writes no wakeup.

**`Poller`** is the Channels of one loop and the EpollPoller. The three branches of
`updateChannel` are `AddChannel`, `ModifyChannel` and `DisableChannel`; `epoll_ctl` is
modelled as it fails, because `update()` only prints that. Every assertion that fails
ends the process, and `aborted` says which: `"misuse"` is what `removeChannel` asserts of
its callers (a Channel without interest, and not one still to be dispatched), `"records"`
is what the poller asserts of `channels_` and `status_`, and `"full"` that fewer descriptors
are ready than `eventVec_` has entries. Callers are free to misuse it.

**`TcpConnection`** is one connection on its loop's thread with its socket, its
registration and a client that acts between any two steps: `pc` is where the thread
is in the dispatch of an event. A reply is a sequence of distinct bytes and possibly
a NUL, so that a lost, repeated or misplaced byte shows; `strcpy` in `sendInLoop` is
modelled by what it does to NULs, and to the byte before the buffer when `write`
returned -1. `handleWrite` takes one step for each `write` that changes something.

**`ConnectionLifecycle`** is the promise of the server about each connection: accepted,
served, closed, released, in this order, each once, and not left closed or unserved
when the client has reset it. What it owes a connection it owes as long as that is not for
ever `stalled`, a variable that the implementation defines.

**`TcpServer`** composes all loops with the acceptor, the pool, `connections_`, the
connections and the functors between them. The pool's size is chosen at the start
(`setThreadNum`), from 0 - where everything runs on the base loop and a connection is
removed inside its own handler - to `MaxThreads`. Each loop is abstracted to what
`EventLoop` guarantees: snapshot, dispatch, swap, run in order. `held` is the set of
connections kept alive by functors of the batch that have run. A message is answered once, and
the reply may be followed by `shutdown()`, as in `HttpServer`; it leaves at once, or in part,
or is kept, and then `EPOLLOUT` brings `handleWrite`, one `write` a step, up to `MaxWrites`
of them. Inside it the loop does nothing else, and while the socket is full it repeats the
`write` for ever (`Spinning`). `handleWrite` closes the connection itself when it has nothing to
write, and goes on. `dead` says how the process ended: with the assertion of `handleClose`
(`"close"`), with another one, or with `SIGPIPE`. Which bytes are sent is left to `TcpConnection`.

**`EventLoopThread`** is `EventLoopThreadPool::start` and the destruction of the pool: the owner
starts one thread after the other and waits for the loop each publishes, later quits and
joins them in turn. The pthread mutex and `holder_` are two variables, because
`Condition::wait` gives the first away without the second; `pthread_cond_wait` may wake
spuriously. The latch of `Thread::start` is its count. `QuitEarly` lets the pool be destroyed
before its loops have entered `loop()`.

**`ThreadPool`** is the thread pool of v0.1: the doubly linked list with its two ends and both
chains of links, the semaphore, the workers' loop `job_do`, `add_work` by anybody outside and
by running jobs, and `destroy`. What the pool's mutex covers is one step; `sem_wait` and the
two tests of `threadPool_keepAlive` are steps of their own.

**`HttpServer`** is one connection of the HTTP server: `onMessage`, the parser of `HttpContext`
with one action for each state of its loop, and `onRequest` with the reply and the close. The
stream is a sequence of lines, each what it means to the parser, and a message is any piece
of it. `addHeader` with white space behind a value, and `getHeader` of a header that is not there, do
what the code does: loop for ever, and return anything or crash. `send` on a connection no
longer connected does nothing, so the lines stay in `readBuf_`, with NULs where `parseLine` found
their ends (`Kept`). A line that ends otherwise than in CR LF is not among the client's lines. Whether
the reply leaves whole is left to `TcpConnection`.

**`TimerQueue`** is the promise of the timer heap: a set of timers from which the one that is due
first is removed, and none is removed twice.

**`TimerHeap`** is the heap and the one thread that calls `tick`. It adds and deletes timers between
two `tick`s and from their callbacks, and when `others` is set so do other threads; each iteration of
`percolate_up`, `percolate_down` and `resize` that a reader without the mutex can see is a step. `freed`
says that `array` points to what `resize` has just deleted. A read of freed memory, or of a deleted
timer, ends the model with `lost`. The heap is made empty or of an array in any order.

**`Slog`** is `slog()` at its three levels. A thread has a stack of calls, because each failure calls
`slog_error`; `overflow` is the end of a thread whose `slog_error` fails for its own lock again and
again. A thread that asks for a lock it holds gets an error from `pthread_rwlock_wrlock`.

**`HttpConn`** composes the event loop of v0.1's reactor, the queue and the workers of its pool, and one
`HttpConn` with its client. `reg` is what the descriptor is armed for: an event disarms it, `modFd`
arms it. The stream is made of *units* (lines, and halves of a body), which arrive cut anywhere
between units; a cut within a line is for `parseLine` the same as one before it. `UseAfterDelete` ends
the model with `lost`. The handlers stand in a comment of `src/handler_io.cc`; v0.1's reactor calls
them, and the build of `src/` does without both.

`MCEventLoop`, `MCPoller`, `MCTcpConnection`, `MCTcpServer`, `MCThreadPool`, `MCTimerHeap` and
`MCHttpConn` give the small sets and the symmetries. For a module *M*, *M*`_proofs` holds its theorems;
those of `Poller` are in `EventLoop_proofs`, beside the loop that polls, and those of `HttpServer` in
`TcpServer_proofs`, beside the server it is built on. `Poller` and `HttpServer` therefore name
what would clash there after themselves (`PollerSpec`, `HttpTypeOK`).

Definitions named `X_Something` beside a definition `X`, each with a comment that
begins with *Mutant*, are not part of the model: each is `X` with a plausible bug, for
which a property of the run must fail.

## What TLC checks

| run | bounds | shows |
|---|---|---|
| `loop` | 2 foreign threads, 3 functors, an `int` of 4 or 8 bytes | `OnceInOrder`: no functor is lost, run twice or overtaken. `WakeupCalled`: the loop is never in `epoll_wait` over a functor (but those of `early`) or a quit for which nobody has called `wakeup()` or is about to. `WakesIfAccepted`: with eight bytes the eventfd is then readable, or a thread is about to write it. Under fairness, with eight bytes and with the refused wakeups of the real build, `QuitStops`: every quit is obeyed; `IsExecutor`: the loop implements `FunctorExecutor`, which says as well that every functor is run - with four bytes by the 10 s timeout alone. |
| `loop_lost_wakeup` | 1 foreign thread, 2 functors, 4 bytes | *Violated*: `NoLostWakeup`, that the loop never sleeps over a functor or a quit. |
| `poller` | 3 Channels, `eventVec_` of 3 | `RecordsAgree` over all sequences of interest changes and removals, also in mid-dispatch: the poller's map, the flags of the Channel and the kernel's list. `OwnAssertsHold`: the poller's assertions about them. |
| `connection` | 3 requests, a socket of 2 bytes, replies of 1 and 4 bytes, `readBuf_` of 2 chunks | `BufferedIsWaitedFor`; `NoLostEdge`: what arrives while nothing waits to be written is reported, being read, or behind a full `readBuf_`. `FinIsLast`: no FIN while output is buffered, and no output after it; and under fairness `RequestsRead`. |
| `server` | 2 connections, 0 or 1 io loop, 2 writes for a kept reply | `TornDownCleanly`: connections go in order, and nothing points to one that is freed. `AssertsHold`: no assertion fails but that of `handleClose`. Under fairness `IsLifecycle`: the server implements `ConnectionLifecycle`, which says as well that a reset connection is released - unless the process ends, or its loop or the base loop stays in `handleWrite`. |
| `server_close` | 2 connections, 0 or 1 io loop, 1 write | *Violated*: `ClosedOnlyWhenOpen`, the assertion of `handleClose`. |
| `loop_threads` | 3 io threads | `LoopsLive`: `startLoop` never returns a null or a dead loop. `HolderHolds`: `holder_` never names a running thread that does not have the mutex, whatever a wait has done to it. `WaitEnds`: the owner waits only for a notification yet to come. `OwnerReturns`: no assertion fails, and under fairness `start` returns and the destruction ends with every thread joined. |
| `thread_pool` | 2 workers, 3 jobs | `TokensMatch`: the semaphore and those past it account for the list. `WellLinked`, `TakenInOrder`, `FreedOnce`, and under fairness `PoolProgresses`: jobs that are added are run, and `destroy` comes back. |
| `http` | 2 requests, each of 3 versions, 4 files and 5 values of Connection | `AnsweredInFull`: while every message was one request, the replies answer the requests in order, nothing of one reaches the next, and nothing follows a reply that announced a close. `EveryMessageAnswered`: every message is parsed to its end, except in a header that ends in white space. |
| `timer_heap` | 5 timers due at 0, 1 or never, arrays of up to 4, growing from 1 | `HeapIntact`: whenever the mutex is free, the array is a heap of what was added and not deleted. `RunsWhatItDeletes`: `tick` calls back what `pop` deletes, and not before its time. `SafeAlone`: without other threads nothing freed is read. `IsTimerQueue`: the heap implements `TimerQueue`, so `pop` deletes the timer that is due first. |
| `http_conn` | 2 workers, 2 requests of every kind that is answered differently, a buffer of 9 units | `OneAtATime`: one worker at a time, and none after the deletion. `AnswersInOrder`: the answers of a client that waits for them, each whole unless the socket took less. `NotForgotten`: an open connection is armed, on its way to a worker or in the hands of one. Under fairness `EveryRequestAnswered`. |
| `slog` | 2 threads, 4 calls, any `fopen` may fail | `LogIsKept`: a file is open under its lock, and every failure is in `error.log`, unless the process is lost. Under fairness `CallsReturn`: a call comes back unless another thread's failure kept its lock. |

The type invariants of `EventLoop`, `Poller`, `EventLoopThread`, `ThreadPool` and `Slog`, which bound nothing
that could overflow, are left to their proofs; those of the other modules, which keep indices within
buffers, are checked here as well.

**Why the bounds suffice.** In `EventLoop` a race has one pusher between the swap and
the sleep and one that wrote the eventfd before; a third functor tells the order of
the batch from that of the queue. In `Poller` a batch needs the current Channel, one
still to come and one outside, and three Channels fill an `eventVec_` of three as sixteen fill the
code's. In `TcpConnection` a socket of two bytes and replies of
one and four give every case of a full, a partial and an exact write, and two chunks
fill `readBuf_`. In `TcpServer` two connections meet on one loop, and their functors cross
between it and the base loop; no operation concerns three connections, and io loops never
turn to each other (what TLC checks with one, the proofs have for any number). Two writes for
a kept reply are what it takes for the second to find the socket full. In
`EventLoopThread` a thread can be late while its neighbours are started or joined. In
`ThreadPool` a list of three has two ends and a middle, and two workers are enough for one to
take what the other was woken for. In `HttpServer` the second request meets what the first
left behind, in the parser, the buffer and the state of the connection. In `TimerHeap` five timers are
three levels of the heap and two growths of the array under one `tick`; their due times make timers that
are due first, later, or at once. In `HttpConn` the races are between two workers, or one worker and the
event loop; nine units hold the longest request, and two of them fill the buffer. In `Slog` one thread's failure
meets another's call at the same level, with calls left for the levels between.

**Fairness.** `EventLoop` and `TcpServer` assume weak fairness of each loop's steps:
`epoll_wait` returns after `CPollTimeMs` at the latest, and the operating system schedules the
thread. In `EventLoop` handlers and functors return. In `TcpServer` that is not assumed of
`handleWrite`: to try again what the full socket refused is no step, so that the loop stays there
unless the client reads or goes, and `IsLifecycle` owes nothing to connections that wait for
such a loop. `EventLoop` adds that a thread that
pushed goes on to `wakeup()`. Nobody is forced to call, to connect, to send, to read or
to close. `TcpConnection` and `HttpServer` assume the same of their loop. `EventLoopThread` assumes
weak fairness of the owner and of each thread, and strong fairness of taking a mutex: a
spurious wakeup may come again and again, and whoever waits for the mutex must get it when
it is free infinitely often. `ThreadPool` assumes weak fairness of each worker and of `destroy`, and
with it that jobs return; nobody has to add one or to destroy the pool. `HttpConn` assumes weak fairness of
the event loop and of each worker, that the client reads what it is sent, and strong fairness of a
`writev` that takes everything: a client that reads does not for ever leave room for a part only.
`Slog` assumes weak fairness of each thread: `CallsReturn` needs no more, because of two threads only
one can wait for a lock. `TimerHeap` has no liveness property; nothing in the repository calls `tick`.

**Deadlock** is checked where the system cannot stop. It is switched off for `Poller`, where a failed
assertion ends the process; for `TcpConnection` and `TcpServer`, where clients may do nothing for ever, `epoll_wait`
without events is a stutter, and a failed assertion ends the process; for `HttpServer`, where
the thread may be lost; for `EventLoopThread` and `ThreadPool`, which are over when the pool is
destroyed - `OwnerReturns` and `PoolProgresses` say that this point is reached; and for `TimerHeap`,
`HttpConn` and `Slog`, which nobody has to call, and where memory misused, a stack that overflows or a
lock left behind ends what can happen - `EveryRequestAnswered` and `CallsReturn` say when that may be.

### Where the code disagrees with itself

* `loop_lost_wakeup`: `wakeup()` (`src/EventLoop.cc:98`) writes `sizeof(int)` bytes to an
  eventfd, which fails with `EINVAL`. Cross-thread functors wait for the 10 s timeout
  or for unrelated events.
* `server_close`: after a closing reply the server shuts the connection down, and the hangup that comes
  when the client closes as well meets the assertion of `handleClose` (`src/TcpConnection.cc:196`), which
  does not expect `CDisconnecting`. The loop of `handleWrite` meets it too, since it goes on after its
  own `handleClose` (`:186-188`).

More disagreements follow from the models and have no run. In the server:

* Bytes kept by `sendInLoop` start one before the buffer when `write` returned -1 (`Buffered`). Every
  `write` of `handleWrite` (`src/TcpConnection.cc:158`) starts at the beginning of `writeBuf_`, and the
  loop ends when half of it is counted as sent (`WriteSome`), against the comment at
  `src/TcpConnection.cc:29`, "save remaind data to conn's writeBuf_ [...] send it next time". Of a
  reply 2 3 4 5 6 of which the socket took 2 3, a slow client receives 2 3 4 4.
* `fillActiveChannel` asserts that fewer descriptors are ready than `eventVec_` has entries, before the
  line that would make room ("The capacity has been used up, expand double",
  `src/EpollPoller.cc:27`): `PollFull` is reached in run `poller`. That line would not help: `reserve`
  leaves `size()` as it is.
* `handleRead` returns on end of file and nothing closes the connection (`handleReadEnd`), although
  `src/TcpConnection.cc:135` says "peer closed".
* `disableWrite()` keeps `EPOLLOUT` and drops the rest, so after a flush `handleWrite` can run with
  nothing to write and takes `write`'s 0 for a close (`WriteNothing`).
* `Acceptor::handleRead` accepts one connection per edge of the listening socket, so that
  `listenReady = FALSE` with a non-empty `backlog` is reachable in `TcpServer`.
* `handleWrite` repeats a `write` refused with `EAGAIN` instead of waiting for the next `EPOLLOUT`, as
  `src/TcpConnection.cc:160` says it does, so that the loop stays there as long as the client does not
  read (`pc = "writing"` in `TcpConnection`, `Spinning` in `TcpServer`).
* No code closes an accepted descriptor, although `src/TcpConnection.cc:197` leaves that to the
  destructor.
* `loop()` resets `quit_` (`src/EventLoop.cc:43`), so that a `quit()` before it is lost: with
  `QuitEarly = TRUE` `OwnerReturns` fails in run `loop_threads`.
* `parseRequest` answers what it has when the lines end (`OutOfLines`), though `parseLine` calls
  that "line is reading" (`src/HttpContext.cc:42`): a request split over two messages gets two
  replies, and requests that come in one message get one. `AnsweredInFull` is therefore stated
  for messages of one request (`whole`).
* `addHeader` loops for ever on a value that ends in white space, and `getHeader` follows the end
  iterator of the map: the `if` of `src/HttpRequest.h:53` ends in a semicolon.
* `threadPool_keepAlive` is never set again, so a second pool would run nothing.

In v0.1 and its `HttpConn`:

* After an answer that closes, `write()` arms the descriptor before the caller deletes the `HttpConn`
  (`src/HttpConn.cc:288`). What the client sends then - the rest of a bad request is enough - brings a
  second worker into it. `OneAtATime` therefore stops at such an answer when more may come.
* `writev` that takes a part: `bytes_to_send` leaves out the file, so the answer counts as complete at
  half of the head, or is sent again from its start (`WriteHalf`, `WriteLittle`).
* A missing file is `NO_REQUEST`, "not yet complete", and is never answered, although `processWrite`
  has a case for it; an empty file makes `processWrite` fail, and `closeConn` forgets the descriptor
  before `modFd` (`WelcomeFails`). A line that ends in a line feed alone, and a body that comes in two
  pieces, are waited for for ever: for a body `checkedIdx` has moved past the first piece.
* An event that carries `EPOLLRDHUP` is dropped with what else it reports, and the connection stays.
* `init()` after an answer drops the requests that came with the one it answered.
* The listening descriptor is registered one-shot and armed by nobody, so one connection is accepted;
  the model therefore has one.

In the timer heap and the log:

* With other threads at the heap, `tick` reads what `resize` has deleted: `SafeAlone` holds because it
  excepts them. A callback that adds a timer due earlier makes `pop` delete that one un-run
  (`overtook`).
* `slog` returns with the level's lock held when `fopen` fails (`src/Slog.cc:90`): other threads wait
  for ever at that level, the same thread gets an error. For `error.log` the report of the failure
  fails for the lock just kept, and so on until the stack is full.

## What is proved

For all values of the constants, checked by TLAPS:

* `EventLoop_proofs`
  * `TypeCorrect`: `Spec => []TypeOK`.
  * `OnceInOrderHolds`: `Spec => []OnceInOrder`. The invariant is inductive together with
    the types; the step that matters is the swap, which moves the queue behind an empty
    batch, and `MoveHead`, which says that running the head of the batch leaves the
    concatenation as it is. That the batch *is* empty at the swap has to be added to the
    invariant (`OrderInv`).
  * `WakeupCalledHolds`: `Spec => []WakeupCalled`, whatever the eventfd accepts. `WakeupCalled`
    speaks of `epoll_wait` only; `CalledInv` says what holds before it: wherever the owner can
    go on to `epoll_wait` without a swap, whatever is queued has had its call of `wakeup()`,
    or the thread that pushed it is about to make it. That the eventfd would then be readable
    (`WakesIfAccepted`) is not proved, since the one the build writes to is not.
  * `ImplementsExecutor`: every step is a step of `FunctorExecutor` or a stutter. Its
    liveness part is checked by run `loop` only.
* The poller, in `EventLoop_proofs`
  * `PollerInvInductive`: `PollerSpec => []PollerInv`, where `PollerInv` is `PollerTypeOK`,
    `RecordsAgree`, `OwnAssertsHold` and `DispatchInOrder`. The last one is
    there for the proof only: outside handling nothing is being dispatched, and a Channel is
    dispatched once. `UpdateRegisters` is the lemma the rest leans on: whichever branch
    `updateChannel` takes, what epoll holds afterwards is the new mask.
  * `PollerTypeCorrect`, and `RecordsAgreeHolds` and `OwnAssertsHoldAlways`: invariants of run `poller`, for
    any set of Channels, any size of `eventVec_`, and callers that may misuse the poller.
* `ThreadPool_proofs`
  * `PoolInvInductive`: `Spec => []PoolInv`, for any finite set of workers and any jobs. `PoolInv` adds to
    the properties below what relates the program counters to `destroy`: who may still wait,
    test or take while the pool goes down (`AliveInv`, `JoinInv`), and that the list is what was
    added and not yet taken (`FifoInv`). `TokensMatch` counts workers at a place; `MoveCounts` is the
    lemma that one worker's step changes two of those counts by one.
  * `TypeCorrect`; `TokensMatchHolds`, `WellLinkedHolds`, `TakenInOrderHolds`: invariants of run `thread_pool`;
    and `NoNullJobHolds`: no worker follows the `NULL` of an empty list.
  * `FreedOnceHolds`: `destroy` walks from the tail along `prev`, of which the model has a recursive function
    (`Listed`). `ListedIsWaiting` shows that it meets the waiting jobs and no other: of the places
    where the walk could first leave the list there is a least one (`LeastNatural`), and the
    one before it is linked to it. `FreedInv` says that a job's memory is the list's or one worker's.
* `EventLoopThread_proofs`, for any number of threads and with or without `QuitEarly`
  * `ThreadsInvInductive`: `Spec => []ThreadsInv`. Where the owner is (`StageInv`) tells which threads have
    been created, found, told to quit and joined; `LockInv` gives mutex and `holder_` by the places of
    both sides, one step apart; `LoopInv` follows a loop from its publication to its end.
  * `TypeCorrect`, and `LoopsLiveHolds` and `HolderHoldsAlways`: invariants of run `loop_threads`. `EndsWell`: no
    assertion fails, and when the pool is gone every thread has been joined.
  * `WaitEndsAlways`: what `OwnerReturns` needs for its owner to leave `startLoop`. The owner tests `loop_` under
    the mutex it gives up by waiting, so a thread that has not published when it waits finds it waiting.
* `TcpConnection_proofs`, for any set of replies and any sizes of the socket and of `readBuf_`
  * `ConnInvInductive`: `Spec => []ConnInv`. `ShutInv` is what `FinIsLast` lacks: after the FIN nothing is
    buffered *and* the connection is no longer `CConnected`, so that no `send` can buffer more.
    `SendKeeps` is the lemma about `sendInLoop`: whatever `write` took, what is kept has a write interest.
  * `TypeCorrect`, `BufferedIsWaitedForHolds`, and the action property `FinIsLastHolds`. A reply is a sequence
    of natural numbers and the number of requests is natural; no more is assumed.
  * `NoLostEdgeHolds`: what `RequestsRead` needs for the request to be read. `InterestInv` says why the
    edge cannot pass unseen: a `CConnected` connection with nothing to write is registered for reading, and
    only `handleWrite`, which is not at work then, would end that.
* `TcpServer_proofs`, for any connections and any number of io loops, 0 included
  * `ServerInvInductive`: `Spec => []ServerInv`. A connection has at most one functor in a loop's queue and
    batch (`FunctorInv`). `DutyInv` says what a functor will find when it runs, from the moment it is queued,
    in spite of what the loops do until then; `ConnsInv` gives the Channel, the map and the functors of a
    connection by its `state_`. `BacklogInv` makes every accepted connection a new one.
  * `TypeCorrect`, `TornDownCleanlyHolds`, and `AssertsHoldHolds`: whatever the server shuts down and
    `handleWrite` closes, no assertion fails but that of `handleClose`, which run `server_close` refutes.
    A handler that runs keeps its connection referenced, and while `handleWrite` is at work its loop
    runs no functor (`ActiveInv`); so a close from there finds the connection in `connections_`.
  * `ImplementsLifecycle`: every step is a step of one connection in `ConnectionLifecycle`, or a stutter.
    Its liveness part is checked by run `server`.
* The HTTP server, in `TcpServer_proofs`
  * `HttpTypeCorrect`, `HttpAnsweredInFull`: the invariants of run `http`, for any number of requests. An induction
    over the steps needs to know, in the middle of `parseRequest`, which request is in `readBuf_` and what of it
    `request_` has: `MessageInv` says that it is the first unanswered one (`InHand`), `RestInv` that
    between messages the parser is as `reset()` leaves it, and `CloseInv` that a connection still
    `CConnected` has announced no close.
* `HttpConn_proofs`, for any number of workers, any requests and any size of the buffer
  * `ConnInvInductive`: `Spec => []ConnInv`. At its heart is `TokenInv`: the armed descriptor, the reported
    event, the queued job and the worker in a handler are at most one together - a token that nobody
    holds a lock for. `GoneInv` follows it past `closeConn`: up to an answer that closes, nothing is armed
    once the `HttpConn` is being deleted. `AnswerInv` and `UrlInv` say that whoever writes has an answer and the
    answer its request.
  * `AnswersInOrder` needs where the parser is in which request. For a client that waits, `PoliteInv` says
    that the buffer and the socket together hold exactly the request in hand, and that `checkState_`, `checkedIdx_`,
    `linger` and the length agree with the units the parser has passed; between requests everything is
    as `init()` leaves it. For any other client, `OrderInv` says that what is not yet parsed is
    whole requests in the order sent, with the end of one in front of them.
  * `TypeCorrect`, `OneAtATimeHolds`, `AnswersInOrderHolds`: invariants of run `http_conn`.
  * `NotForgottenHolds`: `OneAtATime` says that there is not more than one token, this one that it is not lost.
    `StoredInv` is what `event_loop` needs: from the acceptance on the handler is stored, or a worker is at it
    with the lock that the lookup waits for.
* `Slog_proofs`, for any finite set of threads and any number of calls
  * `SlogInvInductive`: `Spec => []SlogInv`. A stack is one call with calls of `slog_error` above it, three at
    most (`StackOK`). `CountInv` counts the failures already written and not yet returned, because
    `LogIsKept` compares the two numbers only after the return; whoever holds `lock_error` will unlock it or
    is lost (`ErrorLockOK`).
  * `LogIsKeptHolds`: the invariant of run `slog`.
* `TimerHeap_proofs`, for any timers and expiry times, any initial array and capacity, with and without other threads
  * `HeapInvInductive`: `Spec => []HeapInv`. The heap is broken and restored one assignment at a time, so the
    invariant speaks of the array in between. `Entry` reads it as if the timer that `add_timer` carries were in its
    hole already, and `OrderInv` says where around the hole the order may be missing: while the hole rises
    only between it and its parent, while it sinks only between it and its children, and in both cases the
    hole's parent is due before its children, so that the exchange restores more than it breaks.
    While the constructor makes the heap, the order holds from `lo` on. `ContentInv` gives the
    entries as a set in each of these shapes, `LockInv` who may be in which.
  * `TypeCorrect`, `HeapIntactHolds`: whatever is added, no index leaves the array, and the heap is whole
    whenever the mutex is free.
  * `RunsWhatItDeletesHolds`, `SafeAloneHolds`: `TickInv` follows the timer that `tick` has read without the mutex
    to its deletion; `FirstInv` says what the first slot holds at each place.
  * `ImplementsTimerQueue`: every step is a step of `TimerQueue` or a stutter. `RootIsFirst` is why `pop` may take
    the first slot: if some timer were due earlier, there would be a least slot that holds one
    (`LeastNatural`), and its parent is due no later.

Each of these invariants was first checked by TLC, with the bounds of the component's run.

Liveness under fairness is out of the prover's reach and is checked by TLC alone: `QuitStops`,
`RequestsRead`, `OwnerReturns`, `PoolProgresses`, `EveryMessageAnswered`, `EveryRequestAnswered`,
`CallsReturn`, and the liveness parts of `IsExecutor` and `IsLifecycle`.
For three of them the proofs cover the safety argument, that nothing is lost on which a thread would
then wait: `NoLostEdge` for `RequestsRead`, `WaitEnds` and `EndsWell` for `OwnerReturns`, `NotForgotten` for
`EveryRequestAnswered`. What a recursive function computes for every input, such as the length of
`Listed`, would need induction over data; the proofs argue with a least counterexample instead.

## What is not modelled

* `startRead`, `stopRead` and calls of `send` and `shutdown` from other threads: nothing in the
  repository makes them. `~TcpServer`: no program quits its base loop, so it never runs.
* The start of the pool in `TcpServer` (its loops are running; `EventLoopThread` has it).
* Queries of requests, bodies in `HttpServer`, cuts within a line there, and the text of replies and answers.
* Lines of a request that end in a bare CR or LF (`LINE_BAD`): `parseRequest` stops at one as at an
  incomplete line, and answers what it has.
* The branch of `HttpConn::write` for an empty answer (`src/HttpConn.cc:260-264`): `write` follows a
  `processWrite` that has succeeded and left a head in `writeBuf`.
* The size of `writeBuf_`: nothing in the code looks at it.
* `rm_eh`, whose only call is commented out (it would take the handler from `ehs[current_idx]`, one past
  the last); a full table of handlers, which one client cannot fill; signals and the timer handler,
  which are comments; several clients of v0.1, since it accepts one; failures of `malloc`.
* The destructor of `TimerHeap`, a capacity of 0, timers without a callback, and `pop` and `top` called
  by others than `tick`.
* `slog_init`, the message buffers, failures of `fprintf` and of unlocking.
* `ConfigUtil`: one file is parsed at start-up, before there is a second thread.
* Wrappers of system calls, the sample programs and the load generator.
* Errors of `epoll_ctl` other than a descriptor's being or not being registered, of `accept`, of
  `malloc` and of `pthread_create`.

## The plan

Done: every component with state that changes after start-up has a module; every safety property of
the passing runs is proved but `WakesIfAccepted`, whose case is not the build's; and so is every step
of the three refinements. What is open:

1. Liveness, which the provers cannot reach, beyond the bounds of the runs.
2. Should the code change where it disagrees with itself - the eight bytes of `wakeup`, the interest that
   `disableWrite` drops, the state that `handleClose` asserts - the violated runs become passing
   ones, and the exceptions in `NoLostEdge`, `RequestsRead` and `IsLifecycle` can go.
