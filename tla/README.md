# Verification of the swoole core

TLA+ models of the concurrent core of swoole (the C++ code under `src/` and
`include/`), checked with TLC on small instances, with proofs for the coroutine
scheduler, the coroutine channel, the coroutine socket, the row lock of the shared
table and the process pool that TLAPS checks for every number of coroutines, processes
and workers. Paths below are those of the repository.

## 1. The system

swoole is an event-driven network engine. One thread runs one *reactor*, a loop
that waits for events and timers, and a *coroutine scheduler* on top of it:
blocking calls suspend the coroutine, and events, timers or other coroutines resume
it. A *server* is a tree of processes: a master with reactor threads, a manager
that forks and replaces workers, event workers and task workers. Processes share
memory (pools, ring buffers, channels, tables, locks) and talk over pipes.

| Part | State | Operations | What makes it hard |
|---|---|---|---|
| coroutine scheduler `coroutine/base.cc` | current, origin and state of every coroutine | create, resume, yield, yield_ex, cancel, close, bailout | nested resumes; timers and cancel functions that point into a suspended stack frame; a coroutine that ends while it is the origin of others |
| coroutine channel `coroutine/channel.cc` | ring of data, two wait queues, closed | push, pop, close, time-out, cancel | a woken coroutine runs at once, inside the call that woke it, and may push, pop or close itself |
| manager `server/manager.cc`, `ReloadTask` in `os/process_pool.cc` | pid table, reload task, signal flags, message box | wait loop, signal handler, reload, restart, shutdown | signals between any two steps, merged SIGCHLDs, stop messages that race with exits |
| timer `core/timer.cc` | map and heap of timers, next time-out of the reactor | add, remove, delay, select | callbacks that change the timer that is being walked |
| heap `core/heap.cc` | array and positions | push, pop, remove, change_priority | positions must follow every move |
| AIO thread pool `os/async_thread.cc` | queue, threads, counters, result pipe | dispatch, cancel, schedule, worker loop, release, shutdown | threads, a condition variable, idle time-outs |
| shared-memory channel `core/channel.cc` | head, tail, tags, counters | push, pop | variable lengths, wrap around |
| ring buffer `memory/ring_buffer.cc` | offsets, free count, items in memory | alloc with collection, free | free from other processes, without a lock |
| signals `os/signal.cc` | marks, dispatch flag | handler, dispatch | the handler interrupts the dispatch |
| wait/waitpid `os/wait.cc` | wait list, map of waiters, cached statuses | wait, waitpid, SIGCHLD handler | resumed coroutines wait again inside the handler; time-outs |
| process pool `os/process_pool.cc` | workers, reload task, detached pids | wait loop, reload, detach | as the manager |
| table `memory/table.cc` | hash rows, chains, row locks, iterator | set, add, get, del, cmpset, forward | locks whose holder dies, rows that move |
| message bus `protocol/message_bus.cc` | partial packets by message id | write, read | mixed chunks, errors in the middle |
| locks `lock/`, `coroutine/file_lock.cc` | lock word, owner | lock, unlock | back-off, ownership |
| pools `memory/fixed_pool.cc`, `global_memory.cc` | list of slices | alloc, free | idle and busy slices share one list |
| LRU cache `swoole_lru_cache.h` | list and map | get, set, del | expiry |
| reactor `reactor/` | events, deferred tasks, exit conditions | wait, add, del, write, defer | when may the loop end |
| coroutine socket `coroutine/socket.cc` | reader, writer, their timers, events in the reactor, close state | recv, send, cancel, close, callbacks | close while others wait; one event with two callbacks |
| server connections `server/` | session list, connections, pipes, output buffers | accept, read, write, send, close, idle check | descriptors used again, close from both sides, a worker that crashes |
| network, protocols, strings, logs, wrappers, PHP extension | buffers, parser states | parse, pack, system calls | data rather than order of steps |

`PROJECT.json` lists every part with its sources and status, and every hazard at the
line where it bites. Modelled, in whole or in part: all rows but the locks, the LRU
cache, the reactor as a part of its own, and the last one.

How they meet: the channel is composed with the scheduler (`CoChannel` EXTENDS
`Coroutine`, and its actions are conjunctions with the scheduler's resume and
yield); the timer uses the heap (`Timer` EXTENDS `Heap`); the manager and the process
pool use the reload task (`Manager` and `ProcessPool` EXTEND `ReloadTask`); the table
keeps its conflict rows in the fixed pool (`Table` EXTENDS `FixedPool`) and the
iterator walks the table (`TableIterator` EXTENDS `Table`). `Connection` composes
reactor, workers and the pipes between them. Both queues are shown to implement one
abstract specification, `BoundedFifo`, and the table to implement `KeyValue`.

## 2. The modules

### Coroutine (`coroutine/base.cc`, `swoole_coroutine.h`)

`current`, `origin`, `state`, `resume_code`, `cancel_fn` and `on_bailout` are the
fields of the code; `timer` says that the timer of `yield_ex()` is pending, and
`pc` where a coroutine is suspended. `resume(c)` and `yield(c)` are the bodies of
the two functions up to the stack switch. What the code does after the switch
returns is an action of its own (`AfterYield`, `AfterYieldEx`, `ReturnFromResume`),
because other coroutines run in between. `End` is the end of the coroutine's
function and `close()` with the loop that repairs the origins of its children.
`Bailout` passes straight to the outermost origin and leaves whatever had begun where it
is; `abandoned`, which is history, remembers those coroutines. The event loop goes on
after it, and may create and resume others. `user` code is any sequence of calls of the
interface that the code allows. A behaviour is one activation of the scheduler.

### CoChannel (`coroutine/channel.cc`, `swoole_coroutine_channel.h`)

A call of `push()` or `pop()` is one action up to the first point at which another
coroutine runs: it returns, or suspends (`Suspend`), or hands over and resumes the
waiter (`notify_consumer`, `notify_producer`). `PushWake` and `PopWake` are the
rest of the call after `yield()`. `close()` is a loop with one resume per
iteration. The ring keeps the code's offsets and its `mask_` arithmetic. `pushed`,
`popped` and `served` are history: what went in, what came out, and the order in
which callers were served. `BoundedFifo` promises only: put at the end while there
is room and it is open, take from the front.

### ReloadTask and Manager (`server/manager.cc`, `os/process_pool.cc`)

Processes are numbers never used twice. A process runs, is exiting after its stop message,
is a zombie or is gone (reaped). `pid` is the manager's table. `pending` holds at most one
of each signal, as the kernel does. The loop of `Manager::wait()` is cut at every place
where the order of events matters: test of `running`, entry of `wait()`, return, message
loop, clearing `read_message`, `select()` of the timer, beginning of a reload, restart, end
of a reload. What the server is configured to do, and the bounds, are the fields of
`setting`, which never changes. With `AsyncSignals = FALSE` signals are handled only while
the manager sleeps in `wait()`; with TRUE, between any two steps, and one that arrives while
a callback runs may be dropped, as `signal_handler_simple()` does when it finds its lock
set. `reload_async` chooses between signalling every worker at once and one after the other.
The alarm that kills workers after `max_wait_time` is part of the handler.

### Heap, HeapUse and Timer (`core/heap.cc`, `core/timer.cc`)

`Heap` translates the algorithm as operators on an array with positions; `HeapUse` applies
every sequence of operations. `Timer` has one action per call and cuts `select()` into
begin, callback begins, callback ends, end, so that callbacks can add and remove timers;
events delay them too. A delay may bring a deadline forward: the code has no test, and its one
caller gives seconds (`reactor_thread.cc:676`) for a timer that was added in milliseconds
(`master.cc:1612`). The wait of a round is the `timeout_msec` that the reactor
sleeps (`WaitBegins`, `WaitEnds`). `fresh` stands for the timers of the current round, which
`select()` does not call. Time advances by `Tick` at any moment.

### AsyncThreads (`os/async_thread.cc`)

The event loop dispatches, completes and releases; each thread goes through the
code's loop: test `running`, lock, take a task or wait on the condition variable
(with a time-out if it is not a core thread), leave or handle. The mutex is held
between the predicate and the wait as in the code. `NotifyOne` wakes any one of the
threads that wait or nobody.

### ShmChannel (`core/channel.cc`) and RingBuffer (`memory/ring_buffer.cc`)

Both keep memory as a function of addresses, so that overlap and wrong positions
show. In `ShmChannel` the unit is a byte with the real header of four; in
`RingBuffer` it is eight bytes, the alignment and the size of the header.
`ShmChannel` is used under its lock, so calls are atomic. `RingBuffer::free()` has
no lock: its two effects (the item's lock, the count) are two actions, and `alloc()`
is cut at the read of `free_count`, at each collected item and at the allocation. A
request may be as long as the ring; `Servable` says which ones fit when all is freed.

### Signal (`os/signal.cc`) and WaitPid (`os/wait.cc`)

`Signal` is the marking handler and `swoole_signal_dispatch()`, with signals between
any two steps. `WaitPid` has the three stages of `waitpid()` (cached status, first try
after the handler is registered, suspension), the SIGCHLD handler with one step per
child, and coroutines that it resumes and that may call `wait()` again before it goes
on. A coroutine can also be resumed by its time-out, or be cancelled, by the event loop.

### CoSocket (`coroutine/socket.cc`, `swoole_coroutine_socket.h`, `reactor/epoll.cc`)

One socket and the coroutines that use it. `bound` is `read_co` and `write_co`,
`events` what the reactor watches, `co_timer` the two timers. Whoever ends a wait
switches to the waiting coroutine inside its own call, so a stack of running
coroutines is kept (`stack`), and `close()` is cut at each of its two cancels. An
operation tries, waits (`WaitEvent`), is woken (`Woken`) and tries again or ends; the
kinds "loop" and "all" are the two ways in which the code waits. `EpollWait` returns
the bits of one event, which `Dispatch` and `DispatchError` handle one after the other,
each only if the socket is not `removed` by then, as `ReactorEpoll::wait()` does. A
coroutine that was told of a close has to close too (`owes`): that is what the code
asks of its users. `check_bound_co()`, which ends the program when two coroutines use
one direction, is the guard of `Begin`.

### Connection (`server/master.cc`, `process.cc`, `reactor_thread.cc`, `worker.cc`, `port.cc`)

A server in process mode with a reactor that accepts too, and the workers. `conn` is
the connection list in shared memory with the flags of the code; `client` is the peer,
`session_list` the slots, `pipe_master` and `pipe_worker` the messages under way. The
handlers of the reactor are one action each: `Accept`, `OnRead`, `OnReadEnd`, `OnWrite`,
`OnPipeRead` (with `SendData` and `SendClose`) and `IdleClose`, which is the heartbeat or
the timer of `max_idle_time`: it passes over a connection that a worker protects
(`Protect`), tells the worker the first time and releases the connection the second
time (`ReleasesIdle`). `ProcessFactory::end()` of a worker is three actions
(`EndBegins`, `OnCloseReturns`, `EndFinishes`) because the reactor runs between them,
and a worker may crash at each (`WorkerCrashes`). `log`, `given`, `sent` and `released`
are history: callbacks run, responses accepted and written, how a connection ended.
A `close()` of another worker is forwarded to the one that the descriptor is bound to; one
inside `onClose` of the same session ends at the test of `closing`, and one inside
`onClose` of another session of the same worker is left out (`CloseSession`).

### ProcessPool (`os/process_pool.cc`)

The loop of `ProcessPool::wait()`: `WaitReturns` (an exit or an interruption, with the
signals and timers then due), one `PopMessage` per message, then what the round does
with the exit (`NoExit`, `BeginReload`, `UnknownExit`, `WorkerExit`), and the shutdown
(`LeaveLoop`, `StopKills`, `AllReaped`). Workers exit, detach themselves and ignore
SIGTERM (`polite` is FALSE) in between. `map_` is the map from pid to worker.
`forgotten` and `strayed` are history and name the two exceptions described below.

### Table, KeyValue, FixedPool, TableIterator and RowLock (`memory/table.cc`, `fixed_pool.cc`)

`FixedPool` is the list of slices, free ones at its head and used ones at its tail.
`Table` has one action per operation, which holds the lock of its bucket from beginning
to end; a row moves between root, chain and pool as `insert` and `delete_row` move it.
`KeyValue` is what the operations promise: a map, answers that tell the truth, and a
refusal only when all slices are used. `answer` records the last call with its
arguments and its result, so that the refinement is about what callers see.
`TableIterator` cuts `forward()` where it looks at a root without its lock
(`Look`) and where it holds it (`TakeRow`). `RowLock` is the lock itself: the
compare-and-set, the late store of the pid, the probe for a dead holder, the two
seconds, with processes that die anywhere and pids that are used again.

### MessageBus (`protocol/message_bus.cc`)

Several senders and one reader over datagram pipes of limited room. A message is a
sequence of units; `write()` is one action per datagram (`BeginWrite`, `SendOk`,
`SendLater`, `SendError`, which lowers the size of the rest or gives up), `read()` one per
datagram (`Receive`), with the packet pool and the return to the loop after a number of
chunks. A sender without an event loop waits for room in the pipe (`writev_sync()`). One
with an event loop does not: the datagram goes behind the others in `out_buffer`
(`Reactor::write_func()`), and the loop sends them when the pipe is writable (`Flush`).
A setup says who writes to which pipe, whether messages are always chunked, whether
senders have an event loop, and which of `read()` and `read_with_buffer()` is used. The
reader may crash; the pipe survives and a new reader meets the rest of a message.

## 3. What is checked

Every passing run explores all reachable states of its instance. Deadlock is
checked where the system can always go on; it is switched off where the bounds on
calls, tasks, signals or processes, or the program itself (everybody waits for data
that nobody sends), let it stop.

| Run | Instance | Shows |
|---|---|---|
| `coroutine` | scheduler: 3 coroutines; socket: 3 coroutines, 4 calls besides close; 2 timers, clock to 3 | the running coroutines are exactly the chain of origins from `current`; no reference to an ended coroutine, no timer or cancel function outside its wait; nothing that a bailout abandoned runs again, though others begin after it; the reactor watches a socket for exactly the waiters there are, the socket is released once and unused; whatever has a time-out ends, and a closed socket is released |
| `channel_safety` | 3 coroutines, capacity 1, 4 calls | wait queues exact, time-out messages on live stack frames; no lost wakeup; close leaves no waiter; every failure has a cause; calls are served in order |
| `channel_live` | 2 coroutines, capacity 2, 4 calls | the ring implements `BoundedFifo`; close ends every wait, timed waits end |
| `manager_safety` | three servers: asynchronous reload of 1 event and 1 task worker; rolling reloads of the same, by SIGUSR1 and SIGUSR2; 1 worker with signals between any two steps | no worker without a process, no two that serve one worker, a reload is complete when its task is destroyed, stop messages are forgotten in time, nobody serves after shutdown; a property that holds only for some settings names them |
| `manager_live` | 1 worker, 2 deaths, asynchronous reload; 1 and 1 workers, 1 death, rolling reload | reload and shutdown end, even if workers ignore SIGTERM |
| `processes` | signals: 3 signals, 2 arrivals of each; thread pool: 3 tasks, 1 core thread of at most 2; message bus: 2 senders, 3 messages of 1 or 3 units in datagrams of 2, pipes of 2, one error or one crash, two setups (one pipe, from event loops, chunked; a pipe each, without event loops); process pool: 2 workers, 1 reload, 2 faults | counters and limits of the thread pool exact, and a push leaves no task without a thread while the pool may grow; only whole messages are delivered, once and in order; every worker of the pool has its process; what was begun is ended: signals called back, tasks done, messages delivered, reload and shutdown over |
| `structures` | heap: 6 nodes, 2 priorities; 3 timers, clock to 2; shared-memory channel: 13 bytes, lengths 0 to 4, 6 pushes; 3 coroutines that wait for 3 children, with wait() and waitpid() mixed, wait() only, or children of their own | order and positions of the heap for every sequence of operations; heap and map of the timers agree, callbacks in order of time and not early, the reactor never sleeps past a deadline; FIFO of whole slices, inside the memory, and an empty channel accepts; each status given once, no task outlives its wait, nobody who keeps apart waits for an exit that has been handled |
| `shared_memory` | table: 4 keys in one bucket, 2 slices, 2 values; iteration: 4 keys in two buckets; row lock: 3 processes; ring buffer: 8 units, requests of 1 to 8 | the table implements a map and no row is lost, doubled or left with old data; an iteration with insertions meets every key once; the lock excludes, and is recovered from the dead; blocks of the ring never overlap, the collector stays on items, the count is exact, a request that fits is served when the others are freed |
| `connection` | 1 descriptor for 2 sessions, 2 workers, 1 request, 2 calls of send, close or protect, 1 crash; no idle check, heartbeat, or `max_idle_time` | callbacks in order and once; an orderly close follows the responses; a connection whose peer is gone is released |
| `manager_lost_exit`, `aio_blocked`, `iteration` | as `manager_live` (rolling), as `processes`, as `shared_memory` | expected to fail, see below |

`MCCoroutine`, `MCProcesses`, `MCStructures` and `MCSharedMemory` hold components that
share nothing: a behaviour picks one of them in its first state and takes only its
steps, so that the states add up and do not multiply. In the same way `Manager` picks
its server among `Settings`, `WaitPid` the calls of its coroutines among `Programs` and
`MessageBus` its use among `Setups`. Liveness of the parts of one run is one property
(`TimedWaitsAreOver`, `WorkIsDone`, `SharedIsGiven`) that says "what part n has begun is
over at last" for each. Coroutines are interchangeable, so it asks about one of them.

Why these bounds suffice for the questions asked: three coroutines are the least that let
one be woken while another waits and a third takes what was meant for it; capacity 1 makes
the ring full and empty in turn, so that both queues come into use, and capacity 2 is the
least in which the order of data shows (four calls fill the ring and empty it; reading on
after the offsets have wrapped around is left to the proof, which is for every capacity).
One worker with one death during one reload already has all the races between its old
process, its new process, the stop message and the signals; the second worker adds the order
of a rolling reload. Three timers give a callback, the timer it removes and the one behind
both; a clock of two lets a round come late by a whole interval, so that a periodic timer
has to skip a call. Six heap nodes are the least for which the last node, which `remove()` puts into the
gap, can come from another subtree and has to rise instead of sink. The ring of eight units
has room for several blocks of different lengths with a skipped end behind any of them. On a
socket, a reader, a writer and a third who closes or cancels are all there can be at a time.
Four keys in a bucket with two slices make a chain with a first, a middle and a last row and
one key that is refused; two buckets of two are the least in which the place in one chain
can be carried into another. Three processes at a row lock are a holder and two waiters that
force it. Messages of three units in datagrams of two have a first and a last chunk, and a
size lowered in between makes a middle one. One descriptor for two sessions makes its reuse
the common case; the second worker is one the descriptor is not bound to. The clock and the
numbers of calls, tasks, deaths, reloads and processes are bounds of the model, named in the
CONSTANTS; nothing in the code is bounded by them.

Fairness. Coroutines: the one that holds the thread runs on (weak), and a timer that
is due again and again fires (strong, since the loop looks at timers every round);
`TimedYieldEnds` also assumes that coroutine functions which get the thread again and
again return. Manager: the manager runs, signals are delivered and alarms go off;
nothing is assumed of workers. Timer: the clock advances and the loop goes round; no
event is assumed. Thread pool: threads and loop run and handlers return. Ring buffer:
the allocator goes on and the holders free their blocks. Signals: the dispatch is
called when its flag is set. Socket: the thread runs on, sleeping coroutines are resumed,
a timer that is due again and again fires. Message bus: the reader reads while a pipe is
readable, and senders go on with a write that they have begun and with their event loop;
nothing about the order of pipes, or about when a message is written. Process pool: the master
runs, and processes that were killed exit. Row lock: a process inside `lock()` that
lives goes on, and time passes; nothing about holders. Connection: the reactor handles
what is ready, workers go on with what they have begun, and a silent peer is found by
the idle check again and again, as its timer is periodic; nothing about clients or the
application.

Type correctness of the scheduler, the channel, the socket, `wait()`, the manager, the
process pool, the row lock, the ring buffer, the shared-memory channel, the thread pool
and the connections is proved. In the modules other than the first two it is a
conjunct of one of their invariants (`BooksAreExact`, `TimersAreExact`,
`PoolIsExact`, `RingIsSound`, `TasksOnStack`, `WakeupsFindWaiter`, `PoolIsManned`,
`RowExclusive`, `CallbackProtocol`).

Every property has a mutant, a change of one definition that a slip in the code
would make, which the property detects in its own run; the mutants stand before the
definitions they change and are marked as such.

### Disagreements between code and comments

Three runs are expected to fail: each states what a comment of the repository says
and shows an order of steps in which the code does not do it. `PROJECT.json` quotes
the lines.

- `manager_lost_exit`: a worker reaped in the round in which a rolling reload begins
  is not restarted (`manager.cc:228`). `ExitIsNoticed` shows that SIGUSR1 with
  `reload_async` does not take this path.
- `aio_blocked`: a leaving thread still counts as a thread when a task arrives
  (`async_thread.cc:137`).
- `iteration`: `forward()` does not reset `collision_index` when it returns a root
  without a chain (`table.cc:355`). A process that iterates over a bucket and deletes
  rows of it until the root is alone skips rows of the next bucket.

### Further disagreements, excepted by the properties

The models also reach the orders of steps below, in which the code does not do what
a comment beside it suggests. They have no run of their own: the properties are
stated so that they except exactly these orders, and a property without its
exception fails in TLC with the order described.

- Signals handled between two steps of the manager (`AsyncSignals`). Hence the
  `~AsyncSignals` of `BooksAreExact` and `NoServerAfterStop`, the condition on `AsyncSignals`
  in `ReloadIsComplete`, and hence `manager_live` lets signals in only while the manager waits.
  - A stop message whose SIGIO comes just before `read_message` is cleared
    (`manager.cc:188`) is read after its process was reaped and replaced, and starts a
    second process for the worker. `manager.cc:216-224` describes two processes only
    while the old one finishes.
  - A SIGUSR1 between the two tests of a round (`manager.cc:267`) has its task
    destroyed before it begins, and the next round follows a null pointer
    (`ReloadNull`). `manager.cc:257` says that the task is destroyed once all its
    processes have exited.
  - A SIGUSR2 whose empty task is destroyed in this way leaves its flag behind. If a
    SIGUSR1 then begins a reload, the next round of a server without task workers
    destroys the task of that reload (`manager.cc:232-237`), although its processes have
    not exited.
  - A SIGTERM between the test of `running` and `wait()` (`manager.cc:163`) has no
    effect until a worker exits or another signal comes, although
    `ProcessFactory::shutdown()` sends it once and waits (`process.cc:192`).
- A reload of the task workers leaves out the part about the exit (`manager.cc:244`): if
  the process reaped in that round was a detached one, it stays in `detached_processes`.
  Hence `"USR2" \notin ReloadSignals` in `DetachedIsForgotten`.
- After an exit that was lost as above, a rolling reload may wait for ever
  (`ReloadEnds`).
- `AsyncThreads`: `shutdown()` stores `running` and notifies without the mutex and can
  miss a worker between its predicate and its wait (`async_thread.cc:112`); the join
  then never ends, where `async_thread.cc:557-560` has all threads terminated. No
  property says that `shutdown()` returns.
- `WaitPid`: `wait()` can take, on its first try, the child of a suspended `waitpid()`,
  which is then never resumed (`wait.cc:143`; the comment at 139 is about not losing an
  exit), and two calls of `waitpid()` for one child share an entry (156). Hence `Apart`.
- `Signal`: a mark set during a dispatch may be cleared, or its flag, without a
  callback (`signal.cc:206`, `209`), where `swoole_signal.h:65-67` says that the dispatch
  calls back what is marked. `SignalsHandled` is about signals that come between two
  dispatches.

- `ProcessPool`: an exit reaped in the round that begins a reload is passed over
  (`process_pool.cc:947`), as in the manager; hence `forgotten`. The exit of a worker that
  detached itself takes the `continue` at 962 and never comes to `kill_one()`: a reload
  that was waiting for it stops until another worker exits (`strayed`).
- `RowLock`: a waiter forces the lock when the process in `lock_pid` is dead
  (`table.cc:318-322`), but the pid is stored after the lock is taken and may be that of
  an earlier holder: two processes then hold the row. Hence `Calm` in `RowExclusive`.
  `LockIsRecovered` needs no such exception.
- `TableIterator`: `active` is tested without the lock (`table.cc:350`), so a row that was
  deleted in between is returned empty, which a caller takes for the end of the table.
  `IterationIsComplete` is about iterations during which rows are only added.
- `CoSocket`: with IN and OUT in one event, the coroutine resumed for IN may end the wait
  of the writer; if a reader waits again the socket is not removed, and the callback
  of OUT resumes a null `write_co` (`epoll.cc:226`, the same in `poll.cc:199`). Hence `stale`.
  With SSL, two waits for the same event share it and the first to end may take it out
  of the reactor (`socket.cc:200-209`); the run has `Ssl` FALSE.
- `Connection`: `end()` verifies the session and goes on with `conn` (`process.cc:372-418`);
  if the reactor releases the descriptor in between and accepts another connection on
  it, `end()` tests and sets the flags of the other, whose `onClose` is then never run.
  Hence `reused`. Where idle connections are looked for, even that one is released in
  the end. The timer of `max_idle_time` releases a connection that its worker has closed
  at once, whatever is still in `out_buffer` (`master.cc:50`), where the CLOSE that the
  worker queued would have waited; hence `ResponsesBeforeClose` is about releases on
  that CLOSE. In base mode `session_round` is stored after the spin lock is released
  (`master.cc:2246-2247`), so two processes that accept at once may set it back; base mode
  is not modelled.

## 4. What is proved

TLAPS checks the following for every set of coroutines or processes, every capacity from 1
on, every number of workers and every bound on calls, reloads and faults. The assumptions
are `NoCoAssumption` (`NoCo` is no coroutine), those on capacity and calls in `CoChannel`,
`SocketAssumption` (`NoOne` is no coroutine, the bound a natural number),
`RowLockAssumption` (`NoPid` is no process), `PoolSizesAssumption` and `NoReloadAssumption`
(numbers are naturals, and `NoReload` is not a reload task), `WaitAssumption` (what a
program waits for is a child or any child, and the special values are different from all
others), `RingAssumption` (a ring has room for more than a header, and its size is a
`uint32_t`), those on the sizes in `ShmChannel` and `AsyncThreads`, `ConnectionAssumption`
(descriptors are positive, each is bound to a worker, the session list has a slot), and
`SettingsAssumption` and `NoTaskAssumption` (the settings of a server have their types,
there are pids enough for the first processes, and the null pointer is not a reload task).
`Settings` and `Programs` are any sets of settings and programs: the manager's theorems hold
for every server, with and without `reload_async`, task workers and signals between the
steps.

`CoChannel_proofs`, first part, about the scheduler: `CoTypeCorrect`, `NoDanglingOrigin`,
`TimerInFrame`, `CancelIsSafe`, `FramesStayAlive`, `BailoutIsFinal`, `RunningAlongOrigin`.
"No live coroutine has an ended origin" is not inductive: when the current coroutine ends,
one must know that no *running* coroutine was resumed by it. `Chain` adds this: the current
one runs, each running one was resumed by a running one or by the loop, no two by the same,
none by the current one. A bailout leaves coroutines behind in state RUNNING, so for the
scheduler `LiveSwitch` says it of the `Live` ones, which run and were not abandoned: the
current one is live, and what resumed a live one is live or the loop. `BailoutIsFinal` (no
abandoned coroutine is ever current) and `RunningAlongOrigin` then hold before and after any
number of bailouts. `Suspended` adds that a suspended coroutine waits or has just been
switched to, and that timers and cancel functions belong to such a one. That the running
coroutines are exactly those met on the way from `current` by `origin` speaks of
reachability: `OriginClosed` states it as "whatever set is closed under `origin` and has the
current one in it has them all", which needs no induction along the chain, and `Rooted`
carries that over a step.

`CoChannel_proofs`, second part, about the channel: `TypeCorrect`, `QueuesAreExact`,
`TimersInFrame`, `WaitersStayInFrame`, `ChannelIsFifo`. The invariant is `QueueInv`: the
scheduler's `Switch`, `WaitInv` (timers, cancel functions and waiting states go with the
place in the call) and the exactness of the queues itself. Three lemmas say what a step
does to it by its kind: the current coroutine stays, resumes a waiter, or suspends. The
refinement needs `RingInv`: the `count_` slots from `head_` on hold what was pushed and
not yet popped, in order; each step then is a put, a take, a close or a stutter of
`BoundedFifo`.

`CoChannel_proofs`, third part, about waking up: `WakeupsAreNotLost`, `CloseIsComplete`,
`FailuresAreExplained`, `CallsServedInOrder`. `WakeInv` adds that coroutines in a queue
have not been cancelled or timed out, that consumers wait only while the channel is empty
(or one has just been woken), producers only while it is full, that a woken coroutine
which was neither cancelled nor timed out finds work or a closed channel, and how far a
running `close()` has got. `OrderInv` numbers the calls: what was served is increasing and
below whatever still waits, the queues are increasing, and the one that was just woken is
next; a call that finds nobody waiting is the youngest of all.

`CoSocket_proofs`: `SocketWakesWaiter`, `SocketReleasedOnce`, both for a socket without
SSL (`~Ssl`, as in the run: with SSL two waits may share an event, see section 3). The
invariant `SocketInv` has one part for each thing that must agree: `StackInv` (each
coroutine is on the stack once, and all but the last are inside `close()` or `cancel()`,
so only one is anywhere else in its code), `BoundInv` (`read_co` and `write_co` are
the coroutines in a wait), `EventsInv` (so are the events in the reactor, and what is left
of an event is for them or stale), `TimerInv` (a timer belongs to an operation), `ClosingInv`
(once `close_wait` is set nobody tries again: whoever still waits is woken by a
`close()` that is under way, with an error) and `ReleaseInv` (somebody still has to
close). Four lemmas say what a step does to the stack, two what a resume does.

`SharedMemory_proofs`: `RowLockExcludes` and `RingStaysSound`. Waiters act on a `lock_pid`
that is stored late and cleared early. While everybody lives no pid is that of a dead
process, so the probe fails; `NobodyLate` adds that nobody is late while nobody has waited
for two seconds; so the only way in is the compare-and-set. That a death and two seconds
of waiting are for ever (`CalmBefore`) carries the condition of the property back over a
step. For the ring buffer the invariant is `RingInv`: the items `Tiles` the ring, one
behind the other without a gap from `collect_offset` to `alloc_offset`, past the end at
most once (`status`), and none overlaps another; `BlocksIn` says that a block in use is
one of them and that every unit of it is still its own; `FreeAreCounted` that
`free_count`, together with the frees that have cleared the lock and not yet counted, is
the number of items that wait for the collector. `BlockTaken` and `RestSkipped` are the
two ways an item is appended, `ItemCollected` the one it is taken away. Without the order
of the items the test of the room in `alloc()` says nothing about the blocks behind
`collect_offset`.

`ShmChannel_proofs`: `ShmChannelIsFifo`, the refinement of `BoundedFifo` by the channel in
shared memory. The slices that were pushed are laid on one line without an end (`Stream`);
`ShmInv` says that a slice is at its place on the line less the place where the round it
is on began at address 0 (`Place`), that head and tail are on the same round or the
tail is one ahead and behind the head (`Ends`), and that the slices inside are whole
(`Contents`). Each slice takes at least its header, which bounds `num`.

`AsyncThreads_proofs`: `ThreadPoolIsExact`. `AioInv` says where a thread may be and what it
holds there (`PlacesInv`), that the loop is told once of a thread that leaves and that the
core threads stay (`LeaversInv`), and how the counters are the numbers of what they count
(`CountInv`): tasks that are queued, in a thread or on their way back, and threads that
wait. The lemmas are about counting: one more, one less, a message written or read.

`Connection_proofs`: `ConnectionCallbacks`. The flags of a connection are written by reactor and
workers, and a session outlives its descriptor in the pipes. `Protocol` has one part for each
place that knows of a session: `PipesInOrder` (ids are given once, the CONNECT of a session
is in its pipe once and before everything else about it), `SessionsDiffer`, `FlagsTrue`
(`closed` of a connection in use says whether `onClose` was run, and nothing is queued to
close it before), `EndsTrue` (a worker inside `end()` had the session's `onConnect`, and past
the callback its `onClose` too unless the connection is gone), `AnswersTrue` and
`ReleasedTrue` (an answer, and a release, come after `onClose`). It is an invariant
as long as `reused` is false, and only then: `ConnInv` keeps the types in any case. Handlers
of the reactor share `ConnectionStep`, steps that touch no connection `QuietStep`.

`Processes_proofs`, on the pool: `PoolStaysManned`. The invariant `ManInv` adds to the types:
`MapIsExact` (the map leads from the process of a worker, and no other, to the worker),
`WorkersAreBorn` (the process of a worker has been forked, so that the next pid is that of
no worker), `ReapedIsSeen` (a worker whose process has been reaped is the
one whose exit this round is about, or one that was passed over), `StopIsLast` and
`ReloadHasTask` (the loop is left for good, and a reload that was asked for has a task).
The step that needs it is the fork: the new process takes the place of the old in both
tables at once (`SpawnReplaces`).

`Processes_proofs`, on the waits: `WaitTasksOnStack`, `WaitStatusGivenOnce`,
`WaitNobodyMissesExit`. The invariant `WaitInv` adds to the types: `TargetInv` (a
coroutine waits for what its program says, and the one that runs is not suspended),
`TaskInv` (the list has exactly the coroutines in `wait()`, each once, and an entry of the
map is of one that waits for that child), `StatusInv` (a status has been given to one
coroutine or is kept, from the moment the child is reaped), `SignalInv` (who waits has
installed the handler and seen no zombie, so one that there is now has a signal pending or
in its handler) and `ApartInv` (among coroutines that keep apart, nobody overwrites an
entry or reaps the child of another). The lemmas about the list (`PushBack`, `PopFront`,
`RemoveTask`) say what its operations do to the set of coroutines in it.

`Manager_proofs`: `ManagerBooksExact` and the action property `ManagerReloadComplete`. None
of the properties in `BooksAreExact` is inductive. That no two processes serve one worker
rests on the message box: a stop message whose sender was reaped and replaced would fork
a second time. So `MessageInv` says that nobody has sent two messages, that their senders
still have their place in the table, that a SIGIO tells of what is in the box, and that the
message of a reaped process is read before the round in which it was reaped comes to the
restart. `ForkInv` says how processes, workers and the table belong together, `LoopInv`
where the loop may be, `RequestInv` that a request which has not begun has its empty task
and is dealt with in the same round, `DetachInv` and `TableInv` that a reaped process that
still has a place is the one this round is about, `StopInv` that the shutdown waited for
the table. `ReloadInv` is what makes a reload complete: a process that the reload began with
is in the task until it has been reaped, because `kill_one()` and `kill_all()` erase the
dead only (`KillOneTask`, `KillAllTask`). Steps without a fork share `AgingForkInv`,
`ProcessesKept` and `MessagesKept`, the two that fork share `SpawnFacts` and `SpawnForkInv`.

Only model-checked: liveness (beyond the prover); everything about the heap, the timer, the
table, its pool and its iterator (recursive operators, and chains that need
induction over their length); `MessagesAreWhole` of the message bus, whose packets are
put together chunk by chunk over a sequence of any length; the action property
`ResponsesBeforeClose` of the connections and the other action properties that section 4
does not name; and the signals.

## 5. What is left out

- Coroutine: the stack switch is one step; a second activation of the scheduler after a
  bailout. Channel: calls of `close()` from outside
  a coroutine; `Bailout` and plain `yield()` of user code inside the composition.
- Manager: `fork()` that fails, user workers, a full message box, pids used again,
  other messages than the stop message.
- Timer: a callback that delays a timer, `select()` inside a callback (no caller
  does either), the `setitimer()` variant.
- Thread pool: a system that refuses a thread (`create_thread()` catches it and goes on
  with fewer), spurious wakeups, a full pipe, a task without handler, several loops
  on one pool.
- Shared-memory channel: the notification pipe; `peek()`, which changes nothing.
  Ring buffer: freeing a block twice.
- Heap: the max-heap, which only tests use.
- Signals: signalfd and kqueue. `wait()`: a cancel by a coroutine that runs, io_uring,
  `WNOHANG`, calls outside a coroutine, pids used again.
- Socket: the retry after the kernel ran out of buffer space (`socket.cc:147-158`), the
  SSL handshake, `sendfile`, protocol packets, `shutdown()` of a connected socket before
  `close()`, io_uring and IOCP. `wait_event()` tests `close_wait` first; `WakeupsFindWaiter`
  shows that the test never succeeds, so the model has no such return.
- Connection: `PAUSE_RECV` and `RESUME_RECV`, `SEND_FILE`, the limits of the output buffer,
  SSL, base and thread mode, UDP, dispatch modes other than by descriptor, task workers.
- Process pool: `fork()` that fails, the loops of the workers, sockets and queues to
  give them work. Message bus: packets in shared memory, one process that writes from
  several threads, errors of `send()` when `out_buffer` is written.
- Table: rows of one column, `incr` and `decr`, the conversion of columns. Row lock: one row.
- The parts without a module, with reasons in `PROJECT.json`. Most of the repository
  wraps system calls, formats or parses bytes, is third-party or generated code, or binds
  the core to PHP: there the order of steps is not what is hard, and tests with data
  are the better tool. The models are about the few thousand lines where it is.

## 6. Plan

1. Models: exit conditions and deferred tasks of the reactor; base mode of the server
   with two processes that accept (session ids); task workers and their results; the
   loops of the workers of a process pool; the asynchronous client of `network/client.cc`.
2. Proofs: `MessagesAreWhole` with an invariant for the chunks in a pipe, then the pool of
   the table with its free list as a function instead of a recursive operator.
