---------------------------- MODULE AsyncThreads ----------------------------
(***************************************************************************)
(* The thread pool for blocking calls (os/async_thread.cc) and the event   *)
(* loop that uses it.  The loop dispatches tasks; a thread runs a task and *)
(* writes it to the pipe; the loop reads the pipe and calls back.  Threads *)
(* above core_worker_num leave after an idle time, which the loop is told  *)
(* through the pipe as well.                                               *)
(*                                                                         *)
(* What happens under event_mutex is one step, except that a thread keeps  *)
(* the mutex between finding nothing to do and blocking: shutdown() does   *)
(* not take it.                                                            *)
(*                                                                         *)
(* The system never refuses a thread: create_thread() catches that, and    *)
(* leaves the pool smaller than schedule() meant it to be.                 *)
(***************************************************************************)
EXTENDS Naturals, Sequences, FiniteSets, FiniteSetsExt

CONSTANTS
    core_worker_num, worker_num,
    MaxTasks,       \* bound on the tasks dispatched
    MaxThreads,     \* bound on the threads created
    NoThread            \* nobody holds the mutex

ASSUME PoolAssumption ==
    /\ core_worker_num \in Nat \ {0} /\ worker_num \in Nat /\ MaxTasks \in Nat
    /\ core_worker_num <= worker_num /\ worker_num <= MaxThreads /\ MaxThreads \in Nat

Task == 1 .. MaxTasks
Thread == 1 .. MaxThreads
Core == 1 .. core_worker_num
NoTask == 0

VARIABLES
    running, queue_, n_closing, threads,
    state,      \* where each thread is
    task,       \* the task it has taken
    mutex,      \* the thread that holds event_mutex, or NoThread
    pipe,       \* what the threads have sent: <<"task", k>> or <<"release", t>>
    task_num,
    dispatched, \* tasks dispatched, threads created
    created,
    canceled,   \* the tasks with the flag set
    called,     \* history: the tasks that have been called back
    loop_pc          \* the event loop: loop, notify, notify_all, swap, join, down

aioVars == <<running, queue_, n_closing, threads, state, task, mutex, pipe, task_num,
          dispatched, created, canceled, called, loop_pc>>

PoolInit ==
    /\ running = TRUE /\ queue_ = <<>> /\ n_closing = 0
    /\ threads = Core /\ created = core_worker_num
    /\ state = [t \in Thread |-> IF t \in Core THEN "check" ELSE "none"]
    /\ task = [t \in Thread |-> NoTask]
    /\ mutex = NoThread
    /\ pipe = <<>> /\ task_num = 0
    /\ dispatched = 0 /\ canceled = {} /\ called = {}
    /\ loop_pc = "loop"

\* The threads that count as idle: n_waiting is changed under event_mutex only.
n_waiting ==
    Cardinality({t \in Thread : state[t] \in {"evaluated", "waiting", "woken", "timedout"}})

-----------------------------------------------------------------------------
(***************************************************************************)
(* The event loop.                                                         *)
(***************************************************************************)

\* Mutant: the threads are counted before the task is pushed.
schedule_before_push(queue) ==
    LET room == worker_num - Cardinality(threads)
    IN  IF room <= 0 \/ Len(queue) - 1 <= n_waiting THEN {0}
        ELSE {Min({Len(queue) - 1 - n_waiting, room})}

\* How many threads schedule() may create for a queue: as many as it is short
\* of, or one if the first task has waited for too long.
schedule(queue) ==
    LET room == worker_num - Cardinality(threads)
    IN  IF room <= 0 THEN {0}
        ELSE IF Len(queue) > n_waiting THEN {Min({Len(queue) - n_waiting, room})}
        ELSE IF Len(queue) > 1 THEN {0, 1} ELSE {0}

\* create_thread(), n times.
create_threads(n) ==
    LET new == created + 1 .. created + n
    IN  /\ created + n <= MaxThreads
        /\ created' = created + n
        /\ threads' = threads \cup new
        /\ state' = [t \in Thread |-> IF t \in new THEN "check" ELSE state[t]]

\* dispatch(), up to the unlock.
Dispatch ==
    /\ loop_pc = "loop" /\ mutex = NoThread /\ running
    /\ dispatched < MaxTasks
    /\ LET queue == Append(queue_, dispatched + 1)
       IN  /\ queue_' = queue
           /\ \E n \in schedule(queue) : create_threads(n)
    /\ dispatched' = dispatched + 1
    /\ task_num' = task_num + 1
    /\ loop_pc' = "notify"
    /\ UNCHANGED <<running, n_closing, task, mutex, pipe, canceled, called>>

\* Mutant: nobody is notified.
NotifyOne_nobody ==
    /\ loop_pc = "notify"
    /\ loop_pc' = "loop"
    /\ UNCHANGED <<running, queue_, n_closing, threads, state, task, mutex, pipe, task_num,
                   dispatched, created, canceled, called>>

\* _cv.notify_one() wakes one of the threads that wait, if any.
NotifyOne ==
    /\ loop_pc = "notify"
    /\ LET waiting == {t \in Thread : state[t] = "waiting"}
       IN  IF waiting = {} THEN UNCHANGED state
           ELSE \E t \in waiting : state' = [state EXCEPT ![t] = "woken"]
    /\ loop_pc' = "loop"
    /\ UNCHANGED <<running, queue_, n_closing, threads, task, mutex, pipe, task_num,
                   dispatched, created, canceled, called>>

\* The coroutine that waits for a task gives up.
Cancel(k) ==
    /\ loop_pc = "loop" /\ k <= dispatched /\ k \notin canceled /\ k \notin called
    /\ canceled' = canceled \cup {k}
    /\ UNCHANGED <<running, queue_, n_closing, threads, state, task, mutex, pipe, task_num,
                   dispatched, created, called, loop_pc>>

\* AsyncThreads::callback() for a finished task ...
Complete ==
    /\ loop_pc = "loop" /\ pipe # <<>> /\ Head(pipe)[1] = "task"
    /\ pipe' = Tail(pipe)
    /\ called' = called \cup ({Head(pipe)[2]} \ canceled)
    /\ task_num' = task_num - 1
    /\ UNCHANGED <<running, queue_, n_closing, threads, state, task, mutex, dispatched,
                   created, canceled, loop_pc>>

\* ... and for a thread that has left: release_callback() adds one to task_num,
\* callback() takes it off again.
Release ==
    /\ loop_pc = "loop" /\ pipe # <<>> /\ Head(pipe)[1] = "release"
    /\ pipe' = Tail(pipe)
    /\ threads' = threads \ {Head(pipe)[2]}
    /\ n_closing' = n_closing - 1
    /\ UNCHANGED <<running, queue_, state, task, mutex, task_num, dispatched, created,
                   canceled, called, loop_pc>>

\* The exit condition that the pool adds to the loop.
MayExit == task_num = 0 /\ n_closing = 0

\* The loop ends: ~AsyncThreads() calls shutdown().
Shutdown ==
    /\ loop_pc = "loop" /\ MayExit
    /\ running' = FALSE
    /\ loop_pc' = "notify_all"
    /\ UNCHANGED <<queue_, n_closing, threads, state, task, mutex, pipe, task_num,
                   dispatched, created, canceled, called>>

NotifyAll ==
    /\ loop_pc = "notify_all"
    /\ state' = [t \in Thread |-> IF state[t] = "waiting" THEN "woken" ELSE state[t]]
    /\ loop_pc' = "join"
    /\ UNCHANGED <<running, queue_, n_closing, threads, task, mutex, pipe, task_num,
                   dispatched, created, canceled, called>>

\* The threads are taken out of the map and joined.
Join ==
    /\ loop_pc = "join"
    /\ \A t \in threads : state[t] = "exited"
    /\ threads' = {}
    /\ loop_pc' = "down"
    /\ UNCHANGED <<running, queue_, n_closing, state, task, mutex, pipe, task_num,
                   dispatched, created, canceled, called>>

-----------------------------------------------------------------------------
(***************************************************************************)
(* A thread: main_func().                                                  *)
(***************************************************************************)
Move(t, place) ==
    /\ state' = [state EXCEPT ![t] = place]
    /\ UNCHANGED <<running, threads, task_num, dispatched, created, canceled, called, loop_pc>>

CheckRunning(t) ==
    /\ state[t] = "check"
    /\ Move(t, IF running THEN "lock" ELSE "exited")
    /\ UNCHANGED <<queue_, n_closing, task, mutex, pipe>>

\* The thread has the mutex and there is something to do: take a task if there
\* is one.
Take(t) ==
    /\ mutex = NoThread
    /\ queue_ # <<>> \/ ~running
    /\ IF queue_ # <<>>
       THEN /\ task' = [task EXCEPT ![t] = Head(queue_)]
            /\ queue_' = Tail(queue_)
            /\ Move(t, "handle")
       ELSE Move(t, "check") /\ UNCHANGED <<queue_, task>>
    /\ UNCHANGED <<n_closing, mutex, pipe>>

\* The predicate of the wait is false.
NothingToDo == mutex = NoThread /\ queue_ = <<>> /\ running

Lock(t) ==
    /\ state[t] = "lock"
    /\ \/ Take(t)
       \/ NothingToDo /\ mutex' = t /\ Move(t, "evaluated") /\ UNCHANGED <<queue_, n_closing, task, pipe>>

Block(t) ==
    /\ state[t] = "evaluated"
    /\ mutex' = NoThread
    /\ Move(t, "waiting")
    /\ UNCHANGED <<queue_, n_closing, task, pipe>>

\* Only a thread beyond the core ones waits with a timeout.
IdleTimeout(t) ==
    /\ state[t] = "waiting" /\ t \notin Core
    /\ Move(t, "timedout")
    /\ UNCHANGED <<queue_, n_closing, task, mutex, pipe>>

\* Awake again, with the mutex: the predicate decides, even after a timeout.
Wake(t) ==
    \/ state[t] \in {"woken", "timedout"} /\ Take(t)
    \/ /\ state[t] = "woken" /\ NothingToDo
       /\ mutex' = t
       /\ Move(t, "evaluated")
       /\ UNCHANGED <<queue_, n_closing, task, pipe>>
    \/ /\ state[t] = "timedout" /\ NothingToDo
       /\ Move(t, "idle")
       /\ UNCHANGED <<queue_, n_closing, task, mutex, pipe>>

\* One thread leaves at a time.
TestClosing(t) ==
    /\ state[t] = "idle"
    /\ Move(t, IF n_closing # 0 THEN "check" ELSE "closing")
    /\ UNCHANGED <<queue_, n_closing, task, mutex, pipe>>

\* The count goes up just before the loop is told: nobody sees the difference.
Close(t) ==
    /\ state[t] = "closing"
    /\ n_closing' = n_closing + 1
    /\ pipe' = Append(pipe, <<"release", t>>)
    /\ Move(t, "exited")
    /\ UNCHANGED <<queue_, task, mutex>>

\* The handler returns, or is not run at all, and the task is sent back.
Handle(t) ==
    /\ state[t] = "handle"
    /\ pipe' = Append(pipe, <<"task", task[t]>>)
    /\ task' = [task EXCEPT ![t] = NoTask]
    /\ Move(t, "check")
    /\ UNCHANGED <<queue_, n_closing, mutex>>

ThreadStep(t) ==
    \/ CheckRunning(t) \/ Lock(t) \/ Block(t) \/ Wake(t) \/ TestClosing(t) \/ Close(t)

LoopStep == NotifyOne \/ Complete \/ Release \/ NotifyAll \/ Join

PoolNext ==
    \/ LoopStep \/ Dispatch \/ Shutdown
    \/ \E k \in Task : Cancel(k)
    \/ \E t \in Thread : ThreadStep(t) \/ IdleTimeout(t) \/ Handle(t)

PoolSpec == PoolInit /\ [][PoolNext]_aioVars

(***************************************************************************)
(* Fairness: the loop and the threads run, and the handlers of the tasks   *)
(* return.                                                                 *)
(***************************************************************************)
PoolFairSpec ==
    /\ PoolSpec
    /\ WF_aioVars(LoopStep)
    /\ \A t \in Thread : WF_aioVars(ThreadStep(t) \/ Handle(t))

-----------------------------------------------------------------------------
(***************************************************************************)
(* Properties.                                                             *)
(***************************************************************************)

\* Every variable has its type.
PoolTypeOK ==
    /\ running \in BOOLEAN
    /\ queue_ \in Seq(Task) /\ pipe \in Seq({"task"} \X Task \cup {"release"} \X Thread)
    /\ n_closing \in 0 .. MaxThreads /\ threads \subseteq Thread
    /\ state \in [Thread -> {"none", "check", "lock", "evaluated", "waiting", "woken",
                             "timedout", "idle", "closing", "handle", "exited"}]
    /\ task \in [Thread -> Task \cup {NoTask}]
    /\ mutex \in Thread \cup {NoThread}
    /\ task_num \in 0 .. MaxTasks /\ dispatched \in 0 .. MaxTasks
    /\ created \in core_worker_num .. MaxThreads
    /\ canceled \subseteq Task /\ called \subseteq Task
    /\ loop_pc \in {"loop", "notify", "notify_all", "join", "down"}

Sent(kind) == {i \in 1 .. Len(pipe) : pipe[i][1] = kind}

\* task_num and n_closing, which decide whether the event loop may end, count
\* exactly what is still under way: the tasks in the queue, with a thread or in
\* the pipe, and the threads that the loop has not been told of yet
\* (async_thread.cc:406-437, 518-524).
NothingUnderWay ==
    /\ task_num = Len(queue_) + Cardinality({t \in Thread : task[t] # NoTask})
                    + Cardinality(Sent("task"))
    /\ n_closing = Cardinality(Sent("release"))

\* The pool never has more than worker_num threads, and the core threads stay
\* until the shutdown (async_thread.cc:137, 317-323).
PoolBounded ==
    /\ PoolTypeOK
    /\ Cardinality(threads) <= worker_num
    /\ running => \A t \in Core : t \in threads /\ state[t] # "exited"

\* A thread that will look at the queue again before it runs another task.
Available(t) ==
    state[t] \in {"check", "lock", "evaluated", "waiting", "woken", "timedout"}

\* When a task has been pushed, each task in the queue has a thread of its own to
\* take it, or the pool is at its limit (async_thread.cc:135-164).
PoolGrows ==
    loop_pc = "notify" /\ Cardinality(threads) < worker_num
        => Len(queue_) <= Cardinality({t \in Thread : Available(t)})

\* The counters of the pool, its size and its growth (the three properties above)
\* hold at every step of the loop and the threads.
PoolIsExact == NothingUnderWay /\ PoolBounded /\ PoolGrows

\* A task is never left in the queue with every thread blocked in a handler and
\* fewer than worker_num of them (the comment at async_thread.cc:176-177).
BlockedPoolIsFull ==
    queue_ # <<>> /\ running =>
        \/ \E t \in Thread : state[t] \notin {"none", "handle", "exited"}
        \/ Cardinality({t \in Thread : state[t] = "handle"}) = worker_num

\* Every task that is dispatched is called back or has been canceled
\* (async_thread.cc:160-182, 305-360).
TasksComplete == \A k \in Task : k <= dispatched ~> k \in called \cup canceled
=============================================================================
