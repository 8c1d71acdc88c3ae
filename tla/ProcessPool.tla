---------------------------- MODULE ProcessPool ----------------------------
(***************************************************************************)
(* ProcessPool::wait() (os/process_pool.cc): the loop of the master of a   *)
(* pool that forks a process per worker, forks it again when it exits or   *)
(* detaches itself, and restarts all of them, one after the other, when    *)
(* asked to reload.                                                        *)
(*                                                                         *)
(* A round of the loop is three kinds of steps: wait() returns and the     *)
(* signals and timers that are due are handled; the messages are taken one *)
(* by one; the exit is acted on.  The processes run, exit and detach in    *)
(* between.  A signal interrupts wait() only if it arrives during it.      *)
(***************************************************************************)
EXTENDS ReloadTask, FiniteSets

CONSTANTS
    pool_worker_num,
    NoReload,       \* reload_task == nullptr
    MaxReloads,     \* bound: requests to reload
    MaxFaults       \* bound: workers that exit or detach of their own accord

ASSUME PoolSizesAssumption == pool_worker_num \in Nat /\ MaxReloads \in Nat /\ MaxFaults \in Nat

VARIABLES
    polite,         \* configuration: SIGTERM ends workers and max_wait_time is 0
    proc,           \* the state of each process
    worker_pid,     \* workers[i].pid
    map_,           \* the worker of each pid, or 0
    detached_workers, message_box, read_message,
    reload_task, reload_init,
    pool_running,
    arrived,        \* signals marked and not yet dispatched
    interrupted,    \* one of them arrived during wait()
    round,          \* where the loop is
    exit_pid,       \* what wait() returned, 0 for a failure
    reloads, faults,
    forgotten,      \* ghost: exits reaped and not acted on
    strayed         \* ghost: a worker detached itself during a reload

poolLoopVars == <<polite, proc, worker_pid, map_, detached_workers, message_box,
                  read_message, reload_task, reload_init, pool_running, arrived,
                  interrupted, round, exit_pid, reloads, faults, forgotten,
                  strayed>>

\* Enough pids for every fork.
ProcId == 1 .. pool_worker_num * (MaxReloads + 1) + MaxFaults
Workers == 1 .. pool_worker_num

ASSUME NoReloadAssumption == NoReload \notin ReloadTasks(ProcId)

\* Those that can be signalled and have not exited.
Living == {"running", "detached", "asked", "killed"}

ProcessPoolTypeOK ==
    /\ polite \in BOOLEAN
    /\ proc \in [ProcId -> Living \cup {"unborn", "zombie", "reaped"}]
    /\ worker_pid \in [Workers -> ProcId]
    /\ map_ \in [ProcId -> Workers \cup {0}]
    /\ detached_workers \subseteq ProcId /\ message_box \in Seq(ProcId)
    /\ reload_task \in ReloadTasks(ProcId) \cup {NoReload} /\ reload_init \in BOOLEAN
    /\ pool_running \in BOOLEAN
    /\ arrived \subseteq {"USR1", "IO", "TERM"}
    /\ round \in {"wait", "messages", "stop", "stopped"}
    /\ exit_pid \in ProcId \cup {0}
    /\ forgotten \subseteq ProcId

\* start(): worker i is process i.
ProcessPoolInit ==
    /\ polite \in BOOLEAN
    /\ proc = [p \in ProcId |-> IF p \in Workers THEN "running" ELSE "unborn"]
    /\ worker_pid = [i \in Workers |-> i]
    /\ map_ = [p \in ProcId |-> IF p \in Workers THEN p ELSE 0]
    /\ detached_workers = {} /\ message_box = <<>> /\ read_message = FALSE
    /\ reload_task = NoReload /\ reload_init = FALSE
    /\ pool_running = TRUE
    /\ arrived = {} /\ interrupted = FALSE
    /\ round = "wait" /\ exit_pid = 0
    /\ reloads = 0 /\ faults = 0 /\ forgotten = {} /\ strayed = FALSE

Dead == {p \in ProcId : proc[p] = "reaped"}

\* kill() of the processes in set, with SIGTERM and with SIGKILL; a zombie
\* takes the signal and ignores it, a detached worker stops anyway.
Asked(ps, set) == [p \in ProcId |-> IF p \in set /\ ps[p] = "running" THEN "asked" ELSE ps[p]]
Killed(ps, set) == [p \in ProcId |-> IF p \in set /\ ps[p] \in Living THEN "killed" ELSE ps[p]]

-----------------------------------------------------------------------------
(* The processes and those who signal the master.                          *)

loopVars == <<polite, worker_pid, map_, detached_workers, read_message, reload_task,
              reload_init, pool_running, round, exit_pid, forgotten, strayed>>

\* An exit nobody asked for, or a detachment.
Fault == faults < MaxFaults /\ faults' = faults + 1

Exits(p) ==
    /\ proc[p] \in Living
    /\ IF proc[p] = "running" THEN Fault ELSE UNCHANGED faults
    /\ proc' = [proc EXCEPT ![p] = "zombie"]
    /\ UNCHANGED <<loopVars, message_box, arrived, interrupted, reloads>>

\* A signal arrives; just before wait() blocks it does not interrupt it.
Arrives(signo) ==
    /\ arrived' = arrived \cup {signo}
    /\ \/ UNCHANGED interrupted
       \/ round = "wait" /\ interrupted' = TRUE

\* detach(): the worker asks for its replacement and goes on for a while.
Detach(p) ==
    /\ proc[p] \in {"running", "asked"}
    /\ Fault
    /\ proc' = [proc EXCEPT ![p] = "detached"]
    /\ message_box' = Append(message_box, p)
    /\ Arrives("IO")
    /\ UNCHANGED <<loopVars, reloads>>

AskReload ==
    /\ reloads < MaxReloads /\ reloads' = reloads + 1
    /\ Arrives("USR1")
    /\ UNCHANGED <<loopVars, proc, message_box, faults>>

AskStop ==
    /\ pool_running /\ "TERM" \notin arrived
    /\ Arrives("TERM")
    /\ UNCHANGED <<loopVars, proc, message_box, reloads, faults>>

-----------------------------------------------------------------------------
(* The loop.                                                               *)

\* reload()
Reloading(task) == IF task = NoReload THEN NewReloadTask(~polite) ELSE task

\* The timeout killer, if it fires.
KillerFires == reload_task # NoReload /\ reload_task.timer

\* wait_process() returns, and signals and timers are handled.
WaitReturns ==
    \E pid \in ProcId \cup {0}, late \in BOOLEAN :
        LET reload == "USR1" \in arrived
            task == IF reload THEN Reloading(reload_task) ELSE reload_task
        IN
        /\ round = "wait" /\ pool_running
        /\ pid # 0 => proc[pid] = "zombie"
        /\ pid = 0 => interrupted \/ late
        /\ late => KillerFires
        /\ exit_pid' = pid
        /\ proc' = LET reaped == IF pid = 0 THEN proc ELSE [proc EXCEPT ![pid] = "reaped"]
                   IN  IF late THEN Killed(reaped, KilledByAll(reload_task, Dead))
                       ELSE reaped
        /\ reload_task' = IF late
                          THEN [kill_all(task, Dead \cup ({pid} \ {0})) EXCEPT !.timer = FALSE]
                          ELSE task
        /\ reload_init' = (reload_init \/ (reload /\ reload_task = NoReload))
        /\ read_message' = (read_message \/ "IO" \in arrived)
        /\ pool_running' = ("TERM" \notin arrived)
        /\ arrived' = {} /\ interrupted' = FALSE
        /\ round' = "messages"
        /\ UNCHANGED <<polite, worker_pid, map_, detached_workers, message_box, reloads, faults,
                       forgotten, strayed>>

\* fork() gives the pids in order.
IsNext(p) == proc[p] = "unborn" /\ \A q \in 1 .. p - 1 : proc[q] # "unborn"
NextPid == CHOOSE p \in ProcId : IsNext(p)

\* Mutant: the old process stays in the map.
Spawn_keeps_old(i, old) ==
    /\ \E p \in ProcId : IsNext(p)
    /\ worker_pid' = [worker_pid EXCEPT ![i] = NextPid]
    /\ map_' = [map_ EXCEPT ![NextPid] = i]

\* spawn() of worker i, whose process was old.
Spawn(i, old) ==
    /\ \E p \in ProcId : IsNext(p)
    /\ worker_pid' = [worker_pid EXCEPT ![i] = NextPid]
    /\ map_' = [map_ EXCEPT ![old] = 0, ![worker_pid[i]] = 0, ![NextPid] = i]

\* The next message: a worker that stops is replaced and remembered.
PopMessage ==
    LET p == Head(message_box) IN
    /\ round = "messages" /\ read_message /\ message_box # <<>>
    /\ message_box' = Tail(message_box)
    /\ IF pool_running /\ map_[p] # 0
       THEN /\ Spawn(map_[p], p)
            /\ proc' = [proc EXCEPT ![NextPid] = "running"]
            /\ detached_workers' = detached_workers \cup {p}
            /\ strayed' = (strayed \/ reload_task # NoReload)
       ELSE UNCHANGED <<worker_pid, map_, proc, detached_workers, strayed>>
    /\ UNCHANGED <<polite, read_message, reload_task, reload_init, pool_running, arrived,
                   interrupted, round, exit_pid, reloads, faults, forgotten>>

MessagesTaken == round = "messages" /\ (read_message => message_box = <<>>)

\* What follows the messages, when the round does no more than this.
NextRound ==
    /\ read_message' = FALSE
    /\ round' = "wait"
    /\ UNCHANGED <<polite, message_box, pool_running, arrived, interrupted, exit_pid,
                   reloads, faults, strayed>>

\* wait() failed and no reload begins.
NoExit ==
    /\ MessagesTaken /\ pool_running
    /\ exit_pid = 0 /\ ~reload_init
    /\ NextRound
    /\ UNCHANGED <<proc, worker_pid, map_, detached_workers, reload_task, reload_init,
                   forgotten>>

\* kill_one() of a task.
KillOne(task) ==
    /\ reload_task' = kill_one(task, Dead)
    /\ proc' = Asked(proc, KilledByOne(task, Dead))

\* A reload begins; an exit of the same round is passed over.
BeginReload ==
    /\ MessagesTaken /\ pool_running /\ reload_init
    /\ reload_init' = FALSE
    /\ KillOne(add_workers(reload_task, worker_pid))
    /\ forgotten' = IF exit_pid # 0 THEN forgotten \cup {exit_pid} ELSE forgotten
    /\ NextRound
    /\ UNCHANGED <<worker_pid, map_, detached_workers>>

\* The exit of a process that is not in the map.
UnknownExit ==
    /\ MessagesTaken /\ pool_running /\ ~reload_init
    /\ exit_pid # 0 /\ map_[exit_pid] = 0
    /\ detached_workers' = detached_workers \ {exit_pid}
    /\ NextRound
    /\ UNCHANGED <<proc, worker_pid, map_, reload_task, reload_init, forgotten>>

\* The exit of a worker: it is forked again, and a reload goes on.
WorkerExit ==
    /\ MessagesTaken /\ pool_running /\ ~reload_init
    /\ exit_pid # 0 /\ map_[exit_pid] # 0
    /\ Spawn(map_[exit_pid], exit_pid)
    /\ LET forked == [proc EXCEPT ![NextPid] = "running"]
           task == remove(reload_task, exit_pid)
       IN  \/ /\ reload_task = NoReload
              /\ proc' = forked /\ UNCHANGED reload_task
           \/ /\ reload_task # NoReload /\ is_completed(task)
              /\ proc' = forked /\ reload_task' = NoReload
           \/ /\ reload_task # NoReload /\ ~is_completed(task)
              /\ reload_task' = kill_one(task, Dead)
              /\ proc' = Asked(forked, KilledByOne(task, Dead))
    /\ NextRound
    /\ UNCHANGED <<detached_workers, reload_init, forgotten>>

\* The loop is left: everybody is asked to stop.
LeaveLoop ==
    /\ MessagesTaken /\ ~pool_running
    /\ round' = "stop"
    /\ reload_task' = NoReload
    /\ proc' = Asked(proc, {worker_pid[i] : i \in Workers}
                           \cup IF exit_pid # 0 /\ reload_task # NoReload
                                THEN KilledByOne(reload_task, Dead) ELSE {})
    /\ UNCHANGED <<polite, worker_pid, map_, detached_workers, message_box, read_message,
                   reload_init, pool_running, arrived, interrupted, exit_pid, reloads,
                   faults, forgotten, strayed>>

\* waitpid() of every worker.
AllReaped ==
    /\ round = "stop"
    /\ \A i \in Workers : proc[worker_pid[i]] \in {"zombie", "reaped"}
    /\ round' = "stopped"
    /\ proc' = [p \in ProcId |-> IF \E i \in Workers : worker_pid[i] = p THEN "reaped"
                                 ELSE proc[p]]
    /\ UNCHANGED <<polite, worker_pid, map_, detached_workers, message_box, read_message,
                   reload_task, reload_init, pool_running, arrived, interrupted, exit_pid,
                   reloads, faults, forgotten, strayed>>

\* The killer armed before the waitpid()s.
StopKills ==
    /\ round = "stop" /\ ~polite
    /\ proc' = Killed(proc, {worker_pid[i] : i \in Workers})
    /\ UNCHANGED <<loopVars, message_box, arrived, interrupted, reloads, faults>>

MasterNext ==
    \/ WaitReturns \/ PopMessage \/ NoExit \/ BeginReload \/ UnknownExit
    \/ WorkerExit \/ LeaveLoop \/ AllReaped
    \/ StopKills

ProcessPoolNext ==
    \/ MasterNext \/ AskReload \/ AskStop
    \/ \E p \in ProcId : Exits(p) \/ Detach(p)

ProcessPoolSpec == ProcessPoolInit /\ [][ProcessPoolNext]_poolLoopVars

\* A process that is killed exits, one that is asked to too where workers are
\* polite, and a detached one comes to its end.
ExitsSoon ==
    \E p \in ProcId :
        /\ proc[p] \in {"killed", "detached"} \/ (polite /\ proc[p] = "asked")
        /\ Exits(p)

\* The master runs, and processes that have to exit do so.
ProcessPoolFairness == WF_poolLoopVars(MasterNext) /\ WF_poolLoopVars(ExitsSoon)

-----------------------------------------------------------------------------
(* Properties.                                                             *)

\* While the pool runs every worker has a process that the master has not
\* reaped, and the map leads from that process, and no other, to the worker:
\* no exit or detachment is lost or acted on twice.  The exception is an exit
\* that the round that began a reload passed over (goto _kill_worker).
PoolIsManned ==
    /\ ProcessPoolTypeOK
    /\ pool_running /\ round = "wait" =>
         \A i \in Workers :
            LET p == worker_pid[i]
            IN  /\ proc[p] = "reaped" => p \in forgotten
                /\ \A q \in ProcId : map_[q] = i <=> q = p

\* A reload comes to its end (reload() is refused until then), unless one of
\* its processes detached itself or was reaped unseen: then wait() takes a
\* continue before it looks at reload_task, or nobody is left to exit.
ReloadOver == reload_task = NoReload \/ strayed \/ forgotten # {}
PoolReloadEnds == reload_task # NoReload ~> ReloadOver

\* Once it has left its loop the master sees the end of every worker: it asks
\* each to stop, kills those that do not and waits for no process twice.
PoolStops == round = "stop" ~> round = "stopped"

\* What the master has begun, a reload or the shutdown, it brings to an end.
PoolSettles == PoolReloadEnds /\ PoolStops
=============================================================================
