------------------------------ MODULE Manager ------------------------------
(***************************************************************************)
(* The manager process of a server in process mode (server/manager.cc) and *)
(* the worker processes it forks, signals, reaps and replaces.             *)
(*                                                                         *)
(* The manager is one thread running Manager::wait(), interrupted by its   *)
(* own signal handlers: it has no reactor, so signal_handler_simple() runs *)
(* a callback at once, between any two steps of the loop, and drops every  *)
(* signal that arrives while a callback runs.  pc is the place in the      *)
(* loop, handler the signal whose callback is running.  Processes are      *)
(* numbered in the order in which they are forked; pids are not reused.    *)
(***************************************************************************)
EXTENDS ReloadTask, FiniteSets

CONSTANTS
    Settings,       \* the settings of the server to look at
    NoTask          \* a null reload_task

VARIABLE setting    \* of this server; it never changes

worker_num == setting.worker_num            \* the event workers come first
task_worker_num == setting.task_worker_num
reload_async == setting.reload_async
MaxWaitTime == setting.MaxWaitTime          \* max_wait_time is not 0
ReloadSignals == setting.ReloadSignals      \* the signals that ask for a reload
AsyncSignals == setting.AsyncSignals        \* they may arrive anywhere, not just inside wait()
MaxDeaths == setting.MaxDeaths              \* bound on the workers that stop or crash by themselves
MaxReloads == setting.MaxReloads            \* bound on the USR1 and USR2 signals sent
MaxPid == setting.MaxPid                    \* bound on the processes forked

ASSUME SettingsAssumption ==
    \A s \in Settings :
        /\ {s.worker_num, s.task_worker_num, s.MaxDeaths, s.MaxReloads, s.MaxPid} \subseteq Nat
        /\ s.worker_num + s.task_worker_num <= s.MaxPid
        /\ {s.reload_async, s.MaxWaitTime, s.AsyncSignals} \subseteq BOOLEAN
        /\ s.ReloadSignals \subseteq {"USR1", "USR2"}

ASSUME NoTaskAssumption == NoTask \notin ReloadTasks(Nat)

Workers == 1 .. worker_num + task_worker_num
EventWorkers == 1 .. worker_num
TaskWorkers == Workers \ EventWorkers
Pid == 1 .. MaxPid
NoPid == 0
Signals == {"TERM", "USR1", "USR2", "IO", "ALRM", "CHLD"}

VARIABLES
    proc,       \* each process: none, run, exiting, zombie or gone (reaped)
    term,       \* the processes SIGTERM was sent to that have not been reaped
    slot,       \* the worker each process was forked for
    forks,      \* processes forked so far
    pid,        \* Worker::pid
    message_box,            \* the pids in it, each of a STOP message
    pending, handler,       \* signals sent to the manager, and being handled
    running, read_message, reload_all_worker, reload_task_worker,
    reload_task, due,       \* the task or NoTask; its timeout killer has expired
    detached_processes,
    exit_pid,   \* what wait() returned
    pc,
    deaths, reloads,
    snapshot    \* history: the pids given to the current reload

procVars == <<proc, term, slot, forks>>
flagVars == <<running, read_message, reload_all_worker, reload_task_worker>>
taskVars == <<reload_task, due, snapshot>>
boundVars == <<setting, deaths, reloads>>
vars == <<procVars, pid, message_box, pending, handler, flagVars, taskVars,
          detached_processes, exit_pid, pc, boundVars>>

\* start_manager_process() has forked every worker.
Init ==
    /\ setting \in Settings
    /\ proc = [p \in Pid |-> IF p \in Workers THEN "run" ELSE "none"]
    /\ term = {}
    /\ slot = [p \in Pid |-> IF p \in Workers THEN p ELSE NoPid]
    /\ forks = worker_num + task_worker_num
    /\ pid = [w \in Workers |-> w]
    /\ message_box = <<>>
    /\ pending = {} /\ handler = "none"
    /\ running = TRUE /\ read_message = FALSE
    /\ reload_all_worker = FALSE /\ reload_task_worker = FALSE
    /\ reload_task = NoTask /\ due = FALSE
    /\ detached_processes = {}
    /\ exit_pid = NoPid
    /\ pc = "loop"
    /\ deaths = 0 /\ reloads = 0
    /\ snapshot = {}

dead == {p \in Pid : proc[p] = "gone"}
alive(p) == proc[p] \in {"run", "exiting"}

-----------------------------------------------------------------------------
(***************************************************************************)
(* Signals.                                                                *)
(***************************************************************************)

\* Signals sent to the manager: one that arrives while a callback runs finds
\* _lock set and is discarded.
Post(signals) ==
    \/ pending' = pending \cup signals
    \/ AsyncSignals /\ handler # "none" /\ pending' = pending

\* A signal interrupts the manager.  wait() is interrupted only if there is no
\* child to reap, and a signal that arrived during it is handled before the
\* manager goes on.
Deliver(sig) ==
    /\ sig \in pending /\ handler = "none"
    /\ AsyncSignals \/ pc \in {"wait", "returned", "stopping"}
    /\ pc = "wait" => \A p \in Pid : proc[p] # "zombie"
    /\ pc # "stopped"
    /\ pending' = pending \ {sig}
    /\ handler' = sig
    /\ pc' = IF pc = "wait" THEN "returned" ELSE pc
    /\ exit_pid' = IF pc = "wait" THEN NoPid ELSE exit_pid
    /\ UNCHANGED <<procVars, pid, message_box, flagVars, taskVars, detached_processes,
                   boundVars>>

\* Server::reload() in the manager, with ProcessPool::reload().
reload(all) ==
    IF reload_task # NoTask
    THEN UNCHANGED <<reload_task, due, snapshot, reload_all_worker, reload_task_worker>>
    ELSE /\ reload_task' = NewReloadTask(MaxWaitTime)
         /\ due' = FALSE
         /\ snapshot' = {}
         /\ reload_all_worker' = (all \/ reload_all_worker)
         /\ reload_task_worker' = (~all \/ reload_task_worker)

\* Processes that are killed with SIGKILL become zombies.
Slain(victims) ==
    [p \in Pid |-> IF p \in victims /\ alive(p) THEN "zombie" ELSE proc[p]]

\* Mutant: the alarm of the shutdown is ignored.
SignalHandler_never_kills ==
    /\ handler # "none"
    /\ handler' = "none"
    /\ running' = (running /\ handler # "TERM")
    /\ read_message' = (read_message \/ handler = "IO")
    /\ IF handler \in {"USR1", "USR2"} THEN reload(handler = "USR1")
       ELSE UNCHANGED <<reload_task, due, snapshot, reload_all_worker, reload_task_worker>>
    /\ IF FALSE
       THEN /\ proc' = Slain({pid[w] : w \in Workers})
            /\ pending' = pending \cup {"CHLD"}
       ELSE UNCHANGED <<proc, pending>>
    /\ UNCHANGED <<term, slot, forks, pid, message_box, detached_processes,
                   exit_pid, pc, boundVars>>

\* Manager::signal_handler().
SignalHandler ==
    /\ handler # "none"
    /\ handler' = "none"
    /\ running' = (running /\ handler # "TERM")
    /\ read_message' = (read_message \/ handler = "IO")
    /\ IF handler \in {"USR1", "USR2"} THEN reload(handler = "USR1")
       ELSE UNCHANGED <<reload_task, due, snapshot, reload_all_worker, reload_task_worker>>
    /\ IF handler = "ALRM" /\ pc = "stopping"     \* force_kill is set
       THEN /\ proc' = Slain({pid[w] : w \in Workers})
            /\ pending' = pending \cup {"CHLD"}
       ELSE UNCHANGED <<proc, pending>>
    /\ UNCHANGED <<term, slot, forks, pid, message_box, detached_processes,
                   exit_pid, pc, boundVars>>

-----------------------------------------------------------------------------
(***************************************************************************)
(* The workers.                                                            *)
(***************************************************************************)

\* A worker may do this of its own accord only so often.
Spontaneous == deaths < MaxDeaths /\ deaths' = deaths + 1

\* worker_signal_handler(SIGTERM), or max_request: stop_async_worker() tells the
\* manager, if reload_async is set and the worker has an event loop.  A task
\* worker may have none.
StopWorker(p) ==
    /\ proc[p] = "run"
    /\ (p \in term /\ UNCHANGED deaths) \/ (p \notin term /\ Spontaneous)
    /\ proc' = [proc EXCEPT ![p] = "exiting"]
    /\ \/ /\ reload_async
          /\ message_box' = Append(message_box, p)
          /\ Post({"IO"})
       \/ /\ ~reload_async \/ slot[p] \in TaskWorkers
          /\ UNCHANGED <<message_box, pending>>
    /\ UNCHANGED <<term, slot, forks, pid, handler, flagVars, taskVars,
                   detached_processes, exit_pid, pc, setting, reloads>>

\* The process ends: a worker that was stopping, or a crash.
Die(p) ==
    /\ (proc[p] = "exiting" /\ UNCHANGED deaths) \/ (proc[p] = "run" /\ Spontaneous)
    /\ proc' = [proc EXCEPT ![p] = "zombie"]
    /\ Post({"CHLD"})
    /\ UNCHANGED <<term, slot, forks, pid, message_box, handler, flagVars,
                   taskVars, detached_processes, exit_pid, pc, setting, reloads>>

\* Somebody sends SIGUSR1, SIGUSR2 or SIGTERM to the manager.
SendReload(sig) ==
    /\ reloads < MaxReloads /\ reloads' = reloads + 1
    /\ Post({sig})
    /\ UNCHANGED <<procVars, pid, message_box, handler, flagVars, taskVars,
                   detached_processes, exit_pid, pc, setting, deaths>>

SendTerm ==
    /\ "TERM" \notin pending /\ running /\ handler # "TERM"
    /\ Post({"TERM"})
    /\ UNCHANGED <<procVars, pid, message_box, handler, flagVars, taskVars,
                   detached_processes, exit_pid, pc, boundVars>>

\* The interval timer of a reload, which goes off again and again, or the one
\* alarm() of the shutdown.  max_wait_time is seconds: if signals come inside
\* wait(), the reload has begun by then, and it goes off again only if the
\* manager has got back to wait().
Alarm ==
    /\ MaxWaitTime
    /\ \/ /\ pc # "stopping" /\ reload_task # NoTask /\ reload_task.timer
          /\ AsyncSignals \/ ~(reload_all_worker \/ reload_task_worker)
       \/ pc = "stopping" /\ ~due
    /\ "ALRM" \notin pending /\ (due => pc = "wait")
    /\ due' = TRUE
    /\ Post({"ALRM"})
    /\ UNCHANGED <<procVars, pid, message_box, handler, flagVars, reload_task, snapshot,
                   detached_processes, exit_pid, pc, boundVars>>

-----------------------------------------------------------------------------
(***************************************************************************)
(* The loop of Manager::wait().                                            *)
(***************************************************************************)
At(place) == pc = place /\ handler = "none"
Goto(place) == pc' = place /\ UNCHANGED <<handler, boundVars>>

Loop ==
    /\ At("loop")
    /\ Goto(IF running THEN "call_wait" ELSE "shutdown")
    /\ UNCHANGED <<procVars, pid, message_box, pending, flagVars, taskVars,
                   detached_processes, exit_pid>>

CallWait ==
    /\ At("call_wait")
    /\ Goto("wait")
    /\ UNCHANGED <<procVars, pid, message_box, pending, flagVars, taskVars,
                   detached_processes, exit_pid>>

\* wait() returns a child, or fails at once when there is none at all.
WaitReturns ==
    /\ At("wait")
    /\ \E p \in {q \in Pid : proc[q] = "zombie"}
                \cup {q \in {NoPid} : \A r \in Pid : proc[r] \in {"none", "gone"}} :
          /\ exit_pid' = p
          /\ proc' = [q \in Pid |-> IF q = p THEN "gone" ELSE proc[q]]
          /\ term' = term \ {p}
    /\ Goto("returned")
    /\ UNCHANGED <<slot, forks, pid, message_box, pending, flagVars,
                   taskVars, detached_processes>>

\* Back in user mode every signal that arrived has been handled.
AfterWait ==
    /\ At("returned") /\ pending = {}
    /\ Goto(IF read_message THEN "messages" ELSE "timer")
    /\ UNCHANGED <<procVars, pid, message_box, pending, flagVars, taskVars,
                   detached_processes, exit_pid>>

\* Mutant: the pid table is not updated.
Spawn_untabled(w) ==
    /\ forks < MaxPid
    /\ forks' = forks + 1
    /\ proc' = [proc EXCEPT ![forks + 1] = "run"]
    /\ slot' = [slot EXCEPT ![forks + 1] = w]
    /\ UNCHANGED pid

\* Factory::spawn_event_worker() or spawn_task_worker(): a process for worker w.
Spawn(w) ==
    /\ forks < MaxPid
    /\ forks' = forks + 1
    /\ proc' = [proc EXCEPT ![forks + 1] = "run"]
    /\ slot' = [slot EXCEPT ![forks + 1] = w]
    /\ pid' = [pid EXCEPT ![w] = forks + 1]

\* A STOP message: a new process at once, beside the one that is stopping.
PopMessage ==
    /\ At("messages") /\ message_box # <<>>
    /\ message_box' = Tail(message_box)
    /\ IF running
       THEN /\ Spawn(slot[Head(message_box)])
            /\ detached_processes' = detached_processes \cup {Head(message_box)}
       ELSE UNCHANGED <<proc, slot, forks, pid, detached_processes>>
    /\ Goto("messages")
    /\ UNCHANGED <<term, pending, flagVars, taskVars, exit_pid>>

NoMoreMessages ==
    /\ At("messages") /\ message_box = <<>>
    /\ Goto("clear")
    /\ UNCHANGED <<procVars, pid, message_box, pending, flagVars, taskVars,
                   detached_processes, exit_pid>>

ClearReadMessage ==
    /\ At("clear")
    /\ read_message' = FALSE
    /\ Goto("timer")
    /\ UNCHANGED <<procVars, pid, message_box, pending, running, reload_all_worker,
                   reload_task_worker, taskVars, detached_processes, exit_pid>>

\* Mutant: the timeout killer only signals.
Select_without_kill ==
    /\ At("timer")
    /\ Goto(IF exit_pid = NoPid /\ reload_task = NoTask THEN "loop" ELSE "reload")
    /\ UNCHANGED <<procVars, pid, message_box, pending, flagVars, taskVars,
                   detached_processes, exit_pid>>

\* Timer::select() runs the timeout killer when it is due; the loop starts over
\* if there is neither a child nor a reload to deal with.
Select ==
    /\ At("timer")
    /\ IF due /\ reload_task # NoTask
       THEN /\ reload_task' = [kill_all(reload_task, dead) EXCEPT !.timer = FALSE]
            /\ proc' = Slain(KilledByAll(reload_task, dead))
            /\ pending' = pending \cup {"CHLD"}
            /\ due' = FALSE
       ELSE UNCHANGED <<reload_task, proc, pending, due>>
    /\ Goto(IF exit_pid = NoPid /\ reload_task = NoTask THEN "loop" ELSE "reload")
    /\ UNCHANGED <<term, slot, forks, pid, message_box, flagVars, snapshot,
                   detached_processes, exit_pid>>

\* The pids of the moment are the ones the reload has to replace.
Snapshot(pids) == snapshot' = {pids[i] : i \in 1 .. Len(pids)}

\* kill_all(SIGTERM) or kill_one(SIGTERM) of a task.
TermAll(task) ==
    /\ reload_task' = kill_all(task, dead)
    /\ term' = term \cup KilledByAll(task, dead)

TermOne(task) ==
    /\ reload_task' = kill_one(task, dead)
    /\ term' = term \cup KilledByOne(task, dead)

\* SIGUSR1 has been handled.  Without reload_async the goto leaves out the part
\* of the loop that deals with the child wait() returned.
ReloadAll ==
    /\ At("reload") /\ running /\ reload_all_worker /\ reload_task # NoTask
    /\ reload_all_worker' = FALSE
    /\ Snapshot(pid)
    /\ LET task == add_workers(reload_task, pid)
       IN  IF reload_async THEN TermAll(task) /\ Goto("restart")
           ELSE TermOne(task) /\ Goto("loop")
    /\ UNCHANGED <<proc, slot, forks, pid, message_box, pending, running,
                   read_message, reload_task_worker, due, detached_processes, exit_pid>>

\* SIGUSR2 has been handled.
ReloadTaskWorkers ==
    /\ At("reload") /\ running /\ ~reload_all_worker /\ reload_task_worker
    /\ reload_task # NoTask \/ task_worker_num = 0
    /\ reload_task_worker' = FALSE
    /\ IF task_worker_num = 0
       THEN reload_task' = NoTask /\ UNCHANGED <<term, snapshot>>
       ELSE LET list == SubSeq(pid, worker_num + 1, worker_num + task_worker_num)
            IN  Snapshot(list) /\ TermOne(add_workers(reload_task, list))
    /\ Goto("loop")
    /\ UNCHANGED <<proc, slot, forks, pid, message_box, pending, running,
                   read_message, reload_all_worker, due, detached_processes, exit_pid>>

\* The flag is set and the task is not there: a member call on a null pointer.
ReloadNull ==
    /\ At("reload") /\ running /\ reload_task = NoTask
    /\ reload_all_worker \/ (reload_task_worker /\ task_worker_num # 0)
    /\ Goto("crashed")
    /\ UNCHANGED <<procVars, pid, message_box, pending, flagVars, taskVars,
                   detached_processes, exit_pid>>

NoReload ==
    /\ At("reload")
    /\ running => ~reload_all_worker /\ ~reload_task_worker
    /\ Goto(IF ~running THEN "finish" ELSE IF exit_pid = NoPid THEN "loop" ELSE "restart")
    /\ UNCHANGED <<procVars, pid, message_box, pending, flagVars, taskVars,
                   detached_processes, exit_pid>>

\* Server::restart_worker_process(): by the pid table, so a detached process is
\* none of the workers any more.
RestartWorker ==
    /\ At("restart") /\ exit_pid # NoPid
    /\ \/ \E w \in Workers :
            /\ pid[w] = exit_pid
            /\ Spawn(w)
            /\ UNCHANGED detached_processes
       \/ /\ \A w \in Workers : pid[w] # exit_pid
          /\ detached_processes' = detached_processes \ {exit_pid}
          /\ UNCHANGED <<proc, slot, forks, pid>>
    /\ Goto("remove")
    /\ UNCHANGED <<term, message_box, pending, flagVars, taskVars, exit_pid>>

NoChild ==
    /\ At("restart") /\ exit_pid = NoPid
    /\ Goto("loop")
    /\ UNCHANGED <<procVars, pid, message_box, pending, flagVars, taskVars,
                   detached_processes, exit_pid>>

RemoveFromReload ==
    /\ At("remove")
    /\ reload_task' = IF reload_task = NoTask THEN NoTask ELSE remove(reload_task, exit_pid)
    /\ Goto("finish")
    /\ UNCHANGED <<procVars, pid, message_box, pending, flagVars, due, snapshot,
                   detached_processes, exit_pid>>

\* The reload is over, or its next process gets its signal.
FinishReload ==
    /\ At("finish")
    /\ IF reload_task = NoTask THEN UNCHANGED <<taskVars, term>>
       ELSE IF is_completed(reload_task)
            THEN reload_task' = NoTask /\ due' = FALSE /\ snapshot' = {} /\ UNCHANGED term
            ELSE TermOne(reload_task) /\ UNCHANGED <<due, snapshot>>
    /\ Goto("loop")
    /\ UNCHANGED <<proc, slot, forks, pid, message_box, pending, flagVars,
                   detached_processes, exit_pid>>

\* running is false: every worker is signalled ...
Shutdown ==
    /\ At("shutdown")
    /\ term' = term \cup {pid[w] : w \in Workers}
    /\ due' = FALSE
    /\ Goto("stopping")
    /\ UNCHANGED <<proc, slot, forks, pid, message_box, pending, flagVars,
                   reload_task, snapshot, detached_processes, exit_pid>>

\* ... and waited for.
Stopped ==
    /\ At("stopping")
    /\ \A w \in Workers : ~alive(pid[w])
    /\ proc' = [p \in Pid |-> IF \E w \in Workers : pid[w] = p THEN "gone" ELSE proc[p]]
    /\ Goto("stopped")
    /\ UNCHANGED <<term, slot, forks, pid, message_box, pending, flagVars,
                   taskVars, detached_processes, exit_pid>>

ManagerStep ==
    \/ Loop \/ CallWait \/ WaitReturns \/ AfterWait
    \/ PopMessage \/ NoMoreMessages \/ ClearReadMessage \/ Select
    \/ ReloadAll \/ ReloadTaskWorkers \/ ReloadNull \/ NoReload
    \/ RestartWorker \/ NoChild \/ RemoveFromReload \/ FinishReload
    \/ Shutdown \/ Stopped

Next ==
    \/ ManagerStep
    \/ \E sig \in Signals : Deliver(sig)
    \/ SignalHandler
    \/ \E p \in Pid : StopWorker(p) \/ Die(p)
    \/ \E sig \in ReloadSignals : SendReload(sig)
    \/ SendTerm
    \/ Alarm

Spec == Init /\ [][Next]_vars

(***************************************************************************)
(* Fairness.  The manager runs, signals and timers arrive.  Nothing is     *)
(* assumed of the workers: one that got SIGTERM may hang for ever.         *)
(***************************************************************************)
Fairness ==
    /\ WF_vars(ManagerStep)
    /\ WF_vars(SignalHandler)
    /\ \A sig \in Signals : WF_vars(Deliver(sig))
    /\ WF_vars(Alarm)

FairSpec == Spec /\ Fairness

-----------------------------------------------------------------------------
(***************************************************************************)
(* Properties.                                                             *)
(***************************************************************************)

\* Every variable has its type.
TypeOK ==
    /\ proc \in [Pid -> {"none", "run", "exiting", "zombie", "gone"}]
    /\ term \subseteq Pid /\ detached_processes \subseteq Pid
    /\ slot \in [Pid -> Workers \cup {NoPid}]
    /\ forks \in 0 .. MaxPid
    /\ pid \in [Workers -> Pid]
    /\ message_box \in Seq(Pid)
    /\ pending \subseteq Signals /\ handler \in Signals \cup {"none"}
    /\ running \in BOOLEAN /\ read_message \in BOOLEAN
    /\ reload_all_worker \in BOOLEAN /\ reload_task_worker \in BOOLEAN
    /\ reload_task \in ReloadTasks(Pid) \cup {NoTask}
    /\ due \in BOOLEAN
    /\ exit_pid \in Pid \cup {NoPid}
    /\ pc \in {"loop", "call_wait", "wait", "returned", "messages", "clear", "timer",
               "reload", "restart", "remove", "finish", "shutdown", "stopping",
               "stopped", "crashed"}
    /\ deaths \in 0 .. MaxDeaths /\ reloads \in 0 .. MaxReloads
    /\ snapshot \subseteq Pid

\* A process that takes requests is the one in the pid table of its worker.  So
\* there is never a second one beside it, and restart_worker_process(), a reload
\* and the shutdown, which all go by the pid table, reach it (manager.cc:178-186,
\* 255: a STOP message forks, and so does an exit).  A SIGIO between the last look
\* at the message box and the end of that part would break it.
ServingIsCurrent == \A p \in Pid : proc[p] = "run" => pid[slot[p]] = p

\* A reload that was asked for has its task until it begins: the pointer that
\* Manager::wait() follows at manager.cc:212 and 243 is not null, if no signal
\* arrives between the two tests of one round.
RequestHasTask ==
    running /\ (reload_all_worker \/ reload_task_worker) => reload_task # NoTask

\* A detached process is forgotten when it has been reaped: detached_processes
\* holds a reaped process only until restart_worker_process() has seen it
\* (manager.cc:393), however the stop message, the exit and a reload interleave, if
\* the message is not overtaken as above.  A reload of the task workers leaves that
\* part out (manager.cc:244), and the process stays in the set.
DetachedIsForgotten ==
    running /\ "USR2" \notin ReloadSignals =>
        \A p \in detached_processes : proc[p] = "gone" => p = exit_pid

\* When a reload task is destroyed, every process it was begun with has exited
\* and been reaped (manager.cc:256-277).  If signals arrive anywhere, one SIGUSR2
\* to a server without task workers may destroy the task of another reload
\* (manager.cc:232-237).
ReloadIsComplete ==
    [][reload_task # NoTask /\ reload_task' = NoTask /\ running
            /\ (AsyncSignals => "USR2" \notin ReloadSignals)
            => \A p \in snapshot : proc[p] = "gone"]_vars

\* After the shutdown no process is left that takes requests (manager.cc:312-314
\* goes by the pid table), if the table has all that serve, as above.
NoServerAfterStop == ~AsyncSignals /\ pc = "stopped" => \A p \in Pid : proc[p] # "run"

\* Whenever the manager is back at the top of its loop, no worker is without a
\* process: one that has exited and been reaped was replaced in the same round
\* (manager.cc:249-255), for nothing would tell the manager of it again.
EveryWorkerHasProcess ==
    running /\ pc \in {"loop", "call_wait", "wait"}
        => \A w \in Workers : proc[pid[w]] # "gone"

\* The same of a server with reload_async that is reloaded with SIGUSR1: there the
\* round that begins a reload goes on to the restart (manager.cc:222-228).
ExitIsNoticed == reload_async /\ ReloadSignals = {"USR1"} => EveryWorkerHasProcess

\* The manager's books agree with its processes, if signals arrive only while it
\* waits (manager.cc:163): the five properties above.
BooksAreExact ==
    /\ TypeOK
    /\ ~AsyncSignals => ServingIsCurrent /\ RequestHasTask /\ DetachedIsForgotten
    /\ NoServerAfterStop /\ ExitIsNoticed

\* With max_wait_time, a reload ends even if a worker ignores SIGTERM, unless
\* the server stops first or a worker was lost as above (process_pool.cc:1165).
ReloadEnds ==
    reload_task # NoTask ~> (reload_task = NoTask \/ ~running \/ ~EveryWorkerHasProcess)

\* With max_wait_time, the manager stops even if a worker ignores SIGTERM
\* (manager.cc:290-318).
ShutdownEnds == ~running ~> pc = "stopped"
=============================================================================
