--------------------------- MODULE Manager_proofs ---------------------------
(***************************************************************************)
(* Proofs about the manager process, for any number of workers, deaths,    *)
(* reloads and forks.                                                      *)
(***************************************************************************)
EXTENDS Manager, TLAPS

-----------------------------------------------------------------------------
(***************************************************************************)
(* The setting, which never changes.                                       *)
(***************************************************************************)

\* What the settings say of the sets of workers and of processes.
LEMMA SettingFacts ==
    ASSUME setting \in Settings
    PROVE  /\ worker_num \in Nat /\ task_worker_num \in Nat /\ MaxPid \in Nat
           /\ MaxDeaths \in Nat /\ MaxReloads \in Nat
           /\ worker_num + task_worker_num <= MaxPid
           /\ Pid = 1 .. MaxPid /\ NoPid \notin Pid /\ Pid \subseteq Nat
           /\ Workers = 1 .. worker_num + task_worker_num
           /\ ReloadSignals \subseteq {"USR1", "USR2"}
           /\ MaxWaitTime \in BOOLEAN
  <1>1. /\ {setting.worker_num, setting.task_worker_num, setting.MaxDeaths,
            setting.MaxReloads, setting.MaxPid} \subseteq Nat
        /\ setting.worker_num + setting.task_worker_num <= setting.MaxPid
        /\ {setting.reload_async, setting.MaxWaitTime, setting.AsyncSignals} \subseteq BOOLEAN
        /\ setting.ReloadSignals \subseteq {"USR1", "USR2"}
    BY Zenon, SettingsAssumption
  <1>2. QED
    BY <1>1 DEF worker_num, task_worker_num, MaxPid, MaxDeaths, MaxReloads, Pid, NoPid,
                Workers, ReloadSignals, MaxWaitTime

Same ==
    /\ setting' = setting
    /\ Pid' = Pid /\ Workers' = Workers /\ ReloadSignals' = ReloadSignals
    /\ AsyncSignals' = AsyncSignals /\ reload_async' = reload_async
    /\ MaxDeaths' = MaxDeaths /\ MaxReloads' = MaxReloads /\ MaxPid' = MaxPid

\* What is derived from the setting stays the same with it.
LEMMA SameSetting == setting' = setting => Same
  BY DEF Same, Pid, MaxPid, Workers, worker_num, task_worker_num, ReloadSignals,
         AsyncSignals, reload_async, MaxDeaths, MaxReloads

-----------------------------------------------------------------------------
(***************************************************************************)
(* The operations of a reload task forget no process that is not dead.     *)
(***************************************************************************)

\* kill_one() finds a place in the queue, which may be its end.
LEMMA KillIndexFound ==
    ASSUME NEW S, NEW task \in ReloadTasks(S), NEW gone
    PROVE  KillIndex(task, gone) \in 1 .. Len(task.kill_queue) + 1
  <1> DEFINE q == task.kill_queue
             first(i) == /\ q[i] \in task.workers \ gone
                         /\ \A j \in 1 .. i - 1 : q[j] \notin task.workers \ gone
  <1>1. q \in Seq(S) /\ Len(q) \in Nat
    BY DEF ReloadTasks
  <1>2. KillIndex(task, gone) = IF \E i \in 1 .. Len(q) : first(i)
                                THEN CHOOSE i \in 1 .. Len(q) : first(i) ELSE Len(q) + 1
    BY Zenon DEF KillIndex
  <1> HIDE DEF first
  <1>3. KillIndex(task, gone) \in 1 .. Len(q) \/ KillIndex(task, gone) = Len(q) + 1
    BY Zenon, <1>2
  <1>4. QED
    BY <1>1, <1>3

\* kill_one() signals a process of the task or none, and erases dead ones only.
LEMMA KillOneTask ==
    ASSUME NEW S, NEW task \in ReloadTasks(S), NEW gone
    PROVE  /\ kill_one(task, gone) \in ReloadTasks(S) /\ KilledByOne(task, gone) \subseteq S
           /\ \A p \in task.workers : p \in kill_one(task, gone).workers \/ p \in gone
  <1> DEFINE q == task.kill_queue
             i == KillIndex(task, gone)
             rest == SubSeq(q, i + 1, Len(q))
             left == task.workers \ (gone \cap {q[j] : j \in 1 .. i - 1})
  <1>1. q \in Seq(S) /\ Len(q) \in Nat /\ i \in 1 .. Len(q) + 1 /\ task.workers \subseteq S
    BY KillIndexFound DEF ReloadTasks
  <1> HIDE DEF q, i
  <1>2. rest \in Seq(S)
    BY <1>1
  <1> USE DEF q, i
  <1>3. kill_one(task, gone) = [task EXCEPT !.workers = left, !.kill_queue = rest]
    BY Zenon DEF kill_one, ReloadTasks
  <1>4. KilledByOne(task, gone) \subseteq S
    BY <1>1 DEF KilledByOne
  <1> HIDE DEF rest, i
  <1>5. left \subseteq S /\ \A p \in task.workers : p \in left \/ p \in gone
    BY Zenon, <1>1
  <1> HIDE DEF left
  <1>6. QED
    BY Zenon, <1>2, <1>3, <1>4, <1>5 DEF ReloadTasks

\* kill_all() signals the living, and erases the dead only.
LEMMA KillAllTask ==
    ASSUME NEW S, NEW task \in ReloadTasks(S), NEW gone
    PROVE  /\ kill_all(task, gone) \in ReloadTasks(S) /\ KilledByAll(task, gone) \subseteq S
           /\ \A p \in task.workers : p \in kill_all(task, gone).workers \/ p \in gone
  <1> DEFINE left == task.workers \ gone
             rest == <<>>
  <1>1. left \subseteq S /\ rest \in Seq(S) /\ \A p \in task.workers : p \in left \/ p \in gone
    BY DEF ReloadTasks
  <1>2. /\ kill_all(task, gone) = [task EXCEPT !.workers = left, !.kill_queue = rest]
        /\ KilledByAll(task, gone) = left
    BY Zenon DEF kill_all, KilledByAll, ReloadTasks
  <1> HIDE DEF left, rest
  <1>3. QED
    BY Zenon, <1>1, <1>2 DEF ReloadTasks

\* add_workers() adds the pids of a list.
LEMMA AddWorkersTask ==
    ASSUME NEW S, NEW task \in ReloadTasks(S), NEW list \in Seq(S)
    PROVE  /\ add_workers(task, list) \in ReloadTasks(S)
           /\ \A k \in 1 .. Len(list) : list[k] \in add_workers(task, list).workers
  <1> DEFINE all == task.workers \cup {list[k] : k \in 1 .. Len(list)}
             queue == task.kill_queue \o list
  <1>1. queue \in Seq(S) /\ all \subseteq S
    BY DEF ReloadTasks
  <1>2. add_workers(task, list) = [task EXCEPT !.workers = all, !.kill_queue = queue]
    BY Zenon DEF add_workers, ReloadTasks
  <1>3. \A k \in 1 .. Len(list) : list[k] \in all
    BY Zenon
  <1> HIDE DEF all, queue
  <1>4. QED
    BY Zenon, <1>1, <1>2, <1>3 DEF ReloadTasks

\* remove() erases one pid.
LEMMA RemoveTaskPid ==
    ASSUME NEW S, NEW task \in ReloadTasks(S), NEW p
    PROVE  /\ remove(task, p) \in ReloadTasks(S)
           /\ \A r \in task.workers : r \in remove(task, p).workers \/ r = p
  BY DEF remove, ReloadTasks

-----------------------------------------------------------------------------
(***************************************************************************)
(* The inductive invariant.                                                *)
(***************************************************************************)
Rounds == {"loop", "call_wait", "wait", "returned", "messages", "clear", "timer", "reload",
           "restart", "remove", "finish"}
BeforeReload == {"returned", "messages", "clear", "timer", "reload"}
Boxed == {message_box[k] : k \in 1 .. Len(message_box)}

\* Processes are forked in order, each for one worker, and the pid table names a process
\* of that worker.  What wait() returned is reaped, who sent a message is stopping, and
\* a detached process has lost its place in the table.
ForkInv ==
    /\ \A p \in Pid : proc[p] = "none" <=> p > forks
    /\ \A p \in Pid : p <= forks => slot[p] \in Workers
    /\ \A w \in Workers : pid[w] <= forks /\ slot[pid[w]] = w
    /\ exit_pid # NoPid => proc[exit_pid] = "gone"
    /\ \A p \in Boxed : proc[p] \in {"exiting", "zombie", "gone"}
    /\ \A p \in detached_processes : p <= forks /\ pid[slot[p]] # p

\* Where the manager may be, and what the settings rule out.
LoopInv ==
    /\ running => pc \notin {"shutdown", "stopping", "stopped"}
    /\ ~AsyncSignals => /\ handler # "none" => pc \in {"returned", "stopping"}
                        /\ pc \in {"restart", "remove"} => running
    /\ "USR2" \notin ReloadSignals =>
            "USR2" \notin pending /\ handler # "USR2" /\ ~reload_task_worker
    /\ ~reload_async => message_box = <<>> /\ detached_processes = {}

\* A process that a reload began with is in its task until it has been reaped.
ReloadInv ==
    reload_task # NoTask =>
        \A p \in snapshot : p \in reload_task.workers \/ proc[p] = "gone"

\* A request that has not begun has an empty task, and is dealt with in the same round.
RequestInv ==
    ~AsyncSignals /\ running /\ (reload_all_worker \/ reload_task_worker) =>
        /\ reload_task # NoTask /\ snapshot = {}
        /\ pc \in BeforeReload
        /\ ~(reload_all_worker /\ reload_task_worker)

\* A message is from a process that still has its place in the table, nobody has sent
\* two, a SIGIO tells of those that are there, and they are read before the round in
\* which the sender was reaped comes to the restart.
MessageInv ==
    ~AsyncSignals =>
        /\ \A j, k \in 1 .. Len(message_box) : message_box[j] = message_box[k] => j = k
        /\ \A p \in Boxed : pid[slot[p]] = p
        /\ pc \in Rounds =>
            /\ message_box # <<>> =>
                    \/ "IO" \in pending \/ handler = "IO"
                    \/ read_message /\ pc \in {"returned", "messages"}
            /\ \A p \in Boxed :
                    proc[p] = "gone" => p = exit_pid /\ pc \in {"returned", "messages"}

ServeInv == ~AsyncSignals => ServingIsCurrent

\* A detached process that has been reaped is the one this round deals with.
DetachInv ==
    ~AsyncSignals /\ running /\ (reload_async => "USR2" \notin ReloadSignals) =>
        \A p \in detached_processes :
            proc[p] = "gone" => p = exit_pid /\ pc \in BeforeReload \cup {"restart"}

\* So is a process of the table that has been reaped.
TableInv ==
    reload_async /\ ReloadSignals = {"USR1"} /\ running =>
        \A w \in Workers : proc[pid[w]] = "gone" =>
            pid[w] = exit_pid /\ pc \in BeforeReload \cup {"restart", "crashed"}

StopInv == pc = "stopped" => \A w \in Workers : proc[pid[w]] = "gone"

MgrInv ==
    /\ TypeOK /\ setting \in Settings
    /\ ForkInv /\ LoopInv /\ ReloadInv /\ RequestInv /\ MessageInv /\ ServeInv
    /\ DetachInv /\ TableInv /\ StopInv

\* A null pointer is no reload task.
LEMMA NoTaskIsNone ==
    ASSUME setting \in Settings
    PROVE  NoTask \notin ReloadTasks(Pid)
  <1>1. Pid \subseteq Nat
    BY Zenon, SettingFacts
  <1>2. ASSUME NEW s \in Seq(Pid) PROVE s \in Seq(Nat)
    <2>1. Len(s) \in Nat /\ s \in [1 .. Len(s) -> Pid]
      OBVIOUS
    <2>2. s \in [1 .. Len(s) -> Nat]
      BY Zenon, <1>1, <2>1
    <2>3. QED
      BY <2>1, <2>2
  <1>3. ReloadTasks(Pid) \subseteq ReloadTasks(Nat)
    BY Zenon, <1>1, <1>2 DEF ReloadTasks
  <1>4. QED
    BY Zenon, <1>3, NoTaskAssumption

\* What a step without a fork does to the processes: they go on towards their end.
Aging ==
    /\ proc' \in [Pid -> {"none", "run", "exiting", "zombie", "gone"}]
    /\ \A p \in Pid :
        /\ proc'[p] = "none" <=> proc[p] = "none"
        /\ proc'[p] = "gone" <=> proc[p] = "gone"
        /\ proc'[p] = "run" => proc[p] = "run"

\* The pid table is a sequence, as get_worker_pid() and the reload's lists take it.
LEMMA PidTable ==
    ASSUME TypeOK, setting \in Settings
    PROVE  /\ pid \in Seq(Pid) /\ Len(pid) = worker_num + task_worker_num
           /\ worker_num \in Nat /\ task_worker_num \in Nat
           /\ \A i \in 1 .. worker_num + task_worker_num : pid[i] \in Pid
  <1>1. /\ pid \in [1 .. worker_num + task_worker_num -> Pid]
        /\ worker_num \in Nat /\ task_worker_num \in Nat
    BY SettingFacts DEF TypeOK
  <1>2. QED
    BY <1>1

\* Messages are sent by processes.
LEMMA BoxedArePids == TypeOK => Boxed \subseteq Pid
  BY DEF TypeOK, Boxed

\* ForkInv survives such a step, and messages of processes that are exiting.
LEMMA AgingForkInv ==
    ASSUME TypeOK, ForkInv, Aging, Same, UNCHANGED <<slot, forks, pid, exit_pid>>,
           detached_processes' \subseteq detached_processes,
           \A x \in Boxed' : x \in Boxed \/ (x \in Pid /\ proc'[x] = "exiting")
    PROVE  ForkInv'
  <1>1. Boxed \subseteq Pid
    BY Zenon, BoxedArePids
  <1>2. \A p \in Boxed' : proc'[p] \in {"exiting", "zombie", "gone"}
    BY Zenon, <1>1 DEF ForkInv, Aging, TypeOK
  <1>3. exit_pid # NoPid => proc'[exit_pid] = "gone"
    BY Zenon DEF ForkInv, Aging, TypeOK
  <1>4. \A p \in Pid : proc'[p] = "none" <=> p > forks
    BY Zenon DEF ForkInv, Aging
  <1>5. \A p \in detached_processes' : p <= forks /\ pid[slot[p]] # p
    BY Zenon DEF ForkInv
  <1>6. QED
    BY Zenon, <1>2, <1>3, <1>4, <1>5 DEF ForkInv, Same

\* ForkInv and ServeInv survive a step that has nothing to do with processes.
LEMMA ProcessesKept ==
    ASSUME ForkInv, ServeInv, Same,
           UNCHANGED <<proc, slot, forks, pid, exit_pid, detached_processes, message_box>>
    PROVE  ForkInv' /\ ServeInv'
  <1>1. Boxed' = Boxed
    BY Zenon DEF Boxed
  <1>2. QED
    BY <1>1 DEF ForkInv, ServeInv, ServingIsCurrent, Same

\* MessageInv survives a step of the later part of a round that has nothing to do with
\* messages.
LEMMA MessagesKept ==
    ASSUME MessageInv, Same, pc \in Rounds \ {"returned", "messages"},
           UNCHANGED <<proc, slot, pid, message_box, exit_pid, pending, handler, read_message>>
    PROVE  MessageInv'
  <1>1. Boxed' = Boxed
    BY Zenon DEF Boxed
  <1>2. ~AsyncSignals =>
            /\ message_box # <<>> => "IO" \in pending \/ handler = "IO"
            /\ \A p \in Boxed : proc[p] # "gone" /\ pid[slot[p]] = p
            /\ \A j, k \in 1 .. Len(message_box) : message_box[j] = message_box[k] => j = k
    BY Zenon DEF MessageInv
  <1>3. QED
    BY ZenonT(30), <1>1, <1>2 DEF MessageInv, Same

-----------------------------------------------------------------------------
(***************************************************************************)
(* The steps of the loop that only move on, signals and workers.           *)
(***************************************************************************)

\* The steps of the loop that only move on to the next place: a message that is there when
\* the signals have been handled was announced by a SIGIO, a reload that was asked for has its
\* task, and the part about the exit is left out only when there was none.
LEMMA MoveOnStep ==
    ASSUME MgrInv, \/ Loop \/ CallWait \/ AfterWait \/ NoMoreMessages
                   \/ ReloadNull \/ NoReload \/ NoChild
    PROVE  MgrInv'
  <1>1. /\ TypeOK /\ ForkInv /\ LoopInv /\ ReloadInv /\ RequestInv
        /\ MessageInv /\ ServeInv /\ DetachInv /\ TableInv /\ StopInv /\ setting \in Settings
    BY Zenon DEF MgrInv
  <1>2. /\ handler = "none"
        /\ \/ pc = "loop" /\ pc' = IF running THEN "call_wait" ELSE "shutdown"
           \/ pc = "call_wait" /\ pc' = "wait"
           \/ /\ pc = "returned" /\ pending = {}
              /\ pc' = IF read_message THEN "messages" ELSE "timer"
           \/ pc = "messages" /\ message_box = <<>> /\ pc' = "clear"
           \/ /\ pc = "reload" /\ running /\ reload_task = NoTask /\ pc' = "crashed"
              /\ reload_all_worker \/ reload_task_worker
           \/ /\ pc = "reload" /\ (running => ~reload_all_worker /\ ~reload_task_worker)
              /\ pc' = IF ~running THEN "finish"
                    ELSE IF exit_pid = NoPid THEN "loop" ELSE "restart"
           \/ pc = "restart" /\ exit_pid = NoPid /\ pc' = "loop"
    BY Zenon DEF AfterWait, At, CallWait, Goto, Loop, NoChild, NoMoreMessages, NoReload,
           ReloadNull, boundVars, flagVars, procVars, taskVars
  <1>3. UNCHANGED <<proc, term, slot, forks, pid, message_box, pending, handler, running,
                    read_message, reload_all_worker, reload_task_worker, reload_task, due,
                    snapshot, detached_processes, exit_pid, setting, deaths, reloads>>
    BY Zenon DEF AfterWait, At, CallWait, Goto, Loop, NoChild, NoMoreMessages, NoReload,
           ReloadNull, boundVars, flagVars, procVars, taskVars
  <1>4. Same
    BY Zenon, <1>3, SameSetting
  <1>5. TypeOK'
    BY <1>1, <1>2, <1>3, <1>4 DEF TypeOK, Same
  <1>6. LoopInv'
    BY Zenon, <1>1, <1>2, <1>3, <1>4 DEF LoopInv, Same
  <1>7. RequestInv'
    BY Zenon, <1>1, <1>2, <1>3, <1>4 DEF RequestInv, Same, BeforeReload
  <1>8. MessageInv'
    BY SMTT(20), <1>1, <1>2, <1>3, <1>4 DEF MessageInv, Same, Boxed, Rounds
  <1>9. DetachInv'
    BY SMTT(20), <1>1, <1>2, <1>3, <1>4, SettingFacts
       DEF DetachInv, RequestInv, TypeOK, Same, BeforeReload
  <1>10. TableInv'
    BY SMTT(20), <1>1, <1>2, <1>3, <1>4, SettingFacts DEF TableInv, Same, BeforeReload, TypeOK
  <1>11. StopInv'
    BY Zenon, <1>1, <1>2, <1>3, <1>4 DEF StopInv, Same
  <1>12. ForkInv' /\ ReloadInv' /\ ServeInv'
    BY Zenon, <1>1, <1>3, <1>4, ProcessesKept DEF ReloadInv
  <1>13. QED
    BY Zenon, <1>1, <1>3, <1>5, <1>6, <1>7, <1>8, <1>9, <1>10, <1>11, <1>12 DEF MgrInv

\* read_message is cleared: a message that has come since has its own SIGIO.
LEMMA ClearReadMessageStep ==
    ASSUME MgrInv, ClearReadMessage
    PROVE  MgrInv'
  <1>1. /\ TypeOK /\ ForkInv /\ LoopInv /\ ReloadInv /\ RequestInv
        /\ MessageInv /\ ServeInv /\ DetachInv /\ TableInv /\ StopInv /\ setting \in Settings
    BY Zenon DEF MgrInv
  <1>2. /\ handler = "none"
        /\ pc = "clear" /\ pc' = "timer" /\ read_message' = FALSE
    BY Zenon DEF At, ClearReadMessage, Goto, boundVars, flagVars, procVars, taskVars
  <1>3. UNCHANGED <<proc, term, slot, forks, pid, message_box, pending, handler, running,
                    reload_all_worker, reload_task_worker, reload_task, due, snapshot,
                    detached_processes, exit_pid, setting, deaths, reloads>>
    BY Zenon DEF At, ClearReadMessage, Goto, boundVars, flagVars, procVars, taskVars
  <1>4. Same
    BY Zenon, <1>3, SameSetting
  <1>5. TypeOK'
    BY Zenon, <1>1, <1>2, <1>3, <1>4 DEF TypeOK, Same
  <1>6. LoopInv'
    BY Zenon, <1>1, <1>2, <1>3, <1>4 DEF LoopInv, Same
  <1>7. RequestInv'
    BY Zenon, <1>1, <1>2, <1>3, <1>4 DEF RequestInv, Same, BeforeReload
  <1>8. MessageInv'
    BY <1>1, <1>2, <1>3, <1>4 DEF MessageInv, Same, Boxed, Rounds
  <1>9. DetachInv'
    BY Zenon, <1>1, <1>2, <1>3, <1>4 DEF DetachInv, Same, BeforeReload
  <1>10. TableInv'
    BY Zenon, <1>1, <1>2, <1>3, <1>4 DEF TableInv, Same, BeforeReload
  <1>11. StopInv'
    BY Zenon, <1>1, <1>2, <1>3, <1>4 DEF StopInv, Same
  <1>12. ForkInv' /\ ReloadInv' /\ ServeInv'
    BY Zenon, <1>1, <1>3, <1>4, ProcessesKept DEF ReloadInv
  <1>13. QED
    BY Zenon, <1>1, <1>3, <1>5, <1>6, <1>7, <1>8, <1>9, <1>10, <1>11, <1>12 DEF MgrInv

\* A signal interrupts the manager.
LEMMA DeliverStep ==
    ASSUME MgrInv, NEW sig \in Signals, Deliver(sig)
    PROVE  MgrInv'
  <1>1. /\ TypeOK /\ ForkInv /\ LoopInv /\ ReloadInv /\ RequestInv
        /\ MessageInv /\ ServeInv /\ DetachInv /\ TableInv /\ StopInv /\ setting \in Settings
    BY Zenon DEF MgrInv
  <1>2. /\ handler = "none" /\ handler' = sig /\ sig \in pending /\ pending' = pending \ {sig}
        /\ AsyncSignals \/ pc \in {"wait", "returned", "stopping"}
        /\ pc # "stopped"
        /\ pc' = IF pc = "wait" THEN "returned" ELSE pc
        /\ exit_pid' = IF pc = "wait" THEN NoPid ELSE exit_pid
    BY Zenon DEF Deliver, boundVars, flagVars, procVars, taskVars
  <1>3. UNCHANGED <<proc, term, slot, forks, pid, message_box, running, read_message,
                    reload_all_worker, reload_task_worker, reload_task, due, snapshot,
                    detached_processes, setting, deaths, reloads>>
    BY Zenon DEF Deliver, boundVars, flagVars, procVars, taskVars
  <1>4. Same
    BY Zenon, <1>3, SameSetting
  <1>5. TypeOK'
    BY Zenon, <1>1, <1>2, <1>3, <1>4 DEF TypeOK, Same
  <1>6. ForkInv'
    BY <1>1, <1>2, <1>3, <1>4 DEF ForkInv, Same, Boxed
  <1>7. LoopInv'
    BY Zenon, <1>1, <1>2, <1>3, <1>4 DEF LoopInv, Same
  <1>8. RequestInv'
    BY Zenon, <1>1, <1>2, <1>3, <1>4 DEF RequestInv, Same, BeforeReload
  <1>9. MessageInv'
    BY <1>1, <1>2, <1>3, <1>4 DEF MessageInv, Same, Boxed, Rounds
  <1>10. DetachInv'
    BY Zenon, <1>1, <1>2, <1>3, <1>4 DEF DetachInv, Same, BeforeReload
  <1>11. TableInv'
    BY Zenon, <1>1, <1>2, <1>3, <1>4 DEF TableInv, Same, BeforeReload
  <1>12. StopInv'
    BY Zenon, <1>1, <1>2, <1>3, <1>4 DEF StopInv, Same
  <1>13. ReloadInv' /\ ServeInv'
    BY Zenon, <1>1, <1>3, <1>4 DEF ReloadInv, ServeInv, ServingIsCurrent, Same
  <1>14. QED
    BY Zenon, <1>1, <1>3, <1>5, <1>6, <1>7, <1>8, <1>9, <1>10, <1>11, <1>12, <1>13 DEF MgrInv

\* SIGUSR1 or SIGUSR2 is sent.
LEMMA SendReloadStep ==
    ASSUME MgrInv, NEW sig \in ReloadSignals, SendReload(sig)
    PROVE  MgrInv'
  <1>1. /\ TypeOK /\ ForkInv /\ LoopInv /\ ReloadInv /\ RequestInv
        /\ MessageInv /\ ServeInv /\ DetachInv /\ TableInv /\ StopInv /\ setting \in Settings
    BY Zenon DEF MgrInv
  <1>2. /\ pending' = pending \cup {sig} \/ pending' = pending
        /\ reloads < MaxReloads /\ reloads' = reloads + 1
    BY Zenon DEF Post, SendReload, flagVars, procVars, taskVars
  <1>3. UNCHANGED <<proc, term, slot, forks, pid, message_box, handler, running,
                    read_message, reload_all_worker, reload_task_worker, reload_task, due,
                    snapshot, detached_processes, exit_pid, pc, setting, deaths>>
    BY Zenon DEF Post, SendReload, flagVars, procVars, taskVars
  <1>4. Same
    BY Zenon, <1>3, SameSetting
  <1>5. TypeOK'
    <2>1. sig \in Signals
      BY Zenon, <1>1, SettingFacts DEF Signals
    <2>2. reloads' \in 0 .. MaxReloads
      BY SMTT(20), <1>1, <1>2, SettingFacts DEF TypeOK
    <2>3. QED
      BY <1>1, <1>2, <1>3, <1>4, <2>1, <2>2 DEF TypeOK, Same
  <1>6. LoopInv'
    BY Zenon, <1>1, <1>2, <1>3, <1>4 DEF LoopInv, Same
  <1>7. MessageInv'
    BY <1>1, <1>2, <1>3, <1>4 DEF MessageInv, Same, Boxed, Rounds
  <1>8. /\ ForkInv' /\ ReloadInv' /\ RequestInv' /\ ServeInv' /\ DetachInv'
        /\ TableInv' /\ StopInv'
    BY <1>1, <1>3, <1>4
       DEF ForkInv, Boxed, ReloadInv, RequestInv, BeforeReload, ServeInv, ServingIsCurrent,
           DetachInv, TableInv, StopInv, Same
  <1>9. QED
    BY Zenon, <1>1, <1>3, <1>5, <1>6, <1>7, <1>8 DEF MgrInv

\* SIGTERM is sent.
LEMMA SendTermStep ==
    ASSUME MgrInv, SendTerm
    PROVE  MgrInv'
  <1>1. /\ TypeOK /\ ForkInv /\ LoopInv /\ ReloadInv /\ RequestInv
        /\ MessageInv /\ ServeInv /\ DetachInv /\ TableInv /\ StopInv /\ setting \in Settings
    BY Zenon DEF MgrInv
  <1>2. /\ pending' = pending \cup {"TERM"} \/ pending' = pending
    BY Zenon DEF Post, SendTerm, boundVars, flagVars, procVars, taskVars
  <1>3. UNCHANGED <<proc, term, slot, forks, pid, message_box, handler, running,
                    read_message, reload_all_worker, reload_task_worker, reload_task, due,
                    snapshot, detached_processes, exit_pid, pc, setting, deaths, reloads>>
    BY Zenon DEF Post, SendTerm, boundVars, flagVars, procVars, taskVars
  <1>4. Same
    BY Zenon, <1>3, SameSetting
  <1>5. TypeOK'
    <2>1. pending' \subseteq Signals
      BY Zenon, <1>1, <1>2 DEF TypeOK, Signals
    <2>2. QED
      BY <1>1, <1>2, <1>3, <1>4, <2>1 DEF TypeOK, Same
  <1>6. LoopInv'
    BY Zenon, <1>1, <1>2, <1>3, <1>4 DEF LoopInv, Same
  <1>7. MessageInv'
    BY <1>1, <1>2, <1>3, <1>4 DEF MessageInv, Same, Boxed, Rounds
  <1>8. /\ ForkInv' /\ ReloadInv' /\ RequestInv' /\ ServeInv' /\ DetachInv'
        /\ TableInv' /\ StopInv'
    BY <1>1, <1>3, <1>4
       DEF ForkInv, Boxed, ReloadInv, RequestInv, BeforeReload, ServeInv, ServingIsCurrent,
           DetachInv, TableInv, StopInv, Same
  <1>9. QED
    BY Zenon, <1>1, <1>3, <1>5, <1>6, <1>7, <1>8 DEF MgrInv

\* The timer goes off.
LEMMA AlarmStep ==
    ASSUME MgrInv, Alarm
    PROVE  MgrInv'
  <1>1. /\ TypeOK /\ ForkInv /\ LoopInv /\ ReloadInv /\ RequestInv
        /\ MessageInv /\ ServeInv /\ DetachInv /\ TableInv /\ StopInv /\ setting \in Settings
    BY Zenon DEF MgrInv
  <1>2. /\ pending' = pending \cup {"ALRM"} \/ pending' = pending
        /\ due' = TRUE
    BY Zenon DEF Alarm, Post, boundVars, flagVars, procVars
  <1>3. UNCHANGED <<proc, term, slot, forks, pid, message_box, handler, running,
                    read_message, reload_all_worker, reload_task_worker, reload_task,
                    snapshot, detached_processes, exit_pid, pc, setting, deaths, reloads>>
    BY Zenon DEF Alarm, Post, boundVars, flagVars, procVars
  <1>4. Same
    BY Zenon, <1>3, SameSetting
  <1>5. TypeOK'
    <2>1. pending' \subseteq Signals
      BY Zenon, <1>1, <1>2 DEF TypeOK, Signals
    <2>2. QED
      BY <1>1, <1>2, <1>3, <1>4, <2>1 DEF TypeOK, Same
  <1>6. LoopInv'
    BY Zenon, <1>1, <1>2, <1>3, <1>4 DEF LoopInv, Same
  <1>7. MessageInv'
    BY <1>1, <1>2, <1>3, <1>4 DEF MessageInv, Same, Boxed, Rounds
  <1>8. /\ ForkInv' /\ ReloadInv' /\ RequestInv' /\ ServeInv' /\ DetachInv'
        /\ TableInv' /\ StopInv'
    BY <1>1, <1>3, <1>4
       DEF ForkInv, Boxed, ReloadInv, RequestInv, BeforeReload, ServeInv, ServingIsCurrent,
           DetachInv, TableInv, StopInv, Same
  <1>9. QED
    BY Zenon, <1>1, <1>3, <1>5, <1>6, <1>7, <1>8 DEF MgrInv

\* The handler of a signal: SIGUSR1 and SIGUSR2 make a task and ask for a reload, and
\* SIGALRM kills while the manager stops.
LEMMA SignalHandlerStep ==
    ASSUME MgrInv, SignalHandler
    PROVE  MgrInv'
  <1>1. /\ TypeOK /\ ForkInv /\ LoopInv /\ ReloadInv /\ RequestInv
        /\ MessageInv /\ ServeInv /\ DetachInv /\ TableInv /\ StopInv /\ setting \in Settings
    BY Zenon DEF MgrInv
  <1>2. /\ handler # "none" /\ handler' = "none"
        /\ running' = (running /\ handler # "TERM")
        /\ read_message' = (read_message \/ handler = "IO")
        /\ \/ UNCHANGED <<reload_task, due, snapshot, reload_all_worker, reload_task_worker>>
           \/ /\ reload_task = NoTask /\ reload_task' = NewReloadTask(MaxWaitTime)
              /\ due' = FALSE /\ snapshot' = {} /\ handler \in {"USR1", "USR2"}
              /\ reload_all_worker' = (handler = "USR1" \/ reload_all_worker)
              /\ reload_task_worker' = (handler # "USR1" \/ reload_task_worker)
        /\ \/ proc' = proc /\ pending' = pending
           \/ /\ proc' = Slain({pid[w] : w \in Workers})
              /\ pending' = pending \cup {"CHLD"}
    BY Zenon DEF SignalHandler, boundVars, reload
  <1>3. UNCHANGED <<term, slot, forks, pid, message_box, detached_processes, exit_pid, pc,
                    setting, deaths, reloads>>
    BY Zenon DEF SignalHandler, boundVars, reload
  <1>4. Same
    BY Zenon, <1>3, SameSetting
  <1>5. Aging
    BY Zenon, <1>1, <1>2 DEF Slain, alive, TypeOK, Aging
  <1>6. NewReloadTask(MaxWaitTime) \in ReloadTasks(Pid) /\ NewReloadTask(MaxWaitTime) # NoTask
    <2>1. <<>> \in Seq(Pid) /\ MaxWaitTime \in BOOLEAN
      BY <1>1, SettingFacts
    <2>2. NewReloadTask(MaxWaitTime) \in ReloadTasks(Pid)
      BY Zenon, <2>1 DEF NewReloadTask, ReloadTasks
    <2>3. QED
      BY Zenon, <1>1, <2>2, NoTaskIsNone
  <1>7. TypeOK'
    <2>1. pending' \subseteq Signals
      BY Zenon, <1>1, <1>2 DEF TypeOK, Signals
    <2>2. /\ running' \in BOOLEAN /\ read_message' \in BOOLEAN /\ due' \in BOOLEAN
          /\ reload_all_worker' \in BOOLEAN /\ reload_task_worker' \in BOOLEAN
      BY Zenon, <1>1, <1>2 DEF TypeOK
    <2>3. reload_task' \in ReloadTasks(Pid) \cup {NoTask} /\ snapshot' \subseteq Pid
      BY Zenon, <1>1, <1>2, <1>6 DEF TypeOK
    <2>4. handler' \in Signals \cup {"none"}
      BY Zenon, <1>2
    <2>5. QED
      BY Zenon, <1>1, <1>3, <1>4, <1>5, <2>1, <2>2, <2>3, <2>4 DEF TypeOK, Same, Aging
  <1>8. ForkInv'
    BY Zenon, <1>1, <1>3, <1>4, <1>5, AgingForkInv DEF Boxed
  <1>9. LoopInv'
    <2>1. "USR2" \notin ReloadSignals =>
                "USR2" \notin pending' /\ handler' # "USR2" /\ ~reload_task_worker'
      BY Zenon, <1>1, <1>2 DEF LoopInv
    <2>2. running' => running
      BY Zenon, <1>2
    <2>3. QED
      BY Zenon, <1>1, <1>2, <1>3, <1>4, <2>1, <2>2 DEF LoopInv, Same
  <1>10. ReloadInv'
    BY Zenon, <1>1, <1>2, <1>3, <1>4, <1>5 DEF ReloadInv, Same, Aging, TypeOK
  <1>11. RequestInv'
    BY Zenon, <1>1, <1>2, <1>3, <1>4, <1>6 DEF RequestInv, Same, BeforeReload, LoopInv
  <1>12. MessageInv'
    <2>1. \A p \in Boxed : proc'[p] = "gone" => proc[p] = "gone"
      BY <1>1, <1>5 DEF Aging, Boxed, TypeOK
    <2>2. ~AsyncSignals /\ pc \in Rounds => pc = "returned"
      BY Zenon, <1>1, <1>2 DEF LoopInv, Rounds
    <2>3. "IO" \in pending => "IO" \in pending'
      BY Zenon, <1>2
    <2>4. read_message => read_message'
      BY Zenon, <1>2
    <2>5. handler = "IO" => read_message'
      BY Zenon, <1>2
    <2>6. Boxed' = Boxed
      BY Zenon, <1>3 DEF Boxed
    <2>7. QED
      BY Zenon, <1>1, <1>3, <1>4, <2>1, <2>2, <2>3, <2>4, <2>5, <2>6 DEF MessageInv, Same
  <1>13. ServeInv'
    BY Zenon, <1>1, <1>2, <1>3, <1>4, <1>5 DEF ServeInv, Same, ServingIsCurrent, Aging, TypeOK
  <1>14. DetachInv'
    BY Zenon, <1>1, <1>2, <1>3, <1>4, <1>5 DEF DetachInv, Same, BeforeReload, Aging, TypeOK
  <1>15. TableInv'
    BY Zenon, <1>1, <1>2, <1>3, <1>4, <1>5 DEF TableInv, Same, BeforeReload, Aging, TypeOK
  <1>16. StopInv'
    BY Zenon, <1>1, <1>2, <1>3, <1>4, <1>5 DEF StopInv, Same, Aging, TypeOK
  <1>17. QED
    BY Zenon, <1>1, <1>3, <1>7, <1>8, <1>9, <1>10, <1>11, <1>12, <1>13, <1>14, <1>15, <1>16
       DEF MgrInv

\* A process ends.
LEMMA DieStep ==
    ASSUME MgrInv, NEW p \in Pid, Die(p)
    PROVE  MgrInv'
  <1>1. /\ TypeOK /\ ForkInv /\ LoopInv /\ ReloadInv /\ RequestInv
        /\ MessageInv /\ ServeInv /\ DetachInv /\ TableInv /\ StopInv /\ setting \in Settings
    BY Zenon DEF MgrInv
  <1>2. /\ proc[p] \in {"run", "exiting"} /\ proc' = [proc EXCEPT ![p] = "zombie"]
        /\ pending' = pending \cup {"CHLD"} \/ pending' = pending
        /\ deaths' = deaths \/ (deaths < MaxDeaths /\ deaths' = deaths + 1)
    BY Zenon DEF Die, Post, Spontaneous, flagVars, taskVars
  <1>3. UNCHANGED <<term, slot, forks, pid, message_box, handler, running, read_message,
                    reload_all_worker, reload_task_worker, reload_task, due, snapshot,
                    detached_processes, exit_pid, pc, setting, reloads>>
    BY Zenon DEF Die, Post, Spontaneous, flagVars, taskVars
  <1>4. Same
    BY Zenon, <1>3, SameSetting
  <1>5. Aging
    BY Zenon, <1>1, <1>2 DEF TypeOK, Aging
  <1>6. TypeOK'
    <2>1. deaths' \in 0 .. MaxDeaths
      BY SMTT(20), <1>1, <1>2, SettingFacts DEF TypeOK
    <2>2. pending' \subseteq Signals
      BY Zenon, <1>1, <1>2 DEF TypeOK, Signals
    <2>3. QED
      BY <1>1, <1>3, <1>4, <1>5, <2>1, <2>2 DEF TypeOK, Same, Aging
  <1>7. ForkInv'
    BY <1>1, <1>3, <1>4, <1>5, AgingForkInv DEF Boxed
  <1>8. LoopInv'
    BY SMTT(20), <1>1, <1>2, <1>3, <1>4 DEF LoopInv, Same
  <1>9. ReloadInv'
    BY SMTT(20), <1>1, <1>2, <1>3, <1>4, <1>5 DEF ReloadInv, Same, Aging, TypeOK
  <1>10. MessageInv'
    BY SMTT(20), <1>1, <1>2, <1>3, <1>4, <1>5 DEF MessageInv, Same, Boxed, Rounds, Aging, TypeOK
  <1>11. ServeInv'
    BY Zenon, <1>1, <1>2, <1>3, <1>4, <1>5 DEF ServeInv, Same, ServingIsCurrent, Aging, TypeOK
  <1>12. DetachInv'
    BY Zenon, <1>1, <1>2, <1>3, <1>4, <1>5 DEF DetachInv, Same, BeforeReload, Aging, TypeOK
  <1>13. TableInv'
    BY Zenon, <1>1, <1>2, <1>3, <1>4, <1>5 DEF TableInv, Same, BeforeReload, Aging, TypeOK
  <1>14. StopInv'
    BY Zenon, <1>1, <1>2, <1>3, <1>4, <1>5 DEF StopInv, Same, Aging, TypeOK
  <1>15. RequestInv'
    BY Zenon, <1>1, <1>3, <1>4 DEF RequestInv, BeforeReload, Same
  <1>16. QED
    BY Zenon, <1>1, <1>3, <1>6, <1>7, <1>8, <1>9, <1>10, <1>11, <1>12, <1>13, <1>14, <1>15
       DEF MgrInv

\* A worker stops, and tells the manager if it is to be replaced.
LEMMA StopWorkerStep ==
    ASSUME MgrInv, NEW p \in Pid, StopWorker(p)
    PROVE  MgrInv'
  <1>1. /\ TypeOK /\ ForkInv /\ LoopInv /\ ReloadInv /\ RequestInv
        /\ MessageInv /\ ServeInv /\ DetachInv /\ TableInv /\ StopInv /\ setting \in Settings
    BY Zenon DEF MgrInv
  <1>2. /\ proc[p] = "run" /\ proc' = [proc EXCEPT ![p] = "exiting"]
        /\ deaths' = deaths \/ (deaths < MaxDeaths /\ deaths' = deaths + 1)
        /\ \/ message_box' = message_box /\ pending' = pending
           \/ /\ reload_async /\ message_box' = Append(message_box, p)
              /\ pending' = pending \cup {"IO"} \/ (AsyncSignals /\ pending' = pending)
    BY Zenon DEF Post, Spontaneous, StopWorker, flagVars, taskVars
  <1>3. UNCHANGED <<term, slot, forks, pid, handler, running, read_message,
                    reload_all_worker, reload_task_worker, reload_task, due, snapshot,
                    detached_processes, exit_pid, pc, setting, reloads>>
    BY Zenon DEF Post, Spontaneous, StopWorker, flagVars, taskVars
  <1>4. Same
    BY Zenon, <1>3, SameSetting
  <1>5. Aging
    BY Zenon, <1>1, <1>2 DEF TypeOK, Aging
  <1>6. /\ message_box' \in Seq(Pid) /\ Boxed' \subseteq Boxed \cup {p} /\ Boxed \subseteq Pid
        /\ \/ message_box' = message_box
           \/ /\ Len(message_box') = Len(message_box) + 1 /\ Len(message_box) \in Nat
              /\ message_box'[Len(message_box) + 1] = p
              /\ \A k \in 1 .. Len(message_box) : message_box'[k] = message_box[k]
    <2>1. message_box \in Seq(Pid) /\ Len(message_box) \in Nat
      BY <1>1 DEF TypeOK
    <2>2. \A k \in 1 .. Len(message_box) : message_box[k] \in Pid
      BY <2>1
    <2>3. CASE message_box' = message_box
      BY Zenon, <2>1, <2>2, <2>3 DEF Boxed
    <2>4. CASE message_box' = Append(message_box, p)
      <3>1. /\ message_box' \in Seq(Pid) /\ Len(message_box') = Len(message_box) + 1
            /\ message_box'[Len(message_box) + 1] = p
            /\ \A k \in 1 .. Len(message_box) : message_box'[k] = message_box[k]
        BY <2>1, <2>4
      <3>2. QED
        BY <2>1, <2>2, <3>1 DEF Boxed
    <2>5. QED
      BY Zenon, <1>2, <2>3, <2>4
  <1>7. TypeOK'
    <2>1. deaths' \in 0 .. MaxDeaths
      BY SMTT(20), <1>1, <1>2, SettingFacts DEF TypeOK
    <2>2. pending' \subseteq Signals
      BY Zenon, <1>1, <1>2 DEF TypeOK, Signals
    <2>3. QED
      BY <1>1, <1>3, <1>4, <1>5, <1>6, <2>1, <2>2 DEF TypeOK, Same, Aging
  <1>8. ForkInv'
    <2>1. \A x \in Boxed' : x \in Boxed \/ (x \in Pid /\ proc'[x] = "exiting")
      BY <1>1, <1>2, <1>6 DEF TypeOK
    <2>2. QED
      BY <1>1, <1>3, <1>4, <1>5, <2>1, AgingForkInv
  <1>9. LoopInv'
    BY Zenon, <1>1, <1>2, <1>3, <1>4 DEF LoopInv, Same
  <1>10. ReloadInv'
    BY Zenon, <1>1, <1>2, <1>3, <1>4, <1>5 DEF ReloadInv, Same, Aging, TypeOK
  <1>11. MessageInv'
    <2>1. ~AsyncSignals => /\ \A j, k \in 1 .. Len(message_box') :
                                message_box'[j] = message_box'[k] => j = k
                           /\ \A x \in Boxed' : pid[slot[x]] = x
      <3>1. proc[p] = "run" /\ p \notin Boxed /\ (~AsyncSignals => pid[slot[p]] = p)
        BY Zenon, <1>1, <1>2 DEF ServeInv, ServingIsCurrent, ForkInv
      <3>2. \A k \in 1 .. Len(message_box) : message_box[k] \in Boxed
        BY Zenon DEF Boxed
      <3>3. ~AsyncSignals =>
              /\ \A j, k \in 1 .. Len(message_box) : message_box[j] = message_box[k] => j = k
              /\ \A x \in Boxed : pid[slot[x]] = x
        BY Zenon, <1>1 DEF MessageInv
      <3>4. QED
        BY <1>6, <3>1, <3>2, <3>3
    <2>2. \A x \in Boxed' : proc'[x] = "gone" => x \in Boxed /\ proc[x] = "gone"
      BY Zenon, <1>1, <1>2, <1>5, <1>6 DEF Aging, TypeOK
    <2>3. QED
      BY Zenon, <1>1, <1>2, <1>3, <1>4, <1>6, <2>1, <2>2 DEF MessageInv, Same, Rounds
  <1>12. ServeInv'
    BY Zenon, <1>1, <1>2, <1>3, <1>4, <1>5 DEF ServeInv, Same, ServingIsCurrent, Aging, TypeOK
  <1>13. DetachInv'
    BY Zenon, <1>1, <1>2, <1>3, <1>4, <1>5 DEF DetachInv, Same, BeforeReload, Aging, TypeOK
  <1>14. TableInv'
    BY Zenon, <1>1, <1>2, <1>3, <1>4, <1>5 DEF TableInv, Same, BeforeReload, Aging, TypeOK
  <1>15. StopInv'
    BY Zenon, <1>1, <1>2, <1>3, <1>4, <1>5 DEF StopInv, Same, Aging, TypeOK
  <1>16. RequestInv'
    BY Zenon, <1>1, <1>3, <1>4 DEF RequestInv, BeforeReload, Same
  <1>17. QED
    BY Zenon, <1>1, <1>3, <1>7, <1>8, <1>9, <1>10, <1>11, <1>12, <1>13, <1>14, <1>15, <1>16
       DEF MgrInv

-----------------------------------------------------------------------------
(***************************************************************************)
(* A child is reaped, the timeout killer, the end of a reload, the stop.   *)
(***************************************************************************)

\* wait() returns: at that moment no process of the pid table, of the message box or of
\* detached_processes had been reaped, and now at most one.
LEMMA WaitReturnsStep ==
    ASSUME MgrInv, WaitReturns
    PROVE  MgrInv'
  <1>1. /\ TypeOK /\ ForkInv /\ LoopInv /\ ReloadInv /\ RequestInv
        /\ MessageInv /\ ServeInv /\ DetachInv /\ TableInv /\ StopInv /\ setting \in Settings
    BY Zenon DEF MgrInv
  <1>2. /\ handler = "none" /\ pc = "wait" /\ pc' = "returned"
        /\ exit_pid' \in Pid \cup {NoPid} /\ term' \subseteq term
        /\ proc' = [q \in Pid |-> IF q = exit_pid' THEN "gone" ELSE proc[q]]
        /\ exit_pid' \in Pid => proc[exit_pid'] = "zombie"
    BY <1>1, SettingFacts DEF At, Goto, WaitReturns, boundVars, flagVars, procVars, taskVars
  <1>3. UNCHANGED <<slot, forks, pid, message_box, pending, handler, running, read_message,
                    reload_all_worker, reload_task_worker, reload_task, due, snapshot,
                    detached_processes, setting, deaths, reloads>>
    BY Zenon DEF At, Goto, WaitReturns, boundVars, flagVars, procVars, taskVars
  <1>4. Same
    BY Zenon, <1>3, SameSetting
  <1>5. TypeOK'
    BY Zenon, <1>1, <1>2, <1>3, <1>4 DEF TypeOK, Same, TypeOK
  <1>6. ForkInv'
    <2>1. \A p \in Pid : proc'[p] = "none" <=> p > forks
      BY Zenon, <1>1, <1>2 DEF ForkInv
    <2>2. \A p \in Boxed : p \in Pid /\ proc'[p] \in {"exiting", "zombie", "gone"}
      BY <1>1, <1>2 DEF ForkInv, Boxed, TypeOK
    <2>3. exit_pid' # NoPid => proc'[exit_pid'] = "gone"
      BY Zenon, <1>2
    <2>4. Boxed' = Boxed
      BY Zenon, <1>3 DEF Boxed
    <2>5. QED
      BY Zenon, <1>1, <1>3, <1>4, <2>1, <2>2, <2>3, <2>4 DEF ForkInv, Same
  <1>7. LoopInv'
    BY Zenon, <1>1, <1>2, <1>3, <1>4 DEF LoopInv, Same
  <1>8. ReloadInv'
    BY Zenon, <1>1, <1>2, <1>3, <1>4 DEF ReloadInv, Same, TypeOK
  <1>9. RequestInv'
    BY Zenon, <1>1, <1>2, <1>3, <1>4 DEF RequestInv, Same, BeforeReload
  <1>10. MessageInv'
    BY <1>1, <1>2, <1>3, <1>4 DEF MessageInv, Same, Boxed, Rounds, TypeOK
  <1>11. ServeInv'
    BY Zenon, <1>1, <1>2, <1>3, <1>4 DEF ServeInv, Same, ServingIsCurrent, TypeOK
  <1>12. DetachInv'
    BY Zenon, <1>1, <1>2, <1>3, <1>4 DEF DetachInv, Same, BeforeReload, TypeOK
  <1>13. TableInv'
    BY Zenon, <1>1, <1>2, <1>3, <1>4 DEF TableInv, Same, BeforeReload, TypeOK
  <1>14. StopInv'
    BY <1>1, <1>2, <1>3, <1>4 DEF StopInv, Same, TypeOK
  <1>15. QED
    BY Zenon, <1>1, <1>3, <1>5, <1>6, <1>7, <1>8, <1>9, <1>10, <1>11, <1>12, <1>13, <1>14
       DEF MgrInv

\* The manager tells the workers to stop.
LEMMA ShutdownStep ==
    ASSUME MgrInv, Shutdown
    PROVE  MgrInv'
  <1>1. /\ TypeOK /\ ForkInv /\ LoopInv /\ ReloadInv /\ RequestInv
        /\ MessageInv /\ ServeInv /\ DetachInv /\ TableInv /\ StopInv /\ setting \in Settings
    BY Zenon DEF MgrInv
  <1>2. /\ handler = "none" /\ pc = "shutdown" /\ pc' = "stopping"
        /\ due' = FALSE
        /\ term' = term \cup {pid[w] : w \in Workers}
    BY Zenon DEF At, Goto, Shutdown, boundVars, flagVars, procVars, taskVars
  <1>3. UNCHANGED <<proc, slot, forks, pid, message_box, pending, handler, running,
                    read_message, reload_all_worker, reload_task_worker, reload_task,
                    snapshot, detached_processes, exit_pid, setting, deaths, reloads>>
    BY Zenon DEF At, Goto, Shutdown, boundVars, flagVars, procVars, taskVars
  <1>4. Same
    BY <1>3, SameSetting
  <1>5. TypeOK'
    <2>1. term' \subseteq Pid
      BY <1>1, <1>2 DEF TypeOK
    <2>2. QED
      BY Zenon, <1>1, <1>2, <1>3, <1>4, <2>1 DEF TypeOK, Same
  <1>6. LoopInv'
    BY Zenon, <1>1, <1>2, <1>3, <1>4 DEF LoopInv, Same
  <1>7. RequestInv'
    BY Zenon, <1>1, <1>2, <1>3, <1>4 DEF RequestInv, Same, BeforeReload
  <1>8. MessageInv'
    BY <1>1, <1>2, <1>3, <1>4 DEF MessageInv, Same, Boxed, Rounds
  <1>9. DetachInv'
    BY Zenon, <1>1, <1>2, <1>3, <1>4 DEF DetachInv, Same, BeforeReload
  <1>10. TableInv'
    BY Zenon, <1>1, <1>2, <1>3, <1>4 DEF TableInv, Same, BeforeReload
  <1>11. StopInv'
    BY Zenon, <1>1, <1>2, <1>3, <1>4 DEF StopInv, Same
  <1>12. ForkInv' /\ ReloadInv' /\ ServeInv'
    BY Zenon, <1>1, <1>3, <1>4, ProcessesKept DEF ReloadInv
  <1>13. QED
    BY <1>1, <1>3, <1>5, <1>6, <1>7, <1>8, <1>9, <1>10, <1>11, <1>12 DEF MgrInv

\* The manager has waited for the processes of the pid table.
LEMMA StoppedStep ==
    ASSUME MgrInv, Stopped
    PROVE  MgrInv'
  <1>1. /\ TypeOK /\ ForkInv /\ LoopInv /\ ReloadInv /\ RequestInv
        /\ MessageInv /\ ServeInv /\ DetachInv /\ TableInv /\ StopInv /\ setting \in Settings
    BY Zenon DEF MgrInv
  <1>2. /\ handler = "none" /\ pc = "stopping" /\ pc' = "stopped"
        /\ proc' = [p \in Pid |-> IF \E w \in Workers : pid[w] = p THEN "gone" ELSE proc[p]]
    BY Zenon DEF At, Goto, Stopped, boundVars, flagVars, procVars, taskVars
  <1>3. UNCHANGED <<term, slot, forks, pid, message_box, pending, handler, running,
                    read_message, reload_all_worker, reload_task_worker, reload_task, due,
                    snapshot, detached_processes, exit_pid, setting, deaths, reloads>>
    BY Zenon DEF At, Goto, Stopped, boundVars, flagVars, procVars, taskVars
  <1>4. Same
    BY Zenon, <1>3, SameSetting
  <1>5. TypeOK'
    <2>1. proc' \in [Pid -> {"none", "run", "exiting", "zombie", "gone"}]
      BY Zenon, <1>1, <1>2 DEF TypeOK
    <2>2. QED
      BY <1>1, <1>2, <1>3, <1>4, <2>1 DEF TypeOK, Same
  <1>6. ForkInv'
    <2>1. \A w \in Workers : pid[w] \in Pid /\ proc[pid[w]] # "none"
      BY <1>1, SettingFacts DEF ForkInv, TypeOK
    <2>2. \A p \in Pid : proc'[p] = "none" <=> proc[p] = "none"
      BY Zenon, <1>2, <2>1
    <2>3. \A p \in Pid : proc[p] \in {"exiting", "zombie", "gone"} =>
                          proc'[p] \in {"exiting", "zombie", "gone"}
      BY Zenon, <1>2
    <2>4. \A p \in Boxed : p \in Pid /\ proc'[p] \in {"exiting", "zombie", "gone"}
      BY Zenon, <1>1, <2>3, BoxedArePids DEF ForkInv
    <2>5. exit_pid # NoPid => proc'[exit_pid] = "gone"
      BY Zenon, <1>1, <1>2 DEF ForkInv, TypeOK
    <2>6. Boxed' = Boxed
      BY Zenon, <1>3 DEF Boxed
    <2>7. QED
      BY Zenon, <1>1, <1>3, <1>4, <2>2, <2>4, <2>5, <2>6 DEF ForkInv, Same
  <1>7. LoopInv'
    BY Zenon, <1>1, <1>2, <1>3, <1>4 DEF LoopInv, Same
  <1>8. ReloadInv'
    BY Zenon, <1>1, <1>2, <1>3, <1>4 DEF ReloadInv, Same, TypeOK
  <1>9. RequestInv'
    BY Zenon, <1>1, <1>2, <1>3, <1>4 DEF RequestInv, Same, BeforeReload
  <1>10. MessageInv'
    <2>1. Boxed' = Boxed
      BY Zenon, <1>3 DEF Boxed
    <2>2. pc' \notin Rounds'
      BY Zenon, <1>2 DEF Rounds
    <2>3. QED
      BY Zenon, <1>1, <1>3, <1>4, <2>1, <2>2 DEF MessageInv, Same
  <1>11. ServeInv'
    BY Zenon, <1>1, <1>2, <1>3, <1>4 DEF ServeInv, Same, ServingIsCurrent, TypeOK
  <1>12. DetachInv'
    BY Zenon, <1>1, <1>2, <1>3, <1>4 DEF DetachInv, Same, BeforeReload, LoopInv
  <1>13. TableInv'
    BY Zenon, <1>1, <1>2, <1>3, <1>4 DEF TableInv, Same, BeforeReload, LoopInv
  <1>14. StopInv'
    BY Zenon, <1>1, <1>2, <1>3, <1>4 DEF StopInv, Same, TypeOK
  <1>15. QED
    BY Zenon, <1>1, <1>3, <1>5, <1>6, <1>7, <1>8, <1>9, <1>10, <1>11, <1>12, <1>13, <1>14
       DEF MgrInv

\* The timeout killer, when it is due: whoever is alive in the task becomes a zombie, and the
\* task forgets the reaped only.
LEMMA SelectStep ==
    ASSUME MgrInv, Select
    PROVE  MgrInv'
  <1>1. /\ TypeOK /\ ForkInv /\ LoopInv /\ ReloadInv /\ RequestInv
        /\ MessageInv /\ ServeInv /\ DetachInv /\ TableInv /\ StopInv /\ setting \in Settings
    BY Zenon DEF MgrInv
  <1>2. /\ handler = "none" /\ pc = "timer"
        /\ pc' = IF exit_pid = NoPid /\ reload_task = NoTask THEN "loop" ELSE "reload"
        /\ \/ /\ reload_task # NoTask /\ due' = FALSE
              /\ reload_task' = [kill_all(reload_task, dead) EXCEPT !.timer = FALSE]
              /\ proc' = Slain(KilledByAll(reload_task, dead))
              /\ pending' = pending \cup {"CHLD"}
           \/ UNCHANGED <<reload_task, proc, pending, due>>
    BY Zenon DEF At, Goto, Select, boundVars, flagVars, procVars, taskVars
  <1>3. UNCHANGED <<term, slot, forks, pid, message_box, handler, running, read_message,
                    reload_all_worker, reload_task_worker, snapshot, detached_processes,
                    exit_pid, setting, deaths, reloads>>
    BY Zenon DEF At, Goto, Select, boundVars, flagVars, procVars, taskVars
  <1>4. Same
    BY Zenon, <1>3, SameSetting
  <1>5. Aging
    BY <1>1, <1>2 DEF Slain, alive, TypeOK, Aging
  <1>6. /\ reload_task' \in ReloadTasks(Pid) \cup {NoTask}
        /\ reload_task' = NoTask <=> reload_task = NoTask
        /\ reload_task # NoTask =>
            \A p \in reload_task.workers : p \in reload_task'.workers \/ p \in dead
    <2>1. CASE reload_task' = reload_task
      BY Zenon, <1>1, <2>1 DEF TypeOK
    <2>2. CASE /\ reload_task # NoTask
               /\ reload_task' = [kill_all(reload_task, dead) EXCEPT !.timer = FALSE]
      <3>1. reload_task \in ReloadTasks(Pid)
        BY <1>1, <2>2 DEF TypeOK
      <3>2. /\ kill_all(reload_task, dead) \in ReloadTasks(Pid)
            /\ \A p \in reload_task.workers :
                    p \in kill_all(reload_task, dead).workers \/ p \in dead
        BY <3>1, KillAllTask
      <3>3. /\ reload_task' \in ReloadTasks(Pid)
            /\ reload_task'.workers = kill_all(reload_task, dead).workers
        BY Zenon, <2>2, <3>2 DEF ReloadTasks
      <3>4. QED
        BY Zenon, <1>1, <2>2, <3>2, <3>3, NoTaskIsNone
    <2>3. QED
      BY Zenon, <1>2, <2>1, <2>2
  <1>7. TypeOK'
    <2>1. pending' \subseteq Signals
      BY Zenon, <1>1, <1>2 DEF TypeOK, Signals
    <2>2. due' \in BOOLEAN
      BY Zenon, <1>1, <1>2 DEF TypeOK
    <2>3. QED
      BY <1>1, <1>2, <1>3, <1>4, <1>5, <1>6, <2>1, <2>2 DEF TypeOK, Same, Aging
  <1>8. ForkInv'
    BY Zenon, <1>1, <1>3, <1>4, <1>5, AgingForkInv DEF Boxed
  <1>9. LoopInv'
    BY Zenon, <1>1, <1>2, <1>3, <1>4 DEF LoopInv, Same
  <1>10. ReloadInv'
    <2>1. ASSUME reload_task' # NoTask, NEW p \in snapshot'
          PROVE  p \in reload_task'.workers \/ proc'[p] = "gone"
      <3>1. p \in Pid /\ p \in snapshot /\ reload_task # NoTask
        BY Zenon, <1>1, <1>3, <1>6, <2>1 DEF TypeOK
      <3>2. p \in reload_task.workers \/ proc[p] = "gone"
        BY Zenon, <1>1, <3>1 DEF ReloadInv
      <3>3. p \in reload_task'.workers \/ p \in dead \/ proc[p] = "gone"
        BY Zenon, <1>6, <3>1, <3>2
      <3>4. proc[p] = "gone" => proc'[p] = "gone"
        BY Zenon, <1>5, <3>1 DEF Aging
      <3>5. QED
        BY Zenon, <3>3, <3>4 DEF dead
    <2>2. QED
      BY Zenon, <2>1 DEF ReloadInv
  <1>11. RequestInv'
    BY Zenon, <1>1, <1>2, <1>3, <1>4, <1>6 DEF RequestInv, Same, BeforeReload
  <1>12. MessageInv'
    BY <1>1, <1>2, <1>3, <1>4, <1>5 DEF MessageInv, Same, Boxed, Rounds, Aging, TypeOK
  <1>13. ServeInv'
    BY Zenon, <1>1, <1>2, <1>3, <1>4, <1>5 DEF ServeInv, Same, ServingIsCurrent, Aging, TypeOK
  <1>14. DetachInv'
    BY SMTT(20), <1>1, <1>2, <1>3, <1>4, <1>5, SettingFacts
       DEF DetachInv, Same, BeforeReload, Aging, TypeOK
  <1>15. TableInv'
    BY <1>1, <1>2, <1>3, <1>4, <1>5, SettingFacts
       DEF TableInv, Same, BeforeReload, Aging, TypeOK
  <1>16. StopInv'
    BY Zenon, <1>1, <1>2, <1>3, <1>4 DEF StopInv, Same
  <1>17. QED
    BY <1>1, <1>3, <1>7, <1>8, <1>9, <1>10, <1>11, <1>12, <1>13, <1>14, <1>15, <1>16
       DEF MgrInv

\* The process that was reaped is taken off the reload.
LEMMA RemoveFromReloadStep ==
    ASSUME MgrInv, RemoveFromReload
    PROVE  MgrInv'
  <1>1. /\ TypeOK /\ ForkInv /\ LoopInv /\ ReloadInv /\ RequestInv
        /\ MessageInv /\ ServeInv /\ DetachInv /\ TableInv /\ StopInv /\ setting \in Settings
    BY Zenon DEF MgrInv
  <1>2. /\ handler = "none" /\ pc = "remove" /\ pc' = "finish"
        /\ reload_task' = IF reload_task = NoTask THEN NoTask
                          ELSE remove(reload_task, exit_pid)
    BY Zenon DEF At, Goto, RemoveFromReload, boundVars, flagVars, procVars, taskVars
  <1>3. UNCHANGED <<proc, term, slot, forks, pid, message_box, pending, handler, running,
                    read_message, reload_all_worker, reload_task_worker, due, snapshot,
                    detached_processes, exit_pid, setting, deaths, reloads>>
    BY Zenon DEF At, Goto, RemoveFromReload, boundVars, flagVars, procVars, taskVars
  <1>4. Same
    BY Zenon, <1>3, SameSetting
  <1>5. /\ reload_task' \in ReloadTasks(Pid) \cup {NoTask}
        /\ reload_task' = NoTask <=> reload_task = NoTask
        /\ reload_task # NoTask =>
            \A p \in reload_task.workers : p \in reload_task'.workers \/ p = exit_pid
    <2>1. CASE reload_task = NoTask
      BY Zenon, <1>2, <2>1
    <2>2. CASE reload_task # NoTask
      <3>1. reload_task \in ReloadTasks(Pid)
        BY Zenon, <1>1, <2>2 DEF TypeOK
      <3>2. QED
        BY <1>1, <1>2, <2>2, <3>1, RemoveTaskPid, NoTaskIsNone
    <2>3. QED
      BY <2>1, <2>2
  <1>6. TypeOK'
    BY Zenon, <1>1, <1>2, <1>3, <1>4, <1>5 DEF TypeOK, Same
  <1>7. LoopInv'
    BY Zenon, <1>1, <1>2, <1>3, <1>4 DEF LoopInv, Same
  <1>8. ReloadInv'
    <2>1. exit_pid \in snapshot => proc[exit_pid] = "gone"
      BY SMTT(20), <1>1, SettingFacts DEF ForkInv, TypeOK
    <2>2. QED
      BY Zenon, <1>1, <1>3, <1>5, <2>1 DEF ReloadInv
  <1>9. RequestInv'
    BY Zenon, <1>1, <1>2, <1>3, <1>4 DEF RequestInv, Same, BeforeReload
  <1>10. MessageInv'
    BY Zenon, <1>1, <1>2, <1>3, <1>4, MessagesKept DEF Rounds
  <1>11. DetachInv'
    BY Zenon, <1>1, <1>2, <1>3, <1>4 DEF DetachInv, Same, BeforeReload
  <1>12. TableInv'
    BY Zenon, <1>1, <1>2, <1>3, <1>4 DEF TableInv, Same, BeforeReload
  <1>13. StopInv'
    BY Zenon, <1>1, <1>2, <1>3, <1>4 DEF StopInv, Same
  <1>14. ForkInv' /\ ServeInv'
    BY Zenon, <1>1, <1>3, <1>4, ProcessesKept
  <1>15. QED
    BY <1>1, <1>3, <1>6, <1>7, <1>8, <1>9, <1>10, <1>11, <1>12, <1>13, <1>14 DEF MgrInv

\* The task is destroyed, or signals its next process.
LEMMA FinishReloadStep ==
    ASSUME MgrInv, FinishReload
    PROVE  MgrInv'
  <1>1. /\ TypeOK /\ ForkInv /\ LoopInv /\ ReloadInv /\ RequestInv
        /\ MessageInv /\ ServeInv /\ DetachInv /\ TableInv /\ StopInv /\ setting \in Settings
    BY Zenon DEF MgrInv
  <1>2. /\ handler = "none" /\ pc = "finish" /\ pc' = "loop"
        /\ \/ UNCHANGED <<reload_task, due, snapshot, term>>
           \/ reload_task' = NoTask /\ due' = FALSE /\ snapshot' = {} /\ UNCHANGED term
           \/ /\ reload_task # NoTask /\ reload_task' = kill_one(reload_task, dead)
              /\ term' = term \cup KilledByOne(reload_task, dead)
              /\ UNCHANGED <<due, snapshot>>
    BY Zenon DEF At, FinishReload, Goto, TermOne, boundVars, flagVars, procVars, taskVars
  <1>3. UNCHANGED <<proc, slot, forks, pid, message_box, pending, handler, running,
                    read_message, reload_all_worker, reload_task_worker, detached_processes,
                    exit_pid, setting, deaths, reloads>>
    BY Zenon DEF At, FinishReload, Goto, TermOne, boundVars, flagVars, procVars, taskVars
  <1>4. Same
    BY Zenon, <1>3, SameSetting
  <1>5. /\ reload_task' \in ReloadTasks(Pid) \cup {NoTask} /\ term' \subseteq Pid
        /\ reload_task' # NoTask =>
            /\ reload_task # NoTask /\ snapshot' = snapshot
            /\ \A p \in reload_task.workers : p \in reload_task'.workers \/ p \in dead
    <2>1. CASE UNCHANGED <<reload_task, due, snapshot, term>>
      BY SMTT(20), <1>1, <2>1 DEF TypeOK
    <2>2. CASE reload_task' = NoTask /\ UNCHANGED term
      BY SMTT(20), <1>1, <2>2 DEF TypeOK
    <2>3. CASE /\ reload_task # NoTask /\ reload_task' = kill_one(reload_task, dead)
               /\ term' = term \cup KilledByOne(reload_task, dead) /\ snapshot' = snapshot
      <3>1. reload_task \in ReloadTasks(Pid) /\ term \subseteq Pid
        BY SMTT(20), <1>1, <2>3 DEF TypeOK
      <3>2. /\ kill_one(reload_task, dead) \in ReloadTasks(Pid)
            /\ KilledByOne(reload_task, dead) \subseteq Pid
            /\ \A p \in reload_task.workers :
                    p \in kill_one(reload_task, dead).workers \/ p \in dead
        BY Zenon, <3>1, KillOneTask
      <3>3. QED
        BY SMTT(20), <2>3, <3>1, <3>2
    <2>4. QED
      BY Zenon, <1>2, <2>1, <2>2, <2>3
  <1>6. TypeOK'
    <2>1. due' \in BOOLEAN /\ snapshot' \subseteq Pid
      BY Zenon, <1>1, <1>2 DEF TypeOK
    <2>2. QED
      BY SMTT(20), <1>1, <1>2, <1>3, <1>4, <1>5, <2>1 DEF TypeOK, Same
  <1>7. LoopInv'
    BY Zenon, <1>1, <1>2, <1>3, <1>4 DEF LoopInv, Same
  <1>8. ReloadInv'
    BY Zenon, <1>1, <1>2, <1>3, <1>4, <1>5 DEF ReloadInv, Same, dead, TypeOK
  <1>9. RequestInv'
    BY Zenon, <1>1, <1>2, <1>3, <1>4 DEF RequestInv, Same, BeforeReload
  <1>10. MessageInv'
    BY Zenon, <1>1, <1>2, <1>3, <1>4, MessagesKept DEF Rounds
  <1>11. DetachInv'
    BY Zenon, <1>1, <1>2, <1>3, <1>4 DEF DetachInv, Same, BeforeReload
  <1>12. TableInv'
    BY Zenon, <1>1, <1>2, <1>3, <1>4 DEF TableInv, Same, BeforeReload
  <1>13. StopInv'
    BY Zenon, <1>1, <1>2, <1>3, <1>4 DEF StopInv, Same
  <1>14. ForkInv' /\ ServeInv'
    BY Zenon, <1>1, <1>3, <1>4, ProcessesKept
  <1>15. QED
    BY <1>1, <1>3, <1>6, <1>7, <1>8, <1>9, <1>10, <1>11, <1>12, <1>13, <1>14 DEF MgrInv

-----------------------------------------------------------------------------
(***************************************************************************)
(* Forks: a worker is replaced when it has exited, or when it says it will. *)
(***************************************************************************)

\* What spawn_event_worker() and spawn_task_worker() do: the next process is worker w
\* from then on.
LEMMA SpawnFacts ==
    ASSUME TypeOK, ForkInv, setting \in Settings, NEW w \in Workers, Spawn(w)
    PROVE  /\ forks' \in Pid /\ forks' = forks + 1 /\ proc[forks'] = "none"
           /\ forks' \in 0 .. MaxPid
           /\ proc' \in [Pid -> {"none", "run", "exiting", "zombie", "gone"}]
           /\ slot' \in [Pid -> Workers \cup {NoPid}] /\ pid' \in [Workers -> Pid]
           /\ \A p \in Pid : /\ proc'[p] = IF p = forks' THEN "run" ELSE proc[p]
                             /\ slot'[p] = IF p = forks' THEN w ELSE slot[p]
           /\ \A v \in Workers : pid'[v] = IF v = w THEN forks' ELSE pid[v]
  <1>1. forks' \in Pid /\ forks' = forks + 1 /\ forks \in Nat /\ forks' \in 0 .. MaxPid
    <2>1. forks \in 0 .. MaxPid
      BY Zenon DEF TypeOK
    <2>2. Pid = 1 .. MaxPid /\ MaxPid \in Nat
      BY SMTT(20), SettingFacts
    <2>3. QED
      BY SMTT(20), <2>1, <2>2 DEF Spawn
  <1>2. proc[forks'] = "none"
    BY SMTT(20), <1>1 DEF ForkInv
  <1>3. QED
    BY SMTT(20), <1>1, <1>2 DEF Spawn, TypeOK

\* ForkInv survives a fork: the new process has its worker's place in the table, and the
\* message box and detached_processes name older ones.
LEMMA SpawnForkInv ==
    ASSUME TypeOK, ForkInv, setting \in Settings, Same, NEW w \in Workers, Spawn(w),
           exit_pid' = exit_pid, Boxed' \subseteq Boxed,
           \A p \in detached_processes' :
                p \in detached_processes \/ (p \in Pid /\ p <= forks /\ slot[p] = w)
    PROVE  ForkInv'
  <1>1. /\ forks' \in Pid /\ forks' = forks + 1 /\ proc[forks'] = "none"
        /\ \A p \in Pid : /\ proc'[p] = IF p = forks' THEN "run" ELSE proc[p]
                          /\ slot'[p] = IF p = forks' THEN w ELSE slot[p]
        /\ \A v \in Workers : pid'[v] = IF v = w THEN forks' ELSE pid[v]
    BY Zenon, SpawnFacts
  <1>2. /\ Pid \subseteq Nat /\ forks \in Nat /\ pid \in [Workers -> Pid]
        /\ slot \in [Pid -> Workers \cup {NoPid}]
    BY SMTT(20), SettingFacts DEF TypeOK
  <1>3. \A p \in Pid : proc'[p] = "none" <=> p > forks'
    BY SMTT(20), <1>1, <1>2 DEF ForkInv
  <1>4. \A p \in Pid : p <= forks' => slot'[p] \in Workers
    BY SMTT(20), <1>1, <1>2 DEF ForkInv
  <1>5. ASSUME NEW v \in Workers
        PROVE  pid'[v] <= forks' /\ slot'[pid'[v]] = v
    <2>1. pid[v] \in Pid /\ pid[v] <= forks /\ slot[pid[v]] = v /\ pid[v] \in Nat
      BY Zenon, <1>2 DEF ForkInv
    <2>2. CASE v = w
      BY SMTT(20), <1>1, <1>2, <2>2
    <2>3. CASE v # w
      <3>1. pid'[v] = pid[v] /\ pid[v] # forks'
        BY SMTT(20), <1>1, <1>2, <2>1, <2>3
      <3>2. QED
        BY SMTT(20), <1>1, <1>2, <2>1, <3>1
    <2>4. QED
      BY Zenon, <2>2, <2>3
  <1>6. exit_pid # NoPid => proc'[exit_pid] = "gone"
    BY Zenon, <1>1 DEF ForkInv, TypeOK
  <1>7. \A p \in Boxed : proc'[p] \in {"exiting", "zombie", "gone"}
    <2>1. Boxed \subseteq Pid
      BY Zenon, BoxedArePids
    <2>2. QED
      BY SMTT(20), <1>1, <2>1 DEF ForkInv
  <1>8. ASSUME NEW p \in detached_processes'
        PROVE  p <= forks' /\ pid'[slot'[p]] # p
    <2>1. p \in Pid /\ p <= forks /\ (slot[p] = w \/ pid[slot[p]] # p)
      BY Zenon DEF ForkInv, TypeOK
    <2>2. p \in Nat /\ p # forks' /\ p <= forks'
      BY SMTT(20), <1>1, <1>2, <2>1
    <2>3. slot[p] \in Workers /\ slot'[p] = slot[p]
      BY Zenon, <1>1, <2>1, <2>2 DEF ForkInv
    <2>4. pid'[slot[p]] = IF slot[p] = w THEN forks' ELSE pid[slot[p]]
      BY Zenon, <1>1, <2>3
    <2>5. QED
      BY Zenon, <2>1, <2>2, <2>3, <2>4
  <1>9. QED
    BY SMTT(20), <1>3, <1>4, <1>5, <1>6, <1>7, <1>8 DEF ForkInv, Same

\* The message box after its first message has been read.
LEMMA TailOfBox ==
    ASSUME TypeOK, message_box # <<>>, message_box' = Tail(message_box)
    PROVE  /\ message_box' \in Seq(Pid) /\ Boxed' \subseteq Boxed
           /\ Len(message_box) \in Nat /\ Len(message_box') = Len(message_box) - 1
           /\ \A k \in 1 .. Len(message_box') : message_box'[k] = message_box[k + 1]
  <1>1. message_box \in Seq(Pid)
    BY Zenon DEF TypeOK
  <1>2. /\ message_box' \in Seq(Pid)
        /\ Len(message_box) \in Nat /\ Len(message_box') = Len(message_box) - 1
        /\ \A k \in 1 .. Len(message_box') : message_box'[k] = message_box[k + 1]
    BY SMTT(20), <1>1
  <1>3. ASSUME NEW p \in Boxed' PROVE p \in Boxed
    <2>1. PICK k \in 1 .. Len(message_box') : p = message_box'[k]
      BY Zenon DEF Boxed
    <2>2. k + 1 \in 1 .. Len(message_box) /\ p = message_box[k + 1]
      BY SMTT(20), <1>2, <2>1
    <2>3. QED
      BY Zenon, <2>2 DEF Boxed
  <1>4. QED
    BY Zenon, <1>2, <1>3

\* Its first message is the pid of a process.
LEMMA HeadOfBox ==
    ASSUME TypeOK, message_box # <<>>
    PROVE  /\ Head(message_box) = message_box[1] /\ Head(message_box) \in Boxed
           /\ Head(message_box) \in Pid /\ 1 \in 1 .. Len(message_box) /\ Boxed \subseteq Pid
  BY SMTT(20) DEF TypeOK, Boxed

\* A worker of the pid table was reaped, and the next process takes its place.
LEMMA RestartSpawnStep ==
    ASSUME MgrInv, NEW w \in Workers, At("restart"), pid[w] = exit_pid, Spawn(w),
           Goto("remove"),
           UNCHANGED <<term, message_box, pending, flagVars, taskVars, detached_processes,
                       exit_pid>>
    PROVE  MgrInv'
  <1>1. /\ TypeOK /\ ForkInv /\ LoopInv /\ ReloadInv /\ RequestInv
        /\ MessageInv /\ ServeInv /\ DetachInv /\ TableInv /\ StopInv /\ setting \in Settings
    BY Zenon DEF MgrInv
  <1>2. /\ handler = "none" /\ pc = "restart" /\ pc' = "remove" /\ pid[w] = exit_pid
        /\ exit_pid \in Pid /\ slot[exit_pid] = w /\ proc[exit_pid] = "gone"
    <2>1. pid[w] \in Pid /\ slot[pid[w]] = w /\ (exit_pid # NoPid => proc[exit_pid] = "gone")
      BY SMTT(20), <1>1 DEF TypeOK, ForkInv
    <2>2. QED
      BY Zenon, <1>1, <2>1, SettingFacts DEF At, Goto
  <1>3. UNCHANGED <<term, message_box, pending, handler, running, read_message,
                    reload_all_worker, reload_task_worker, reload_task, due, snapshot,
                    detached_processes, exit_pid, setting, deaths, reloads>>
    BY SMTT(20) DEF At, Goto, boundVars, flagVars, procVars, taskVars
  <1>4. Same
    BY Zenon, <1>3, SameSetting
  <1>5. /\ forks' \in Pid /\ forks' = forks + 1 /\ proc[forks'] = "none"
        /\ forks' \in 0 .. MaxPid
        /\ proc' \in [Pid -> {"none", "run", "exiting", "zombie", "gone"}]
        /\ slot' \in [Pid -> Workers \cup {NoPid}] /\ pid' \in [Workers -> Pid]
        /\ \A p \in Pid : /\ proc'[p] = IF p = forks' THEN "run" ELSE proc[p]
                          /\ slot'[p] = IF p = forks' THEN w ELSE slot[p]
        /\ \A v \in Workers : pid'[v] = IF v = w THEN forks' ELSE pid[v]
    BY Zenon, <1>1, SpawnFacts
  <1>6. \A p \in Pid : proc[p] # "none" => p # forks' /\ slot[p] \in Workers
    BY SMTT(20), <1>1, <1>5, SettingFacts DEF ForkInv, TypeOK
  <1>7. TypeOK'
    BY Zenon, <1>1, <1>2, <1>3, <1>4, <1>5 DEF TypeOK, Same
  <1>8. ForkInv'
    BY Zenon, <1>1, <1>3, <1>4, SpawnForkInv DEF Boxed
  <1>9. LoopInv'
    BY Zenon, <1>1, <1>2, <1>3, <1>4 DEF LoopInv, Same
  <1>10. ReloadInv'
    BY Zenon, <1>1, <1>2, <1>3, <1>4, <1>5 DEF ReloadInv, Same, TypeOK
  <1>11. RequestInv'
    BY Zenon, <1>1, <1>2, <1>3, <1>4 DEF RequestInv, Same, BeforeReload
  <1>12. MessageInv'
    <2>1. \A p \in Boxed : p \in Pid /\ proc[p] # "none"
      <3>1. Boxed \subseteq Pid
        BY Zenon, <1>1, BoxedArePids
      <3>2. QED
        BY Zenon, <1>1, <3>1 DEF ForkInv
    <2>2. \A p \in Boxed : /\ p # forks' /\ slot[p] \in Workers
                            /\ slot'[p] = slot[p] /\ proc'[p] = proc[p]
      BY Zenon, <1>5, <1>6, <2>1
    <2>3. ~AsyncSignals => \A p \in Boxed : proc[p] # "gone"
      BY Zenon, <1>1, <1>2 DEF MessageInv, Rounds
    <2>4. ~AsyncSignals => \A p \in Boxed : pid'[slot'[p]] = p
      <3>1. ASSUME ~AsyncSignals, NEW p \in Boxed PROVE pid'[slot'[p]] = p
        <4>1. pid[slot[p]] = p
          BY Zenon, <1>1, <3>1 DEF MessageInv
        <4>2. slot[p] # w
          BY Zenon, <1>2, <2>3, <3>1, <4>1
        <4>3. QED
          BY Zenon, <1>5, <2>2, <4>1, <4>2
      <3>2. QED
        BY Zenon, <3>1
    <2>5. Boxed' = Boxed
      BY Zenon, <1>3 DEF Boxed
    <2>6. ~AsyncSignals /\ message_box # <<>> => "IO" \in pending \/ handler = "IO"
      BY Zenon, <1>1, <1>2 DEF MessageInv, Rounds
    <2>7. ~AsyncSignals =>
            \A j, k \in 1 .. Len(message_box') : message_box'[j] = message_box'[k] => j = k
      BY Zenon, <1>1, <1>3 DEF MessageInv
    <2>8. QED
      BY Zenon, <1>3, <1>4, <2>2, <2>3, <2>4, <2>5, <2>6, <2>7 DEF MessageInv, Same
  <1>13. ServeInv'
    <2>1. ASSUME ~AsyncSignals, NEW p \in Pid, proc'[p] = "run" PROVE pid'[slot'[p]] = p
      <3>1. CASE p = forks'
        BY Zenon, <1>5, <3>1
      <3>2. CASE p # forks'
        <4>1. proc[p] = "run" /\ slot'[p] = slot[p] /\ slot[p] \in Workers
          BY Zenon, <1>5, <1>6, <2>1, <3>2
        <4>2. pid[slot[p]] = p
          BY Zenon, <1>1, <2>1, <4>1 DEF ServeInv, ServingIsCurrent
        <4>3. slot[p] # w
          BY Zenon, <1>2, <4>1, <4>2
        <4>4. QED
          BY Zenon, <1>5, <4>1, <4>2, <4>3
      <3>3. QED
        BY Zenon, <3>1, <3>2
    <2>2. QED
      BY Zenon, <1>4, <2>1 DEF ServeInv, ServingIsCurrent, Same
  <1>14. DetachInv'
    <2>1. exit_pid \notin detached_processes
      BY Zenon, <1>1, <1>2 DEF ForkInv
    <2>2. \A p \in detached_processes : proc'[p] = "gone" => proc[p] = "gone"
      BY Zenon, <1>1, <1>5 DEF TypeOK
    <2>3. QED
      BY Zenon, <1>1, <1>3, <1>4, <2>1, <2>2 DEF DetachInv, Same
  <1>15. TableInv'
    <2>1. \A v \in Workers : pid[v] = exit_pid => v = w
      BY Zenon, <1>1, <1>2 DEF ForkInv
    <2>2. ASSUME NEW v \in Workers, proc'[pid'[v]] = "gone"
          PROVE  v # w /\ proc[pid[v]] = "gone"
      BY ZenonT(30), <1>1, <1>5, <2>2 DEF TypeOK
    <2>3. QED
      BY Zenon, <1>1, <1>3, <1>4, <2>1, <2>2 DEF TableInv, Same
  <1>16. StopInv'
    BY Zenon, <1>1, <1>2, <1>3, <1>4 DEF StopInv, Same
  <1>17. QED
    BY SMTT(20), <1>1, <1>3, <1>7, <1>8, <1>9, <1>10, <1>11, <1>12, <1>13, <1>14, <1>15, <1>16
       DEF MgrInv

\* The process that was reaped is none of the workers any more.
LEMMA RestartOtherStep ==
    ASSUME MgrInv, At("restart"), exit_pid # NoPid, \A w \in Workers : pid[w] # exit_pid,
           detached_processes' = detached_processes \ {exit_pid}, Goto("remove"),
           UNCHANGED <<proc, slot, forks, pid, term, message_box, pending, flagVars,
                       taskVars, exit_pid>>
    PROVE  MgrInv'
  <1>1. /\ TypeOK /\ ForkInv /\ LoopInv /\ ReloadInv /\ RequestInv
        /\ MessageInv /\ ServeInv /\ DetachInv /\ TableInv /\ StopInv /\ setting \in Settings
    BY Zenon DEF MgrInv
  <1>2. /\ handler = "none" /\ pc = "restart" /\ pc' = "remove"
        /\ \A w \in Workers : pid[w] # exit_pid
        /\ detached_processes' = detached_processes \ {exit_pid}
    BY Zenon DEF At, Goto, boundVars, flagVars, procVars, taskVars
  <1>3. UNCHANGED <<proc, term, slot, forks, pid, message_box, pending, handler, running,
                    read_message, reload_all_worker, reload_task_worker, reload_task, due,
                    snapshot, exit_pid, setting, deaths, reloads>>
    BY Zenon DEF At, Goto, boundVars, flagVars, procVars, taskVars
  <1>4. Same
    BY Zenon, <1>3, SameSetting
  <1>5. TypeOK'
    BY Zenon, <1>1, <1>2, <1>3, <1>4 DEF TypeOK, Same
  <1>6. ForkInv'
    <2>1. Boxed' = Boxed
      BY Zenon, <1>3 DEF Boxed
    <2>2. Aging
      BY Zenon, <1>1, <1>3 DEF Aging, TypeOK
    <2>3. QED
      BY Zenon, <1>1, <1>2, <1>3, <1>4, <2>1, <2>2, AgingForkInv
  <1>7. LoopInv'
    BY Zenon, <1>1, <1>2, <1>3, <1>4 DEF LoopInv, Same
  <1>8. RequestInv'
    BY Zenon, <1>1, <1>2, <1>3, <1>4 DEF RequestInv, Same, BeforeReload
  <1>9. MessageInv'
    BY Zenon, <1>1, <1>2, <1>3, <1>4, MessagesKept DEF Rounds
  <1>10. DetachInv'
    BY Zenon, <1>1, <1>2, <1>3, <1>4 DEF DetachInv, Same, BeforeReload
  <1>11. TableInv'
    BY Zenon, <1>1, <1>2, <1>3, <1>4 DEF TableInv, Same, BeforeReload
  <1>12. StopInv'
    BY Zenon, <1>1, <1>2, <1>3, <1>4 DEF StopInv, Same
  <1>13. ReloadInv' /\ ServeInv'
    BY SMTT(20), <1>1, <1>3, <1>4 DEF ReloadInv, ServeInv, ServingIsCurrent, Same
  <1>14. QED
    BY <1>1, <1>3, <1>5, <1>6, <1>7, <1>8, <1>9, <1>10, <1>11, <1>12, <1>13 DEF MgrInv

\* A message that comes after the stop is dropped.
LEMMA DropMessageStep ==
    ASSUME MgrInv, At("messages"), message_box # <<>>, ~running,
           message_box' = Tail(message_box),
           Goto("messages"), UNCHANGED <<procVars, pid, detached_processes, pending, flagVars,
                                         taskVars, exit_pid>>
    PROVE  MgrInv'
  <1>1. /\ TypeOK /\ ForkInv /\ LoopInv /\ ReloadInv /\ RequestInv
        /\ MessageInv /\ ServeInv /\ DetachInv /\ TableInv /\ StopInv /\ setting \in Settings
    BY Zenon DEF MgrInv
  <1>2. /\ handler = "none" /\ pc = "messages" /\ ~running
        /\ message_box # <<>> /\ message_box' = Tail(message_box)
    BY SMTT(20) DEF At, Goto, boundVars, flagVars, procVars, taskVars
  <1>3. UNCHANGED <<proc, term, slot, forks, pid, pending, handler, running, read_message,
                    reload_all_worker, reload_task_worker, reload_task, due, snapshot,
                    detached_processes, exit_pid, pc, setting, deaths, reloads>>
    BY SMTT(20) DEF At, Goto, boundVars, flagVars, procVars, taskVars
  <1>4. Same
    BY Zenon, <1>3, SameSetting
  <1>5. /\ message_box' \in Seq(Pid) /\ Boxed' \subseteq Boxed
        /\ Len(message_box) \in Nat /\ Len(message_box') = Len(message_box) - 1
        /\ \A k \in 1 .. Len(message_box') : message_box'[k] = message_box[k + 1]
    BY Zenon, <1>1, <1>2, TailOfBox
  <1>6. TypeOK'
    BY Zenon, <1>1, <1>2, <1>3, <1>4, <1>5 DEF TypeOK, Same
  <1>7. ForkInv'
    <2>1. \A p \in Boxed' : proc[p] \in {"exiting", "zombie", "gone"}
      BY Zenon, <1>1, <1>5 DEF ForkInv
    <2>2. QED
      BY Zenon, <1>1, <1>3, <1>4, <2>1 DEF ForkInv, Same
  <1>8. LoopInv'
    BY Zenon, <1>1, <1>2, <1>3, <1>4 DEF LoopInv, Same
  <1>9. MessageInv'
    BY SMTT(20), <1>1, <1>2, <1>3, <1>4, <1>5 DEF MessageInv, Same, Rounds
  <1>10. ReloadInv' /\ RequestInv' /\ ServeInv' /\ DetachInv' /\ TableInv' /\ StopInv'
    BY Zenon, <1>1, <1>3, <1>4
       DEF ReloadInv, RequestInv, BeforeReload, ServeInv, ServingIsCurrent, DetachInv,
           TableInv, StopInv, Same
  <1>11. QED
    BY SMTT(20), <1>1, <1>3, <1>6, <1>7, <1>8, <1>9, <1>10 DEF MgrInv

\* A STOP message is read: the process that sent it is the one in the pid table, and leaves
\* its place to a new one.
LEMMA PopMessageStep ==
    ASSUME MgrInv, At("messages"), message_box # <<>>, running,
           message_box' = Tail(message_box),
           Spawn(slot[Head(message_box)]),
           detached_processes' = detached_processes \cup {Head(message_box)},
           Goto("messages"), UNCHANGED <<term, pending, flagVars, taskVars, exit_pid>>
    PROVE  MgrInv'
  <1>1. /\ TypeOK /\ ForkInv /\ LoopInv /\ ReloadInv /\ RequestInv
        /\ MessageInv /\ ServeInv /\ DetachInv /\ TableInv /\ StopInv /\ setting \in Settings
    BY Zenon DEF MgrInv
  <1>2. /\ handler = "none" /\ pc = "messages" /\ running
        /\ message_box # <<>> /\ message_box' = Tail(message_box)
    BY Zenon DEF At, Goto, boundVars, flagVars, procVars, taskVars
  <1>3. UNCHANGED <<term, pending, handler, running, read_message, reload_all_worker,
                    reload_task_worker, reload_task, due, snapshot, exit_pid, pc, setting,
                    deaths, reloads>>
    BY Zenon DEF At, Goto, boundVars, flagVars, procVars, taskVars
  <1>4. Same
    BY Zenon, <1>3, SameSetting
  <1>5. /\ message_box' \in Seq(Pid) /\ Boxed' \subseteq Boxed
        /\ Len(message_box) \in Nat /\ Len(message_box') = Len(message_box) - 1
        /\ \A k \in 1 .. Len(message_box') : message_box'[k] = message_box[k + 1]
    BY Zenon, <1>1, <1>2, TailOfBox
  <1> DEFINE h == Head(message_box)
             w == slot[h]
  <1>6. /\ h = message_box[1] /\ h \in Boxed /\ h \in Pid /\ 1 \in 1 .. Len(message_box)
        /\ Boxed \subseteq Pid
    BY Zenon, <1>1, <1>2, HeadOfBox
  <1>7. h <= forks /\ w \in Workers
    <2>1. proc[h] # "none" /\ h \in Nat
      BY Zenon, <1>1, <1>6, SettingFacts DEF ForkInv
    <2>2. forks \in Nat
      BY SMTT(20), <1>1, SettingFacts DEF TypeOK
    <2>3. h <= forks
      BY SMTT(20), <1>1, <1>6, <2>1, <2>2 DEF ForkInv
    <2>4. QED
      BY Zenon, <1>1, <1>6, <2>3 DEF ForkInv
  <1>8. detached_processes' = detached_processes \cup {h} /\ Spawn(w)
    BY Zenon
  <1> HIDE DEF h, w
  <1>9. /\ forks' \in Pid /\ forks' = forks + 1 /\ proc[forks'] = "none"
        /\ forks' \in 0 .. MaxPid
        /\ proc' \in [Pid -> {"none", "run", "exiting", "zombie", "gone"}]
        /\ slot' \in [Pid -> Workers \cup {NoPid}] /\ pid' \in [Workers -> Pid]
        /\ \A p \in Pid : /\ proc'[p] = IF p = forks' THEN "run" ELSE proc[p]
                          /\ slot'[p] = IF p = forks' THEN w ELSE slot[p]
        /\ \A v \in Workers : pid'[v] = IF v = w THEN forks' ELSE pid[v]
    BY Zenon, <1>1, <1>7, <1>8, SpawnFacts
  <1>10. \A p \in Pid : proc[p] # "none" => p # forks' /\ slot[p] \in Workers
    BY SMTT(20), <1>1, <1>9, SettingFacts DEF ForkInv, TypeOK
  <1>11. w = slot[h] /\ proc[h] \in {"exiting", "zombie", "gone"}
    BY Zenon, <1>1, <1>6 DEF w, ForkInv
  <1>12. TypeOK'
    <2>1. detached_processes' \subseteq Pid
      BY Zenon, <1>1, <1>6, <1>8 DEF TypeOK
    <2>2. /\ forks' \in 0 .. MaxPid /\ message_box' \in Seq(Pid)
          /\ proc' \in [Pid -> {"none", "run", "exiting", "zombie", "gone"}]
          /\ slot' \in [Pid -> Workers \cup {NoPid}] /\ pid' \in [Workers -> Pid]
      BY Zenon, <1>5, <1>9
    <2>3. QED
      BY SMTT(20), <1>1, <1>3, <1>4, <2>1, <2>2 DEF TypeOK, Same
  <1>13. ForkInv'
    BY Zenon, <1>1, <1>3, <1>4, <1>5, <1>6, <1>7, <1>8, <1>11, SpawnForkInv
  <1>14. LoopInv'
    <2>1. reload_async
      BY Zenon, <1>1, <1>2 DEF LoopInv
    <2>2. QED
      BY Zenon, <1>1, <1>3, <1>4, <2>1 DEF LoopInv, Same
  <1>15. ReloadInv'
    BY Zenon, <1>1, <1>2, <1>3, <1>4, <1>9 DEF ReloadInv, Same, TypeOK
  <1>16. MessageInv'
    <2>1. SUFFICES ASSUME ~AsyncSignals
                   PROVE  MessageInv'
      BY Zenon, <1>4 DEF MessageInv, Same
    <2>2. \A j, k \in 1 .. Len(message_box') : message_box'[j] = message_box'[k] => j = k
      BY SMTT(20), <1>1, <1>5, <2>1 DEF MessageInv
    <2>3. h \notin Boxed'
      <3>1. SUFFICES ASSUME NEW k \in 1 .. Len(message_box'), h = message_box'[k]
                     PROVE  FALSE
        BY Zenon DEF Boxed
      <3>2. message_box[k + 1] = message_box[1] /\ k + 1 \in 1 .. Len(message_box) /\ k + 1 # 1
        BY SMTT(20), <1>5, <1>6, <3>1
      <3>3. QED
        BY Zenon, <1>1, <1>6, <2>1, <3>2 DEF MessageInv
    <2>4. ASSUME NEW p \in Boxed' PROVE pid'[slot'[p]] = p /\ proc'[p] = proc[p]
      <3>1. p \in Boxed /\ p \in Pid /\ p # h /\ pid[slot[p]] = p /\ pid[slot[h]] = h
        BY Zenon, <1>1, <1>5, <1>6, <2>1, <2>3 DEF MessageInv
      <3>2. proc[p] # "none"
        BY Zenon, <1>1, <3>1 DEF ForkInv
      <3>3. p # forks' /\ slot[p] \in Workers /\ slot[p] # w
        BY Zenon, <1>10, <1>11, <3>1, <3>2
      <3>4. QED
        BY SMTT(20), <1>9, <3>1, <3>3
    <2>5. /\ message_box' # <<>> =>
                \/ "IO" \in pending \/ handler = "IO"
                \/ read_message /\ pc \in {"returned", "messages"}
          /\ \A p \in Boxed' :
                proc[p] = "gone" => p = exit_pid /\ pc \in {"returned", "messages"}
      BY Zenon, <1>1, <1>2, <1>5, <2>1 DEF MessageInv, Rounds
    <2>6. QED
      BY Zenon, <1>3, <2>2, <2>4, <2>5 DEF MessageInv
  <1>17. ServeInv'
    <2>1. ASSUME ~AsyncSignals, NEW p \in Pid, proc'[p] = "run" PROVE pid'[slot'[p]] = p
      <3>1. CASE p = forks'
        BY Zenon, <1>7, <1>9, <3>1
      <3>2. CASE p # forks'
        <4>1. proc[p] = "run" /\ slot'[p] = slot[p] /\ slot[p] \in Workers
          BY Zenon, <1>9, <1>10, <2>1, <3>2
        <4>2. pid[slot[p]] = p /\ pid[w] = h
          BY Zenon, <1>1, <1>6, <1>11, <2>1, <4>1 DEF ServeInv, ServingIsCurrent, MessageInv
        <4>3. slot[p] # w
          BY Zenon, <1>11, <4>1, <4>2
        <4>4. QED
          BY SMTT(20), <1>9, <4>1, <4>2, <4>3
      <3>3. QED
        BY Zenon, <3>1, <3>2
    <2>2. QED
      BY Zenon, <1>4, <2>1 DEF ServeInv, ServingIsCurrent, Same
  <1>18. DetachInv'
    <2>1. \A p \in detached_processes' : proc'[p] = "gone" => proc[p] = "gone"
      BY Zenon, <1>1, <1>6, <1>8, <1>9 DEF TypeOK
    <2>2. ~AsyncSignals /\ proc[h] = "gone" => h = exit_pid
      BY Zenon, <1>1, <1>2, <1>6 DEF MessageInv, Rounds
    <2>3. QED
      BY Zenon, <1>1, <1>2, <1>3, <1>4, <1>8, <2>1, <2>2 DEF DetachInv, Same, BeforeReload
  <1>19. TableInv'
    <2>1. ASSUME NEW v \in Workers, proc'[pid'[v]] = "gone"
          PROVE  v # w /\ pid'[v] = pid[v] /\ proc[pid[v]] = "gone"
      BY ZenonT(30), <1>1, <1>9, <2>1 DEF TypeOK
    <2>2. QED
      BY Zenon, <1>1, <1>3, <1>4, <2>1 DEF TableInv, Same
  <1>20. StopInv'
    BY Zenon, <1>1, <1>2, <1>3, <1>4 DEF StopInv, Same
  <1>21. RequestInv'
    BY SMTT(20), <1>1, <1>3, <1>4 DEF RequestInv, BeforeReload, Same
  <1>22. QED
    BY Zenon, <1>1, <1>3, <1>12, <1>13, <1>14, <1>15, <1>16, <1>17, <1>18, <1>19, <1>20, <1>21
       DEF MgrInv

-----------------------------------------------------------------------------
(***************************************************************************)
(* A reload begins.                                                        *)
(***************************************************************************)

\* A reload begins with a list of pids: each of them is in the task, or dead.
LEMMA ReloadBegins ==
    ASSUME NEW task \in ReloadTasks(Pid), NEW list \in Seq(Pid)
    PROVE  LET t == add_workers(task, list)
           IN  /\ kill_one(t, dead) \in ReloadTasks(Pid) /\ KilledByOne(t, dead) \subseteq Pid
               /\ kill_all(t, dead) \in ReloadTasks(Pid) /\ KilledByAll(t, dead) \subseteq Pid
               /\ \A p \in {list[i] : i \in 1 .. Len(list)} :
                    /\ p \in Pid
                    /\ p \in kill_one(t, dead).workers \/ p \in dead
                    /\ p \in kill_all(t, dead).workers \/ p \in dead
  <1> DEFINE t == add_workers(task, list)
  <1>1. t \in ReloadTasks(Pid) /\ \A k \in 1 .. Len(list) : list[k] \in t.workers
    BY SMTT(20), AddWorkersTask
  <1> HIDE DEF t
  <1>2. /\ kill_one(t, dead) \in ReloadTasks(Pid) /\ KilledByOne(t, dead) \subseteq Pid
        /\ \A p \in t.workers : p \in kill_one(t, dead).workers \/ p \in dead
    BY SMTT(20), <1>1, KillOneTask
  <1>3. /\ kill_all(t, dead) \in ReloadTasks(Pid) /\ KilledByAll(t, dead) \subseteq Pid
        /\ \A p \in t.workers : p \in kill_all(t, dead).workers \/ p \in dead
    BY Zenon, <1>1, KillAllTask
  <1>4. \A p \in {list[i] : i \in 1 .. Len(list)} : p \in Pid /\ p \in t.workers
    <2>1. \A i \in 1 .. Len(list) : list[i] \in Pid
      OBVIOUS
    <2>2. QED
      BY Zenon, <1>1, <2>1
  <1>5. QED
    BY Zenon, <1>2, <1>3, <1>4 DEF t

\* A reload of all workers begins.  With reload_async the round goes on to the restart, and
\* without it there is no detached process.
LEMMA ReloadAllStep ==
    ASSUME MgrInv, ReloadAll
    PROVE  MgrInv'
  <1>1. /\ TypeOK /\ ForkInv /\ LoopInv /\ ReloadInv /\ RequestInv
        /\ MessageInv /\ ServeInv /\ DetachInv /\ TableInv /\ StopInv /\ setting \in Settings
    BY Zenon DEF MgrInv
  <1>2. /\ handler = "none" /\ pc = "reload" /\ running
        /\ reload_all_worker /\ reload_all_worker' = FALSE
        /\ pc' = IF reload_async THEN "restart" ELSE "loop"
    BY Zenon DEF At, Goto, ReloadAll, TermAll, TermOne, boundVars, flagVars, procVars, taskVars
  <1>3. UNCHANGED <<proc, slot, forks, pid, message_box, pending, handler, running,
                    read_message, reload_task_worker, due, detached_processes, exit_pid,
                    setting, deaths, reloads>>
    BY Zenon DEF At, Goto, ReloadAll, TermAll, TermOne, boundVars, flagVars, procVars, taskVars
  <1>4. Same
    BY Zenon, <1>3, SameSetting
  <1>5. /\ reload_task' \in ReloadTasks(Pid) /\ term' \subseteq Pid /\ snapshot' \subseteq Pid
        /\ \A p \in snapshot' : p \in reload_task'.workers \/ p \in dead
    <2>1. pid \in Seq(Pid)
      BY Zenon, <1>1, PidTable
    <2>2. reload_task \in ReloadTasks(Pid) /\ term \subseteq Pid
      BY Zenon, <1>1 DEF TypeOK, ReloadAll
    <2> DEFINE t == add_workers(reload_task, pid)
    <2>3. /\ kill_one(t, dead) \in ReloadTasks(Pid) /\ KilledByOne(t, dead) \subseteq Pid
          /\ kill_all(t, dead) \in ReloadTasks(Pid) /\ KilledByAll(t, dead) \subseteq Pid
          /\ \A p \in {pid[i] : i \in 1 .. Len(pid)} :
                /\ p \in Pid
                /\ p \in kill_one(t, dead).workers \/ p \in dead
                /\ p \in kill_all(t, dead).workers \/ p \in dead
      BY Zenon, <2>1, <2>2, ReloadBegins
    <2>4. /\ \/ reload_task' = kill_all(t, dead) /\ term' = term \cup KilledByAll(t, dead)
             \/ reload_task' = kill_one(t, dead) /\ term' = term \cup KilledByOne(t, dead)
          /\ snapshot' = {pid[i] : i \in 1 .. Len(pid)}
      BY Zenon DEF ReloadAll, TermAll, TermOne, Snapshot
    <2> HIDE DEF t
    <2>5. QED
      BY Zenon, <2>2, <2>3, <2>4
  <1>6. TypeOK'
    BY Zenon, <1>1, <1>2, <1>3, <1>4, <1>5 DEF TypeOK, Same
  <1>7. LoopInv'
    BY Zenon, <1>1, <1>2, <1>3, <1>4 DEF LoopInv, Same
  <1>8. ReloadInv'
    <2>1. \A p \in Pid : p \in dead <=> proc[p] = "gone"
      BY Zenon DEF dead
    <2>2. QED
      BY Zenon, <1>1, <1>3, <1>5, <2>1 DEF ReloadInv
  <1>9. RequestInv'
    BY Zenon, <1>1, <1>2, <1>3, <1>4 DEF RequestInv, Same, BeforeReload
  <1>10. MessageInv'
    BY Zenon, <1>1, <1>2, <1>3, <1>4, MessagesKept DEF Rounds
  <1>11. DetachInv'
    BY Zenon, <1>1, <1>2, <1>3, <1>4 DEF DetachInv, Same, BeforeReload, LoopInv
  <1>12. TableInv'
    BY Zenon, <1>1, <1>2, <1>3, <1>4 DEF TableInv, Same, BeforeReload
  <1>13. StopInv'
    BY Zenon, <1>1, <1>2, <1>3, <1>4 DEF StopInv, Same
  <1>14. ForkInv' /\ ServeInv'
    BY Zenon, <1>1, <1>3, <1>4, ProcessesKept
  <1>15. QED
    BY Zenon, <1>1, <1>3, <1>6, <1>7, <1>8, <1>9, <1>10, <1>11, <1>12, <1>13, <1>14 DEF MgrInv

\* A reload of the task workers begins, or is called off because there is none.
LEMMA ReloadTaskWorkersStep ==
    ASSUME MgrInv, ReloadTaskWorkers
    PROVE  MgrInv'
  <1>1. /\ TypeOK /\ ForkInv /\ LoopInv /\ ReloadInv /\ RequestInv
        /\ MessageInv /\ ServeInv /\ DetachInv /\ TableInv /\ StopInv /\ setting \in Settings
    BY Zenon DEF MgrInv
  <1>2. /\ handler = "none" /\ pc = "reload" /\ running /\ pc' = "loop"
        /\ ~reload_all_worker /\ reload_task_worker /\ reload_task_worker' = FALSE
    BY Zenon DEF At, Goto, ReloadTaskWorkers, boundVars, flagVars, procVars, taskVars
  <1>3. UNCHANGED <<proc, slot, forks, pid, message_box, pending, handler, running,
                    read_message, reload_all_worker, due, detached_processes, exit_pid,
                    setting, deaths, reloads>>
    BY SMTT(20) DEF At, Goto, ReloadTaskWorkers, boundVars, flagVars, procVars, taskVars
  <1>4. Same
    BY Zenon, <1>3, SameSetting
  <1>5. /\ reload_task' \in ReloadTasks(Pid) \cup {NoTask} /\ term' \subseteq Pid
        /\ snapshot' \subseteq Pid
        /\ reload_task' # NoTask =>
            \A p \in snapshot' : p \in reload_task'.workers \/ p \in dead
    <2>1. CASE task_worker_num = 0
      BY Zenon, <1>1, <2>1 DEF TypeOK, ReloadTaskWorkers
    <2>2. CASE task_worker_num # 0
      <3> DEFINE list == SubSeq(pid, worker_num + 1, worker_num + task_worker_num)
                 t == add_workers(reload_task, list)
      <3>1. list \in Seq(Pid)
        <4>1. /\ pid \in Seq(Pid) /\ Len(pid) = worker_num + task_worker_num
              /\ worker_num \in Nat /\ task_worker_num \in Nat
              /\ \A i \in 1 .. worker_num + task_worker_num : pid[i] \in Pid
          BY Zenon, <1>1, PidTable
        <4>2. QED
          BY SMTT(20), <4>1
      <3>2. reload_task \in ReloadTasks(Pid) /\ term \subseteq Pid
        BY Zenon, <1>1, <2>2 DEF TypeOK, ReloadTaskWorkers
      <3>3. /\ snapshot' = {list[i] : i \in 1 .. Len(list)} /\ reload_task' = kill_one(t, dead)
            /\ term' = term \cup KilledByOne(t, dead)
        BY Zenon, <2>2 DEF ReloadTaskWorkers, TermOne, Snapshot
      <3> HIDE DEF list
      <3>4. /\ kill_one(t, dead) \in ReloadTasks(Pid) /\ KilledByOne(t, dead) \subseteq Pid
            /\ \A p \in {list[i] : i \in 1 .. Len(list)} :
                  p \in Pid /\ (p \in kill_one(t, dead).workers \/ p \in dead)
        BY Zenon, <3>1, <3>2, ReloadBegins
      <3> HIDE DEF t
      <3>5. QED
        BY Zenon, <3>2, <3>3, <3>4
    <2>3. QED
      BY Zenon, <2>1, <2>2
  <1>6. TypeOK'
    BY Zenon, <1>1, <1>2, <1>3, <1>4, <1>5 DEF TypeOK, Same
  <1>7. LoopInv'
    BY Zenon, <1>1, <1>2, <1>3, <1>4 DEF LoopInv, Same
  <1>8. ReloadInv'
    <2>1. \A p \in Pid : p \in dead <=> proc[p] = "gone"
      BY Zenon DEF dead
    <2>2. QED
      BY Zenon, <1>1, <1>3, <1>5, <2>1 DEF ReloadInv
  <1>9. RequestInv'
    BY Zenon, <1>1, <1>2, <1>3, <1>4 DEF RequestInv, Same, BeforeReload
  <1>10. MessageInv'
    BY Zenon, <1>1, <1>2, <1>3, <1>4, MessagesKept DEF Rounds
  <1>11. DetachInv'
    BY Zenon, <1>1, <1>2, <1>3, <1>4 DEF DetachInv, Same, BeforeReload, LoopInv
  <1>12. TableInv'
    BY Zenon, <1>1, <1>2, <1>3, <1>4 DEF TableInv, Same, BeforeReload, LoopInv
  <1>13. StopInv'
    BY Zenon, <1>1, <1>2, <1>3, <1>4 DEF StopInv, Same
  <1>14. ForkInv' /\ ServeInv'
    BY Zenon, <1>1, <1>3, <1>4, ProcessesKept
  <1>15. QED
    BY Zenon, <1>1, <1>3, <1>6, <1>7, <1>8, <1>9, <1>10, <1>11, <1>12, <1>13, <1>14 DEF MgrInv

-----------------------------------------------------------------------------
(***************************************************************************)
(* The theorems.                                                           *)
(***************************************************************************)

\* The invariant holds when the workers have been forked.
LEMMA MgrInvInit == Init => MgrInv
  <1> SUFFICES ASSUME Init PROVE MgrInv
    BY Zenon
  <1>1. /\ setting \in Settings /\ term = {} /\ message_box = <<>> /\ pending = {}
        /\ handler = "none" /\ running = TRUE /\ read_message = FALSE
        /\ reload_all_worker = FALSE /\ reload_task_worker = FALSE /\ reload_task = NoTask
        /\ due = FALSE /\ detached_processes = {} /\ exit_pid = NoPid /\ pc = "loop"
        /\ deaths = 0 /\ reloads = 0 /\ snapshot = {}
    BY Zenon DEF Init
  <1>2. /\ Pid = 1 .. MaxPid /\ MaxPid \in Nat /\ NoPid \notin Pid
        /\ Workers = 1 .. forks /\ forks \in Nat /\ forks <= MaxPid
        /\ MaxDeaths \in Nat /\ MaxReloads \in Nat
    BY SMTT(20), <1>1, SettingFacts DEF Init
  <1>3. /\ Workers \subseteq Pid /\ forks \in 0 .. MaxPid
        /\ \A p \in Pid : p \in Workers <=> p <= forks
    BY SMTT(20), <1>2
  <1>4. /\ proc = [p \in Pid |-> IF p \in Workers THEN "run" ELSE "none"]
        /\ slot = [p \in Pid |-> IF p \in Workers THEN p ELSE NoPid]
        /\ pid = [w \in Workers |-> w]
    BY Zenon DEF Init
  <1>5. TypeOK
    <2>1. /\ proc \in [Pid -> {"none", "run", "exiting", "zombie", "gone"}]
          /\ slot \in [Pid -> Workers \cup {NoPid}] /\ pid \in [Workers -> Pid]
      BY Zenon, <1>3, <1>4
    <2>2. message_box \in Seq(Pid) /\ deaths \in 0 .. MaxDeaths /\ reloads \in 0 .. MaxReloads
      BY SMTT(20), <1>1, <1>2
    <2>3. QED
      BY Zenon, <1>1, <1>3, <2>1, <2>2 DEF TypeOK
  <1>6. Boxed = {}
    BY SMTT(20), <1>1 DEF Boxed
  <1>7. ForkInv
    <2>1. \A p \in Pid : p > forks <=> ~ (p <= forks)
      BY SMTT(20), <1>2
    <2>2. /\ \A p \in Pid : proc[p] = "none" <=> p > forks
          /\ \A p \in Pid : p <= forks => slot[p] \in Workers
      BY Zenon, <1>3, <1>4, <2>1
    <2>3. \A w \in Workers : pid[w] <= forks /\ slot[pid[w]] = w
      BY Zenon, <1>3, <1>4
    <2>4. QED
      BY Zenon, <1>1, <1>6, <2>2, <2>3 DEF ForkInv
  <1>8. LoopInv /\ ReloadInv /\ RequestInv /\ StopInv
    BY Zenon, <1>1 DEF LoopInv, ReloadInv, RequestInv, StopInv
  <1>9. MessageInv /\ DetachInv
    BY SMTT(20), <1>1, <1>6 DEF MessageInv, DetachInv
  <1>10. ServeInv
    BY Zenon, <1>3, <1>4 DEF ServeInv, ServingIsCurrent
  <1>11. TableInv
    BY Zenon, <1>3, <1>4 DEF TableInv
  <1>12. QED
    BY Zenon, <1>1, <1>5, <1>7, <1>8, <1>9, <1>10, <1>11 DEF MgrInv

\* A step that changes nothing keeps it.
LEMMA MgrInvStutter == MgrInv /\ UNCHANGED vars => MgrInv'
  <1> SUFFICES ASSUME MgrInv, UNCHANGED vars PROVE MgrInv'
    BY Zenon
  <1>1. UNCHANGED <<proc, term, slot, forks, pid, message_box, pending, handler, running,
                    read_message, reload_all_worker, reload_task_worker, reload_task, due,
                    snapshot, detached_processes, exit_pid, pc, setting, deaths, reloads>>
    BY Zenon DEF vars, procVars, flagVars, taskVars, boundVars
  <1>2. Same
    BY Zenon, <1>1, SameSetting
  <1>3. TypeOK'
    <2>1. TypeOK
      BY Zenon DEF MgrInv
    <2>2. QED
      BY SMTT(20), <1>1, <1>2, <2>1 DEF TypeOK, Same
  <1>4. ForkInv' /\ ServeInv'
    BY Zenon, <1>1, <1>2, ProcessesKept DEF MgrInv
  <1>5. LoopInv' /\ ReloadInv' /\ RequestInv'
    BY Zenon, <1>1, <1>2 DEF MgrInv, LoopInv, ReloadInv, RequestInv, Same
  <1>6. DetachInv' /\ TableInv' /\ StopInv'
    BY Zenon, <1>1, <1>2 DEF MgrInv, DetachInv, TableInv, StopInv, Same
  <1>7. MessageInv'
    <2>1. MessageInv /\ Boxed' = Boxed /\ Rounds' = Rounds
      BY Zenon, <1>1 DEF MgrInv, Boxed, Rounds
    <2>2. (~AsyncSignals => \A j, k \in 1 .. Len(message_box) :
                              message_box[j] = message_box[k] => j = k)'
      BY Zenon, <1>1, <1>2, <2>1 DEF MessageInv, Same
    <2>3. (~AsyncSignals /\ pc \in Rounds /\ message_box # <<>> =>
                    \/ "IO" \in pending \/ handler = "IO"
                    \/ read_message /\ pc \in {"returned", "messages"})'
      BY Zenon, <1>1, <1>2, <2>1 DEF MessageInv, Same
    <2>4. (~AsyncSignals => \A p \in Boxed :
                /\ pid[slot[p]] = p
                /\ pc \in Rounds => (proc[p] = "gone" =>
                        p = exit_pid /\ pc \in {"returned", "messages"}))'
      BY Zenon, <1>1, <1>2, <2>1 DEF MessageInv, Same
    <2>5. QED
      BY Zenon, <2>2, <2>3, <2>4 DEF MessageInv
  <1>8. QED
    BY Zenon, <1>1, <1>3, <1>4, <1>5, <1>6, <1>7 DEF MgrInv

\* Reading a message, running or not, keeps it.
LEMMA PopMessageKeeps == MgrInv /\ PopMessage => MgrInv'
  <1> SUFFICES ASSUME MgrInv, PopMessage PROVE MgrInv'
    BY Zenon
  <1>1. CASE running
    BY Zenon, <1>1, PopMessageStep DEF PopMessage
  <1>2. CASE ~running
    BY Zenon, <1>2, DropMessageStep DEF PopMessage, procVars
  <1>3. QED
    BY Zenon, <1>1, <1>2

\* So does restart_worker_process(), for a worker of the table and for any other.
LEMMA RestartWorkerKeeps == MgrInv /\ RestartWorker => MgrInv'
  <1> SUFFICES ASSUME MgrInv, RestartWorker PROVE MgrInv'
    BY Zenon
  <1>1. CASE \E w \in Workers : pid[w] = exit_pid
    <2>1. PICK w \in Workers : pid[w] = exit_pid /\ Spawn(w) /\ UNCHANGED detached_processes
      BY Zenon, <1>1 DEF RestartWorker
    <2>2. QED
      BY Zenon, <2>1, RestartSpawnStep DEF RestartWorker
  <1>2. CASE \A w \in Workers : pid[w] # exit_pid
    BY SMTT(20), <1>2, RestartOtherStep DEF RestartWorker
  <1>3. QED
    BY Zenon, <1>1, <1>2

\* Every step keeps the invariant.
LEMMA MgrInvNext == MgrInv /\ [Next]_vars => MgrInv'
  <1> SUFFICES ASSUME MgrInv, [Next]_vars PROVE MgrInv'
    BY Zenon
  <1>1. CASE UNCHANGED vars
    BY Zenon, <1>1, MgrInvStutter
  <1>2. CASE \/ Loop \/ CallWait \/ AfterWait \/ NoMoreMessages
             \/ ReloadNull \/ NoReload \/ NoChild
    BY Zenon, <1>2, MoveOnStep
  <1>3. CASE WaitReturns
    BY Zenon, <1>3, WaitReturnsStep
  <1>4. CASE PopMessage
    BY Zenon, <1>4, PopMessageKeeps
  <1>5. CASE ClearReadMessage
    BY Zenon, <1>5, ClearReadMessageStep
  <1>6. CASE Select
    BY Zenon, <1>6, SelectStep
  <1>7. CASE ReloadAll
    BY Zenon, <1>7, ReloadAllStep
  <1>8. CASE ReloadTaskWorkers
    BY Zenon, <1>8, ReloadTaskWorkersStep
  <1>9. CASE RestartWorker
    BY Zenon, <1>9, RestartWorkerKeeps
  <1>10. CASE RemoveFromReload
    BY Zenon, <1>10, RemoveFromReloadStep
  <1>11. CASE FinishReload
    BY Zenon, <1>11, FinishReloadStep
  <1>12. CASE Shutdown
    BY Zenon, <1>12, ShutdownStep
  <1>13. CASE Stopped
    BY Zenon, <1>13, StoppedStep
  <1>14. CASE \E sig \in Signals : Deliver(sig)
    BY Zenon, <1>14, DeliverStep
  <1>15. CASE SignalHandler
    BY Zenon, <1>15, SignalHandlerStep
  <1>16. CASE \E p \in Pid : StopWorker(p) \/ Die(p)
    BY Zenon, <1>16, StopWorkerStep, DieStep
  <1>17. CASE \E sig \in ReloadSignals : SendReload(sig)
    BY SMTT(20), <1>17, SendReloadStep
  <1>18. CASE SendTerm
    BY Zenon, <1>18, SendTermStep
  <1>19. CASE Alarm
    BY Zenon, <1>19, AlarmStep
  <1>20. QED
    BY Zenon, <1>1, <1>2, <1>3, <1>4, <1>5, <1>6, <1>7, <1>8, <1>9, <1>10, <1>11, <1>12,
       <1>13, <1>14, <1>15, <1>16, <1>17, <1>18, <1>19
       DEF Next, ManagerStep

\* The invariant says what the books have to.
LEMMA MgrInvBooks == MgrInv => BooksAreExact
  <1> SUFFICES ASSUME MgrInv PROVE BooksAreExact
    BY Zenon
  <1>1. /\ TypeOK /\ ForkInv /\ LoopInv /\ RequestInv /\ ServeInv
        /\ DetachInv /\ TableInv /\ StopInv /\ setting \in Settings
    BY Zenon DEF MgrInv
  <1>2. ~AsyncSignals => ServingIsCurrent /\ RequestHasTask
    BY Zenon, <1>1 DEF ServeInv, RequestInv, RequestHasTask
  <1>3. ~AsyncSignals => DetachedIsForgotten
    BY Zenon, <1>1 DEF DetachInv, DetachedIsForgotten
  <1>4. NoServerAfterStop
    <2>1. ASSUME ~AsyncSignals, pc = "stopped", NEW p \in Pid, proc[p] = "run" PROVE FALSE
      <3>1. p <= forks
        BY SMTT(20), <1>1, <2>1, SettingFacts DEF ForkInv, TypeOK
      <3>2. slot[p] \in Workers /\ pid[slot[p]] = p
        BY Zenon, <1>1, <2>1, <3>1 DEF ForkInv, ServeInv, ServingIsCurrent
      <3>3. QED
        BY Zenon, <1>1, <2>1, <3>2 DEF StopInv
    <2>2. QED
      BY Zenon, <2>1 DEF NoServerAfterStop
  <1>5. ExitIsNoticed
    BY Zenon, <1>1 DEF TableInv, ExitIsNoticed, EveryWorkerHasProcess, BeforeReload
  <1>6. QED
    BY Zenon, <1>1, <1>2, <1>3, <1>4, <1>5 DEF BooksAreExact

\* The manager's books agree with its processes, for any number of workers and however
\* exits, STOP messages, reloads, the timeout killer and the shutdown interleave: a
\* process that takes requests is the one in the pid table, a reload has its task, a
\* detached process is forgotten, an exit is noticed, and none serves after the stop.
THEOREM ManagerBooksExact == Spec => []BooksAreExact
  <1>1. Init => MgrInv
    BY Zenon, MgrInvInit
  <1>2. MgrInv /\ [Next]_vars => MgrInv'
    BY SMTT(20), MgrInvNext
  <1>3. MgrInv => BooksAreExact
    BY Zenon, MgrInvBooks
  <1>4. QED
    BY <1>1, <1>2, <1>3, PTL DEF Spec

\* The step that destroys a reload task: every process the reload was begun with has
\* been reaped, because the task has forgotten the reaped only.
LEMMA DestroyStep ==
    ASSUME MgrInv, [Next]_vars, reload_task # NoTask, reload_task' = NoTask, running,
           AsyncSignals => "USR2" \notin ReloadSignals
    PROVE  \A p \in snapshot : proc[p] = "gone"
  <1>1. /\ TypeOK /\ ReloadInv /\ RequestInv /\ LoopInv /\ setting \in Settings
    BY Zenon DEF MgrInv
  <1>2. reload_task \in ReloadTasks(Pid) /\ NoTask \notin ReloadTasks(Pid)
    BY SMTT(20), <1>1, NoTaskIsNone DEF TypeOK
  <1>3. CASE FinishReload
    <2>1. kill_one(reload_task, dead) \in ReloadTasks(Pid)
      BY Zenon, <1>2, KillOneTask
    <2>2. is_completed(reload_task)
      BY SMTT(20), <1>2, <1>3, <2>1 DEF FinishReload, TermOne
    <2>3. QED
      BY SMTT(20), <1>1, <2>2 DEF ReloadInv, is_completed
  <1>4. CASE ReloadTaskWorkers
    <2>1. reload_task_worker
      BY SMTT(20), <1>4 DEF ReloadTaskWorkers
    <2>2. snapshot = {}
      BY Zenon, <1>1, <2>1 DEF RequestInv, LoopInv
    <2>3. QED
      BY SMTT(20), <2>2
  <1>5. ~ReloadAll
    <2>1. SUFFICES ASSUME ReloadAll PROVE reload_task' \in ReloadTasks(Pid)
      BY SMTT(20), <1>2
    <2>2. pid \in Seq(Pid)
      BY Zenon, <1>1, PidTable
    <2>3. QED
      BY SMTT(20), <1>2, <2>1, <2>2, ReloadBegins DEF ReloadAll, TermAll, TermOne
  <1>6. ~RemoveFromReload
    <2>1. remove(reload_task, exit_pid) \in ReloadTasks(Pid)
      BY Zenon, <1>2, RemoveTaskPid
    <2>2. QED
      BY Zenon, <1>2, <2>1 DEF RemoveFromReload
  <1>7. ~Select
    <2>1. kill_all(reload_task, dead) \in ReloadTasks(Pid)
      BY Zenon, <1>2, KillAllTask
    <2>2. [kill_all(reload_task, dead) EXCEPT !.timer = FALSE] \in ReloadTasks(Pid)
      BY Zenon, <2>1 DEF ReloadTasks
    <2>3. QED
      BY Zenon, <1>2, <2>2 DEF Select
  <1>8. ~SignalHandler
    BY Zenon DEF SignalHandler, reload
  <1>9. ~ (Loop \/ CallWait \/ WaitReturns \/ AfterWait \/ PopMessage \/ NoMoreMessages
           \/ ClearReadMessage \/ ReloadNull \/ NoReload \/ RestartWorker \/ NoChild
           \/ Shutdown \/ Stopped)
    BY Zenon DEF Loop, CallWait, WaitReturns, AfterWait, PopMessage, NoMoreMessages,
           ClearReadMessage, ReloadNull, NoReload, RestartWorker, NoChild, Shutdown,
           Stopped, taskVars
  <1>10. /\ \A sig \in Signals : ~Deliver(sig)
         /\ \A p \in Pid : ~StopWorker(p) /\ ~Die(p)
         /\ \A sig \in ReloadSignals : ~SendReload(sig)
         /\ ~SendTerm /\ ~Alarm /\ ~(UNCHANGED vars)
    BY Zenon DEF Deliver, StopWorker, Die, SendReload, SendTerm, Alarm, vars, taskVars
  <1>11. QED
    BY SMTT(20), <1>3, <1>4, <1>5, <1>6, <1>7, <1>8, <1>9, <1>10 DEF Next, ManagerStep

\* When a reload task is destroyed, every process it was begun with has exited and been
\* reaped, whether by kill_one() in turn, by kill_all() or by the timeout killer.
THEOREM ManagerReloadComplete == Spec => ReloadIsComplete
  <1>1. Init => MgrInv
    BY Zenon, MgrInvInit
  <1>2. MgrInv /\ [Next]_vars => MgrInv'
    BY Zenon, MgrInvNext
  <1>3. MgrInv /\ [Next]_vars
            => [reload_task # NoTask /\ reload_task' = NoTask /\ running
                    /\ (AsyncSignals => "USR2" \notin ReloadSignals)
                    => \A p \in snapshot : proc[p] = "gone"]_vars
    BY Zenon, DestroyStep
  <1>4. QED
    BY <1>1, <1>2, <1>3, PTL DEF Spec, ReloadIsComplete
=============================================================================
