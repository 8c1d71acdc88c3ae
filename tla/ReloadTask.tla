----------------------------- MODULE ReloadTask -----------------------------
(***************************************************************************)
(* struct ReloadTask (os/process_pool.cc): the processes a reload has      *)
(* still to get rid of.  A task is a record: workers are the pids that     *)
(* have not exited, kill_queue the pids that have still to be signalled,   *)
(* timer tells whether the timeout killer is armed.  The operators take    *)
(* the set of dead pids, for which kill() fails with ESRCH.                *)
(***************************************************************************)
EXTENDS Naturals, Sequences

ReloadTasks(Pid) == [workers : SUBSET Pid, kill_queue : Seq(Pid), timer : BOOLEAN]

NewReloadTask(timed) == [workers |-> {}, kill_queue |-> <<>>, timer |-> timed]

is_completed(task) == task.workers = {}

\* add_workers() of a list of pids.
add_workers(task, list) ==
    [task EXCEPT !.workers = @ \cup {list[i] : i \in 1 .. Len(list)},
                 !.kill_queue = @ \o list]

remove(task, pid) == [task EXCEPT !.workers = @ \ {pid}]

\* kill_all(): everybody that is alive is signalled, the others are erased.
KilledByAll(task, dead) == task.workers \ dead

\* Mutant: everybody is erased.
kill_all_forgets(task, dead) == [task EXCEPT !.workers = {}, !.kill_queue = <<>>]

kill_all(task, dead) == [task EXCEPT !.workers = @ \ dead, !.kill_queue = <<>>]

\* kill_one(): the place in the queue of the first process that can be
\* signalled, or one past the end.
KillIndex(task, dead) ==
    LET q == task.kill_queue
        first(i) == /\ q[i] \in task.workers \ dead
                    /\ \A j \in 1 .. i - 1 : q[j] \notin task.workers \ dead
    IN  IF \E i \in 1 .. Len(q) : first(i) THEN CHOOSE i \in 1 .. Len(q) : first(i)
        ELSE Len(q) + 1

KilledByOne(task, dead) ==
    LET q == task.kill_queue
        i == KillIndex(task, dead)
    IN  IF i <= Len(q) THEN {q[i]} ELSE {}

\* The entries before it are popped, and erased when they are dead.
kill_one(task, dead) ==
    LET q == task.kill_queue
        i == KillIndex(task, dead)
    IN  [task EXCEPT !.workers = @ \ (dead \cap {q[j] : j \in 1 .. i - 1}),
                     !.kill_queue = SubSeq(q, i + 1, Len(q))]
=============================================================================
