------------------------------ MODULE MCManager ------------------------------
(***************************************************************************)
(* Small servers for model checking.                                       *)
(***************************************************************************)
EXTENDS Manager

\* One event worker and one task worker, reloaded once.
Asynchronous ==
    [worker_num |-> 1, task_worker_num |-> 1, reload_async |-> TRUE, MaxWaitTime |-> TRUE,
     ReloadSignals |-> {"USR1"}, AsyncSignals |-> FALSE,
     MaxDeaths |-> 1, MaxReloads |-> 1, MaxPid |-> 5]

\* The same, one worker after the other, reloaded twice and in both ways.
Rolling ==
    [Asynchronous EXCEPT !.reload_async = FALSE, !.ReloadSignals = {"USR1", "USR2"},
                         !.MaxReloads = 2, !.MaxPid = 7]

\* One event worker that stops twice, and signals between any two steps.
Interrupted ==
    [Asynchronous EXCEPT !.task_worker_num = 0, !.AsyncSignals = TRUE, !.MaxDeaths = 2]

\* One event worker that stops twice.
Single ==
    [Asynchronous EXCEPT !.task_worker_num = 0, !.MaxDeaths = 2, !.MaxPid = 4]

\* A rolling reload with a single death.
RollingOnce == [Rolling EXCEPT !.ReloadSignals = {"USR1"}, !.MaxReloads = 1, !.MaxPid = 5]

AllSettings == {Asynchronous, Rolling, Interrupted}
LiveSettings == {Single, RollingOnce}
LostExit == {RollingOnce}
=============================================================================
