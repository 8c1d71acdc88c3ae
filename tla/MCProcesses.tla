---------------------------- MODULE MCProcesses -----------------------------
(***************************************************************************)
(* What processes and threads do to each other, for model checking:        *)
(* signals that are marked, the threads of the AIO pool, messages over     *)
(* pipes, and the workers of a process pool.  Each is modelled by itself,  *)
(* so a behaviour is one of one of them.                                   *)
(***************************************************************************)
EXTENDS Signal, AsyncThreads, MessageBus, ProcessPool

CONSTANTS s1, s2, q1, q2

VARIABLE part           \* the one that this behaviour is about

\* Reactors write to the pipe of a worker, in chunks and from their event loop,
\* and task workers, which have none, write to a reactor, each to a pipe of its own.
OnePipe == s1 :> q1 @@ s2 :> q1
TwoPipes == s1 :> q1 @@ s2 :> q2
SomeSetups ==
    {[route |-> OnePipe, always_chunked_transfer |-> TRUE, event_loop |-> TRUE,
      reader |-> "read"],
     [route |-> TwoPipes, always_chunked_transfer |-> FALSE, event_loop |-> FALSE,
      reader |-> "read_with_buffer"]}

vars == <<part, signalVars, aioVars, busVars, poolLoopVars>>

Init ==
    /\ part \in {"signals", "aio", "bus", "pool"}
    /\ SignalInit /\ PoolInit /\ BusInit /\ ProcessPoolInit
    \* What is chosen for the other parts does not matter.
    /\ part # "bus" => setup.always_chunked_transfer
    /\ part # "pool" => polite

Next ==
    \/ part = "signals" /\ SignalNext /\ UNCHANGED <<part, aioVars, busVars, poolLoopVars>>
    \/ part = "aio" /\ PoolNext /\ UNCHANGED <<part, signalVars, busVars, poolLoopVars>>
    \/ part = "bus" /\ BusNext /\ UNCHANGED <<part, signalVars, aioVars, poolLoopVars>>
    \/ part = "pool" /\ ProcessPoolNext /\ UNCHANGED <<part, signalVars, aioVars, busVars>>

-----------------------------------------------------------------------------
(***************************************************************************)
(* Fairness, and what it brings about.  The threads of the AIO pool run    *)
(* from the start; the others have nothing to do until they are called.    *)
(* What has to end is stated once for all parts, since TLC builds a graph  *)
(* for each of its conditions.                                             *)
(***************************************************************************)
AioFairness ==
    /\ WF_aioVars(part = "aio" /\ LoopStep)
    /\ \A t \in Thread : WF_aioVars(part = "aio" /\ (ThreadStep(t) \/ Handle(t)))

Spec ==
    /\ Init /\ [][Next]_vars
    /\ SignalFairness /\ AioFairness /\ BusFairness /\ ProcessPoolFairness

Begun(n) ==
    \/ part = "signals" /\ n \in owed
    \/ part = "aio" /\ n <= dispatched
    \/ part = "bus" /\ n \in written
    \/ part = "pool" /\ n = 1 /\ reload_task # NoReload
    \/ part = "pool" /\ n = 2 /\ round = "stop"

Over(n) ==
    \/ part = "signals" /\ n \notin owed
    \/ part = "aio" /\ n \in called \cup canceled
    \/ part = "bus" /\ n \in Ids \cup broken
    \/ part = "pool" /\ n = 1 /\ ReloadOver
    \/ part = "pool" /\ n = 2 /\ round = "stopped"

\* Nothing that is under way is forgotten: a signal that was marked is called
\* back, a task of the pool is done or canceled, a message whose write() returned
\* is delivered, a reload and the stop of a process pool come to their end.  These
\* are SignalsHandled, TasksComplete, WrittenIsDelivered and PoolSettles of the
\* parts.
WorkIsDone == \A n \in 1 .. 3 : Begun(n) ~> Over(n)
=============================================================================
