---------------------------- MODULE MCCoroutine ----------------------------
(***************************************************************************)
(* The scheduler, a coroutine socket and the timers, for model checking.   *)
(* Each is modelled by itself, so a behaviour is one of one of them.       *)
(***************************************************************************)
EXTENDS Coroutine, CoSocket, Timer

CONSTANTS c1, c2, c3

VARIABLE part           \* the one that this behaviour is about

ThreeCo == {c1, c2, c3}
SomeIntervals == {1, 2}

vars == <<part, coVars, socketVars, timingVars>>

Init ==
    /\ part \in {"scheduler", "socket", "timer"}
    /\ CoInit /\ SocketInit /\ TInit

Next ==
    \/ part = "scheduler" /\ CoNext /\ UNCHANGED <<part, socketVars, timingVars>>
    \/ part = "socket" /\ SocketNext /\ UNCHANGED <<part, coVars, timingVars>>
    \/ part = "timer" /\ TNext /\ UNCHANGED <<part, coVars, socketVars>>

-----------------------------------------------------------------------------
(***************************************************************************)
(* The fairness of the parts and what it brings about, in a single         *)
(* condition for all parts where they are alike: the part never changes,   *)
(* and TLC's effort grows fast with the number of conditions.              *)
(***************************************************************************)
InScheduler(A) == part = "scheduler" /\ A /\ UNCHANGED <<part, socketVars, timingVars>>
InSocket(A) == part = "socket" /\ A /\ UNCHANGED <<part, coVars, timingVars>>
InTimer(A) == part = "timer" /\ A /\ UNCHANGED <<part, coVars, socketVars>>

CoOf == <<c1, c2, c3>>
Direction == <<"READ", "WRITE">>

Fairness ==
    /\ WF_vars(InScheduler(RunsOn) \/ InSocket(ThreadRuns) \/ InTimer(LoopGoesRound))
    /\ WF_vars(InTimer(Tick))
    /\ SF_vars(InScheduler(Returns))
    /\ \A n \in 1 .. 3 :
        /\ SF_vars(\/ InScheduler(YieldExTimeout(CoOf[n]))
                   \/ n <= 2 /\ InSocket(TimerCallback(Direction[n])))
        /\ WF_vars(InSocket(WakeUp(CoOf[n])))

Spec == Init /\ [][Next]_vars /\ Fairness

\* Coroutines are interchangeable, to the scheduler and to a socket, so c1 stands
\* for all of them.
Begun(n) ==
    \/ part = "scheduler" /\ n = 1 /\ YieldTimed(c1)
    \/ part = "socket" /\ n = 1 /\ SocketWaitTimed(c1)
    \/ part = "socket" /\ n = 2 /\ close_wait
    \/ part = "timer" /\ n \in Id /\ WillFire(n)

Over(n) ==
    \/ part = "scheduler" /\ n = 1 /\ YieldOver(c1)
    \/ part = "socket" /\ n = 1 /\ SocketWaitOver(c1)
    \/ part = "socket" /\ n = 2 /\ Released
    \/ part = "timer" /\ n \in Id /\ ~WillFire(n)

\* What has a time-out comes to its end: a yield_ex() of the scheduler, a wait on
\* a socket, a timer of the loop; and a socket that was closed while coroutines
\* waited on it is released.  These are TimedYieldEnds, SocketWaitsEnd and
\* TimersFire of the parts.
TimedWaitsAreOver == \A n \in 1 .. 2 : Begun(n) ~> Over(n)
=============================================================================
