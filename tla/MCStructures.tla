---------------------------- MODULE MCStructures ----------------------------
(***************************************************************************)
(* The heap, the timers that are kept in one, the shared-memory channel    *)
(* and the list of the coroutines that wait for children, for model        *)
(* checking.  They share nothing, so a behaviour is one of one of them.    *)
(***************************************************************************)
EXTENDS HeapUse, Timer, ShmChannel, WaitPid

CONSTANTS c1, c2, c3, p1, p2, p3

VARIABLE structure      \* the one that this behaviour uses

\* Removing a node of the third level can bring up one from another branch.
SixNodes == 1 .. 6
TwoPriorities == 1 .. 2

SomeIntervals == {1, 2}

ThreeCo == {c1, c2, c3}
ThreePid == {p1, p2, p3}

\* The coroutines wait for whatever they like, each for any child, or each for
\* children of its own.
SomePrograms ==
    {[co \in ThreeCo |-> {p1, p2, AnyPid}],
     [co \in ThreeCo |-> {AnyPid}],
     [co \in ThreeCo |-> CASE co = c1 -> {p1, p3} [] co = c2 -> {p2} [] co = c3 -> {}]}

vars == <<structure, h, timingVars, shmVars, waitVars>>

Init ==
    /\ structure \in {"heap", "timer", "channel", "wait"}
    /\ HInit /\ TInit /\ ShmInit /\ WaitInit
    \* What is chosen for the others does not matter.
    /\ structure # "wait" => targets = [co \in ThreeCo |-> {AnyPid}]

Next ==
    \/ structure = "heap" /\ HNext
        /\ UNCHANGED <<structure, timingVars, shmVars, waitVars>>
    \/ structure = "timer" /\ TNext
        /\ UNCHANGED <<structure, h, shmVars, waitVars>>
    \/ structure = "channel" /\ ShmNext
        /\ UNCHANGED <<structure, h, timingVars, waitVars>>
    \/ structure = "wait" /\ WaitNext
        /\ UNCHANGED <<structure, h, timingVars, shmVars>>

Spec == Init /\ [][Next]_vars
=============================================================================
