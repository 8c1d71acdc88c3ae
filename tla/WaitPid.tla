------------------------------ MODULE WaitPid -------------------------------
(***************************************************************************)
(* Coroutines that wait for child processes (os/wait.cc): System::wait(),  *)
(* System::waitpid() and the handler of SIGCHLD, which the event loop runs *)
(* (signalfd, so that the signal is taken before the handler begins).      *)
(*                                                                         *)
(* One coroutine runs at a time.  The handler resumes a coroutine from its *)
(* loop and goes on when that coroutine yields, so the coroutine may wait  *)
(* again before the handler looks for the next child.                      *)
(*                                                                         *)
(* A wait is cancelled by the event loop.  A coroutine that cancels the    *)
(* wait of another, from its own code or resumed by the handler, runs the  *)
(* same code nested in its own, which is left out.                         *)
(***************************************************************************)
EXTENDS Naturals, Sequences, FiniteSets

CONSTANTS
    Co, Pid,
    AnyPid,         \* the target of wait()
    None,           \* no coroutine, no target
    Programs        \* for each program, what its coroutines may wait for: pids, AnyPid

ASSUME WaitAssumption ==
    /\ Programs \subseteq [Co -> SUBSET (Pid \cup {AnyPid})]
    /\ AnyPid \notin Pid /\ None \notin Pid \cup {AnyPid} /\ None \notin Co

VARIABLES
    targets,        \* the program; it never changes
    wait_list, waitpid_map, child_processes, signal_ready,
    process,        \* each child: alive, zombie or reaped
    sigchld,        \* SIGCHLD is pending
    handling,       \* signal_handler() is running
    current,        \* the coroutine that runs, if any
    waiting,        \* the target each coroutine is suspended for
    got             \* history: the children whose status each coroutine was given

waitVars == <<targets, wait_list, waitpid_map, child_processes, signal_ready, process, sigchld,
              handling, current, waiting, got>>

WaitInit ==
    /\ targets \in Programs
    /\ wait_list = <<>> /\ waitpid_map = [p \in Pid |-> None] /\ child_processes = {}
    /\ signal_ready = FALSE
    /\ process = [p \in Pid |-> "alive"]
    /\ sigchld = FALSE /\ handling = FALSE /\ current = None
    /\ waiting = [c \in Co |-> None] /\ got = [c \in Co |-> {}]

Matches(target, p) == target \in {AnyPid, p}

InState(s) == {p \in Pid : process[p] = s}

-----------------------------------------------------------------------------
(***************************************************************************)
(* The kernel and the event loop.                                          *)
(***************************************************************************)
Exit(p) ==
    /\ process[p] = "alive"
    /\ process' = [process EXCEPT ![p] = "zombie"]
    /\ sigchld' = (sigchld \/ signal_ready)
    /\ UNCHANGED <<wait_list, waitpid_map, child_processes, signal_ready, handling, current,
                   waiting, got>>

\* A coroutine that does not wait for a child goes on, or stops.
Run(c) ==
    /\ current = None /\ ~handling /\ waiting[c] = None
    /\ current' = c
    /\ UNCHANGED <<wait_list, waitpid_map, child_processes, signal_ready, process, sigchld,
                   handling, waiting, got>>

Stop ==
    /\ current # None
    /\ current' = None
    /\ UNCHANGED <<wait_list, waitpid_map, child_processes, signal_ready, process, sigchld,
                   handling, waiting, got>>

Give(c, p) == got' = [got EXCEPT ![c] = @ \cup {p}]

-----------------------------------------------------------------------------
(***************************************************************************)
(* waitpid()                                                               *)
(***************************************************************************)

\* The handler has reaped the child before.
Cached(c, target) ==
    /\ current = c
    /\ \E p \in child_processes :
        /\ Matches(target, p)
        /\ child_processes' = child_processes \ {p}
        /\ Give(c, p)
    /\ UNCHANGED <<wait_list, waitpid_map, signal_ready, process, sigchld, handling, current,
                   waiting>>

signal_init == signal_ready' = TRUE

Misses(c, target) ==
    current = c /\ \A p \in child_processes : ~Matches(target, p)

\* The child can be reaped at once.
Reap(c, target) ==
    /\ Misses(c, target)
    /\ signal_init
    /\ \E p \in InState("zombie") :
        /\ Matches(target, p)
        /\ process' = [process EXCEPT ![p] = "reaped"]
        /\ Give(c, p)
    /\ UNCHANGED <<wait_list, waitpid_map, child_processes, sigchld, handling, current, waiting>>

\* The coroutine waits; without a child to wait for it is told so (ECHILD).
Yield(c, target) ==
    /\ Misses(c, target)
    /\ \A p \in InState("zombie") : ~Matches(target, p)
    /\ signal_init
    /\ IF \A p \in InState("alive") : ~Matches(target, p)
       THEN UNCHANGED <<wait_list, waitpid_map, waiting, current>>
       ELSE /\ IF target = AnyPid
               THEN wait_list' = Append(wait_list, c) /\ UNCHANGED waitpid_map
               ELSE waitpid_map' = [waitpid_map EXCEPT ![target] = c] /\ UNCHANGED wait_list
            /\ waiting' = [waiting EXCEPT ![c] = target]
            /\ current' = None
    /\ UNCHANGED <<child_processes, process, sigchld, handling, got>>

\* Resumed: the coroutine takes its task out and runs on.
Dequeue(c, list) ==
    /\ IF waiting[c] = AnyPid
       THEN wait_list' = list /\ UNCHANGED waitpid_map
       ELSE waitpid_map' = [waitpid_map EXCEPT ![waiting[c]] = None] /\ UNCHANGED wait_list
    /\ waiting' = [waiting EXCEPT ![c] = None]
    /\ current' = c

\* Mutant: the task at the front is removed, whoever has timed out.
GiveUp_pops_front(c) ==
    /\ current = None /\ ~handling /\ waiting[c] # None
    /\ Dequeue(c, IF wait_list = <<>> THEN <<>> ELSE Tail(wait_list))
    /\ UNCHANGED <<child_processes, signal_ready, process, sigchld, handling, got>>

\* wait_list.remove(): the list without a task that is in it once.
Without(list, c) ==
    LET k == CHOOSE k \in 1 .. Len(list) : list[k] = c
    IN  SubSeq(list, 1, k - 1) \o SubSeq(list, k + 1, Len(list))

\* The wait times out or is canceled.
GiveUp(c) ==
    /\ current = None /\ ~handling /\ waiting[c] # None
    /\ Dequeue(c, Without(wait_list, c))
    /\ UNCHANGED <<child_processes, signal_ready, process, sigchld, handling, got>>

-----------------------------------------------------------------------------
(***************************************************************************)
(* signal_handler()                                                        *)
(***************************************************************************)
HandlerBegin ==
    /\ sigchld /\ current = None /\ ~handling
    /\ sigchld' = FALSE /\ handling' = TRUE
    /\ UNCHANGED <<wait_list, waitpid_map, child_processes, signal_ready, process, current,
                   waiting, got>>

\* The coroutine that is given the status of a child, or None.
Waiter(p) ==
    IF waitpid_map[p] # None THEN waitpid_map[p]
    ELSE IF wait_list # <<>> THEN Head(wait_list) ELSE None

\* Mutant: a status that nobody waits for is dropped.
Keep_nothing(p) ==
    UNCHANGED <<child_processes, wait_list, waitpid_map, waiting, got, current>>

Keep(p) ==
    /\ child_processes' = child_processes \cup {p}
    /\ UNCHANGED <<wait_list, waitpid_map, waiting, got, current>>

HandlerLoop(p) ==
    /\ handling /\ current = None
    /\ process[p] = "zombie"
    /\ process' = [process EXCEPT ![p] = "reaped"]
    /\ LET c == Waiter(p)
       IN  IF c = None THEN Keep(p)
           ELSE Give(c, p) /\ Dequeue(c, Tail(wait_list)) /\ UNCHANGED child_processes
    /\ UNCHANGED <<signal_ready, sigchld, handling>>

\* Mutant: one child for each signal.
HandlerEnd_early ==
    /\ handling /\ current = None
    /\ handling' = FALSE
    /\ UNCHANGED <<wait_list, waitpid_map, child_processes, signal_ready, process, sigchld,
                   current, waiting, got>>

HandlerEnd ==
    /\ handling /\ current = None
    /\ InState("zombie") = {}
    /\ handling' = FALSE
    /\ UNCHANGED <<wait_list, waitpid_map, child_processes, signal_ready, process, sigchld,
                   current, waiting, got>>

WaitNext ==
    /\ UNCHANGED targets
    /\ \/ Stop \/ HandlerBegin \/ HandlerEnd
       \/ \E p \in Pid : Exit(p) \/ HandlerLoop(p)
       \/ \E c \in Co :
           \/ Run(c) \/ GiveUp(c)
           \/ \E target \in targets[c] : Cached(c, target) \/ Reap(c, target) \/ Yield(c, target)

WaitSpec == WaitInit /\ [][WaitNext]_waitVars

-----------------------------------------------------------------------------
(***************************************************************************)
(* Properties.                                                             *)
(***************************************************************************)

\* Every variable has its type.
WaitTypeOK ==
    /\ wait_list \in Seq(Co) /\ waitpid_map \in [Pid -> Co \cup {None}]
    /\ child_processes \subseteq Pid
    /\ signal_ready \in BOOLEAN /\ sigchld \in BOOLEAN /\ handling \in BOOLEAN
    /\ process \in [Pid -> {"alive", "zombie", "reaped"}]
    /\ current \in Co \cup {None} /\ waiting \in [Co -> Pid \cup {AnyPid, None}]
    /\ got \in [Co -> SUBSET Pid]

\* A status is never lost and never given twice: a child that has been reaped is
\* either kept for a later wait or was given to one coroutine (wait.cc:50-77,
\* 118-146, 161-181).
StatusGivenOnce ==
    \A p \in Pid :
        Cardinality({c \in Co : p \in got[c]}) + (IF p \in child_processes THEN 1 ELSE 0)
            = (IF process[p] = "reaped" THEN 1 ELSE 0)

\* The list and the map hold tasks of suspended coroutines only: a task lives on
\* the stack of the coroutine (wait.cc:141, 152-171).
TasksOnStack ==
    /\ WaitTypeOK
    /\ \A p \in Pid : waitpid_map[p] # None => waiting[waitpid_map[p]] = p
    /\ \A k \in 1 .. Len(wait_list) : waiting[wait_list[k]] = AnyPid
    /\ \A c \in Co : waiting[c] = AnyPid => \E k \in 1 .. Len(wait_list) : wait_list[k] = c

\* The coroutines do not ask for the same children in different ways: all of them
\* call wait(), or each calls waitpid() for children of its own.
Apart ==
    \/ \A c \in Co : targets[c] = {AnyPid}
    \/ /\ \A c \in Co : AnyPid \notin targets[c]
       /\ \A c, d \in Co : c # d => targets[c] \cap targets[d] = {}

\* When the event loop has handled the signals that came, nobody waits for a
\* child that has exited (wait.cc:50-77 and the comment at 139), if the coroutines
\* keep apart.  If not, wait() may reap on its first try (wait.cc:143) the child
\* that another one is suspended for.
NobodyMissesExit ==
    Apart /\ current = None /\ ~handling /\ ~sigchld =>
        \A c \in Co, p \in Pid :
            waiting[c] # None /\ Matches(waiting[c], p) =>
                /\ process[p] # "zombie" /\ p \notin child_processes
                /\ waiting[c] = p => process[p] = "alive"
=============================================================================
