------------------------------ MODULE RowLock -------------------------------
(***************************************************************************)
(* The lock of a row of the shared-memory table: TableRow::lock() and      *)
(* unlock(), called by processes that may die at any point.  A waiter that *)
(* finds that the process named by lock_pid does not exist, or that has    *)
(* waited for two seconds, takes the lock whatever its value.  The pid is  *)
(* stored after the lock is taken, by either way, and is a process here.   *)
(***************************************************************************)
EXTENDS Integers

CONSTANTS
    Proc,
    NoPid           \* 0, which clear() leaves in lock_pid; kill(0, 0) succeeds

ASSUME RowLockAssumption == NoPid \notin Proc

VARIABLES
    lock_, lock_pid,
    at,         \* by process: where it is in lock(), see below
    marked,     \* the processes that have marked the time (t # 0)
    late,       \* those that did so more than two seconds ago
    reused,     \* the dead processes whose pid another process has now
    overdue     \* history: somebody has waited for two seconds

rowLockVars == <<lock_, lock_pid, at, marked, late, reused, overdue>>

\* "won" is after the lock is taken and before the pid is stored.
Places == {"out", "try", "probe", "time", "won", "in", "dead"}
Waits(p) == at[p] \in {"try", "probe", "time"}
Holds(p) == at[p] \in {"won", "in"}

\* Mutant: a lock without a pid counts as one of a dead process.
Gone_without_pid(pid) == pid = NoPid \/ (pid \in Proc /\ at[pid] = "dead" /\ pid \notin reused)

\* kill(pid, 0) fails with ESRCH.
Gone(pid) == pid \in Proc /\ at[pid] = "dead" /\ pid \notin reused

RowLockInit ==
    /\ lock_ = 0 /\ lock_pid = NoPid
    /\ at = [p \in Proc |-> "out"] /\ marked = {} /\ late = {}
    /\ reused = {} /\ overdue = FALSE

Goto(p, place) == at' = [at EXCEPT ![p] = place]

EnterLock(p) ==
    /\ at[p] = "out" /\ Goto(p, "try")
    /\ marked' = marked \ {p} /\ late' = late \ {p}
    /\ UNCHANGED <<lock_, lock_pid, reused, overdue>>

\* The compare-and-set, here and in the spinning loop.
CompareAndSet(p) ==
    /\ at[p] = "try"
    /\ \/ lock_ = 0 /\ lock_' = 1 /\ Goto(p, "won")
       \/ lock_ = 1 /\ Goto(p, "probe") /\ UNCHANGED lock_
    /\ UNCHANGED <<lock_pid, marked, late, reused, overdue>>

ForceLock(p) == lock_' = 1 /\ Goto(p, "won")

ProbeHolder(p) ==
    /\ at[p] = "probe"
    /\ \/ Gone(lock_pid) /\ ForceLock(p)
       \/ ~Gone(lock_pid) /\ Goto(p, "time") /\ UNCHANGED lock_
    /\ UNCHANGED <<lock_pid, marked, late, reused, overdue>>

LookAtTime(p) ==
    /\ at[p] = "time"
    /\ marked' = marked \cup {p}
    /\ \/ p \in late /\ ForceLock(p)
       \/ p \notin late /\ Goto(p, "try") /\ UNCHANGED lock_
    /\ UNCHANGED <<lock_pid, late, reused, overdue>>

StorePid(p) ==
    /\ at[p] = "won" /\ Goto(p, "in")
    /\ lock_pid' = p
    /\ UNCHANGED <<lock_, marked, late, reused, overdue>>

\* delete_row() clears a root that stands alone, lock_pid with it.
ClearRoot(p) ==
    /\ at[p] = "in" /\ lock_pid' = NoPid
    /\ UNCHANGED <<lock_, at, marked, late, reused, overdue>>

Unlock(p) ==
    /\ at[p] = "in" /\ Goto(p, "out")
    /\ lock_' = 0
    /\ UNCHANGED <<lock_pid, marked, late, reused, overdue>>

---------------------------------------------------------------------------

\* Two seconds pass for a waiter, a process dies, a pid is used again.
TwoSeconds(p) ==
    /\ Waits(p) /\ p \in marked \ late
    /\ late' = late \cup {p} /\ overdue' = TRUE
    /\ UNCHANGED <<lock_, lock_pid, at, marked, reused>>

Die(p) ==
    /\ at[p] # "dead" /\ Goto(p, "dead")
    /\ UNCHANGED <<lock_, lock_pid, marked, late, reused, overdue>>

Reuse(p) ==
    /\ at[p] = "dead" /\ p \notin reused
    /\ reused' = reused \cup {p}
    /\ UNCHANGED <<lock_, lock_pid, at, marked, late, overdue>>

Acquire(p) == CompareAndSet(p) \/ ProbeHolder(p) \/ LookAtTime(p) \/ StorePid(p)

RowLockNext ==
    \E p \in Proc :
        \/ EnterLock(p) \/ Acquire(p) \/ ClearRoot(p) \/ Unlock(p)
        \/ TwoSeconds(p) \/ Die(p) \/ Reuse(p)

RowLockSpec == RowLockInit /\ [][RowLockNext]_rowLockVars

\* A process that is in lock() keeps running, and time passes.
RowLockFairness ==
    \A p \in Proc : WF_rowLockVars(Acquire(p)) /\ WF_rowLockVars(TwoSeconds(p))

---------------------------------------------------------------------------

\* Every variable has its type.
RowLockTypeOK ==
    /\ lock_ \in {0, 1} /\ lock_pid \in Proc \cup {NoPid}
    /\ at \in [Proc -> Places]
    /\ marked \subseteq Proc /\ late \subseteq Proc /\ reused \subseteq Proc
    /\ overdue \in BOOLEAN

Calm == ~overdue /\ \A p \in Proc : at[p] # "dead"

\* While every process lives and nobody has waited for two seconds, lock() lets
\* one process at a time at the row, and the word of the lock says whether there
\* is one, although waiters look at a lock_pid that is stored late and cleared.
RowExclusive ==
    /\ RowLockTypeOK
    /\ Calm => /\ \A p, q \in Proc : Holds(p) /\ Holds(q) => p = q
               /\ lock_ = 1 <=> \E p \in Proc : Holds(p)

\* Whoever dies, wherever, and whatever becomes of its pid: a process that calls
\* lock() gets the row, unless it dies itself.
LockIsRecovered == \A p \in Proc : Waits(p) ~> at[p] \in {"in", "dead"}
=============================================================================
