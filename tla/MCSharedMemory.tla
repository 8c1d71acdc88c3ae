--------------------------- MODULE MCSharedMemory ---------------------------
(***************************************************************************)
(* The structures that processes share, for model checking: the table with *)
(* one process, the table with an iteration and other processes, the lock  *)
(* of a row, and the ring buffer.  A behaviour is one of one of them.      *)
(***************************************************************************)
EXTENDS TableIterator, RowLock, RingBuffer

CONSTANTS k1, k2, k3, k4, r1, r2, r3

VARIABLE structure      \* the one that this behaviour uses

FourKeys == {k1, k2, k3, k4}

\* All keys in one bucket, and two in each of two.
OneBucket == [k \in FourKeys |-> 0]
TwoBuckets == [k \in FourKeys |-> IF k \in {k3, k4} THEN 1 ELSE 0]
SomeHashes == {OneBucket, TwoBuckets}

tablesVars == <<tableVars, iteratorVars>>
vars == <<structure, tablesVars, rowLockVars, ringVars>>

Init ==
    /\ structure \in {"table", "iterator", "lock", "ring"}
    /\ TableInit /\ IteratorInit /\ RowLockInit /\ RingInit
    /\ observed = (structure = "table")
    /\ hash = IF structure = "iterator" THEN TwoBuckets ELSE OneBucket

\* No row is deleted during an iteration, see DeletingSpec.
Next ==
    \/ structure = "table" /\ TableNext
        /\ UNCHANGED <<structure, iteratorVars, rowLockVars, ringVars>>
    \/ structure = "iterator" /\ IteratorNext /\ removed' = {}
        /\ UNCHANGED <<structure, rowLockVars, ringVars>>
    \/ structure = "lock" /\ RowLockNext
        /\ UNCHANGED <<structure, tablesVars, ringVars>>
    \/ structure = "ring" /\ RingNext
        /\ UNCHANGED <<structure, tablesVars, rowLockVars>>

\* One process that iterates, adds and deletes between its calls of forward().
DeletingSpec ==
    /\ Init /\ structure = "iterator"
    /\ [][/\ IteratorNext /\ (where # "out" => UNCHANGED tableVars)
         /\ UNCHANGED <<structure, rowLockVars, ringVars>>]_vars

\* RowLockFairness and RingFairness, each where it matters.
Fairness ==
    /\ \A p \in Proc :
        /\ WF_rowLockVars(structure = "lock" /\ Acquire(p))
        /\ WF_rowLockVars(structure = "lock" /\ TwoSeconds(p))
    /\ WF_ringVars(structure = "ring" /\ Allocate)
    /\ WF_ringVars(structure = "ring" /\ FreeCount)
    /\ \A x \in Offset : WF_ringVars(structure = "ring" /\ FreeLock(x))

Spec == Init /\ [][Next]_vars /\ Fairness

\* A process gets what it waits for in shared memory, the lock of a row (if it
\* lives) or a block of the ring buffer: LockIsRecovered, of one process since
\* they are alike, and AllocSucceeds.
SharedIsGiven ==
    (structure = "lock" /\ Waits(r1)) \/ (structure = "ring" /\ Servable)
        ~> (structure = "lock" /\ at[r1] \in {"in", "dead"}) \/ (structure = "ring" /\ want = 0)
=============================================================================
