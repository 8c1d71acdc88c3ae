----------------------------- MODULE FixedPool ------------------------------
(***************************************************************************)
(* The pool of memory/fixed_pool.cc: slices of one size in one doubly      *)
(* linked list, the idle ones in front and the busy ones behind them.  The *)
(* pool is a record, and its operations are operators on it; its owner     *)
(* calls them one at a time.  The sizes of requests and slices are left    *)
(* out, since the table asks for one slice of the right size each time.    *)
(***************************************************************************)
EXTENDS Integers, Sequences, FiniteSets

CONSTANT slice_num

\* The constructors refuse a pool of fewer slices.
ASSUME FixedPoolAssumption == slice_num \in Nat /\ slice_num >= 2

nullptr == 0
PoolSlice == 1 .. slice_num

\* The pool after init(), which puts every slice in front of those before it.
pool_init ==
    [head |-> slice_num,
     tail |-> 1,
     next |-> [s \in PoolSlice |-> s - 1],
     prev |-> [s \in PoolSlice |-> IF s = slice_num THEN nullptr ELSE s + 1],
     lock |-> [s \in PoolSlice |-> 0],
     slice_use |-> 0]

\* alloc() gives the slice at the head if it is idle.
can_alloc(pool) == pool.head # nullptr /\ pool.lock[pool.head] = 0

\* The head becomes the tail.  The writes are in the order of the code.
pool_alloc(pool) ==
    LET slice == pool.head
        head == pool.next[slice]
        prev == IF head = nullptr THEN pool.prev ELSE [pool.prev EXCEPT ![head] = nullptr]
    IN [head |-> head,
        tail |-> slice,
        next |-> [pool.next EXCEPT ![pool.tail] = slice, ![slice] = nullptr],
        prev |-> [prev EXCEPT ![slice] = pool.tail],
        lock |-> [pool.lock EXCEPT ![slice] = 1],
        slice_use |-> pool.slice_use + 1]

\* Mutant: the tail is not moved.
pool_unlink_keeps_tail(pool, slice) ==
    LET before == pool.prev[slice]
        after == pool.next[slice]
    IN IF slice = pool.tail
       THEN [pool EXCEPT !.next[before] = nullptr]
       ELSE [pool EXCEPT !.next[before] = after, !.prev[after] = before]

\* The list without a slice that is not its head.
pool_unlink(pool, slice) ==
    LET before == pool.prev[slice]
        after == pool.next[slice]
    IN IF slice = pool.tail
       THEN [pool EXCEPT !.next[before] = nullptr, !.tail = before]
       ELSE [pool EXCEPT !.next[before] = after, !.prev[after] = before]

\* free() moves a slice to the head, where it may be already.
pool_free(pool, slice) ==
    LET idle == [pool EXCEPT !.slice_use = @ - 1, !.lock[slice] = 0]
        rest == pool_unlink(idle, slice)
        linked == [rest EXCEPT !.prev[slice] = nullptr, !.next[slice] = rest.head, !.head = slice]
    IN IF slice = pool.head THEN idle
       ELSE IF rest.head = nullptr THEN linked
       ELSE [linked EXCEPT !.prev[rest.head] = slice]

---------------------------------------------------------------------------

\* The nodes that next leads to from a first one, cut off at a bound.
RECURSIVE ListFrom(_, _, _)
ListFrom(next, first, bound) ==
    IF first = nullptr \/ bound = 0 THEN <<>>
    ELSE <<first>> \o ListFrom(next, next[first], bound - 1)

\* The list holds every slice once, in both directions, the idle ones in front
\* of the busy ones, and slice_use is the number of the busy ones.
ListIsSound(pool) ==
    LET list == ListFrom(pool.next, pool.head, slice_num + 1) IN
    /\ Len(list) = slice_num
    /\ {list[n] : n \in 1 .. Len(list)} = PoolSlice
    /\ list[Len(list)] = pool.tail
    /\ \A n \in 1 .. Len(list) :
           pool.prev[list[n]] = IF n = 1 THEN nullptr ELSE list[n - 1]
    /\ \A m, n \in 1 .. Len(list) :
           m < n => pool.lock[list[m]] <= pool.lock[list[n]]
    /\ pool.slice_use = Cardinality({s \in PoolSlice : pool.lock[s] = 1})
=============================================================================
