------------------------------ MODULE HeapUse ------------------------------
(***************************************************************************)
(* Every sequence of calls of core/heap.cc on a small heap.  The timer     *)
(* model has too few timers at a time for some paths of the heap, such as  *)
(* the removal after which the last node has to rise.                      *)
(***************************************************************************)
EXTENDS Heap, FiniteSets

CONSTANTS
    Nodes,      \* a set of numbers: the smallest free one is used next
    Priorities

ASSUME HeapAssumption == Nodes \subseteq Nat /\ Priorities \subseteq Nat \ {0}

VARIABLE h

In(x) == h.position[x] # 0

HInit == h = EmptyHeap(Nodes)

HeapPush(x, p) ==
    /\ ~In(x) /\ \A y \in Nodes : y < x => In(y)
    /\ h' = push(h, x, p)

ChangePriority(x, p) == In(x) /\ h' = change_priority(h, x, p)

HeapRemove(x) == In(x) /\ h' = remove(h, x)

HeapPop == h.nodes # <<>> /\ h' = pop(h)

HNext ==
    \/ HeapPop
    \/ \E x \in Nodes : HeapRemove(x) \/ \E p \in Priorities : HeapPush(x, p) \/ ChangePriority(x, p)

HSpec == HInit /\ [][HNext]_h

\* No node is before its parent, so the first one is a smallest (heap.cc:64-90),
\* and every node knows where it is: remove() and change_priority() begin there
\* (heap.cc:115, 127).
HeapOrdered ==
    /\ \A i \in 2 .. Len(h.nodes) : h.priority[h.nodes[i \div 2]] <= h.priority[h.nodes[i]]
    /\ \A i \in 1 .. Len(h.nodes) : h.position[h.nodes[i]] = i
    /\ Cardinality({x \in Nodes : In(x)}) = Len(h.nodes)
=============================================================================
