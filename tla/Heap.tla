-------------------------------- MODULE Heap --------------------------------
(***************************************************************************)
(* The binary min-heap of core/heap.cc.  A heap is a record: nodes is the  *)
(* array without its unused element 0, position and priority are the       *)
(* fields of the nodes, which every move of a node must keep up to date.   *)
(* The max-heap, which nothing but the tests uses, is left out.            *)
(***************************************************************************)
EXTENDS Naturals, Sequences

\* A node that is not in the heap has position and priority 0.
EmptyHeap(Id) ==
    [nodes |-> <<>>, position |-> [x \in Id |-> 0], priority |-> [x \in Id |-> 0]]

compare(h, x, y) == h.priority[x] > h.priority[y]

\* nodes[i] = x, and the position of x with it.
Put(h, i, x) == [h EXCEPT !.nodes[i] = x, !.position[x] = i]

\* 0 if i has no child.
maxchild(h, i) ==
    LET child_i == 2 * i
    IN  IF child_i > Len(h.nodes) THEN 0
        ELSE IF child_i + 1 <= Len(h.nodes) /\ compare(h, h.nodes[child_i], h.nodes[child_i + 1])
             THEN child_i + 1 ELSE child_i

\* The loop of bubble_up(): the parents move down until x fits in at i.
RECURSIVE Rise(_, _, _)
Rise(h, i, x) ==
    IF i > 1 /\ compare(h, h.nodes[i \div 2], x)
    THEN Rise(Put(h, i, h.nodes[i \div 2]), i \div 2, x)
    ELSE Put(h, i, x)

\* The loop of percolate_down().
RECURSIVE Sink(_, _, _)
Sink(h, i, x) ==
    LET child_i == maxchild(h, i)
    IN  IF child_i # 0 /\ compare(h, x, h.nodes[child_i])
        THEN Sink(Put(h, i, h.nodes[child_i]), child_i, x)
        ELSE Put(h, i, x)

bubble_up(h, i) == Rise(h, i, h.nodes[i])
percolate_down(h, i) == Sink(h, i, h.nodes[i])

push(h, x, new_priority) ==
    bubble_up([h EXCEPT !.nodes = Append(@, x), !.priority[x] = new_priority],
              Len(h.nodes) + 1)

change_priority(h, x, new_priority) ==
    LET changed == [h EXCEPT !.priority[x] = new_priority]
    IN  IF h.priority[x] > new_priority
        THEN bubble_up(changed, h.position[x])
        ELSE percolate_down(changed, h.position[x])

Delete(h, x) == [h EXCEPT !.position[x] = 0, !.priority[x] = 0]

\* The last node takes the place of the one at pos, for the time being.
FillFromLast(h, pos) ==
    LET last == Len(h.nodes)
    IN  [h EXCEPT !.nodes = [SubSeq(@, 1, last - 1) EXCEPT ![pos] = h.nodes[last]]]

DropLast(h) == [h EXCEPT !.nodes = SubSeq(@, 1, Len(@) - 1)]

\* Mutant: the node that fills the gap always moves down.
remove_down(h, x) ==
    LET pos == h.position[x]
    IN  Delete(IF pos = Len(h.nodes) THEN DropLast(h)
               ELSE percolate_down(FillFromLast(h, pos), pos), x)

remove(h, x) ==
    LET pos == h.position[x]
        filled == FillFromLast(h, pos)
    IN  Delete(IF pos = Len(h.nodes) THEN DropLast(h)
               ELSE IF compare(h, x, filled.nodes[pos])
                    THEN bubble_up(filled, pos)
                    ELSE percolate_down(filled, pos), x)

pop(h) ==
    Delete(IF Len(h.nodes) = 1 THEN DropLast(h) ELSE percolate_down(FillFromLast(h, 1), 1),
           h.nodes[1])

top(h) == h.nodes[1]
=============================================================================
