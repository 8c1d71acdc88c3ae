--------------------------- MODULE TableIterator ----------------------------
(***************************************************************************)
(* Table::rewind() and forward(), while other processes use the table.     *)
(* forward() looks at the roots one after the other without their locks    *)
(* and takes the lock of the first that is active: what it found may have  *)
(* changed by then.  The caller reads current() and stops at a row without *)
(* a key.  The other operations change chains as add() and del() do.       *)
(***************************************************************************)
EXTENDS Table

VARIABLES
    absolute_index, collision_index, current,
    where,      \* "out" of forward(), "look" for a root, or wait for its lock to "take" it
    met,        \* history: how often this iteration has returned a key, up to 2
    removed,    \* history: the buckets in which a row was deleted during the iteration
    stayed      \* history: the keys in the table since rewind()

iteratorVars == <<absolute_index, collision_index, current, where, met, removed, stayed>>

IteratorInit ==
    /\ absolute_index = 0 /\ collision_index = 0 /\ current = NoKey /\ where = "out"
    /\ met = [k \in Key |-> 0] /\ removed = {} /\ stayed = {}

rewind ==
    /\ where = "out"
    /\ absolute_index' = 0 /\ collision_index' = 0 /\ current' = NoKey
    /\ met' = [k \in Key |-> 0] /\ removed' = {} /\ stayed' = Keys
    /\ UNCHANGED <<tableVars, where>>

\* forward() is called after rewind(), and again while it returns rows.
forward ==
    /\ where = "out"
    /\ current # NoKey \/ absolute_index = 0
    /\ where' = "look"
    /\ UNCHANGED <<tableVars, absolute_index, collision_index, current, met, removed, stayed>>

Return(row) ==
    /\ where' = "out" /\ current' = rows[row].key
    /\ met' = IF current' = NoKey THEN met ELSE [met EXCEPT ![current'] = IF @ = 2 THEN 2 ELSE @ + 1]

\* get_by_index(), or the end of the table.
Look ==
    /\ where = "look"
    /\ \/ /\ absolute_index < table_size
          /\ IF rows[Root(absolute_index)].active = 1
             THEN where' = "take" /\ UNCHANGED absolute_index
             ELSE where' = "look" /\ absolute_index' = absolute_index + 1
          /\ UNCHANGED current
       \/ /\ absolute_index = table_size
          /\ where' = "out" /\ current' = NoKey /\ UNCHANGED absolute_index
    /\ UNCHANGED <<tableVars, collision_index, met, removed, stayed>>

\* Mutant: the place in the chain is kept.
NextBucket_keeps_collision ==
    /\ absolute_index' = absolute_index + 1 /\ where' = "look"
    /\ UNCHANGED collision_index

\* The chain is at its end: forward() goes on with the next root.
NextBucket ==
    /\ absolute_index' = absolute_index + 1 /\ where' = "look"
    /\ collision_index' = 0

\* With the lock of the root.
TakeRow ==
    LET row == Root(absolute_index)
        rows_of_bucket == chain(row)
    IN /\ where = "take"
       /\ \/ /\ rows[row].next = nullptr
             /\ absolute_index' = absolute_index + 1
             /\ Return(row) /\ UNCHANGED collision_index
          \/ /\ rows[row].next # nullptr /\ collision_index < Len(rows_of_bucket)
             /\ collision_index' = collision_index + 1
             /\ Return(rows_of_bucket[collision_index + 1]) /\ UNCHANGED absolute_index
          \/ /\ rows[row].next # nullptr /\ collision_index >= Len(rows_of_bucket)
             /\ NextBucket
             /\ UNCHANGED <<current, met>>
       /\ UNCHANGED <<tableVars, removed, stayed>>

\* The caller has seen a row without a key.
Ended == where = "out" /\ current = NoKey /\ absolute_index > 0

\* Another process.
Others ==
    \E key \in Key :
        /\ \/ add(key, NoValues) /\ UNCHANGED <<removed, stayed>>
           \/ /\ find_row(key) # 0 /\ del(key)
              /\ removed' = IF Ended THEN removed ELSE removed \cup {hash[key]}
              /\ stayed' = stayed \ {key}
        /\ UNCHANGED <<hash, observed, absolute_index, collision_index, current, where, met>>

IteratorNext == rewind \/ forward \/ Look \/ TakeRow \/ Others

IteratorSpec == TableInit /\ ~observed /\ IteratorInit /\ [][IteratorNext]_<<tableVars, iteratorVars>>

---------------------------------------------------------------------------

\* An iteration during which rows are only added (forward(), with insertions in
\* any order and at any moment) returns no key twice, and by its end has returned
\* every key that was there when it began.
IterationIsComplete ==
    removed = {} =>
        /\ \A key \in Key : met[key] <= 1
        /\ Ended => \A key \in stayed : met[key] = 1

\* table.cc says of the index of rows: "for iterator, Iterate through all the
\* elements".  What a bucket loses is no reason to miss the keys of another.
IterationMeetsAll ==
    Ended => \A key \in stayed : hash[key] \notin removed => met[key] >= 1
=============================================================================
