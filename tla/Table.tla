------------------------------- MODULE Table --------------------------------
(***************************************************************************)
(* The shared-memory hash table of memory/table.cc.  A bucket is a row of  *)
(* its own (the root) followed by a chain of conflict rows, which are      *)
(* slices of a fixed pool.  An operation holds the lock of the root from   *)
(* its first look at the chain to its last write (module RowLock is about  *)
(* that lock), and the pool is used under the mutex of the table, so an    *)
(* operation is one step here.  A row has one column.                      *)
(***************************************************************************)
EXTENDS FixedPool

CONSTANTS
    Key,
    Data,           \* values of the column, 0 among them
    NoValues,       \* an empty TableValues: no column is given
    NoKey,          \* key_len = 0
    table_size,     \* the number of buckets
    HashFuncs       \* what set_hash_func() may give: functions from keys to buckets

ASSUME TableAssumption ==
    /\ table_size \in Nat \ {0} /\ HashFuncs \subseteq [Key -> 0 .. table_size - 1]
    /\ 0 \in Data /\ Data \subseteq Nat /\ NoKey \notin Key

\* Slices are 1 .. slice_num; the roots, which are not in the pool, come after.
Root(index) == slice_num + 1 + index
Row == PoolSlice \cup {Root(index) : index \in 0 .. table_size - 1}
Values == (Data \ {0}) \cup {NoValues}         \* 0 is what a new row has

VARIABLES
    rows,       \* by row: active, key, data, next
    pool,
    row_num,
    hash,       \* the bucket of a key; chosen before the table is used
    observed,   \* whether the answers of this behaviour are recorded; never changes
    answer      \* the last call, what it was given and what it returned; NoValues between calls

tableVars == <<rows, pool, row_num, hash, observed, answer>>

TableInit ==
    /\ rows = [r \in Row |-> [active |-> 0, key |-> NoKey, data |-> 0, next |-> nullptr]]
    /\ pool = pool_init /\ row_num = 0
    /\ hash \in HashFuncs
    /\ observed \in BOOLEAN /\ answer = NoValues

Answer(op, key, args, result, data) ==
    answer' = IF observed
              THEN [op |-> op, key |-> key, args |-> args, result |-> result, data |-> data]
              ELSE answer

root(key) == Root(hash[key])

\* The rows of a bucket, in the order in which find_row() and forward() meet them.
chain(first) ==
    IF rows[first].active = 0 THEN <<>>
    ELSE ListFrom([r \in Row |-> rows[r].next], first, slice_num + 1)

\* find_row(): the place of a key in its chain, 0 if it is not there.
find_row(key) ==
    LET rows_of_bucket == chain(root(key))
        here == {n \in 1 .. Len(rows_of_bucket) : rows[rows_of_bucket[n]].key = key}
    IN IF here = {} THEN 0 ELSE CHOOSE n \in here : \A m \in here : n <= m

found(key) == chain(root(key))[find_row(key)]

match_values(row, expected) == expected = NoValues \/ row.data = expected
apply_values(row, values) == IF values = NoValues THEN row ELSE [row EXCEPT !.data = values]

\* Mutant: the columns keep what the memory held.
clear_row_forgotten(row) == row

clear_row(row) == [row EXCEPT !.data = 0]

\* Neither touches the data, which lies behind the structure.
clear(row) == [row EXCEPT !.active = 0, !.key = NoKey, !.next = nullptr]
init_row(row, key) == [row EXCEPT !.active = 1, !.key = key, !.next = nullptr]

---------------------------------------------------------------------------

\* A key that find_row() did not find gets the root, or a slice at the end of
\* the chain if there is one left.
insert(op, key, values) ==
    LET new(row) == apply_values(clear_row(init_row(row, key)), values)
        first == root(key)
        last == chain(first)[Len(chain(first))]
        slice == pool.head
    IN \/ /\ rows[first].active = 0
          /\ rows' = [rows EXCEPT ![first] = new(@)]
          /\ row_num' = row_num + 1 /\ UNCHANGED pool
          /\ Answer(op, key, <<values>>, "yes", NoValues)
       \/ /\ rows[first].active = 1 /\ can_alloc(pool)
          /\ pool' = pool_alloc(pool)
          /\ rows' = [rows EXCEPT ![slice] = new(@), ![last].next = slice]
          /\ row_num' = row_num + 1
          /\ Answer(op, key, <<values>>, "yes", NoValues)
       \/ /\ rows[first].active = 1 /\ ~can_alloc(pool)
          /\ UNCHANGED <<rows, pool, row_num>> /\ Answer(op, key, <<values>>, "full", NoValues)

write(op, key, args, values) ==
    /\ rows' = [rows EXCEPT ![found(key)] = apply_values(@, values)]
    /\ UNCHANGED <<pool, row_num>> /\ Answer(op, key, args, "yes", NoValues)

fail(op, key, args) == UNCHANGED <<rows, pool, row_num>> /\ Answer(op, key, args, "no", NoValues)

\* delete_row(): the root is emptied, or takes over its successor; another row
\* is taken out of the chain.
delete_row(key) ==
    LET first == root(key)
        row == found(key)
        next == rows[row].next
        previous == chain(first)[find_row(key) - 1]
    IN /\ \/ /\ row = first /\ next = nullptr
             /\ rows' = [rows EXCEPT ![row] = clear(@)] /\ UNCHANGED pool
          \/ /\ row = first /\ next # nullptr
             /\ rows' = [rows EXCEPT ![row].next = rows[next].next, ![row].key = rows[next].key,
                                     ![row].data = rows[next].data, ![next] = clear(@)]
             /\ pool' = pool_free(pool, next)
          \/ /\ row # first
             /\ rows' = [rows EXCEPT ![previous].next = next, ![row] = clear(@)]
             /\ pool' = pool_free(pool, row)
       /\ row_num' = row_num - 1

---------------------------------------------------------------------------

set(key, values) ==
    \/ find_row(key) # 0 /\ write("set", key, <<values>>, values)
    \/ find_row(key) = 0 /\ insert("set", key, values)

add(key, values) ==
    \/ find_row(key) # 0 /\ fail("add", key, <<values>>)
    \/ find_row(key) = 0 /\ insert("add", key, values)

update(key, values) ==
    \/ find_row(key) # 0 /\ write("update", key, <<values>>, values)
    \/ find_row(key) = 0 /\ fail("update", key, <<values>>)

matches(key, expected) == find_row(key) # 0 /\ match_values(rows[found(key)], expected)

cmpset(key, expected, values) ==
    \/ matches(key, expected) /\ write("cmpset", key, <<expected, values>>, values)
    \/ ~matches(key, expected) /\ fail("cmpset", key, <<expected, values>>)

cmpdel(key, expected) ==
    \/ /\ matches(key, expected) /\ delete_row(key) /\ Answer("cmpdel", key, <<expected>>, "yes", NoValues)
    \/ ~matches(key, expected) /\ fail("cmpdel", key, <<expected>>)

getdel(key) ==
    \/ /\ find_row(key) # 0 /\ delete_row(key)
       /\ Answer("getdel", key, <<>>, "yes", rows[found(key)].data)
    \/ find_row(key) = 0 /\ fail("getdel", key, <<>>)

del(key) ==
    \/ find_row(key) # 0 /\ delete_row(key) /\ Answer("del", key, <<>>, "yes", NoValues)
    \/ find_row(key) = 0 /\ fail("del", key, <<>>)

get(key) ==
    /\ UNCHANGED <<rows, pool, row_num>>
    /\ \/ find_row(key) # 0 /\ Answer("get", key, <<>>, "yes", rows[found(key)].data)
       \/ find_row(key) = 0 /\ Answer("get", key, <<>>, "no", NoValues)

TableCall ==
    /\ answer = NoValues
    /\ UNCHANGED <<hash, observed>>
    /\ \E key \in Key :
          \/ \E values \in Values : set(key, values) \/ add(key, values) \/ update(key, values)
          \/ \E expected, values \in Values : cmpset(key, expected, values)
          \/ \E expected \in Values : cmpdel(key, expected)
          \/ getdel(key) \/ del(key) \/ get(key)

\* The caller has its answer; the next call may come.
Answered ==
    /\ answer # NoValues /\ answer' = NoValues
    /\ UNCHANGED <<rows, pool, row_num, hash, observed>>

TableNext == TableCall \/ Answered

TableSpec == TableInit /\ [][TableNext]_tableVars

---------------------------------------------------------------------------

Roots == {Root(index) : index \in 0 .. table_size - 1}
RowsOf(first) == LET c == chain(first) IN {c[n] : n \in DOMAIN c}
Used == UNION {RowsOf(first) : first \in Roots}
Active == {r \in Row : rows[r].active = 1}
Keys == {rows[r].key : r \in Active}

\* The map that the table stands for.
content ==
    LET active == Active IN
    [key \in {rows[r].key : r \in active} |-> rows[CHOOSE r \in active : rows[r].key = key].data]

\* After any sequence of insertions and deletions (alloc_row(), delete_row() and
\* the list of FixedPool): the list of the pool is sound, a slice is busy exactly
\* while it is in a chain, no row is in two chains or twice in one, every key is
\* in the bucket of its hash and only there, and count() is the number of rows.
RowsAreExact ==
    /\ ListIsSound(pool)
    /\ Used = Active /\ Used \ Roots = {s \in PoolSlice : pool.lock[s] = 1}
    /\ \A first \in Roots : \A r \in RowsOf(first) : root(rows[r].key) = first
    /\ \A r, s \in Used : rows[r].key = rows[s].key => r = s
    /\ \A first \in Roots : Len(chain(first)) = Cardinality(RowsOf(first))
    /\ row_num = Cardinality(Used)

KV == INSTANCE KeyValue WITH slices <- slice_num

\* The operations of Table implement a map from keys to data: each takes effect
\* on the whole map as KeyValue says and returns what KeyValue allows, a reused
\* row shows nothing of the key that had it before, and a set() or add() that
\* reports the lack of space found every slice in use.
TableIsMap == KV!KvInit /\ [][observed => KV!KvNext]_(KV!kvVars)
=============================================================================
