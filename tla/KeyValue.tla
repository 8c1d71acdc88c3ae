------------------------------ MODULE KeyValue ------------------------------
(***************************************************************************)
(* What the shared-memory table promises: it is a map from keys to data,   *)
(* every call takes effect at once and tells the truth about what it found *)
(* and did, and a new key is refused only when the table holds more rows   *)
(* than there are slices for conflicts.                                    *)
(***************************************************************************)
EXTENDS Integers, FiniteSets, Functions, TLC

CONSTANTS
    Key, Data,
    Values,         \* what a call may write or compare with: data, or NoValues
    NoValues,
    slices

VARIABLES content, answer

kvVars == <<content, answer>>

Present(key) == key \in DOMAIN content

\* The data of a row once values, which may be none, are written into it.
Written(old, values) == IF values = NoValues THEN old ELSE values

With(key, data) == (key :> data) @@ content
Without(key) == Restrict(content, DOMAIN content \ {key})

Says(op, key, args, result, data) ==
    /\ answer'.key = key /\ answer'.op = op
    /\ answer' = [op |-> op, key |-> key, args |-> args, result |-> result, data |-> data]

KvInit == content = [k \in {} |-> 0] /\ answer = NoValues

\* A new key begins with every column zero, whatever its memory held before.
Put(op, key, args, values) ==
    \/ /\ Says(op, key, args, "yes", NoValues)
       /\ content' = With(key, Written(IF Present(key) THEN content[key] ELSE 0, values))
    \/ /\ Says(op, key, args, "full", NoValues)
       /\ ~Present(key) /\ Cardinality(DOMAIN content) > slices
       /\ UNCHANGED content

Refuse(op, key, args) == Says(op, key, args, "no", NoValues) /\ UNCHANGED content

Add(key, values) ==
    \/ Put("add", key, <<values>>, values) /\ ~Present(key)
    \/ Refuse("add", key, <<values>>) /\ Present(key)

Update(key, values) ==
    \/ Put("update", key, <<values>>, values) /\ Present(key)
    \/ Refuse("update", key, <<values>>) /\ ~Present(key)

Matches(key, expected) == Present(key) /\ (expected = NoValues \/ content[key] = expected)

Cmpset(key, expected, values) ==
    \/ Put("cmpset", key, <<expected, values>>, values) /\ Matches(key, expected)
    \/ Refuse("cmpset", key, <<expected, values>>) /\ ~Matches(key, expected)

\* Only getdel() returns the data that it removes.
Remove(op, key, args, expected) ==
    \/ /\ \E data \in {NoValues} \cup Data :
             /\ Says(op, key, args, "yes", data)
             /\ Matches(key, expected) /\ data = IF op = "getdel" THEN content[key] ELSE NoValues
       /\ content' = Without(key)
    \/ Refuse(op, key, args) /\ ~Matches(key, expected)

Get(key) ==
    \/ \E data \in Data :
          /\ Says("get", key, <<>>, "yes", data)
          /\ UNCHANGED content /\ Present(key) /\ content[key] = data
    \/ Refuse("get", key, <<>>) /\ ~Present(key)

Call ==
    \E key \in Key :
        \/ \E values \in Values :
              \/ Put("set", key, <<values>>, values) \/ Add(key, values) \/ Update(key, values)
              \/ \E expected \in Values : Cmpset(key, expected, values)
        \/ \E expected \in Values : Remove("cmpdel", key, <<expected>>, expected)
        \/ Remove("getdel", key, <<>>, NoValues) \/ Remove("del", key, <<>>, NoValues)
        \/ Get(key)

\* One call after the other: each is answered before the next.
KvNext ==
    \/ answer = NoValues /\ Call
    \/ answer # NoValues /\ answer' = NoValues /\ UNCHANGED content

KvSpec == KvInit /\ [][KvNext]_kvVars
=============================================================================
