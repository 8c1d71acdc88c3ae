----------------------------- MODULE RingBuffer -----------------------------
(***************************************************************************)
(* The ring buffer of memory/ring_buffer.cc.  One process allocates; any   *)
(* process frees, at the same time and in any order.  Memory is counted in *)
(* units of SW_DEFAULT_ALIGNMENT, which is also the size of the header     *)
(* (RingBufferItem) in front of every block.                               *)
(*                                                                         *)
(* free() is two steps, the lock and the count, since alloc() may run      *)
(* between them; an iteration of collect() is one, since frees only ever   *)
(* clear locks and add to the count.                                       *)
(***************************************************************************)
EXTENDS Integers, Sequences, FiniteSets

CONSTANTS
    ring_size       \* impl->size: units of memory, the header of the ring excluded

ItemHeader == 1
Offset == 0 .. ring_size - 1
Width == 536870912                  \* what a uint32_t counts, in units: 2^29

\* The constructor wants room for more than the two headers; size is a uint32_t.
ASSUME RingAssumption == ring_size \in Nat /\ ring_size > ItemHeader /\ ring_size < Width

\* A unit of the item at an offset; lock and length mean something in its first.
item(offset, lock, length) == [item |-> offset, lock |-> lock, length |-> length]

VARIABLES
    status, alloc_offset, collect_offset, free_count,
    memory,        \* by unit, the item that it belongs to, and the header if it is one
    pc,         \* alloc(): idle, collect, take
    want,       \* the length asked for, 0 if none
    i,          \* the loop of collect()
    freeing,    \* the calls of free() that have unlocked a block and not counted it yet
    used,       \* history: the blocks that somebody has, as <<offset, length>>
    items       \* history: the items between collect_offset and alloc_offset

ringVars == <<status, alloc_offset, collect_offset, free_count, memory, pc, want, i, freeing,
              used, items>>

RingInit ==
    /\ status = 0 /\ alloc_offset = 0 /\ collect_offset = 0 /\ free_count = 0
    /\ memory = [a \in Offset |-> item(0, 0, 0)]
    /\ pc = "idle" /\ want = 0 /\ i = 0
    /\ freeing = 0 /\ used = {} /\ items = <<>>

-----------------------------------------------------------------------------
(***************************************************************************)
(* alloc().  A request that no ring of this size can meet is refused, but  *)
(* it may have skipped the rest of the ring; all of them behave like one   *)
(* for the whole ring.                                                     *)
(***************************************************************************)
Request(length) ==
    /\ pc = "idle" /\ want = 0
    /\ want' = length
    /\ UNCHANGED <<status, alloc_offset, collect_offset, free_count, memory, pc, i, freeing, used, items>>

AskNoMore ==
    /\ pc = "idle" /\ want # 0
    /\ want' = 0
    /\ UNCHANGED <<status, alloc_offset, collect_offset, free_count, memory, pc, i, freeing, used, items>>

Begin ==
    /\ pc = "idle" /\ want # 0
    /\ pc' = IF free_count > 0 THEN "collect" ELSE "take"
    /\ i' = 0
    /\ UNCHANGED <<status, alloc_offset, collect_offset, free_count, memory, want, freeing, used, items>>

\* Mutant: one free item is left.
Collectable_but_one == i + 1 < free_count /\ memory[collect_offset].lock = 0

\* The loop goes on: something is freed, and it is the first item.
Collectable == i < free_count /\ memory[collect_offset].lock = 0

AtEnd(offset) ==
    LET end == offset + ItemHeader > ring_size
    IN  /\ collect_offset' = IF end THEN 0 ELSE offset
        /\ status' = IF end THEN 0 ELSE status

collect ==
    /\ pc = "collect"
    /\ IF Collectable
       THEN /\ AtEnd(collect_offset + memory[collect_offset].length + ItemHeader)
            /\ free_count' = free_count - 1
            /\ i' = i + 1
            /\ items' = Tail(items)
            /\ UNCHANGED pc
       ELSE /\ pc' = "take" /\ i' = 0
            /\ UNCHANGED <<status, collect_offset, free_count, items>>
    /\ UNCHANGED <<alloc_offset, memory, want, freeing, used>>

\* The block does not fit behind the others: the rest of the ring is skipped.
Skips == status = 0 /\ alloc_offset + want + ItemHeader > ring_size - ItemHeader

skip == item(alloc_offset, 0, ring_size - alloc_offset - ItemHeader)

\* Mutant: the room is counted up to the end of the ring, not to the collector.
capacity_to_end == IF Skips THEN collect_offset ELSE ring_size - alloc_offset

capacity ==
    IF Skips THEN collect_offset
    ELSE IF status = 0 THEN ring_size - alloc_offset
    ELSE (collect_offset - alloc_offset) % Width

\* What the item that is skipped adds to free_count.
Skipped == IF Skips THEN 1 ELSE 0

Take ==
    LET at == IF Skips THEN 0 ELSE alloc_offset
        skipped == IF Skips THEN [memory EXCEPT ![alloc_offset] = skip] ELSE memory
        behind == IF Skips THEN Append(items, alloc_offset) ELSE items
    IN  /\ pc = "take"
        /\ free_count' = free_count + Skipped
        /\ status' = IF Skips THEN 1 ELSE status
        /\ IF capacity < want + ItemHeader
           THEN /\ alloc_offset' = at
                /\ memory' = skipped
                /\ items' = behind
                /\ UNCHANGED <<want, used>>
           ELSE /\ alloc_offset' = at + want + ItemHeader
                /\ memory' = [a \in Offset |->
                             IF a = at THEN item(at, 1, want)
                             ELSE IF a \in at + 1 .. at + want THEN item(at, 0, 0)
                             ELSE skipped[a]]
                /\ items' = Append(behind, at)
                /\ used' = used \cup {<<at, want>>}
                /\ want' = 0
        /\ pc' = "idle"
        /\ UNCHANGED <<collect_offset, i, freeing>>

-----------------------------------------------------------------------------
(***************************************************************************)
(* free()                                                                  *)
(***************************************************************************)
FreeLock(b) ==
    /\ \E block \in used : b = block[1] /\ used' = used \ {block}
    /\ memory[b].lock = 1
    /\ memory' = [memory EXCEPT ![b].lock = 0]
    /\ freeing' = freeing + 1
    /\ UNCHANGED <<status, alloc_offset, collect_offset, free_count, pc, want, i, items>>

FreeCount ==
    /\ freeing > 0
    /\ free_count' = free_count + 1
    /\ freeing' = freeing - 1
    /\ UNCHANGED <<status, alloc_offset, collect_offset, memory, pc, want, i, used, items>>

Allocate == Begin \/ collect \/ Take

RingNext ==
    \/ Allocate \/ AskNoMore \/ FreeCount
    \/ \E length \in 1 .. ring_size : Request(length)
    \/ \E b \in Offset : FreeLock(b)

RingSpec == RingInit /\ [][RingNext]_ringVars

(***************************************************************************)
(* Fairness: the allocating process tries again after a failure, blocks    *)
(* are freed in the end, and a free that has begun ends.                   *)
(***************************************************************************)
RingFairness ==
    /\ WF_ringVars(Allocate) /\ WF_ringVars(FreeCount)
    /\ \A b \in Offset : WF_ringVars(FreeLock(b))

RingFairSpec == RingSpec /\ RingFairness

-----------------------------------------------------------------------------
(***************************************************************************)
(* Properties.                                                             *)
(***************************************************************************)

\* Every variable has its type; in particular both offsets stay in the ring.
RingTypeOK ==
    /\ status \in {0, 1}
    /\ alloc_offset \in Offset /\ collect_offset \in Offset
    /\ free_count \in 0 .. ring_size /\ i \in 0 .. ring_size
    /\ memory \in [Offset -> [item : Offset, lock : {0, 1}, length : 0 .. ring_size]]
    /\ pc \in {"idle", "collect", "take"} /\ want \in 0 .. ring_size
    /\ freeing \in 0 .. ring_size /\ used \subseteq Offset \X (1 .. ring_size) /\ items \in Seq(Offset)

\* Two blocks in use never share memory: the header of each is as alloc()
\* wrote it, and behind it are its own data (ring_buffer.cc:104-158).
BlocksIntact ==
    \A block \in used :
        LET b == block[1]
        IN  /\ b + block[2] < ring_size
            /\ memory[b] = item(b, 1, block[2])
            /\ \A a \in b .. b + block[2] : memory[a].item = b

\* collect() reads headers, in the order in which the items were made, and never
\* the data of a block; and free_count is the number of items that are free and
\* not collected, the ones whose free() has still to count them excepted, so that
\* it never runs past the blocks in use and leaves no freed item for ever
\* (ring_buffer.cc:87-102, 160-175).
CollectsItems ==
    /\ RingTypeOK
    /\ items # <<>> => collect_offset = Head(items) /\ memory[collect_offset].item = collect_offset
    /\ free_count = Cardinality({k \in 1 .. Len(items) : memory[items[k]].lock = 0}) - freeing

\* Whatever the order in which blocks are freed and counted, nobody's block is
\* overwritten and the collector follows the items (the two properties above).
RingIsSound == BlocksIntact /\ CollectsItems

\* A process that keeps asking for a block the ring can hold gets it once the
\* others are freed, although one call of collect() may leave freed items (the
\* loop of core-tests/src/memory/ringbuffer.cpp asks up to 100 times).
Servable == want \in 1 .. ring_size - 2 * ItemHeader
AllocSucceeds == Servable ~> want = 0
=============================================================================
