----------------------------- MODULE ShmChannel -----------------------------
(***************************************************************************)
(* The channel of core/channel.cc: slices of bytes in a ring of memory     *)
(* that processes share.  A slice is a length followed by the data; it may *)
(* begin anywhere below size and run into the overflow space behind it.    *)
(* push() and pop() hold the lock of the channel, so each is one step; one *)
(* that returns SW_ERR changes nothing.                                    *)
(***************************************************************************)
EXTENDS Integers, Sequences

CONSTANTS
    size, maxlen,
    MaxPush         \* bound on the slices pushed

ASSUME ChannelAssumption ==
    size \in Nat \ {0} /\ maxlen \in 0 .. size /\ MaxPush \in Nat

Header == 4                         \* sizeof(ChannelSlice)
Top == size + maxlen + Header       \* make() adds the overflow space
Address == 0 .. Top - 1
Slice == [id : 1 .. MaxPush, length : 0 .. maxlen]
Unwritten == [id |-> 0, length |-> 0]

VARIABLES
    head, tail, head_tag, tail_tag, num, bytes,
    mem,            \* what is at each address: a slice, and which byte of it
    pushed, popped  \* history: the slices pushed and what pop() has returned

shmVars == <<head, tail, head_tag, tail_tag, num, bytes, mem, pushed, popped>>

ShmInit ==
    /\ head = 0 /\ tail = 0 /\ head_tag = 0 /\ tail_tag = 0
    /\ num = 0 /\ bytes = 0
    /\ mem = [a \in Address |-> <<Unwritten, 0>>]
    /\ pushed = <<>> /\ popped = <<>>

empty == num = 0

full ==
    \/ head = tail /\ tail_tag # head_tag
    \/ bytes + Header * num = size

-----------------------------------------------------------------------------
\* Mutant: the room up to the head is not looked at.
Accepts_any(length) == length <= maxlen /\ ~full

\* in() takes a slice unless it would run into the one at the head.
Accepts(length) ==
    /\ length <= maxlen /\ ~full
    /\ tail < head => head - tail >= Header + length

Wraps(offset) == offset >= size

Push(length) ==
    LET slice == [id |-> Len(pushed) + 1, length |-> length]
        next == tail + Header + length
        around == ~ tail < head /\ Wraps(next)
    IN  /\ Len(pushed) < MaxPush
        /\ Accepts(length)
        /\ tail' = IF around THEN 0 ELSE next
        /\ tail_tag' = IF around THEN 1 - tail_tag ELSE tail_tag
        /\ num' = num + 1
        /\ bytes' = bytes + length
        /\ mem' = [a \in Address |-> IF a \in tail .. next - 1 THEN <<slice, a - tail>>
                                     ELSE mem[a]]
        /\ pushed' = Append(pushed, slice)
        /\ UNCHANGED <<head, head_tag, popped>>

\* What out() finds at the head: the slice, if all its bytes are still there.
Found ==
    LET slice == mem[head][1]
    IN  IF \A k \in 0 .. Header + slice.length - 1 : mem[head + k] = <<slice, k>>
        THEN slice ELSE Unwritten

Pop(buffer_length) ==
    LET length == mem[head][1].length
        next == head + Header + length
    IN  /\ ~empty /\ buffer_length >= length
        /\ head' = IF Wraps(next) THEN 0 ELSE next
        /\ head_tag' = IF Wraps(next) THEN 1 - head_tag ELSE head_tag
        /\ num' = num - 1
        /\ bytes' = bytes - length
        /\ popped' = Append(popped, Found)
        /\ UNCHANGED <<tail, tail_tag, mem, pushed>>

ShmNext == \E length \in 0 .. maxlen : Push(length) \/ Pop(length)

ShmSpec == ShmInit /\ [][ShmNext]_shmVars

-----------------------------------------------------------------------------
(***************************************************************************)
(* Properties.                                                             *)
(***************************************************************************)

\* The offsets are addresses, the tags bits, and the history is made of slices.
ShmTypeOK ==
    /\ head \in Address /\ tail \in Address
    /\ head_tag \in {0, 1} /\ tail_tag \in {0, 1}
    /\ num \in 0 .. MaxPush /\ bytes \in Nat
    /\ mem \in [Address -> (Slice \cup {Unwritten}) \X (0 .. Header + maxlen - 1)]
    /\ pushed \in Seq(Slice) /\ popped \in Seq(Slice \cup {Unwritten})

\* A slice that in() takes ends within the memory that make() asked for, and a
\* channel with nothing in it takes any slice of up to maxlen bytes: the tags never
\* leave it full for ever (channel.cc:34-46, 91-122, 127-146).
AcceptsWhatFits ==
    /\ ShmTypeOK
    /\ \A length \in 0 .. maxlen :
          /\ Accepts(length) => tail + Header + length <= Top
          /\ empty => Accepts(length)

(***************************************************************************)
(* pop() returns the slices that were pushed, whole, in order and each     *)
(* once, whatever their lengths and wherever the ring wraps around.        *)
(***************************************************************************)
Fifo == INSTANCE BoundedFifo
            WITH Data <- Slice, Bound <- (size + Header - 1) \div Header,
                 in <- pushed, out <- popped, shut <- FALSE

\* The channel implements a bounded queue of slices (channel.cc:91-146), and its
\* room is not lost by what is pushed and popped.
ShmIsFifo == Fifo!FifoSpec /\ []AcceptsWhatFits
=============================================================================
