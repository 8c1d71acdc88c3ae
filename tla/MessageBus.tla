----------------------------- MODULE MessageBus -----------------------------
(***************************************************************************)
(* The message bus of protocol/message_bus.cc: messages between processes  *)
(* over unix datagram sockets, cut into chunks if they are too long and    *)
(* put together again by the reader in packet_pool_, by message id.        *)
(* Several senders, each with a bus of its own, write to the pipes of one  *)
(* reader: all to one (the reactors and a worker), or each to another (the *)
(* workers and a reactor).  A sender with an event loop never waits: what  *)
(* the pipe does not take stays in the out_buffer of its socket until the  *)
(* loop can write again (Reactor::write_func, _writable_callback).  A pipe *)
(* outlives the reader, which may crash and be replaced; senders go on.  A *)
(* message is a number of units of data.                                   *)
(***************************************************************************)
EXTENDS Integers, Sequences, FiniteSets, Functions, TLC

CONSTANTS
    Sender, Pipe,
    Setups,             \* the ways to use the bus, see BusAssumption
    Lengths,            \* lengths of messages
    max_size,           \* buffer_size_ - sizeof(DataHead)
    SW_WORKER_MAX_RECV_CHUNK_COUNT,
    NoPipe,
    MaxMessages, MaxFailures, PipeCapacity      \* bounds; errors and crashes together

ASSUME BusAssumption ==
    /\ Setups \subseteq [route : [Sender -> Pipe], always_chunked_transfer : BOOLEAN,
                        event_loop : BOOLEAN, reader : {"read", "read_with_buffer"}]
    /\ NoPipe \notin Pipe
    /\ Lengths \subseteq Nat /\ max_size \in Nat \ {0}
    /\ SW_WORKER_MAX_RECV_CHUNK_COUNT \in Nat \ {0}

SW_IPC_MSG_MIN == 1

VARIABLES
    setup,              \* one of Setups, which never changes
    next_id, length,    \* the id generator, and by message id its length
    sent_by,            \* history: by message id, its sender
    out,                \* by sender: the call of write() that is under way
    out_buffer,         \* by sender: the datagrams that wait for room in its pipe
    pipes,              \* by pipe: the datagrams in it
    packet_pool,        \* by message id: the data received so far
    reading,            \* the pipe that the reader is at, NoPipe in the event loop
    recv_chunk_count,
    errors, crashes,    \* counted up to their bound
    written,            \* history: the messages whose write() returned true
    broken,             \* history: those of which the reader had a part when it crashed
    delivered           \* history: what the reader has handled, as id and data

busVars == <<setup, next_id, length, sent_by, out, out_buffer, pipes,
             packet_pool, reading, recv_chunk_count, errors, crashes, written, broken, delivered>>

PipeOf(s) == setup.route[s]
Unit(id, n) == <<id, n>>
Payload(id) == [n \in 1 .. length[id] |-> Unit(id, n)]

NoWrite == [id |-> 0]

BusInit ==
    /\ setup \in Setups
    /\ next_id = 1 /\ length = <<>> /\ sent_by = <<>>
    /\ out = [s \in Sender |-> NoWrite]
    /\ out_buffer = [s \in Sender |-> <<>>]
    /\ pipes = [p \in Pipe |-> <<>>]
    /\ packet_pool = <<>> /\ reading = NoPipe /\ recv_chunk_count = 0
    /\ errors = 0 /\ crashes = 0
    /\ written = {} /\ broken = {} /\ delivered = <<>>

---------------------------------------------------------------------------
(* write(), one datagram at a time.  "whole" is the attempt to send the    *)
(* message in one piece, which has no flags.                               *)

Writing(s) == out[s] # NoWrite

BeginWrite(s) ==
    /\ ~Writing(s) /\ next_id <= MaxMessages
    /\ \E len \in Lengths :
          /\ length' = Append(length, len) /\ sent_by' = Append(sent_by, s)
          /\ out' = [out EXCEPT ![s] =
                [id |-> next_id, offset |-> 0, max_length |-> max_size, begin |-> TRUE,
                 whole |-> len = 0 \/ (~setup.always_chunked_transfer /\ len <= max_size)]]
    /\ next_id' = next_id + 1
    /\ UNCHANGED <<setup, out_buffer, pipes, packet_pool, reading, recv_chunk_count, errors, crashes,
                   written, broken, delivered>>

Rest(s) == length[out[s].id] - out[s].offset
copy_n(s) == IF out[s].whole \/ Rest(s) <= out[s].max_length THEN Rest(s) ELSE out[s].max_length
IsLast(s) == copy_n(s) = Rest(s)

Datagram(s) ==
    LET w == out[s] IN
    [id |-> w.id, chunked |-> ~w.whole, begin |-> ~w.whole /\ w.begin, end |-> ~w.whole /\ IsLast(s),
     data |-> SubSeq(Payload(w.id), w.offset + 1, w.offset + copy_n(s))]

HasRoom(p) == Len(pipes[p]) < PipeCapacity

\* A datagram was taken: write() goes on with the next one, or returns true.
Taken(s) ==
    /\ IF IsLast(s)
       THEN out' = [out EXCEPT ![s] = NoWrite] /\ written' = written \cup {out[s].id}
       ELSE /\ out' = [out EXCEPT ![s].offset = @ + copy_n(s), ![s].begin = FALSE]
            /\ UNCHANGED written
    /\ UNCHANGED <<setup, next_id, length, sent_by, packet_pool, reading, recv_chunk_count,
                   errors, crashes, broken, delivered>>

\* The pipe takes it.  Without an event loop write() waits until it does.
SendOk(s) ==
    /\ Writing(s) /\ out_buffer[s] = <<>> /\ HasRoom(PipeOf(s))
    /\ pipes' = [pipes EXCEPT ![PipeOf(s)] = Append(@, Datagram(s))]
    /\ Taken(s) /\ UNCHANGED out_buffer

\* The pipe is full, or datagrams wait already: this one waits behind them.
SendLater(s) ==
    /\ Writing(s) /\ setup.event_loop
    /\ out_buffer[s] # <<>> \/ ~HasRoom(PipeOf(s))
    /\ out_buffer' = [out_buffer EXCEPT ![s] = Append(@, Datagram(s))]
    /\ Taken(s) /\ UNCHANGED pipes

\* ENOBUFS or EMSGSIZE: smaller chunks are tried once.  A header alone is not
\* tried again, and any other error ends the call.  When datagrams wait already
\* it is out_buffer that is full, and errno is what it happened to be.
SendError(s) ==
    /\ Writing(s) /\ errors + crashes < MaxFailures
    /\ errors' = errors + 1
    /\ \/ /\ length[out[s].id] > 0 /\ out[s].max_length > SW_IPC_MSG_MIN
          /\ out' = [out EXCEPT ![s].max_length = SW_IPC_MSG_MIN, ![s].whole = FALSE]
       \/ out' = [out EXCEPT ![s] = NoWrite]
    /\ UNCHANGED <<setup, next_id, length, sent_by, out_buffer, pipes, packet_pool, reading,
                   recv_chunk_count, crashes, written, broken, delivered>>

\* The event loop of a sender finds the pipe writable and sends what waits, as
\* long as there is room (_writable_callback, handle_send).
Flush(s) ==
    /\ ~Writing(s) /\ out_buffer[s] # <<>> /\ HasRoom(PipeOf(s))
    /\ pipes' = [pipes EXCEPT ![PipeOf(s)] = Append(@, Head(out_buffer[s]))]
    /\ out_buffer' = [out_buffer EXCEPT ![s] = Tail(@)]
    /\ UNCHANGED <<setup, next_id, length, sent_by, out, packet_pool, reading,
                   recv_chunk_count, errors, crashes, written, broken, delivered>>

---------------------------------------------------------------------------
(* read() and read_with_buffer(), one datagram at a time.                  *)

\* The event loop calls the reader for a pipe with data; inside the call it
\* stays with that pipe.
At(p) == reading \in {NoPipe, p}

Deliver(id, data) == delivered' = Append(delivered, [id |-> id, data |-> data])

ReturnToLoop == reading' = NoPipe /\ recv_chunk_count' = 0

\* Mutant: a chunk whose message is not known begins one.
Abnormal_never(d) == FALSE

\* "abnormal pipeline data": a chunk of a message whose beginning was not seen.
Abnormal(d) == d.id \notin DOMAIN packet_pool /\ ~d.begin

\* get_packet_buffer(), prepare_packet() and what the caller does with a whole
\* message: it handles it and calls pop().
Receive(p) ==
    LET d == Head(pipes[p])
        known == d.id \in DOMAIN packet_pool
        data == (IF known THEN packet_pool[d.id] ELSE <<>>) \o d.data
        count == recv_chunk_count + (IF setup.reader = "read" THEN 1 ELSE 2)
    IN /\ At(p) /\ pipes[p] # <<>>
       /\ pipes' = [pipes EXCEPT ![p] = Tail(@)]
       /\ \/ /\ ~d.chunked
             /\ Deliver(d.id, d.data) /\ ReturnToLoop /\ UNCHANGED packet_pool
          \/ /\ d.chunked /\ Abnormal(d)
             /\ ReturnToLoop /\ UNCHANGED <<packet_pool, delivered>>
          \/ /\ d.chunked /\ ~Abnormal(d) /\ d.end
             /\ packet_pool' = Restrict(packet_pool, DOMAIN packet_pool \ {d.id})
             /\ Deliver(d.id, data) /\ ReturnToLoop
          \/ /\ d.chunked /\ ~Abnormal(d) /\ ~d.end
             /\ packet_pool' = (d.id :> data) @@ packet_pool
             /\ IF count >= SW_WORKER_MAX_RECV_CHUNK_COUNT THEN ReturnToLoop
                ELSE reading' = p /\ recv_chunk_count' = count
             /\ UNCHANGED delivered
       /\ UNCHANGED <<setup, next_id, length, sent_by, out, out_buffer, errors, crashes,
                      written, broken>>

WouldBlock(p) ==
    /\ reading = p /\ pipes[p] = <<>>
    /\ ReturnToLoop
    /\ UNCHANGED <<setup, next_id, length, sent_by, out, out_buffer, pipes, packet_pool, errors,
                   crashes, written, broken, delivered>>

\* The reader's process ends and another takes its place at the pipes.
Crash ==
    /\ errors + crashes < MaxFailures /\ crashes' = crashes + 1
    /\ broken' = broken \cup DOMAIN packet_pool
    /\ packet_pool' = <<>> /\ ReturnToLoop
    /\ UNCHANGED <<setup, next_id, length, sent_by, out, out_buffer, pipes, errors, written,
                   delivered>>

BusNext ==
    \/ \E s \in Sender : BeginWrite(s) \/ SendOk(s) \/ SendLater(s) \/ SendError(s) \/ Flush(s)
    \/ \E p \in Pipe : Receive(p) \/ WouldBlock(p)
    \/ Crash

BusSpec == BusInit /\ [][BusNext]_busVars

Reads == \E p \in Pipe : Receive(p) \/ WouldBlock(p)
Writes(s) == SendOk(s) \/ SendLater(s) \/ Flush(s)

\* The reader does not stop while a pipe is readable, and a sender goes on with
\* its write and its event loop; nothing is assumed about the order in which the
\* reader takes the pipes.
BusFairness == WF_busVars(Reads) /\ \A s \in Sender : WF_busVars(Writes(s))

---------------------------------------------------------------------------

Ids == {delivered[n].id : n \in DOMAIN delivered}
Holds(datagrams, id) == \E n \in DOMAIN datagrams : datagrams[n].id = id
OnItsWay(id) ==
    \/ \E p \in Pipe : Holds(pipes[p], id)
    \/ \E s \in Sender : Holds(out_buffer[s], id)

\* However the chunks of several senders are mixed, in out_buffer or in the pipe,
\* wherever the reader goes back to its event loop, and although the rest of a
\* message may meet a reader that never saw its beginning: what read() gives to
\* be handled is whole messages that were written, each once, those of a sender in
\* the order of its writes; and packet_pool_ keeps nothing of a message that was
\* written and has left out_buffer and the pipe.
MessagesAreWhole ==
    /\ \A n \in DOMAIN delivered :
          /\ delivered[n].data = Payload(delivered[n].id)
          /\ delivered[n].id \in written
          /\ \A m \in 1 .. n - 1 :
                sent_by[delivered[m].id] = sent_by[delivered[n].id] =>
                    delivered[m].id < delivered[n].id
    /\ Cardinality(Ids) = Len(delivered)
    /\ \A id \in DOMAIN packet_pool \cap written : OnItsWay(id)

\* A message whose write() returned true is handled, unless the reader crashed
\* when it had received a part of it.
WrittenIsDelivered ==
    \A id \in 1 .. MaxMessages : id \in written ~> id \in Ids \cup broken
=============================================================================
