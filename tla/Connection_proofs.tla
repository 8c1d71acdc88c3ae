------------------------- MODULE Connection_proofs -------------------------
(***************************************************************************)
(* The callbacks of a session come in their order, and a connection is     *)
(* released only after its onClose, for any number of descriptors,         *)
(* workers, sessions, calls and crashes.                                   *)
(***************************************************************************)
EXTENDS Connection, TLAPS

\* onClose of a session was run, and nothing after it.
Ran(lg, id) == lg[id] # <<>> /\ lg[id][Len(lg[id])] = "close"

Logs == {<<>>, <<"connect">>, <<"connect", "receive">>,
         <<"connect", "close">>, <<"connect", "receive", "close">>}

\* A descriptor in use and a worker inside end() have a session.
InUse == \A fd \in Fd : client[fd] # "none" \/ conn[fd].active => conn[fd].session_id # 0

InEndOf == \A w \in Worker : worker[w].pc # "idle" => worker[w].id # 0 /\ worker[w].fd # 0

\* The types, by who writes the variables.
SharedTypes ==
  /\ conn \in [Fd -> Connection]
  /\ client \in [Fd -> {"none", "open", "shut"}]
  /\ session_list \in [0..(SW_SESSION_LIST_SIZE - 1) ->
                         [fd : Fd \cup {0}, id : 0..MaxSessions]]
  /\ pipe_master \in [Worker -> Seq(Message)]
  /\ released \in [SessionId -> {"no", "closed", "idle", "forced"}]
  /\ InUse

Step == [pc : {"idle", "verified", "onClose", "finish"},
         id : 0..MaxSessions, fd : Fd \cup {0}]

WorkerTypes ==
  /\ pipe_worker \in [Worker -> Seq(Message)]
  /\ worker \in [Worker -> Step]
  /\ InEndOf

GhostTypes ==
  /\ idle_check \in IdleCheck /\ session_round \in 0..MaxSessions
  /\ given \in [SessionId -> Nat] /\ sent \in [SessionId -> Nat]

ConnBase == SharedTypes /\ WorkerTypes /\ GhostTypes

\* Ids are given once: none beyond session_round was seen by anyone.
IdsGiven ==
  /\ \A id \in SessionId : id > session_round => log[id] = <<>>
  /\ \A w \in Worker : \A i \in 1..Len(pipe_master[w]) :
       pipe_master[w][i].id <= session_round
  /\ \A fd \in Fd : conn[fd].session_id <= session_round

Connect(id) == [type |-> "CONNECT", id |-> id]

\* onConnect was run for the session of a message, or is before it in its pipe.
ConnectFirst ==
  \A w \in Worker : \A i \in 1..Len(pipe_master[w]) :
    IF pipe_master[w][i].type = "CONNECT"
    THEN log[pipe_master[w][i].id] = <<>>
    ELSE \/ log[pipe_master[w][i].id] # <<>>
         \/ \E j \in 1..(i - 1) : pipe_master[w][j] = Connect(pipe_master[w][i].id)

ConnectOnce ==
  \A v, w \in Worker : \A i \in 1..Len(pipe_master[v]), j \in 1..Len(pipe_master[w]) :
    /\ pipe_master[v][i].type = "CONNECT" /\ pipe_master[w][j].type = "CONNECT"
    /\ pipe_master[v][i].id = pipe_master[w][j].id
    => v = w /\ i = j

Announced ==
  \A fd \in Fd : conn[fd].session_id # 0 =>
    \/ log[conn[fd].session_id] # <<>>
    \/ \E j \in 1..Len(pipe_master[BoundTo[fd]]) :
         pipe_master[BoundTo[fd]][j] = Connect(conn[fd].session_id)

PipesInOrder == IdsGiven /\ ConnectFirst /\ ConnectOnce /\ Announced

SessionsDiffer ==
  \A f, g \in Fd :
    conn[f].session_id = conn[g].session_id /\ conn[f].session_id # 0 => f = g

\* A close is to be made when the queue is written.
Asked(c) == c.close_queued \/ \E i \in 1..Len(c.out_buffer) : c.out_buffer[i] = "CLOSE"

\* The flag closed of a connection in use says whether onClose was run.
FlagsTrue ==
  \A fd \in Fd :
    /\ conn[fd].session_id # 0 /\ Ran(log, conn[fd].session_id) => conn[fd].closed
    /\ conn[fd].active /\ conn[fd].closed => Ran(log, conn[fd].session_id)
    /\ Asked(conn[fd]) => conn[fd].session_id # 0 /\ Ran(log, conn[fd].session_id)

\* The connection of a session is gone.
Gone(conns, id) == \A fd \in Fd : ~(conns[fd].active /\ conns[fd].session_id = id)

EndsTrue ==
  \A w \in Worker : worker[w].pc # "idle" =>
    /\ log[worker[w].id] # <<>>
    /\ worker[w].pc \in {"onClose", "finish"} => Ran(log, worker[w].id) \/ Gone(conn, worker[w].id)

AnswersTrue ==
  \A w \in Worker : \A i \in 1..Len(pipe_worker[w]) :
    pipe_worker[w][i].type = "CLOSE" => Ran(log, pipe_worker[w][i].id)

\* The ways of a release that did not find close_force set.
Unforced == {"closed", "idle"}

ReleasedTrue == \A id \in SessionId : released[id] \in Unforced => Ran(log, id)

LogsTrue == log \in [SessionId -> Logs]

Protocol ==
  /\ LogsTrue /\ PipesInOrder /\ SessionsDiffer /\ FlagsTrue
  /\ EndsTrue /\ AnswersTrue /\ ReleasedTrue

ConnInv == ConnBase /\ (~reused => Protocol)

-----------------------------------------------------------------------------
(* What a handler of the reactor does to a connection.                     *)

\* The connection as one that is not closed by it.
Moved(c, c2) ==
  /\ c2 \in Connection /\ c2.session_id = c.session_id
  /\ c2.active => c.active
  /\ c.closed => c2.closed
  /\ c2.active /\ c2.closed => c.closed

\* A message about the connection is sent to its worker, or nothing.
Posts(fd) ==
  \/ pipe_master' = pipe_master
  \/ /\ conn[fd].session_id # 0
     /\ \E t \in {"RECV_DATA", "CLOSE"} :
          pipe_master' = Send(pipe_master, BoundTo[fd], t, conn[fd].session_id)

\* It is to be closed, after its onClose.
Due(fd) == Asked(conn[fd]) \/ (conn[fd].session_id # 0 /\ Ran(log, conn[fd].session_id))

Edited(fd, c2) ==
  /\ conn' = [conn EXCEPT ![fd] = c2]
  /\ Moved(conn[fd], c2)
  /\ Asked(c2) => Due(fd)

Touches(fd) ==
  /\ \E c2 : Edited(fd, c2)
  /\ Posts(fd)
  /\ \A id \in SessionId : released'[id] \in Unforced =>
       released[id] \in Unforced \/ (id = conn[fd].session_id /\ Due(fd))

\* A slot of the session list.
LEMMA SlotInList ==
    ASSUME NEW id \in Nat
    PROVE  Slot(id) \in 0..(SW_SESSION_LIST_SIZE - 1)
  BY ConnectionAssumption DEF Slot

\* What is put into a pipe is a message.
LEMMA SendTypes ==
    ASSUME NEW pipe \in [Worker -> Seq(Message)], NEW w \in Worker, NEW id \in SessionId,
           NEW t \in {"CONNECT", "RECV_DATA", "SEND_DATA", "CLOSE"}
    PROVE  Send(pipe, w, t, id) \in [Worker -> Seq(Message)]
  <1>1. [type |-> t, id |-> id] \in Message
    BY Zenon DEF Message
  <1>2. Append(pipe[w], [type |-> t, id |-> id]) \in Seq(Message)
    BY <1>1
  <1>3. QED
    BY Zenon, <1>2 DEF Send

\* Server::close_connection keeps the types.
LEMMA ReleaseTypes ==
    ASSUME SharedTypes, NEW fd \in Fd, NEW c \in Connection, c.session_id # 0,
           NEW how \in Unforced, Release(fd, c, how)
    PROVE  SharedTypes'
  <1> DEFINE c2 == [c EXCEPT !.active = FALSE, !.closed = TRUE,
                             !.removed = TRUE, !.out_buffer = <<>>]
  <1>0. <<>> \in Seq({"DATA", "CLOSE"})
    OBVIOUS
  <1>1. c2 \in Connection /\ c2.session_id # 0 /\ ~c2.active
    BY Zenon, <1>0 DEF Connection
  <1>2. conn' = [conn EXCEPT ![fd] = c2]
    BY Zenon DEF Release
  <1> HIDE DEF c2
  <1>3. conn' \in [Fd -> Connection]
    BY Zenon, <1>1, <1>2 DEF SharedTypes
  <1>4. client' \in [Fd -> {"none", "open", "shut"}]
    BY Zenon DEF SharedTypes, Release
  <1>5. c.session_id \in SessionId /\ c.session_id \in Nat
    BY ConnectionAssumption DEF Connection, SessionId
  <1>6. session_list' \in [0..(SW_SESSION_LIST_SIZE - 1) -> [fd : Fd \cup {0}, id : 0..MaxSessions]]
    <2>1. session_list' = [session_list EXCEPT ![Slot(c.session_id)].fd = 0]
      BY Zenon DEF Release
    <2>2. Slot(c.session_id) \in 0..(SW_SESSION_LIST_SIZE - 1)
      BY Zenon, <1>5, SlotInList
    <2>3. QED
      BY <2>1, <2>2 DEF SharedTypes
  <1>7. released' \in [SessionId -> {"no", "closed", "idle", "forced"}]
    <2>1. (IF c.close_force THEN "forced" ELSE how) \in {"no", "closed", "idle", "forced"}
      BY Zenon DEF Unforced
    <2>2. QED
      BY Zenon, <1>5, <2>1 DEF SharedTypes, Release
  <1>8. InUse'
    BY Zenon, <1>1, <1>2 DEF SharedTypes, InUse, Release
  <1>9. pipe_master' \in [Worker -> Seq(Message)]
    BY Zenon DEF SharedTypes, Release
  <1>10. QED
    BY Zenon, <1>3, <1>4, <1>6, <1>7, <1>8, <1>9 DEF SharedTypes

\* One record of connection_list is written, the others stay.
LEMMA OneConnection ==
    ASSUME NEW f \in [Fd -> Connection], NEW fd \in Fd, NEW c \in Connection,
           NEW g, g = [f EXCEPT ![fd] = c]
    PROVE  g \in [Fd -> Connection] /\ g[fd] = c /\ \A x \in Fd : x # fd => g[x] = f[x]
  BY Zenon

\* ReactorThread_onClose keeps the types.
LEMMA OnCloseTypes ==
    ASSUME SharedTypes, NEW fd \in Fd, NEW c \in Connection, c.session_id # 0, OnClose(fd, c)
    PROVE  SharedTypes'
  <1>1. CASE c.removed /\ conn' = [conn EXCEPT ![fd] = c]
              /\ UNCHANGED <<session_list, client, released, pipe_master>>
    BY Zenon, <1>1 DEF SharedTypes, InUse
  <1>2. CASE Release(fd, c, "closed")
    BY Zenon, <1>2, ReleaseTypes DEF Unforced
  <1>3. CASE /\ conn' = [conn EXCEPT ![fd] =
                   IF c.close_notified THEN [c EXCEPT !.removed = TRUE]
                   ELSE [c EXCEPT !.removed = TRUE, !.peer_closed = TRUE,
                                  !.close_notified = TRUE]]
             /\ pipe_master' = IF ~c.close_notified /\ MayDispatch(c, "CLOSE")
                       THEN Send(pipe_master, BoundTo[fd], "CLOSE", c.session_id)
                       ELSE pipe_master
             /\ UNCHANGED <<session_list, client, released>>
    <2> DEFINE c2 == IF c.close_notified THEN [c EXCEPT !.removed = TRUE]
                   ELSE [c EXCEPT !.removed = TRUE, !.peer_closed = TRUE,
                                  !.close_notified = TRUE]
    <2>1. c2 \in Connection /\ c2.session_id # 0
      BY Zenon DEF Connection
    <2>2. conn' = [conn EXCEPT ![fd] = c2]
      BY Zenon, <1>3
    <2> HIDE DEF c2
    <2>3. conn' \in [Fd -> Connection] /\ InUse'
      <3>1. conn' \in [Fd -> Connection] /\ conn'[fd] = c2 /\ \A x \in Fd : x # fd => conn'[x] = conn[x]
        BY Zenon, <2>1, <2>2, OneConnection DEF SharedTypes
      <3>2. InUse'
        BY Zenon, <1>3, <2>1, <3>1 DEF SharedTypes, InUse
      <3>3. QED
        BY Zenon, <3>1, <3>2
    <2>4. Send(pipe_master, BoundTo[fd], "CLOSE", c.session_id) \in [Worker -> Seq(Message)]
      <3>1. c.session_id \in SessionId
        BY ConnectionAssumption DEF Connection, SessionId
      <3>2. BoundTo[fd] \in Worker /\ pipe_master \in [Worker -> Seq(Message)]
        BY Zenon, ConnectionAssumption DEF SharedTypes
      <3>3. QED
        BY Zenon, <3>1, <3>2, SendTypes
    <2>5. pipe_master' \in [Worker -> Seq(Message)]
      BY Zenon, <1>3, <2>4 DEF SharedTypes
    <2>6. QED
      BY Zenon, <1>3, <2>3, <2>5 DEF SharedTypes
  <1>4. QED
    BY Zenon, <1>1, <1>2, <1>3 DEF OnClose

\* get_connection_verify_no_ssl finds the connection of the session.
LEMMA VerifiedIs ==
    ASSUME NEW id, VerifiedFd(id) # 0
    PROVE  /\ VerifiedFd(id) \in Fd
           /\ conn[VerifiedFd(id)].active /\ conn[VerifiedFd(id)].session_id = id
  <1>1. \E fd \in Fd : Verified(id, fd)
    BY Zenon DEF VerifiedFd
  <1>2. VerifiedFd(id) = CHOOSE fd \in Fd : Verified(id, fd)
    BY Zenon, <1>1 DEF VerifiedFd
  <1>3. VerifiedFd(id) \in Fd /\ Verified(id, VerifiedFd(id))
    BY Zenon, <1>1, <1>2
  <1>4. QED
    BY Zenon, <1>3 DEF Verified

\* A connection is what the model says it is.
LEMMA ConnFields ==
    ASSUME NEW c \in Connection
    PROVE  /\ c.session_id \in 0..MaxSessions /\ c.session_id \in Nat
           /\ c.session_id # 0 => c.session_id \in SessionId
           /\ c.out_buffer \in Seq({"DATA", "CLOSE"})
           /\ c.active \in BOOLEAN /\ c.closed \in BOOLEAN /\ c.close_queued \in BOOLEAN
  BY ConnectionAssumption DEF Connection, SessionId

\* An accepted connection.
LEMMA AcceptBase ==
    ASSUME ConnBase, Accept
    PROVE  ConnBase'
  <1> USE DEF ConnBase
  <1>1. PICK fd \in Fd, id \in SessionId :
          /\ client' = [client EXCEPT ![fd] = "open"]
          /\ session_list' = [session_list EXCEPT ![Slot(id)] = [fd |-> fd, id |-> id]]
          /\ session_round' = id
          /\ conn' = [conn EXCEPT ![fd] =
                  [ZeroConnection EXCEPT !.session_id = id, !.active = TRUE,
                                         !.removed = FALSE]]
          /\ pipe_master' = Send(pipe_master, BoundTo[fd], "CONNECT", id)
          /\ UNCHANGED <<idle_check, workerVars, sent, released, requests>>
    BY Zenon DEF Accept
  <1> DEFINE c2 == [ZeroConnection EXCEPT !.session_id = id, !.active = TRUE, !.removed = FALSE]
  <1>id. id \in 0..MaxSessions /\ id # 0 /\ id \in Nat
    BY ConnectionAssumption DEF SessionId
  <1>0. <<>> \in Seq({"DATA", "CLOSE"})
    OBVIOUS
  <1>2. c2 \in Connection /\ c2.session_id # 0
    BY Zenon, <1>0, <1>id DEF Connection, ZeroConnection
  <1>3. conn' = [conn EXCEPT ![fd] = c2]
    BY Zenon, <1>1
  <1> HIDE DEF c2
  <1>4. conn' \in [Fd -> Connection] /\ InUse'
    <2>1. conn' \in [Fd -> Connection] /\ conn'[fd] = c2 /\ \A x \in Fd : x # fd => conn'[x] = conn[x]
      BY Zenon, <1>2, <1>3, OneConnection DEF SharedTypes
    <2>2. \A x \in Fd : x # fd => client'[x] = client[x]
      BY Zenon, <1>1 DEF SharedTypes
    <2>3. InUse'
      BY Zenon, <1>2, <2>1, <2>2 DEF SharedTypes, InUse
    <2>4. QED
      BY Zenon, <2>1, <2>3
  <1>5. session_list' \in [0..(SW_SESSION_LIST_SIZE - 1) -> [fd : Fd \cup {0}, id : 0..MaxSessions]]
    <2>1. Slot(id) \in 0..(SW_SESSION_LIST_SIZE - 1)
      BY Zenon, <1>id, SlotInList
    <2>2. QED
      BY Zenon, <1>1, <1>id, <2>1 DEF SharedTypes
  <1>6. pipe_master' \in [Worker -> Seq(Message)]
    <2>1. BoundTo[fd] \in Worker /\ pipe_master \in [Worker -> Seq(Message)]
      BY Zenon, ConnectionAssumption DEF SharedTypes
    <2>2. QED
      BY Zenon, <1>1, <2>1, SendTypes
  <1>7. SharedTypes'
    BY Zenon, <1>1, <1>4, <1>5, <1>6 DEF SharedTypes
  <1>8. WorkerTypes' /\ GhostTypes'
    BY Zenon, <1>1, <1>id DEF WorkerTypes, GhostTypes, InEndOf, workerVars
  <1>9. QED
    BY Zenon, <1>7, <1>8

\* The handlers of the reactor keep the types.
LEMMA OnReadBase ==
    ASSUME ConnBase, NEW fd \in Fd, OnRead(fd)
    PROVE  ConnBase'
  <1> USE DEF ConnBase
  <1>1. conn[fd] \in Connection /\ conn[fd].session_id # 0 /\ BoundTo[fd] \in Worker
    BY Zenon, ConnectionAssumption DEF OnRead, SharedTypes, InUse
  <1>2. conn[fd].session_id \in SessionId
    BY Zenon, <1>1, ConnFields
  <1>3. Send(pipe_master, BoundTo[fd], "RECV_DATA", conn[fd].session_id) \in [Worker -> Seq(Message)]
    BY Zenon, <1>1, <1>2, SendTypes DEF SharedTypes
  <1>4. pipe_master' \in [Worker -> Seq(Message)]
    BY Zenon, <1>3 DEF OnRead, SharedTypes
  <1>5. SharedTypes'
    BY Zenon, <1>4 DEF OnRead, SharedTypes, InUse
  <1>6. WorkerTypes' /\ GhostTypes'
    BY Zenon DEF OnRead, WorkerTypes, GhostTypes, InEndOf, workerVars
  <1>7. QED
    BY Zenon, <1>5, <1>6

\* What the handlers of the reactor write into a connection.
LEMMA ConnEdits ==
    ASSUME NEW c \in Connection
    PROVE  /\ [c EXCEPT !.close_force = TRUE] \in Connection
           /\ [c EXCEPT !.close_force = TRUE].session_id = c.session_id
           /\ \A q \in Seq({"DATA", "CLOSE"}) :
                /\ [c EXCEPT !.out_buffer = q] \in Connection
                /\ [c EXCEPT !.out_buffer = q].session_id = c.session_id
                /\ [c EXCEPT !.out_buffer = q, !.removed = FALSE] \in Connection
                /\ [c EXCEPT !.out_buffer = q, !.removed = FALSE].session_id = c.session_id
                /\ [c EXCEPT !.out_buffer = q, !.close_queued = TRUE,
                             !.removed = FALSE] \in Connection
                /\ [c EXCEPT !.out_buffer = q, !.close_queued = TRUE,
                             !.removed = FALSE].session_id = c.session_id
  BY Zenon DEF Connection

\* recv() ends.
LEMMA OnReadEndBase ==
    ASSUME ConnBase, NEW fd \in Fd, OnReadEnd(fd)
    PROVE  ConnBase'
  <1> USE DEF ConnBase
  <1>1. conn[fd] \in Connection /\ conn[fd].session_id # 0
    BY Zenon DEF OnReadEnd, SharedTypes, InUse
  <1>2. OnClose(fd, conn[fd])
    BY Zenon DEF OnReadEnd
  <1>3. SharedTypes'
    BY Zenon, <1>1, <1>2, OnCloseTypes
  <1>4. WorkerTypes' /\ GhostTypes'
    BY Zenon DEF OnReadEnd, WorkerTypes, GhostTypes, InEndOf, workerVars
  <1>5. QED
    BY Zenon, <1>3, <1>4

\* heartbeat_check and max_idle_time.
LEMMA IdleCloseBase ==
    ASSUME ConnBase, NEW fd \in Fd, IdleClose(fd)
    PROVE  ConnBase'
  <1> USE DEF ConnBase
  <1>1. conn[fd] \in Connection /\ conn[fd].session_id # 0
    BY Zenon DEF IdleClose, ReleasesIdle, SharedTypes, InUse
  <1> DEFINE c == [conn[fd] EXCEPT !.close_force = TRUE]
  <1>2. c \in Connection /\ c.session_id # 0
    BY Zenon, <1>1, ConnEdits
  <1>3. Release(fd, conn[fd], "idle") \/ OnClose(fd, c)
    BY Zenon DEF IdleClose, ReleasesIdle
  <1> HIDE DEF c
  <1>4. SharedTypes'
    BY Zenon, <1>1, <1>2, <1>3, OnCloseTypes, ReleaseTypes DEF Unforced
  <1>5. WorkerTypes' /\ GhostTypes'
    BY Zenon DEF IdleClose, ReleasesIdle, WorkerTypes, GhostTypes, InEndOf, workerVars
  <1>6. QED
    BY Zenon, <1>4, <1>5

\* ReactorThread_onWrite.
LEMMA OnWriteBase ==
    ASSUME ConnBase, NEW fd \in Fd, OnWrite(fd)
    PROVE  ConnBase'
  <1> USE DEF ConnBase
  <1>1. conn[fd] \in Connection /\ conn[fd].session_id # 0
    BY Zenon DEF OnWrite, SharedTypes, InUse
  <1> DEFINE c == conn[fd]
             out == c.out_buffer
             rest(n) == [c EXCEPT !.out_buffer = SubSeq(out, n + 1, Len(out))]
  <1>2. PICK n \in 0..Len(out) :
          /\ sent' = [sent EXCEPT ![c.session_id] = @ + n]
          /\ \/ /\ conn' = [conn EXCEPT ![fd] = rest(n)]
                /\ UNCHANGED <<session_list, client, released, pipe_master>>
             \/ Release(fd, rest(n), "closed")
             \/ OnClose(fd, rest(n))
    BY Zenon DEF OnWrite
  <1>3. out \in Seq({"DATA", "CLOSE"}) /\ c.session_id \in SessionId
    BY Zenon, <1>1, ConnFields
  <1>4. n \in Nat /\ n <= Len(out)
    BY <1>3
  <1> DEFINE q == SubSeq(out, n + 1, Len(out))
  <1>5. q \in Seq({"DATA", "CLOSE"})
    BY <1>3, <1>4
  <1>6. rest(n) \in Connection /\ rest(n).session_id # 0
    <2> HIDE DEF q
    <2>1. [c EXCEPT !.out_buffer = q] \in Connection /\ [c EXCEPT !.out_buffer = q].session_id # 0
      BY Zenon, <1>1, <1>5, ConnEdits
    <2>2. QED
      BY Zenon, <2>1 DEF q
  <1>7. client[fd] # "none"
    BY Zenon DEF OnWrite
  <1>8. SharedTypes'
    <2> DEFINE c2 == rest(n)
    <2>1. \/ /\ conn' = [conn EXCEPT ![fd] = c2]
             /\ UNCHANGED <<session_list, client, released, pipe_master>>
          \/ Release(fd, c2, "closed")
          \/ OnClose(fd, c2)
      BY Zenon, <1>2
    <2>2. c2 \in Connection /\ c2.session_id # 0
      BY Zenon, <1>6
    <2> HIDE DEF c2, c, out, rest
    <2>3. CASE conn' = [conn EXCEPT ![fd] = c2] /\ UNCHANGED <<session_list, client, released, pipe_master>>
      BY Zenon, <2>2, <2>3 DEF SharedTypes, InUse
    <2>4. QED
      BY Zenon, <2>1, <2>2, <2>3, OnCloseTypes, ReleaseTypes DEF Unforced
  <1>9. sent' \in [SessionId -> Nat]
    BY <1>2, <1>3, <1>4 DEF GhostTypes
  <1>10. WorkerTypes' /\ GhostTypes'
    BY Zenon, <1>9 DEF OnWrite, WorkerTypes, GhostTypes, InEndOf, workerVars
  <1>11. QED
    BY Zenon, <1>8, <1>10

\* The peer closes.
LEMMA ClientClosesBase ==
    ASSUME ConnBase, NEW fd \in Fd, ClientCloses(fd)
    PROVE  ConnBase'
  BY Zenon DEF ClientCloses, ConnBase, SharedTypes, WorkerTypes, GhostTypes, InEndOf, InUse, workerVars

\* ReactorThread_onPipeRead.
LEMMA OnPipeReadBase ==
    ASSUME ConnBase, NEW w \in Worker, OnPipeRead(w)
    PROVE  ConnBase'
  <1> USE DEF ConnBase
  <1>0. pipe_worker[w] \in Seq(Message) /\ pipe_worker[w] # <<>>
    BY Zenon DEF OnPipeRead, WorkerTypes
  <1> DEFINE m == Head(pipe_worker[w])
  <1>1. m \in Message /\ Tail(pipe_worker[w]) \in Seq(Message)
    BY <1>0
  <1>2. m.id \in SessionId
    BY Zenon, <1>1 DEF Message
  <1>3. pipe_worker' \in [Worker -> Seq(Message)]
    BY Zenon, <1>1 DEF OnPipeRead, WorkerTypes
  <1> DEFINE fd == VerifiedFd(m.id)
  <1>4. \/ UNCHANGED <<conn, session_list, client, released, pipe_master, sent>>
        \/ fd # 0 /\ SendData(fd, m.id)
        \/ fd # 0 /\ SendClose(fd)
    BY Zenon DEF OnPipeRead
  <1> HIDE DEF m
  <1>5. fd # 0 => fd \in Fd /\ conn[fd].session_id = m.id
    BY Zenon, VerifiedIs
  <1> HIDE DEF fd
  <1>6. ASSUME fd # 0 PROVE conn[fd] \in Connection /\ conn[fd].session_id # 0 /\ conn[fd].out_buffer \in Seq({"DATA", "CLOSE"})
    <2>1. conn[fd] \in Connection
      BY Zenon, <1>5, <1>6 DEF SharedTypes
    <2>2. m.id # 0
      BY <1>2, ConnectionAssumption DEF SessionId
    <2>3. QED
      BY Zenon, <1>5, <1>6, <2>1, <2>2, ConnFields
  <1>7. ASSUME fd # 0, SendData(fd, m.id) PROVE SharedTypes' /\ sent' \in [SessionId -> Nat]
    <2> DEFINE c2 == [conn[fd] EXCEPT !.out_buffer = Append(conn[fd].out_buffer, "DATA"), !.removed = FALSE]
    <2>0. Append(conn[fd].out_buffer, "DATA") \in Seq({"DATA", "CLOSE"})
      BY <1>6, <1>7
    <2>1. c2 \in Connection /\ c2.session_id # 0
      BY Zenon, <1>6, <1>7, <2>0, ConnEdits
    <2>2. \/ sent' = [sent EXCEPT ![m.id] = @ + 1]
             /\ UNCHANGED <<conn, session_list, client, released, pipe_master>>
          \/ (conn' = conn \/ conn' = [conn EXCEPT ![fd] = c2])
             /\ UNCHANGED <<sent, session_list, client, released, pipe_master>>
      BY Zenon, <1>5, <1>7 DEF SendData, SharedTypes
    <2> HIDE DEF c2
    <2>3. sent' \in [SessionId -> Nat]
      BY <1>2, <2>2 DEF GhostTypes
    <2>4. QED
      BY Zenon, <1>5, <1>7, <2>1, <2>2, <2>3 DEF SharedTypes, InUse
  <1>8. ASSUME fd # 0, SendClose(fd) PROVE SharedTypes' /\ sent' = sent
    <2> DEFINE c2 == [conn[fd] EXCEPT !.out_buffer = Append(conn[fd].out_buffer, "CLOSE"),
                                      !.close_queued = TRUE, !.removed = FALSE]
    <2>0. Append(conn[fd].out_buffer, "CLOSE") \in Seq({"DATA", "CLOSE"})
      BY <1>6, <1>8
    <2>1. c2 \in Connection /\ c2.session_id # 0
      BY Zenon, <1>6, <1>8, <2>0, ConnEdits
    <2>2. \/ Release(fd, conn[fd], "closed")
          \/ /\ conn' = [conn EXCEPT ![fd] = c2]
             /\ UNCHANGED <<session_list, client, released, pipe_master>>
      BY Zenon, <1>5, <1>8 DEF SendClose, SharedTypes
    <2> HIDE DEF c2
    <2>3. sent' = sent
      BY Zenon, <1>8 DEF SendClose
    <2>4. CASE Release(fd, conn[fd], "closed")
      BY Zenon, <1>5, <1>6, <1>8, <2>3, <2>4, ReleaseTypes DEF Unforced
    <2>5. CASE conn' = [conn EXCEPT ![fd] = c2] /\ UNCHANGED <<session_list, client, released, pipe_master>>
      BY Zenon, <1>5, <1>8, <2>1, <2>3, <2>5 DEF SharedTypes, InUse
    <2>6. QED
      BY Zenon, <2>2, <2>4, <2>5
  <1>9. SharedTypes' /\ sent' \in [SessionId -> Nat]
    BY Zenon, <1>4, <1>7, <1>8 DEF SharedTypes, GhostTypes, InUse
  <1>10. WorkerTypes' /\ GhostTypes'
    BY Zenon, <1>3, <1>9 DEF OnPipeRead, WorkerTypes, GhostTypes, InEndOf
  <1>11. QED
    BY Zenon, <1>9, <1>10

\* An id is not 0.
LEMMA IdIsGiven ==
    ASSUME NEW id
    PROVE  id \in SessionId <=> id \in 0..MaxSessions /\ id # 0
  BY ConnectionAssumption DEF SessionId

\* A worker goes on with its session.
LEMMA WorkerGoesOn ==
    ASSUME worker \in [Worker -> Step], InEndOf, NEW w \in Worker, NEW r \in Step,
           r.pc # "idle" => r.id # 0 /\ r.fd # 0,
           worker' = [worker EXCEPT ![w] = r]
    PROVE  worker' \in [Worker -> Step] /\ InEndOf'
  BY Zenon DEF InEndOf

\* worker_accept_event.
LEMMA WorkerTakesBase ==
    ASSUME ConnBase, NEW w \in Worker, WorkerTakes(w)
    PROVE  ConnBase'
  <1> USE DEF ConnBase
  <1>0. pipe_master[w] \in Seq(Message) /\ pipe_master[w] # <<>>
    BY Zenon DEF WorkerTakes, SharedTypes
  <1> DEFINE m == Head(pipe_master[w])
             fd == VerifiedFd(m.id)
  <1>1. m \in Message /\ Tail(pipe_master[w]) \in Seq(Message)
    BY <1>0
  <1>2. m.id \in 0..MaxSessions /\ m.id # 0
    BY Zenon, <1>1, IdIsGiven DEF Message
  <1>3. pipe_master' \in [Worker -> Seq(Message)]
    BY Zenon, <1>1 DEF WorkerTakes, SharedTypes
  <1>4. worker' = worker \/ (fd # 0 /\ worker' = [worker EXCEPT ![w] = [pc |-> "verified", id |-> m.id, fd |-> fd]])
    BY Zenon DEF WorkerTakes
  <1> HIDE DEF m
  <1>5. fd # 0 => fd \in Fd
    BY Zenon, VerifiedIs
  <1> HIDE DEF fd
  <1>6. worker' \in [Worker -> Step] /\ InEndOf'
    <2>1. CASE worker' = worker
      BY Zenon, <2>1 DEF WorkerTypes, InEndOf
    <2> DEFINE r == [pc |-> "verified", id |-> m.id, fd |-> fd]
    <2>2. CASE fd # 0 /\ worker' = [worker EXCEPT ![w] = r]
      <3>1. r \in Step /\ r.id # 0 /\ r.fd # 0
        BY Zenon, <1>2, <1>5, <2>2 DEF Step
      <3> HIDE DEF r
      <3>2. QED
        BY Zenon, <2>2, <3>1, WorkerGoesOn DEF WorkerTypes
    <2>3. QED
      BY Zenon, <1>4, <2>1, <2>2
  <1>7. SharedTypes'
    BY Zenon, <1>3 DEF WorkerTakes, SharedTypes, InUse, reactorVars
  <1>8. WorkerTypes' /\ GhostTypes'
    BY Zenon, <1>6 DEF WorkerTakes, WorkerTypes, GhostTypes, reactorVars
  <1>9. QED
    BY Zenon, <1>7, <1>8

\* Server::send.
LEMMA SendResponseBase ==
    ASSUME ConnBase, NEW w \in Worker, NEW id \in SessionId, SendResponse(w, id)
    PROVE  ConnBase'
  <1> USE DEF ConnBase
  <1>1. SharedTypes'
    BY Zenon DEF SendResponse, SharedTypes, InUse, reactorVars
  <1>2. Send(pipe_worker, w, "SEND_DATA", id) \in [Worker -> Seq(Message)]
    BY Zenon, SendTypes DEF WorkerTypes
  <1>3. pipe_worker' = Send(pipe_worker, w, "SEND_DATA", id) \/ pipe_worker' = pipe_worker
    BY Zenon DEF SendResponse
  <1>4. WorkerTypes'
    BY Zenon, <1>2, <1>3 DEF SendResponse, WorkerTypes, InEndOf
  <1>5. GhostTypes'
    <2>1. given' = [given EXCEPT ![id] = @ + 1] \/ given' = given
      BY Zenon DEF SendResponse
    <2>2. QED
      BY <2>1 DEF SendResponse, GhostTypes, reactorVars
  <1>6. QED
    BY Zenon, <1>1, <1>4, <1>5

\* What protect() writes into a connection.
LEMMA ProtectEdit ==
    ASSUME NEW c \in Connection, NEW value \in BOOLEAN,
           NEW c2, c2 = [c EXCEPT !.protect = value]
    PROVE  /\ c2 \in Connection /\ c2.session_id = c.session_id /\ c2.active = c.active
           /\ c2.closed = c.closed /\ c2.close_queued = c.close_queued
           /\ c2.out_buffer = c.out_buffer
  BY Zenon DEF Connection

\* protect() writes a flag of one connection, or nothing.
LEMMA ProtectWrites ==
    ASSUME ConnBase, NEW w \in Worker, NEW id \in SessionId, NEW value \in BOOLEAN,
           Protect(w, id, value)
    PROVE  \/ conn' = conn
           \/ \E fd \in Fd : conn' = [conn EXCEPT ![fd] = [conn[fd] EXCEPT !.protect = value]]
  <1> DEFINE fd == VerifiedFd(id)
  <1>1. conn' = conn \/ (fd # 0 /\ conn' = [conn EXCEPT ![fd].protect = value])
    BY Zenon DEF Protect
  <1>2. fd # 0 => fd \in Fd
    BY Zenon, VerifiedIs
  <1> HIDE DEF fd
  <1>3. QED
    BY Zenon, <1>1, <1>2 DEF ConnBase, SharedTypes

\* The protect method of the server.
LEMMA ProtectBase ==
    ASSUME ConnBase, NEW w \in Worker, NEW id \in SessionId, NEW value \in BOOLEAN,
           Protect(w, id, value)
    PROVE  ConnBase'
  <1> USE DEF ConnBase
  <1>1. /\ UNCHANGED <<idle_check, client, session_list, session_round, sent, released>>
        /\ UNCHANGED <<pipe_master, pipe_worker, worker, given>>
    BY Zenon DEF Protect, reactorVars
  <1>2. conn' \in [Fd -> Connection] /\ InUse'
    <2>1. CASE conn' = conn
      BY Zenon, <1>1, <2>1 DEF SharedTypes, InUse
    <2>2. ASSUME NEW fd \in Fd, conn' = [conn EXCEPT ![fd] = [conn[fd] EXCEPT !.protect = value]]
          PROVE  conn' \in [Fd -> Connection] /\ InUse'
      <3> DEFINE c2 == [conn[fd] EXCEPT !.protect = value]
      <3>1. c2 \in Connection /\ c2.session_id = conn[fd].session_id /\ c2.active = conn[fd].active
        BY Zenon, ProtectEdit DEF SharedTypes
      <3>2. conn' = [conn EXCEPT ![fd] = c2]
        BY Zenon, <2>2
      <3> HIDE DEF c2
      <3>3. conn' \in [Fd -> Connection] /\ conn'[fd] = c2 /\ \A x \in Fd : x # fd => conn'[x] = conn[x]
        BY Zenon, <3>1, <3>2, OneConnection DEF SharedTypes
      <3>4. QED
        BY Zenon, <1>1, <3>1, <3>3 DEF SharedTypes, InUse
    <2>3. QED
      BY Zenon, <2>1, <2>2, ProtectWrites
  <1>3. SharedTypes'
    BY Zenon, <1>1, <1>2 DEF SharedTypes
  <1>4. WorkerTypes' /\ GhostTypes'
    BY Zenon, <1>1 DEF WorkerTypes, GhostTypes, InEndOf
  <1>5. QED
    BY Zenon, <1>3, <1>4

\* Server::close up to _close.
LEMMA CloseSessionBase ==
    ASSUME ConnBase, NEW w \in Worker, NEW id \in SessionId, NEW reset \in BOOLEAN,
           CloseSession(w, id, reset)
    PROVE  ConnBase'
  <1> USE DEF ConnBase
  <1> DEFINE fd == VerifiedFd(id)
             c2 == [conn[fd] EXCEPT !.close_actively = TRUE, !.close_reset = @ \/ reset]
  <1>1. GhostTypes' /\ pipe_worker' = pipe_worker /\ UNCHANGED <<client, session_list, released>>
    BY Zenon DEF CloseSession, GhostTypes, reactorVars
  <1>2. CASE fd = 0
    <2>1. UNCHANGED <<conn, pipe_master, worker>>
      BY Zenon, <1>2 DEF CloseSession
    <2>2. QED
      BY Zenon, <1>1, <2>1 DEF SharedTypes, WorkerTypes, InUse, InEndOf
  <1>3. CASE fd # 0
    <2>1. fd \in Fd /\ conn[fd].session_id = id
      BY Zenon, <1>3, VerifiedIs
    <2>2. /\ conn' = [conn EXCEPT ![fd] = c2]
          /\ pipe_master' = Send(pipe_master, BoundTo[fd], "CLOSE", id) \/ pipe_master' = pipe_master
          /\ worker' = [worker EXCEPT ![w] = [pc |-> "verified", id |-> id, fd |-> fd]] \/ worker' = worker
      BY Zenon, <1>3, <2>1 DEF CloseSession, SharedTypes
    <2>3. c2 \in Connection /\ c2.session_id = id
      <3>1. conn[fd] \in Connection
        BY Zenon, <2>1 DEF SharedTypes
      <3> HIDE DEF fd
      <3>2. QED
        BY Zenon, <2>1, <3>1 DEF Connection
    <2>4. id \in 0..MaxSessions /\ id # 0 /\ BoundTo[fd] \in Worker
      <3>1. id \in 0..MaxSessions /\ id # 0
        BY Zenon, IdIsGiven
      <3>2. QED
        BY Zenon, <2>1, <3>1, ConnectionAssumption
    <2> HIDE DEF c2, fd
    <2>5. conn' \in [Fd -> Connection] /\ InUse'
      BY Zenon, <1>1, <2>1, <2>2, <2>3, <2>4 DEF SharedTypes, InUse
    <2>6. pipe_master' \in [Worker -> Seq(Message)]
      <3>1. pipe_master \in [Worker -> Seq(Message)]
        BY Zenon DEF SharedTypes
      <3>2. Send(pipe_master, BoundTo[fd], "CLOSE", id) \in [Worker -> Seq(Message)]
        BY Zenon, <2>4, <3>1, SendTypes
      <3>3. QED
        BY Zenon, <2>2, <3>1, <3>2
    <2>7. WorkerTypes'
      <3> DEFINE r == [pc |-> "verified", id |-> id, fd |-> fd]
      <3>1. r \in Step /\ r.id # 0 /\ r.fd # 0
        BY Zenon, <1>3, <2>1, <2>4 DEF Step
      <3>2. worker' = [worker EXCEPT ![w] = r] \/ worker' = worker
        BY Zenon, <2>2
      <3> HIDE DEF r
      <3>3. worker' \in [Worker -> Step] /\ InEndOf'
        <4>1. CASE worker' = worker
          BY Zenon, <4>1 DEF WorkerTypes, InEndOf
        <4>2. QED
          BY Zenon, <3>1, <3>2, <4>1, WorkerGoesOn DEF WorkerTypes
      <3>4. QED
        BY Zenon, <1>1, <3>3 DEF WorkerTypes
    <2>8. QED
      BY Zenon, <1>1, <2>5, <2>6, <2>7 DEF SharedTypes
  <1>4. QED
    BY Zenon, <1>2, <1>3

\* ProcessFactory::end from _close on.
LEMMA EndBase ==
    ASSUME ConnBase, NEW w \in Worker,
           EndBegins(w) \/ OnCloseReturns(w) \/ EndFinishes(w) \/ WorkerCrashes(w)
    PROVE  ConnBase'
  <1> USE DEF ConnBase
  <1> DEFINE fd == worker[w].fd
             id == worker[w].id
             shut == [conn[fd] EXCEPT !.closed = TRUE, !.closing = TRUE]
             ran == [conn[fd] EXCEPT !.closing = FALSE]
  <1>1. worker[w].pc # "idle"
    BY Zenon DEF EndBegins, OnCloseReturns, EndFinishes, WorkerCrashes
  <1>2. fd \in Fd /\ id \in SessionId /\ id # 0 /\ conn[fd] \in Connection
    <2>1. worker[w] \in Step /\ id # 0 /\ fd # 0
      BY Zenon, <1>1 DEF WorkerTypes, InEndOf
    <2>2. fd \in Fd /\ id \in 0..MaxSessions
      BY Zenon, <2>1 DEF Step
    <2>3. QED
      BY Zenon, <2>1, <2>2, IdIsGiven DEF SharedTypes
  <1>3. /\ conn' = conn \/ conn' = [conn EXCEPT ![fd] = shut] \/ conn' = [conn EXCEPT ![fd] = ran]
        /\ UNCHANGED <<client, session_list, released, pipe_master, idle_check, session_round, given, sent>>
    BY Zenon, <1>2 DEF EndBegins, OnCloseReturns, EndFinishes, WorkerCrashes, reactorVars, SharedTypes
  <1>4. /\ shut \in Connection /\ shut.session_id = conn[fd].session_id /\ shut.active = conn[fd].active
        /\ ran \in Connection /\ ran.session_id = conn[fd].session_id /\ ran.active = conn[fd].active
    <2> HIDE DEF fd
    <2>1. QED
      BY Zenon, <1>2 DEF Connection
  <1> DEFINE begun == [worker[w] EXCEPT !.pc = "onClose"]
             done == [worker[w] EXCEPT !.pc = "finish"]
  <1>5. \/ worker' = [worker EXCEPT ![w] = Idle]
        \/ worker' = [worker EXCEPT ![w] = begun]
        \/ worker' = [worker EXCEPT ![w] = done]
    BY Zenon DEF EndBegins, OnCloseReturns, EndFinishes, WorkerCrashes, WorkerTypes
  <1>6. pipe_worker' = pipe_worker \/ pipe_worker' = Send(pipe_worker, w, "CLOSE", id)
    BY Zenon DEF EndBegins, OnCloseReturns, EndFinishes, WorkerCrashes
  <1> HIDE DEF shut, ran, fd
  <1>7. SharedTypes'
    BY ZenonT(30), <1>2, <1>3, <1>4 DEF SharedTypes, InUse
  <1>8. worker' \in [Worker -> Step] /\ InEndOf'
    <2>1. /\ Idle \in Step /\ Idle.pc = "idle"
          /\ begun \in Step /\ begun.id # 0 /\ begun.fd # 0
          /\ done \in Step /\ done.id # 0 /\ done.fd # 0
      <3>1. worker[w] \in Step /\ worker[w].id # 0 /\ worker[w].fd # 0
        BY Zenon, <1>1 DEF WorkerTypes, InEndOf
      <3>2. QED
        BY <3>1, ConnectionAssumption DEF Step, Idle
    <2> HIDE DEF begun, done
    <2>2. QED
      BY Zenon, <1>5, <2>1, WorkerGoesOn DEF WorkerTypes
  <1>9. pipe_worker' \in [Worker -> Seq(Message)]
    <2> HIDE DEF id
    <2>1. Send(pipe_worker, w, "CLOSE", id) \in [Worker -> Seq(Message)]
      BY Zenon, <1>2, SendTypes DEF WorkerTypes
    <2>2. QED
      BY Zenon, <1>6, <2>1 DEF WorkerTypes
  <1>10. WorkerTypes' /\ GhostTypes'
    BY Zenon, <1>3, <1>8, <1>9 DEF WorkerTypes, GhostTypes
  <1>11. QED
    BY Zenon, <1>7, <1>10

-----------------------------------------------------------------------------
(* The pipes to the workers.                                               *)

\* The pipe of w has one more message, m.
Longer(pm, pm2, w, m) ==
  /\ \A v \in Worker : \A i \in 1..Len(pm[v]) : i \in 1..Len(pm2[v]) /\ pm2[v][i] = pm[v][i]
  /\ \A v \in Worker : \A i \in 1..Len(pm2[v]) :
       i \in 1..Len(pm[v]) \/ (v = w /\ i = Len(pm[w]) + 1)
  /\ Len(pm[w]) + 1 \in 1..Len(pm2[w]) /\ pm2[w][Len(pm[w]) + 1] = m

\* The pipe of w has lost its first message.
Shorter(pm, pm2, w) ==
  /\ \A v \in Worker : v # w => pm2[v] = pm[v]
  /\ \A i \in 1..Len(pm[w]) : i # 1 => i - 1 \in 1..Len(pm2[w]) /\ pm2[w][i - 1] = pm[w][i]
  /\ \A i \in 1..Len(pm2[w]) : i + 1 \in 1..Len(pm[w]) /\ pm2[w][i] = pm[w][i + 1]

\* What send() into a pipe does.
LEMMA SendLonger ==
    ASSUME NEW pm \in [Worker -> Seq(Message)], NEW w \in Worker, NEW t, NEW id
    PROVE  Longer(pm, Send(pm, w, t, id), w, [type |-> t, id |-> id])
  <1> DEFINE m == [type |-> t, id |-> id]
             pm2 == Send(pm, w, t, id)
  <1> HIDE DEF m
  <1>1. pm2 = [pm EXCEPT ![w] = Append(pm[w], m)]
    BY Zenon DEF Send, m
  <1>2. pm2[w] = Append(pm[w], m) /\ \A v \in Worker : v # w => pm2[v] = pm[v]
    BY Zenon, <1>1
  <1> HIDE DEF pm2
  <1>3. \A v \in Worker : pm[v] \in Seq(Message) /\ Len(pm[v]) \in Nat
    OBVIOUS
  <1>4. /\ Len(pm2[w]) = Len(pm[w]) + 1 /\ pm2[w][Len(pm[w]) + 1] = m
        /\ \A i \in 1..Len(pm[w]) : pm2[w][i] = pm[w][i]
    BY <1>2, <1>3
  <1>5. \A v \in Worker : \A i \in 1..Len(pm[v]) : i \in 1..Len(pm2[v]) /\ pm2[v][i] = pm[v][i]
    <2>1. \A i \in 1..Len(pm[w]) : i \in 1..Len(pm2[w])
      BY <1>3, <1>4
    <2>2. QED
      BY Zenon, <1>2, <1>4, <2>1
  <1>6. \A v \in Worker : \A i \in 1..Len(pm2[v]) :
           i \in 1..Len(pm[v]) \/ (v = w /\ i = Len(pm[w]) + 1)
    <2>1. \A i \in 1..Len(pm2[w]) : i \in 1..Len(pm[w]) \/ i = Len(pm[w]) + 1
      BY <1>3, <1>4
    <2>2. QED
      BY Zenon, <1>2, <2>1
  <1>7. Len(pm[w]) + 1 \in 1..Len(pm2[w])
    BY <1>3, <1>4
  <1>8. Longer(pm, pm2, w, m)
    BY Zenon, <1>4, <1>5, <1>6, <1>7 DEF Longer
  <1>9. QED
    BY Zenon, <1>8 DEF pm2, m

\* What reading a pipe does.
LEMMA TailShorter ==
    ASSUME NEW pm \in [Worker -> Seq(Message)], NEW w \in Worker, pm[w] # <<>>
    PROVE  Shorter(pm, [pm EXCEPT ![w] = Tail(@)], w)
  <1> DEFINE pm2 == [pm EXCEPT ![w] = Tail(@)]
  <1>1. pm2[w] = Tail(pm[w]) /\ \A v \in Worker : v # w => pm2[v] = pm[v]
    BY Zenon
  <1> HIDE DEF pm2
  <1>2. pm[w] \in Seq(Message) /\ Len(pm[w]) \in Nat /\ Len(pm[w]) # 0
    OBVIOUS
  <1>3. /\ Len(pm2[w]) = Len(pm[w]) - 1
        /\ \A i \in 1..(Len(pm[w]) - 1) : pm2[w][i] = pm[w][i + 1]
    BY <1>1, <1>2
  <1>4. \A i \in 1..Len(pm[w]) : i # 1 => i - 1 \in 1..Len(pm2[w]) /\ pm2[w][i - 1] = pm[w][i]
    <2> SUFFICES ASSUME NEW i \in 1..Len(pm[w]), i # 1
                 PROVE  i - 1 \in 1..Len(pm2[w]) /\ pm2[w][i - 1] = pm[w][i]
      BY Zenon
    <2>1. i - 1 \in 1..(Len(pm[w]) - 1) /\ (i - 1) + 1 = i
      BY <1>2
    <2>2. QED
      BY Zenon, <1>3, <2>1
  <1>5. \A i \in 1..Len(pm2[w]) : i + 1 \in 1..Len(pm[w]) /\ pm2[w][i] = pm[w][i + 1]
    BY <1>2, <1>3
  <1>6. Shorter(pm, pm2, w)
    BY Zenon, <1>1, <1>4, <1>5 DEF Shorter
  <1>7. QED
    BY Zenon, <1>6 DEF pm2

\* What is in a pipe is a message.
LEMMA PipeHolds ==
    ASSUME NEW pm \in [Worker -> Seq(Message)]
    PROVE  \A v \in Worker : \A i \in 1..Len(pm[v]) :
             pm[v][i].id \in SessionId /\ pm[v][i] = [type |-> pm[v][i].type, id |-> pm[v][i].id]
  <1>1. \A x \in Message : x.id \in SessionId /\ x = [type |-> x.type, id |-> x.id]
    BY DEF Message
  <1>2. \A v \in Worker : \A i \in 1..Len(pm[v]) : pm[v][i] \in Message
    OBVIOUS
  <1>3. QED
    BY Zenon, <1>1, <1>2

\* The same sessions have had their onConnect.
SameKnown == \A id \in SessionId : log'[id] = <<>> <=> log[id] = <<>>

SameIds == \A fd \in Fd : conn'[fd].session_id = conn[fd].session_id

\* A message behind the CONNECT of its connection keeps the order.
LEMMA MessagePosted ==
    ASSUME ConnBase, ConnBase', PipesInOrder, SameKnown, SameIds,
           session_round' = session_round,
           NEW fd \in Fd, NEW t \in {"RECV_DATA", "CLOSE"}, conn[fd].session_id # 0,
           pipe_master' = Send(pipe_master, BoundTo[fd], t, conn[fd].session_id)
    PROVE  PipesInOrder'
  <1> DEFINE pm == pipe_master
             pm2 == pipe_master'
             w == BoundTo[fd]
             id == conn[fd].session_id
             m == [type |-> t, id |-> id]
  <1>1. /\ pm \in [Worker -> Seq(Message)] /\ w \in Worker /\ id \in SessionId
        /\ pm2 \in [Worker -> Seq(Message)]
    <2>1. pm \in [Worker -> Seq(Message)] /\ pm2 \in [Worker -> Seq(Message)] /\ conn[fd] \in Connection
      BY Zenon DEF ConnBase, SharedTypes
    <2>2. QED
      BY Zenon, <2>1, ConnectionAssumption, ConnFields
  <1>2. Longer(pm, pm2, w, m)
    <2>1. pm2 = Send(pm, w, t, id)
      BY Zenon
    <2> HIDE DEF pm, pm2, w, id
    <2>2. QED
      BY Zenon, <1>1, <2>1, SendLonger
  <1>3. m.type # "CONNECT" /\ m.id = id
    BY Zenon
  <1>4. \A v \in Worker : \A i \in 1..Len(pm[v]) : pm[v][i].id \in SessionId
    BY Zenon, <1>1, PipeHolds
  <1>5. id <= session_round
    BY Zenon DEF PipesInOrder, IdsGiven
  <1>6. log[id] # <<>> \/ \E j \in 1..Len(pm[w]) : pm[w][j] = Connect(id)
    BY Zenon DEF PipesInOrder, Announced
  <1>len. Len(pm[w]) \in Nat /\ Len(pm[w]) + 1 - 1 = Len(pm[w])
    BY <1>1
  <1> HIDE DEF pm, pm2, w, id, m
  <1>7. IdsGiven'
    <2>1. \A v \in Worker : \A i \in 1..Len(pm2[v]) : pm2[v][i].id <= session_round
      BY <1>2, <1>3, <1>5 DEF Longer, PipesInOrder, IdsGiven, pm
    <2>2. QED
      BY Zenon, <2>1 DEF PipesInOrder, IdsGiven, SameKnown, SameIds, pm2
  <1>8. ConnectFirst'
    <2> SUFFICES ASSUME NEW v \in Worker, NEW i \in 1..Len(pm2[v])
                 PROVE  IF pm2[v][i].type = "CONNECT"
                        THEN log'[pm2[v][i].id] = <<>>
                        ELSE \/ log'[pm2[v][i].id] # <<>>
                             \/ \E j \in 1..(i - 1) : pm2[v][j] = Connect(pm2[v][i].id)
      BY Zenon DEF ConnectFirst, pm2
    <2>1. CASE i \in 1..Len(pm[v])
      <3>1. pm2[v][i] = pm[v][i] /\ pm[v][i].id \in SessionId
        BY Zenon, <1>2, <1>4, <2>1 DEF Longer
      <3>2. IF pm[v][i].type = "CONNECT"
            THEN log[pm[v][i].id] = <<>>
            ELSE \/ log[pm[v][i].id] # <<>>
                 \/ \E j \in 1..(i - 1) : pm[v][j] = Connect(pm[v][i].id)
        BY Zenon, <2>1 DEF PipesInOrder, ConnectFirst, pm
      <3>3. \A j \in 1..(i - 1) : pm2[v][j] = pm[v][j]
        <4>1. \A j \in 1..(i - 1) : j \in 1..Len(pm[v])
          BY <1>1, <2>1
        <4>2. QED
          BY Zenon, <1>2, <4>1 DEF Longer
      <3>4. QED
        BY Zenon, <3>1, <3>2, <3>3 DEF SameKnown
    <2>2. CASE v = w /\ i = Len(pm[w]) + 1
      <3>1. pm2[v][i] = m
        BY Zenon, <1>2, <2>2 DEF Longer
      <3>2. \A j \in 1..Len(pm[w]) : j \in 1..(i - 1) /\ pm2[v][j] = pm[v][j]
        BY <1>2, <1>len, <2>2 DEF Longer
      <3>3. log'[id] # <<>> \/ \E j \in 1..(i - 1) : pm2[v][j] = Connect(id)
        BY Zenon, <1>1, <1>6, <2>2, <3>2 DEF SameKnown
      <3>4. QED
        BY Zenon, <1>3, <3>1, <3>3
    <2>3. QED
      BY Zenon, <1>2, <2>1, <2>2 DEF Longer
  <1>9. ConnectOnce'
    <2> SUFFICES ASSUME NEW v \in Worker, NEW u \in Worker
                 PROVE  \A i \in 1..Len(pm2[v]), j \in 1..Len(pm2[u]) :
                          /\ pm2[v][i].type = "CONNECT" /\ pm2[u][j].type = "CONNECT"
                          /\ pm2[v][i].id = pm2[u][j].id
                          => v = u /\ i = j
      BY Zenon DEF ConnectOnce, pm2
    <2> SUFFICES ASSUME NEW i \in 1..Len(pm2[v]), NEW j \in 1..Len(pm2[u]),
                        pm2[v][i].type = "CONNECT", pm2[u][j].type = "CONNECT", pm2[v][i].id = pm2[u][j].id
                 PROVE  v = u /\ i = j
      BY Zenon
    <2>1. i \in 1..Len(pm[v]) /\ j \in 1..Len(pm[u])
      BY Zenon, <1>2, <1>3 DEF Longer
    <2>2. pm2[v][i] = pm[v][i] /\ pm2[u][j] = pm[u][j]
      BY Zenon, <1>2, <2>1 DEF Longer
    <2>3. QED
      BY <2>1, <2>2 DEF PipesInOrder, ConnectOnce, pm
  <1>10. Announced'
    <2> SUFFICES ASSUME NEW g \in Fd, conn[g].session_id # 0
                 PROVE  \/ log'[conn[g].session_id] # <<>>
                        \/ \E j \in 1..Len(pm2[BoundTo[g]]) : pm2[BoundTo[g]][j] = Connect(conn[g].session_id)
      BY DEF Announced, SameIds, pm2
    <2>1. conn[g].session_id \in SessionId /\ BoundTo[g] \in Worker
      BY Zenon, ConnectionAssumption, ConnFields DEF ConnBase, SharedTypes
    <2>2. \/ log[conn[g].session_id] # <<>>
          \/ \E j \in 1..Len(pm[BoundTo[g]]) : pm[BoundTo[g]][j] = Connect(conn[g].session_id)
      BY Zenon DEF PipesInOrder, Announced, pm
    <2>3. QED
      BY Zenon, <1>2, <2>1, <2>2 DEF SameKnown, Longer
  <1>11. QED
    BY Zenon, <1>7, <1>8, <1>9, <1>10 DEF PipesInOrder

\* The CONNECT of a new session keeps the order.
LEMMA ConnectPosted ==
    ASSUME ConnBase, ConnBase', PipesInOrder, NEW fd \in Fd, NEW id \in SessionId, NEW c2,
           id > session_round, session_round' = id, log' = log,
           c2.session_id = id, conn' = [conn EXCEPT ![fd] = c2],
           pipe_master' = Send(pipe_master, BoundTo[fd], "CONNECT", id)
    PROVE  PipesInOrder'
  <1> DEFINE pm == pipe_master
             pm2 == pipe_master'
             w == BoundTo[fd]
             m == Connect(id)
  <1>1. /\ pm \in [Worker -> Seq(Message)] /\ w \in Worker
        /\ pm2 \in [Worker -> Seq(Message)]
    BY Zenon, ConnectionAssumption DEF ConnBase, SharedTypes
  <1>2. Longer(pm, pm2, w, m)
    <2>1. pm2 = Send(pm, w, "CONNECT", id)
      BY Zenon
    <2> HIDE DEF pm, pm2, w
    <2>2. QED
      BY Zenon, <1>1, <2>1, SendLonger DEF Connect
  <1>3. m.type = "CONNECT" /\ m.id = id
    BY Zenon DEF Connect
  <1>4. id \in Nat /\ session_round \in Nat
    BY ConnectionAssumption DEF SessionId, ConnBase, GhostTypes
  <1>5. \A v \in Worker : \A i \in 1..Len(pm[v]) : pm[v][i].id \in SessionId /\ pm[v][i].id \in Nat
    <2>1. \A x \in SessionId : x \in Nat
      BY ConnectionAssumption DEF SessionId
    <2>2. QED
      BY Zenon, <1>1, <2>1, PipeHolds
  <1>6. log[id] = <<>>
    BY Zenon DEF PipesInOrder, IdsGiven
  <1>7. conn'[fd].session_id = id /\ \A g \in Fd : g # fd => conn'[g] = conn[g]
    BY Zenon DEF ConnBase, SharedTypes
  <1>8. \A v \in Worker : \A i \in 1..Len(pm[v]) : pm[v][i].id # id
    BY <1>4, <1>5 DEF PipesInOrder, IdsGiven
  <1> HIDE DEF pm, pm2, w, m
  <1>9. IdsGiven'
    <2>1. \A v \in Worker : \A i \in 1..Len(pm2[v]) : pm2[v][i].id <= id
      <3>1. \A v \in Worker : \A i \in 1..Len(pm[v]) : pm[v][i].id <= id
        BY <1>4, <1>5 DEF PipesInOrder, IdsGiven, pm
      <3>2. id <= id
        BY <1>4
      <3>3. QED
        BY Zenon, <1>2, <1>3, <3>1, <3>2 DEF Longer
    <2>2. \A g \in Fd : conn'[g].session_id <= id
      <3>1. \A g \in Fd : conn[g].session_id \in Nat /\ conn[g].session_id <= session_round
        <4>1. \A g \in Fd : conn[g] \in Connection
          BY Zenon DEF ConnBase, SharedTypes
        <4>2. QED
          BY Zenon, <4>1, ConnFields DEF PipesInOrder, IdsGiven
      <3>2. QED
        BY <1>4, <1>7, <3>1
    <2>3. \A x \in SessionId : x > id => log'[x] = <<>>
      <3>1. \A x \in SessionId : x \in Nat
        BY ConnectionAssumption DEF SessionId
      <3>2. \A x \in SessionId : x > id => x > session_round
        BY <1>4, <3>1
      <3>3. QED
        BY Zenon, <3>2 DEF PipesInOrder, IdsGiven
    <2>4. QED
      BY Zenon, <2>1, <2>2, <2>3 DEF IdsGiven, pm2
  <1>10. ConnectFirst'
    <2> SUFFICES ASSUME NEW v \in Worker, NEW i \in 1..Len(pm2[v])
                 PROVE  IF pm2[v][i].type = "CONNECT"
                        THEN log[pm2[v][i].id] = <<>>
                        ELSE \/ log[pm2[v][i].id] # <<>>
                             \/ \E j \in 1..(i - 1) : pm2[v][j] = Connect(pm2[v][i].id)
      BY Zenon DEF ConnectFirst, pm2
    <2>1. CASE i \in 1..Len(pm[v])
      <3>1. pm2[v][i] = pm[v][i]
        BY Zenon, <1>2, <2>1 DEF Longer
      <3>2. IF pm[v][i].type = "CONNECT"
            THEN log[pm[v][i].id] = <<>>
            ELSE \/ log[pm[v][i].id] # <<>>
                 \/ \E j \in 1..(i - 1) : pm[v][j] = Connect(pm[v][i].id)
        BY Zenon, <2>1 DEF PipesInOrder, ConnectFirst, pm
      <3>3. \A j \in 1..(i - 1) : pm2[v][j] = pm[v][j]
        <4>1. \A j \in 1..(i - 1) : j \in 1..Len(pm[v])
          BY <1>1, <2>1
        <4>2. QED
          BY Zenon, <1>2, <4>1 DEF Longer
      <3>4. QED
        BY Zenon, <3>1, <3>2, <3>3
    <2>2. CASE v = w /\ i = Len(pm[w]) + 1
      BY Zenon, <1>2, <1>3, <1>6, <2>2 DEF Longer
    <2>3. QED
      BY Zenon, <1>2, <2>1, <2>2 DEF Longer
  <1>11. ConnectOnce'
    <2> SUFFICES ASSUME NEW v \in Worker, NEW u \in Worker
                 PROVE  \A i \in 1..Len(pm2[v]), j \in 1..Len(pm2[u]) :
                          /\ pm2[v][i].type = "CONNECT" /\ pm2[u][j].type = "CONNECT"
                          /\ pm2[v][i].id = pm2[u][j].id
                          => v = u /\ i = j
      BY Zenon DEF ConnectOnce, pm2
    <2> SUFFICES ASSUME NEW i \in 1..Len(pm2[v]), NEW j \in 1..Len(pm2[u]),
                        pm2[v][i].type = "CONNECT", pm2[u][j].type = "CONNECT", pm2[v][i].id = pm2[u][j].id
                 PROVE  v = u /\ i = j
      BY Zenon
    <2>1. CASE i \in 1..Len(pm[v]) /\ j \in 1..Len(pm[u])
      <3>1. pm2[v][i] = pm[v][i] /\ pm2[u][j] = pm[u][j]
        BY Zenon, <1>2, <2>1 DEF Longer
      <3>2. QED
        BY <2>1, <3>1 DEF PipesInOrder, ConnectOnce, pm
    <2>2. i \in 1..Len(pm[v]) => pm2[v][i].id # id
      BY Zenon, <1>2, <1>8 DEF Longer
    <2>3. j \in 1..Len(pm[u]) => pm2[u][j].id # id
      BY <1>2, <1>8 DEF Longer
    <2>4. /\ i \in 1..Len(pm[v]) \/ (v = w /\ i = Len(pm[w]) + 1 /\ pm2[v][i].id = id)
          /\ j \in 1..Len(pm[u]) \/ (u = w /\ j = Len(pm[w]) + 1 /\ pm2[u][j].id = id)
      BY Zenon, <1>2, <1>3 DEF Longer
    <2>5. QED
      BY Zenon, <2>1, <2>2, <2>3, <2>4
  <1>12. Announced'
    <2> SUFFICES ASSUME NEW g \in Fd, conn'[g].session_id # 0
                 PROVE  \/ log[conn'[g].session_id] # <<>>
                        \/ \E j \in 1..Len(pm2[BoundTo[g]]) : pm2[BoundTo[g]][j] = Connect(conn'[g].session_id)
      BY Zenon DEF Announced, pm2
    <2>1. CASE g = fd
      BY Zenon, <1>2, <1>7, <2>1 DEF Longer, m, w
    <2>2. CASE g # fd
      <3>1. BoundTo[g] \in Worker
        BY Zenon, ConnectionAssumption
      <3>2. \/ log[conn[g].session_id] # <<>>
            \/ \E j \in 1..Len(pm[BoundTo[g]]) : pm[BoundTo[g]][j] = Connect(conn[g].session_id)
        BY Zenon, <1>7, <2>2 DEF PipesInOrder, Announced, pm
      <3>3. QED
        BY Zenon, <1>2, <1>7, <2>2, <3>1, <3>2 DEF Longer
    <2>3. QED
      BY Zenon, <2>1, <2>2
  <1>13. QED
    BY Zenon, <1>9, <1>10, <1>11, <1>12 DEF PipesInOrder

\* What the callback of a message does to the logs: a CONNECT begins its own.
LogsMove(m) ==
  \A id \in SessionId :
    /\ log[id] # <<>> => log'[id] # <<>>
    /\ m = Connect(id) => log'[id] # <<>>
    /\ log[id] = <<>> /\ ~(m.type = "CONNECT" /\ m.id = id) => log'[id] = <<>>

\* The next message is taken in order.
LEMMA MessageTaken ==
    ASSUME ConnBase, ConnBase', PipesInOrder, NEW w \in Worker, pipe_master[w] # <<>>,
           pipe_master' = [pipe_master EXCEPT ![w] = Tail(@)],
           session_round' = session_round, conn' = conn, LogsMove(Head(pipe_master[w]))
    PROVE  PipesInOrder'
  <1> DEFINE pm == pipe_master
             pm2 == pipe_master'
             m == pm[w][1]
  <1>1. /\ pm \in [Worker -> Seq(Message)] /\ pm2 \in [Worker -> Seq(Message)]
    BY Zenon DEF ConnBase, SharedTypes
  <1>2. Shorter(pm, pm2, w)
    BY Zenon, <1>1, TailShorter
  <1>3. 1 \in 1..Len(pm[w]) /\ m = Head(pm[w])
    BY <1>1
  <1>4. \A v \in Worker : \A i \in 1..Len(pm[v]) : pm[v][i].id \in SessionId
    BY Zenon, <1>1, PipeHolds
  <1>5. LogsMove(m)
    BY Zenon, <1>3
  <1>6. m.type = "CONNECT" => log[m.id] = <<>>
    BY Zenon, <1>3 DEF PipesInOrder, ConnectFirst
  <1>len. \A v \in Worker : Len(pm[v]) \in Nat /\ Len(pm2[v]) \in Nat
    BY <1>1
  <1> DEFINE Old(v, i) == IF v = w THEN i + 1 ELSE i
  <1>7. \A v \in Worker : \A i \in 1..Len(pm2[v]) :
          Old(v, i) \in 1..Len(pm[v]) /\ pm2[v][i] = pm[v][Old(v, i)]
    BY Zenon, <1>2 DEF Shorter
  <1>8. \A v \in Worker : \A i \in 1..Len(pm2[v]) : v = w => Old(v, i) # 1
    BY <1>len
  <1>9. \A v, u \in Worker : \A i \in 1..Len(pm2[v]), j \in 1..Len(pm2[u]) : v = u /\ Old(v, i) = Old(u, j) => i = j
    BY <1>len
  <1> HIDE DEF pm, pm2
  <1>10. \A v \in Worker : \A i \in 1..Len(pm2[v]) :
           pm2[v][i].type = "CONNECT" => ~(m.type = "CONNECT" /\ m.id = pm2[v][i].id)
    <2> SUFFICES ASSUME NEW v \in Worker, NEW i \in 1..Len(pm2[v]), pm2[v][i].type = "CONNECT",
                        m.type = "CONNECT", m.id = pm2[v][i].id
                 PROVE  FALSE
      BY Zenon
    <2>1. Old(v, i) \in 1..Len(pm[v]) /\ pm2[v][i] = pm[v][Old(v, i)]
      BY Zenon, <1>7
    <2> HIDE DEF Old
    <2>2. v = w /\ Old(v, i) = 1
      BY <1>3, <2>1 DEF PipesInOrder, ConnectOnce, pm
    <2>3. QED
      BY Zenon, <1>8, <2>2
  <1>11. IdsGiven'
    <2>1. \A v \in Worker : \A i \in 1..Len(pm2[v]) : pm2[v][i].id <= session_round
      <3> HIDE DEF Old
      <3>1. QED
        BY Zenon, <1>7 DEF PipesInOrder, IdsGiven, pm
    <2>2. \A x \in SessionId : x > session_round => log'[x] = <<>>
      <3>1. m.id <= session_round /\ m.id \in SessionId
        BY Zenon, <1>3, <1>4 DEF PipesInOrder, IdsGiven, pm
      <3>2. \A x \in SessionId : x > session_round => x # m.id
        BY <3>1, ConnectionAssumption DEF SessionId, ConnBase, GhostTypes
      <3>3. QED
        BY Zenon, <1>5, <3>2 DEF LogsMove, PipesInOrder, IdsGiven
    <2>3. QED
      BY Zenon, <2>1, <2>2 DEF PipesInOrder, IdsGiven, pm2
  <1>12. ConnectFirst'
    <2> SUFFICES ASSUME NEW v \in Worker, NEW i \in 1..Len(pm2[v])
                 PROVE  IF pm2[v][i].type = "CONNECT"
                        THEN log'[pm2[v][i].id] = <<>>
                        ELSE \/ log'[pm2[v][i].id] # <<>>
                             \/ \E j \in 1..(i - 1) : pm2[v][j] = Connect(pm2[v][i].id)
      BY Zenon DEF ConnectFirst, pm2
    <2> DEFINE o == Old(v, i)
               x == pm2[v][i].id
    <2>1. o \in 1..Len(pm[v]) /\ pm2[v][i] = pm[v][o]
      BY Zenon, <1>7
    <2>2. x \in SessionId
      BY Zenon, <1>4, <2>1
    <2>3. CASE pm2[v][i].type = "CONNECT"
      <3>1. log[x] = <<>>
        <4> HIDE DEF o
        <4>1. QED
          BY Zenon, <2>1, <2>3 DEF PipesInOrder, ConnectFirst, pm
      <3>2. ~(m.type = "CONNECT" /\ m.id = x)
        BY Zenon, <1>10, <2>3
      <3>3. QED
        BY Zenon, <1>5, <2>2, <2>3, <3>1, <3>2 DEF LogsMove
    <2>4. CASE pm2[v][i].type # "CONNECT"
      <3>1. log[x] # <<>> \/ \E j \in 1..(o - 1) : pm[v][j] = Connect(x)
        <4> HIDE DEF o
        <4>1. QED
          BY Zenon, <2>1, <2>4 DEF PipesInOrder, ConnectFirst, pm
      <3>2. CASE log[x] # <<>>
        BY Zenon, <1>5, <2>2, <2>4, <3>2 DEF LogsMove
      <3>3. ASSUME NEW j \in 1..(o - 1), pm[v][j] = Connect(x), v # w
            PROVE  \E k \in 1..(i - 1) : pm2[v][k] = Connect(x)
        <4>1. pm2[v] = pm[v]
          BY Zenon, <1>2, <3>3 DEF Shorter
        <4>2. o = i
          BY Zenon, <3>3
        <4>3. QED
          BY Zenon, <3>3, <4>1, <4>2
      <3>4. ASSUME NEW j \in 1..(o - 1), pm[v][j] = Connect(x), v = w
            PROVE  log'[x] # <<>> \/ \E k \in 1..(i - 1) : pm2[v][k] = Connect(x)
        <4>1. CASE j = 1
          BY Zenon, <1>5, <2>2, <3>4, <4>1 DEF LogsMove
        <4>2. CASE j # 1
          <5>1. o = i + 1 /\ j \in 1..Len(pm[w]) /\ j - 1 \in 1..(i - 1)
            BY <1>len, <2>1, <3>4, <4>2
          <5>2. pm2[w][j - 1] = pm[w][j]
            BY Zenon, <1>2, <4>2, <5>1 DEF Shorter
          <5>3. QED
            BY Zenon, <3>4, <5>1, <5>2
        <4>3. QED
          BY Zenon, <4>1, <4>2
      <3>5. QED
        BY Zenon, <2>4, <3>1, <3>2, <3>3, <3>4
    <2>5. QED
      BY Zenon, <2>3, <2>4
  <1>13. ConnectOnce'
    <2> SUFFICES ASSUME NEW v \in Worker, NEW u \in Worker
                 PROVE  \A i \in 1..Len(pm2[v]), j \in 1..Len(pm2[u]) :
                          /\ pm2[v][i].type = "CONNECT" /\ pm2[u][j].type = "CONNECT"
                          /\ pm2[v][i].id = pm2[u][j].id
                          => v = u /\ i = j
      BY Zenon DEF ConnectOnce, pm2
    <2> SUFFICES ASSUME NEW i \in 1..Len(pm2[v]), NEW j \in 1..Len(pm2[u]),
                        pm2[v][i].type = "CONNECT", pm2[u][j].type = "CONNECT", pm2[v][i].id = pm2[u][j].id
                 PROVE  v = u /\ i = j
      BY Zenon
    <2>1. /\ Old(v, i) \in 1..Len(pm[v]) /\ pm2[v][i] = pm[v][Old(v, i)]
          /\ Old(u, j) \in 1..Len(pm[u]) /\ pm2[u][j] = pm[u][Old(u, j)]
      BY Zenon, <1>7
    <2> HIDE DEF Old
    <2>2. v = u /\ Old(v, i) = Old(u, j)
      BY SMTT(30), <2>1 DEF PipesInOrder, ConnectOnce, pm
    <2>3. QED
      BY Zenon, <1>9, <2>2
  <1>14. Announced'
    <2> SUFFICES ASSUME NEW g \in Fd, conn[g].session_id # 0
                 PROVE  \/ log'[conn[g].session_id] # <<>>
                        \/ \E j \in 1..Len(pm2[BoundTo[g]]) : pm2[BoundTo[g]][j] = Connect(conn[g].session_id)
      BY Zenon DEF Announced, pm2
    <2> DEFINE x == conn[g].session_id
               v == BoundTo[g]
    <2>1. x \in SessionId /\ v \in Worker
      <3>1. conn[g] \in Connection
        BY Zenon DEF ConnBase, SharedTypes
      <3>2. QED
        BY Zenon, <3>1, ConnectionAssumption, ConnFields
    <2>2. log[x] # <<>> \/ \E j \in 1..Len(pm[v]) : pm[v][j] = Connect(x)
      BY Zenon DEF PipesInOrder, Announced, pm
    <2> HIDE DEF x, v
    <2>3. CASE log[x] # <<>>
      BY Zenon, <1>5, <2>1, <2>3 DEF LogsMove, x, v
    <2>4. ASSUME NEW j \in 1..Len(pm[v]), pm[v][j] = Connect(x)
          PROVE  log'[x] # <<>> \/ \E k \in 1..Len(pm2[v]) : pm2[v][k] = Connect(x)
      <3>1. CASE v # w
        BY Zenon, <1>2, <2>1, <2>4, <3>1 DEF Shorter
      <3>2. CASE v = w /\ j = 1
        BY Zenon, <1>5, <2>1, <2>4, <3>2 DEF LogsMove
      <3>3. CASE v = w /\ j # 1
        <4>1. j - 1 \in 1..Len(pm2[v]) /\ pm2[v][j - 1] = pm[v][j]
          BY Zenon, <1>2, <2>4, <3>3 DEF Shorter
        <4>2. QED
          BY Zenon, <2>4, <4>1
      <3>4. QED
        BY Zenon, <3>1, <3>2, <3>3
    <2>5. QED
      BY Zenon, <2>2, <2>3, <2>4 DEF x, v
  <1>15. QED
    BY Zenon, <1>11, <1>12, <1>13, <1>14 DEF PipesInOrder

-----------------------------------------------------------------------------
(* The handlers of the reactor.                                            *)

\* A session is due when its onClose was run.
LEMMA DueRan ==
    ASSUME FlagsTrue, NEW fd \in Fd, Due(fd)
    PROVE  conn[fd].session_id # 0 /\ Ran(log, conn[fd].session_id)
  BY Zenon DEF Due, FlagsTrue

\* A handler that touches a connection keeps what its flags say.
LEMMA FlagsKept ==
    ASSUME ConnBase, SessionsDiffer, FlagsTrue, log' = log,
           NEW fd \in Fd, NEW c2, Edited(fd, c2)
    PROVE  /\ SameIds /\ SessionsDiffer' /\ FlagsTrue'
           /\ \A id : Gone(conn, id) => Gone(conn', id)
  <1>1. /\ conn'[fd] = c2 /\ \A g \in Fd : g # fd => conn'[g] = conn[g]
        /\ Moved(conn[fd], c2) /\ (Asked(c2) => Due(fd))
    BY Zenon DEF Edited, ConnBase, SharedTypes
  <1>2. SameIds
    BY Zenon, <1>1 DEF SameIds, Moved
  <1>3. SessionsDiffer'
    BY Zenon, <1>2 DEF SameIds, SessionsDiffer
  <1>4. \A id : Gone(conn, id) => Gone(conn', id)
    BY Zenon, <1>1 DEF Gone, Moved
  <1>5. FlagsTrue'
    <2> SUFFICES ASSUME NEW g \in Fd
                 PROVE  /\ conn'[g].session_id # 0 /\ Ran(log, conn'[g].session_id) => conn'[g].closed
                        /\ conn'[g].active /\ conn'[g].closed => Ran(log, conn'[g].session_id)
                        /\ Asked(conn'[g]) => conn'[g].session_id # 0 /\ Ran(log, conn'[g].session_id)
      BY Zenon DEF FlagsTrue
    <2>1. CASE g # fd
      BY Zenon, <1>1, <2>1 DEF FlagsTrue
    <2>2. CASE g = fd
      <3>1. conn'[g] = c2 /\ c2.session_id = conn[fd].session_id
        BY Zenon, <1>1, <2>2 DEF Moved
      <3>2. c2.session_id # 0 /\ Ran(log, c2.session_id) => c2.closed
        BY Zenon, <1>1, <3>1 DEF FlagsTrue, Moved
      <3>3. c2.active /\ c2.closed => Ran(log, c2.session_id)
        BY Zenon, <1>1, <3>1 DEF FlagsTrue, Moved
      <3>4. Asked(c2) => c2.session_id # 0 /\ Ran(log, c2.session_id)
        BY Zenon, <1>1, <3>1, DueRan
      <3>5. QED
        BY Zenon, <3>1, <3>2, <3>3, <3>4
    <2>3. QED
      BY Zenon, <2>1, <2>2
  <1>6. QED
    BY Zenon, <1>2, <1>3, <1>4, <1>5

\* Posting keeps the order.
LEMMA PostsInOrder ==
    ASSUME ConnBase, ConnBase', PipesInOrder, SameKnown, SameIds,
           session_round' = session_round, NEW fd \in Fd, Posts(fd)
    PROVE  PipesInOrder'
  <1>1. CASE pipe_master' = pipe_master
    <2>1. \A v \in Worker : \A i \in 1..Len(pipe_master[v]) : pipe_master[v][i].id \in SessionId
      BY Zenon, PipeHolds DEF ConnBase, SharedTypes
    <2>2. \A g \in Fd : conn[g].session_id # 0 => conn[g].session_id \in SessionId
      <3>1. \A g \in Fd : conn[g] \in Connection
        BY Zenon DEF ConnBase, SharedTypes
      <3>2. QED
        BY Zenon, <3>1, ConnFields
    <2>3. IdsGiven'
      BY Zenon, <1>1 DEF PipesInOrder, IdsGiven, SameKnown, SameIds
    <2>4. ConnectFirst'
      BY Zenon, <1>1, <2>1 DEF PipesInOrder, ConnectFirst, SameKnown
    <2>5. ConnectOnce'
      BY <1>1 DEF PipesInOrder, ConnectOnce
    <2>6. Announced'
      BY Zenon, <1>1, <2>2 DEF PipesInOrder, Announced, SameKnown, SameIds
    <2>7. QED
      BY Zenon, <2>3, <2>4, <2>5, <2>6 DEF PipesInOrder
  <1>2. QED
    BY Zenon, <1>1, MessagePosted DEF Posts

\* What workers do beside: nothing, begin with a session they know, go on from
\* onClose, or finish a session that is closed or gone.
WorkersMove ==
  \A w \in Worker : worker'[w].pc # "idle" =>
    \/ worker'[w] = worker[w]
    \/ worker'[w].pc = "verified" /\ log[worker'[w].id] # <<>>
    \/ worker'[w].id = worker[w].id /\ worker[w].pc = "onClose"
    \/ log[worker'[w].id] # <<>> /\ (Ran(log, worker'[w].id) \/ Gone(conn', worker'[w].id))

\* They keep what is known of their sessions.
LEMMA EndsKept ==
    ASSUME EndsTrue, log' = log, WorkersMove, \A id : Gone(conn, id) => Gone(conn', id)
    PROVE  EndsTrue'
  <1> SUFFICES ASSUME NEW w \in Worker, worker'[w].pc # "idle"
               PROVE  /\ log[worker'[w].id] # <<>>
                      /\ worker'[w].pc \in {"onClose", "finish"} =>
                            Ran(log, worker'[w].id) \/ Gone(conn', worker'[w].id)
    BY Zenon DEF EndsTrue
  <1>1. worker[w].pc # "idle" =>
          /\ log[worker[w].id] # <<>>
          /\ worker[w].pc \in {"onClose", "finish"} =>
                Ran(log, worker[w].id) \/ Gone(conn', worker[w].id)
    BY Zenon DEF EndsTrue
  <1>2. QED
    BY Zenon, <1>1 DEF WorkersMove

\* A handler that touches one connection keeps the protocol.
LEMMA ConnectionStep ==
    ASSUME ConnBase, ConnBase', Protocol, NEW fd \in Fd, Touches(fd), AnswersTrue',
           log' = log, WorkersMove, session_round' = session_round
    PROVE  Protocol'
  <1>1. PICK c2 : Edited(fd, c2)
    BY Zenon DEF Touches
  <1>2. /\ SameIds /\ SessionsDiffer' /\ FlagsTrue'
        /\ \A id : Gone(conn, id) => Gone(conn', id)
    BY Zenon, <1>1, FlagsKept DEF Protocol
  <1>3. SameKnown
    BY Zenon DEF SameKnown
  <1>4. PipesInOrder'
    BY Zenon, <1>2, <1>3, PostsInOrder DEF Protocol, Touches
  <1>5. EndsTrue'
    BY Zenon, <1>2, EndsKept DEF Protocol
  <1>6. ReleasedTrue'
    <2>1. Due(fd) => Ran(log, conn[fd].session_id)
      BY Zenon, DueRan DEF Protocol
    <2>2. QED
      BY Zenon, <2>1 DEF Touches, Protocol, ReleasedTrue
  <1>7. LogsTrue'
    BY Zenon DEF Protocol, LogsTrue
  <1>8. QED
    BY Zenon, <1>2, <1>4, <1>5, <1>6, <1>7 DEF Protocol

\* An edit of an edited connection.
LEMMA EditTwice ==
    ASSUME NEW fd, NEW c, NEW c2, Moved(conn[fd], c), Asked(c) => Due(fd),
           c2 \in Connection, c2.session_id = c.session_id, c2.active => c.active,
           c.closed => c2.closed, c2.active /\ c2.closed => c.closed,
           Asked(c2) => Asked(c), conn' = [conn EXCEPT ![fd] = c2]
    PROVE  Edited(fd, c2)
  BY Zenon DEF Edited, Moved

\* Only flags that the protocol does not depend on are written.
Kept(c, c2) ==
  /\ c2 \in Connection /\ c2.session_id = c.session_id /\ c2.active = c.active
  /\ c2.closed = c.closed /\ (Asked(c2) => Asked(c))

Emptied(c, c2) ==
  /\ c2 \in Connection /\ c2.session_id = c.session_id /\ ~c2.active
  /\ c2.closed /\ (Asked(c2) => Asked(c))

\* What close_connection and onClose write into a connection.
LEMMA ClosingEdits ==
    ASSUME NEW c \in Connection
    PROVE  /\ Emptied(c, [c EXCEPT !.active = FALSE, !.closed = TRUE,
                                   !.removed = TRUE, !.out_buffer = <<>>])
           /\ Kept(c, [c EXCEPT !.removed = TRUE])
           /\ Kept(c, [c EXCEPT !.removed = TRUE, !.peer_closed = TRUE, !.close_notified = TRUE])
           /\ Kept(c, [c EXCEPT !.close_force = TRUE])
  <1>0. <<>> \in Seq({"DATA", "CLOSE"}) /\ Len(<<>>) = 0
    OBVIOUS
  <1>1. ASSUME NEW c2, c2 = [c EXCEPT !.active = FALSE, !.closed = TRUE,
                                   !.removed = TRUE, !.out_buffer = <<>>]
        PROVE  Emptied(c, c2)
    <2>1. /\ c2 \in Connection /\ c2.session_id = c.session_id /\ ~c2.active
          /\ c2.closed /\ c2.close_queued = c.close_queued /\ c2.out_buffer = <<>>
      BY Zenon, <1>0, <1>1 DEF Connection
    <2>2. QED
      BY <1>0, <2>1 DEF Asked, Emptied
  <1>2. ASSUME NEW c2,
               \/ c2 = [c EXCEPT !.removed = TRUE]
               \/ c2 = [c EXCEPT !.removed = TRUE, !.peer_closed = TRUE, !.close_notified = TRUE]
               \/ c2 = [c EXCEPT !.close_force = TRUE]
        PROVE  Kept(c, c2)
    <2>1. /\ c2 \in Connection /\ c2.session_id = c.session_id /\ c2.active = c.active
          /\ c2.closed = c.closed /\ c2.close_queued = c.close_queued /\ c2.out_buffer = c.out_buffer
      BY Zenon, <1>2 DEF Connection
    <2>2. QED
      BY Zenon, <2>1 DEF Asked, Kept
  <1>3. QED
    BY Zenon, <1>1, <1>2

\* Server::close_connection, of a connection that is due or forced.
LEMMA ReleaseTouches ==
    ASSUME ConnBase, NEW fd \in Fd, NEW c, Moved(conn[fd], c), Asked(c) => Due(fd),
           c.close_force \/ Due(fd), c.session_id # 0, NEW how \in Unforced,
           Release(fd, c, how)
    PROVE  Touches(fd)
  <1>0. c \in Connection /\ c.session_id = conn[fd].session_id
    BY Zenon DEF Moved
  <1> DEFINE c2 == [c EXCEPT !.active = FALSE, !.closed = TRUE,
                             !.removed = TRUE, !.out_buffer = <<>>]
  <1>1. /\ c2 \in Connection /\ c2.session_id = c.session_id /\ ~c2.active
        /\ c2.closed /\ (Asked(c2) => Asked(c))
    BY Zenon, <1>0, ClosingEdits DEF Emptied
  <1>2. conn' = [conn EXCEPT ![fd] = c2]
    BY Zenon DEF Release
  <1> HIDE DEF c2
  <1>3. Edited(fd, c2)
    BY Zenon, <1>1, <1>2, EditTwice
  <1>4. Posts(fd)
    BY Zenon DEF Posts, Release
  <1>5. \A id \in SessionId : released'[id] \in Unforced =>
           released[id] \in Unforced \/ (id = conn[fd].session_id /\ Due(fd))
    <2>1. released' = [released EXCEPT ![c.session_id] = IF c.close_force THEN "forced" ELSE how]
      BY Zenon DEF Release
    <2>2. released \in [SessionId -> {"no", "closed", "idle", "forced"}]
      BY Zenon DEF ConnBase, SharedTypes
    <2>3. "forced" \notin Unforced
      BY Zenon DEF Unforced
    <2>4. QED
      BY Zenon, <1>0, <2>1, <2>2, <2>3
  <1>6. QED
    BY Zenon, <1>3, <1>4, <1>5 DEF Touches

\* ReactorThread_onClose.
LEMMA OnCloseTouches ==
    ASSUME ConnBase, NEW fd \in Fd, NEW c, Moved(conn[fd], c), Asked(c) => Due(fd),
           c.session_id # 0, OnClose(fd, c)
    PROVE  Touches(fd)
  <1>0. c \in Connection /\ c.session_id = conn[fd].session_id
    BY Zenon DEF Moved
  <1>1. CASE /\ conn' = [conn EXCEPT ![fd] = c]
             /\ UNCHANGED <<session_list, client, released, pipe_master>>
    <2>1. Edited(fd, c)
      BY Zenon, <1>1 DEF Edited
    <2>2. QED
      BY Zenon, <1>1, <2>1 DEF Touches, Posts
  <1>2. CASE c.close_queued /\ Release(fd, c, "closed")
    <2>1. Due(fd)
      BY Zenon, <1>2 DEF Asked
    <2>2. QED
      BY Zenon, <1>2, <2>1, ReleaseTouches DEF Unforced
  <1>3. CASE /\ conn' = [conn EXCEPT ![fd] =
                   IF c.close_notified THEN [c EXCEPT !.removed = TRUE]
                   ELSE [c EXCEPT !.removed = TRUE, !.peer_closed = TRUE,
                                  !.close_notified = TRUE]]
             /\ pipe_master' = IF ~c.close_notified /\ MayDispatch(c, "CLOSE")
                       THEN Send(pipe_master, BoundTo[fd], "CLOSE", c.session_id)
                       ELSE pipe_master
             /\ UNCHANGED <<session_list, client, released>>
    <2> DEFINE c2 == IF c.close_notified THEN [c EXCEPT !.removed = TRUE]
                   ELSE [c EXCEPT !.removed = TRUE, !.peer_closed = TRUE,
                                  !.close_notified = TRUE]
    <2>1. Kept(c, c2)
      BY Zenon, <1>0, ClosingEdits
    <2>2. conn' = [conn EXCEPT ![fd] = c2]
      BY Zenon, <1>3
    <2> HIDE DEF c2
    <2>3. /\ c2 \in Connection /\ c2.session_id = c.session_id /\ c2.active = c.active
          /\ c2.closed = c.closed /\ (Asked(c2) => Asked(c))
      BY Zenon, <2>1 DEF Kept
    <2>4. Edited(fd, c2)
      BY Zenon, <2>2, <2>3, EditTwice
    <2>5. Posts(fd)
      BY Zenon, <1>0, <1>3 DEF Posts
    <2>6. QED
      BY Zenon, <1>3, <2>4, <2>5 DEF Touches
  <1>4. QED
    BY Zenon, <1>1, <1>2, <1>3 DEF OnClose

\* A connection as it is.
LEMMA NotMoved ==
    ASSUME ConnBase, NEW fd \in Fd
    PROVE  conn[fd] \in Connection /\ Moved(conn[fd], conn[fd]) /\ (Asked(conn[fd]) => Due(fd))
  BY Zenon DEF ConnBase, SharedTypes, Moved, Due

\* The handlers that act on a connection of their own.
LEMMA ReadTouches ==
    ASSUME ConnBase, FlagsTrue, NEW fd \in Fd,
           OnRead(fd) \/ OnReadEnd(fd) \/ IdleClose(fd) \/ ClientCloses(fd)
    PROVE  Touches(fd)
  <1>0. conn[fd] \in Connection /\ Moved(conn[fd], conn[fd]) /\ (Asked(conn[fd]) => Due(fd))
    BY Zenon, NotMoved
  <1>same. conn' = conn => Edited(fd, conn[fd])
    BY Zenon, <1>0 DEF Edited, ConnBase, SharedTypes
  <1>1. CASE OnRead(fd)
    <2>1. conn[fd].session_id # 0
      BY Zenon, <1>1 DEF OnRead, ConnBase, SharedTypes, InUse
    <2>2. Posts(fd)
      BY Zenon, <1>1, <2>1 DEF OnRead, Posts
    <2>3. QED
      BY Zenon, <1>1, <1>same, <2>2 DEF OnRead, Touches
  <1>2. CASE OnReadEnd(fd)
    <2>1. conn[fd].session_id # 0 /\ OnClose(fd, conn[fd])
      BY Zenon, <1>2 DEF OnReadEnd, ConnBase, SharedTypes, InUse
    <2>2. QED
      BY Zenon, <1>0, <2>1, OnCloseTouches
  <1>3. CASE IdleClose(fd)
    <2> DEFINE c == [conn[fd] EXCEPT !.close_force = TRUE]
    <2>1. /\ c \in Connection /\ c.session_id = conn[fd].session_id /\ c.active = conn[fd].active
          /\ c.closed = conn[fd].closed /\ (Asked(c) => Asked(conn[fd]))
      BY Zenon, <1>0, ClosingEdits DEF Kept
    <2>2. conn[fd].session_id # 0
      BY Zenon, <1>3 DEF IdleClose, ReleasesIdle, ConnBase, SharedTypes, InUse
    <2>3. \/ (conn[fd].close_force \/ conn[fd].closed) /\ Release(fd, conn[fd], "idle")
          \/ OnClose(fd, c)
      BY Zenon, <1>3 DEF IdleClose, ReleasesIdle
    <2>4. conn[fd].closed => Due(fd)
      BY Zenon, <1>3, <2>2 DEF FlagsTrue, Due, IdleClose
    <2> HIDE DEF c
    <2>5. Moved(conn[fd], c) /\ (Asked(c) => Due(fd))
      BY Zenon, <1>0, <2>1 DEF Moved
    <2>6. CASE (conn[fd].close_force \/ conn[fd].closed) /\ Release(fd, conn[fd], "idle")
      BY Zenon, <1>0, <2>2, <2>4, <2>6, ReleaseTouches DEF Unforced
    <2>7. CASE OnClose(fd, c)
      BY Zenon, <2>1, <2>2, <2>5, <2>7, OnCloseTouches
    <2>8. QED
      BY Zenon, <2>3, <2>6, <2>7
  <1>4. CASE ClientCloses(fd)
    BY Zenon, <1>4, <1>same DEF ClientCloses, Touches, Posts
  <1>5. QED
    BY Zenon, <1>1, <1>2, <1>3, <1>4

\* ReactorThread_onWrite.
LEMMA WriteTouches ==
    ASSUME ConnBase, NEW fd \in Fd, OnWrite(fd)
    PROVE  Touches(fd)
  <1> DEFINE c == conn[fd]
             out == c.out_buffer
             rest(n) == [c EXCEPT !.out_buffer = SubSeq(out, n + 1, Len(out))]
  <1>1. PICK n \in 0..Len(out) :
          \/ /\ conn' = [conn EXCEPT ![fd] = rest(n)]
             /\ UNCHANGED <<session_list, client, released, pipe_master>>
          \/ /\ n < Len(out) /\ out[n + 1] = "CLOSE"
             /\ Release(fd, rest(n), "closed")
          \/ OnClose(fd, rest(n))
    BY Zenon DEF OnWrite
  <1>2. conn[fd] \in Connection /\ conn[fd].session_id # 0
    BY Zenon DEF OnWrite, ConnBase, SharedTypes, InUse
  <1>3. out \in Seq({"DATA", "CLOSE"}) /\ Len(out) \in Nat
    BY <1>2, ConnFields
  <1>4. n \in Nat /\ n <= Len(out)
    BY <1>3
  <1> DEFINE q == SubSeq(out, n + 1, Len(out))
             c2 == rest(n)
  <1>5. q \in Seq({"DATA", "CLOSE"}) /\ \A i \in 1..Len(q) : n + i \in 1..Len(out) /\ q[i] = out[n + i]
    BY <1>3, <1>4
  <1>6. /\ c2 \in Connection /\ c2.session_id = c.session_id /\ c2.active = c.active
        /\ c2.closed = c.closed /\ c2.close_queued = c.close_queued /\ c2.out_buffer = q
    <2> HIDE DEF q
    <2>1. c2 = [c EXCEPT !.out_buffer = q]
      BY Zenon DEF q
    <2>2. QED
      BY Zenon, <1>2, <1>5, <2>1 DEF Connection
  <1>7. \/ /\ conn' = [conn EXCEPT ![fd] = c2]
           /\ UNCHANGED <<session_list, client, released, pipe_master>>
        \/ /\ n < Len(out) /\ out[n + 1] = "CLOSE"
           /\ Release(fd, c2, "closed")
        \/ OnClose(fd, c2)
    BY Zenon, <1>1
  <1> HIDE DEF c2, q, rest
  <1>8. Asked(c2) => Asked(c)
    BY Zenon, <1>5, <1>6 DEF Asked
  <1>9. Moved(c, c2) /\ (Asked(c2) => Due(fd))
    BY Zenon, <1>6, <1>8 DEF Moved, Due
  <1>10. n < Len(out) /\ out[n + 1] = "CLOSE" => Due(fd)
    <2>1. n < Len(out) => n + 1 \in 1..Len(out)
      BY <1>3, <1>4
    <2>2. QED
      BY Zenon, <2>1 DEF Due, Asked
  <1> HIDE DEF out
  <1>11. CASE /\ conn' = [conn EXCEPT ![fd] = c2]
              /\ UNCHANGED <<session_list, client, released, pipe_master>>
    <2>1. Edited(fd, c2)
      BY Zenon, <1>9, <1>11 DEF Edited
    <2>2. QED
      BY Zenon, <1>11, <2>1 DEF Touches, Posts
  <1>12. CASE Due(fd) /\ Release(fd, c2, "closed")
    BY Zenon, <1>2, <1>6, <1>9, <1>12, ReleaseTouches DEF Unforced
  <1>13. CASE OnClose(fd, c2)
    BY Zenon, <1>2, <1>6, <1>9, <1>13, OnCloseTouches
  <1>14. QED
    BY Zenon, <1>7, <1>10, <1>11, <1>12, <1>13

\* A step that touches no connection keeps the protocol.
LEMMA QuietStep ==
    ASSUME ConnBase, Protocol, AnswersTrue', WorkersMove,
           UNCHANGED <<conn, pipe_master, log, released, session_round>>
    PROVE  Protocol'
  <1>1. EndsTrue'
    BY Zenon, EndsKept DEF Protocol
  <1>2. PipesInOrder'
    <2>1. IdsGiven'
      BY Zenon DEF Protocol, PipesInOrder, IdsGiven
    <2>2. ConnectFirst'
      BY Zenon DEF Protocol, PipesInOrder, ConnectFirst
    <2>3. ConnectOnce'
      BY DEF Protocol, PipesInOrder, ConnectOnce
    <2>4. Announced'
      BY Zenon DEF Protocol, PipesInOrder, Announced
    <2>5. QED
      BY Zenon, <2>1, <2>2, <2>3, <2>4 DEF PipesInOrder
  <1>3. SessionsDiffer' /\ FlagsTrue' /\ ReleasedTrue' /\ LogsTrue'
    BY Zenon DEF Protocol, SessionsDiffer, FlagsTrue, ReleasedTrue, LogsTrue
  <1>4. QED
    BY Zenon, <1>1, <1>2, <1>3 DEF Protocol

\* The handlers that act on a connection of their own keep the protocol.
LEMMA ReadStep ==
    ASSUME ConnBase, ConnBase', Protocol, NEW fd \in Fd,
           OnRead(fd) \/ OnReadEnd(fd) \/ IdleClose(fd) \/ ClientCloses(fd) \/ OnWrite(fd)
    PROVE  Protocol'
  <1>1. Touches(fd)
    BY Zenon, ReadTouches, WriteTouches DEF Protocol
  <1>2. UNCHANGED <<pipe_worker, worker, log, session_round>>
    BY Zenon DEF OnRead, OnReadEnd, IdleClose, ClientCloses, OnWrite, workerVars
  <1>3. AnswersTrue' /\ WorkersMove
    BY Zenon, <1>2 DEF Protocol, AnswersTrue, WorkersMove
  <1>4. QED
    BY Zenon, <1>1, <1>2, <1>3, ConnectionStep

\* ReactorThread_onPipeRead keeps the protocol: a CLOSE that it takes comes from
\* a worker that has run onClose.
LEMMA PipeReadStep ==
    ASSUME ConnBase, ConnBase', Protocol, NEW w \in Worker, OnPipeRead(w)
    PROVE  Protocol'
  <1>0. pipe_worker \in [Worker -> Seq(Message)] /\ pipe_worker[w] \in Seq(Message) /\ pipe_worker[w] # <<>>
    BY Zenon DEF OnPipeRead, ConnBase, WorkerTypes
  <1> DEFINE m == Head(pipe_worker[w])
             fd == VerifiedFd(m.id)
  <1>1. m = pipe_worker[w][1] /\ 1 \in 1..Len(pipe_worker[w])
    BY <1>0
  <1>2. m.id \in SessionId
    BY Zenon, <1>0, <1>1, PipeHolds
  <1>3. pipe_worker' = [pipe_worker EXCEPT ![w] = Tail(@)]
    BY Zenon DEF OnPipeRead
  <1>4. Shorter(pipe_worker, pipe_worker', w)
    BY Zenon, <1>0, <1>3, TailShorter
  <1>5. UNCHANGED <<worker, log, session_round>>
    BY Zenon DEF OnPipeRead
  <1>6. AnswersTrue'
    <2> SUFFICES ASSUME NEW v \in Worker, NEW i \in 1..Len(pipe_worker'[v]), pipe_worker'[v][i].type = "CLOSE"
                 PROVE  Ran(log, pipe_worker'[v][i].id)
      BY Zenon, <1>5 DEF AnswersTrue
    <2>1. CASE v # w
      BY Zenon, <1>4, <2>1 DEF Shorter, Protocol, AnswersTrue
    <2>2. CASE v = w
      <3>1. i + 1 \in 1..Len(pipe_worker[w]) /\ pipe_worker'[w][i] = pipe_worker[w][i + 1]
        BY Zenon, <1>4, <2>2 DEF Shorter
      <3>2. pipe_worker[w][i + 1].type = "CLOSE" => Ran(log, pipe_worker[w][i + 1].id)
        BY Zenon, <3>1 DEF Protocol, AnswersTrue
      <3>3. QED
        BY Zenon, <2>2, <3>1, <3>2
    <2>3. QED
      BY Zenon, <2>1, <2>2
  <1>7. WorkersMove
    BY Zenon, <1>5 DEF WorkersMove
  <1>8. m.type = "CLOSE" => Ran(log, m.id)
    BY Zenon, <1>1 DEF Protocol, AnswersTrue
  <1>9. \/ UNCHANGED <<conn, session_list, client, released, pipe_master, sent>>
        \/ fd # 0 /\ SendData(fd, m.id)
        \/ fd # 0 /\ m.type = "CLOSE" /\ SendClose(fd)
    BY Zenon DEF OnPipeRead
  <1> HIDE DEF m
  <1>10. fd # 0 => fd \in Fd /\ conn[fd].session_id = m.id
    BY Zenon, VerifiedIs
  <1> HIDE DEF fd
  <1>11. ASSUME fd # 0
         PROVE  /\ conn[fd] \in Connection /\ Moved(conn[fd], conn[fd]) /\ (Asked(conn[fd]) => Due(fd))
                /\ conn[fd].session_id # 0 /\ conn[fd].out_buffer \in Seq({"DATA", "CLOSE"})
                /\ (conn' = conn => Edited(fd, conn[fd]))
    <2>1. /\ fd \in Fd /\ conn[fd] \in Connection /\ Moved(conn[fd], conn[fd])
          /\ (Asked(conn[fd]) => Due(fd))
      BY Zenon, <1>10, <1>11, NotMoved
    <2>2. conn[fd].session_id # 0
      BY Zenon, <1>2, <1>10, <1>11, IdIsGiven
    <2>3. conn' = conn => Edited(fd, conn[fd])
      BY Zenon, <2>1 DEF Edited, ConnBase, SharedTypes
    <2>4. QED
      BY Zenon, <2>1, <2>2, <2>3, ConnFields
  <1>12. ASSUME fd # 0, SendData(fd, m.id) PROVE Touches(fd)
    <2> DEFINE q == Append(conn[fd].out_buffer, "DATA")
               c2 == [conn[fd] EXCEPT !.out_buffer = q, !.removed = FALSE]
    <2>1. /\ q \in Seq({"DATA", "CLOSE"})
          /\ \A i \in 1..Len(q) : q[i] = "CLOSE" =>
               i \in 1..Len(conn[fd].out_buffer) /\ conn[fd].out_buffer[i] = "CLOSE"
      BY <1>11, <1>12
    <2>2. /\ conn' = conn \/ conn' = [conn EXCEPT ![fd] = c2]
          /\ UNCHANGED <<released, pipe_master>>
      BY Zenon, <1>10, <1>12 DEF SendData, ConnBase, SharedTypes
    <2> HIDE DEF q
    <2>3. /\ c2 \in Connection /\ c2.session_id = conn[fd].session_id /\ c2.active = conn[fd].active
          /\ c2.closed = conn[fd].closed /\ c2.close_queued = conn[fd].close_queued /\ c2.out_buffer = q
      BY Zenon, <1>11, <1>12, <2>1 DEF Connection
    <2> HIDE DEF c2
    <2>4. Asked(c2) => Asked(conn[fd])
      BY Zenon, <2>1, <2>3 DEF Asked
    <2>5. conn' = [conn EXCEPT ![fd] = c2] => Edited(fd, c2)
      BY Zenon, <1>11, <1>12, <2>3, <2>4, EditTwice
    <2>6. \E c : Edited(fd, c)
      BY Zenon, <1>11, <1>12, <2>2, <2>5
    <2>7. QED
      BY Zenon, <2>2, <2>6 DEF Touches, Posts
  <1>13. ASSUME fd # 0, m.type = "CLOSE", SendClose(fd) PROVE Touches(fd)
    <2>0. Due(fd)
      BY Zenon, <1>8, <1>10, <1>11, <1>13 DEF Due
    <2> DEFINE q == Append(conn[fd].out_buffer, "CLOSE")
               c2 == [conn[fd] EXCEPT !.out_buffer = q, !.close_queued = TRUE, !.removed = FALSE]
    <2>1. q \in Seq({"DATA", "CLOSE"})
      BY <1>11, <1>13
    <2>2. \/ Release(fd, conn[fd], "closed")
          \/ conn' = [conn EXCEPT ![fd] = c2] /\ UNCHANGED <<released, pipe_master>>
      BY Zenon, <1>10, <1>13 DEF SendClose, ConnBase, SharedTypes
    <2> HIDE DEF q
    <2>3. /\ c2 \in Connection /\ c2.session_id = conn[fd].session_id /\ c2.active = conn[fd].active
          /\ c2.closed = conn[fd].closed
      BY Zenon, <1>11, <1>13, <2>1 DEF Connection
    <2> HIDE DEF c2
    <2>4. CASE Release(fd, conn[fd], "closed")
      BY Zenon, <1>10, <1>11, <1>13, <2>0, <2>4, ReleaseTouches DEF Unforced
    <2>5. CASE conn' = [conn EXCEPT ![fd] = c2] /\ UNCHANGED <<released, pipe_master>>
      <3>1. Edited(fd, c2)
        BY Zenon, <2>0, <2>3, <2>5 DEF Edited, Moved
      <3>2. QED
        BY Zenon, <2>5, <3>1 DEF Touches, Posts
    <2>6. QED
      BY Zenon, <2>2, <2>4, <2>5
  <1>14. CASE UNCHANGED <<conn, session_list, client, released, pipe_master, sent>>
    BY Zenon, <1>5, <1>6, <1>7, <1>14, QuietStep
  <1>15. CASE fd # 0 /\ Touches(fd)
    BY Zenon, <1>5, <1>6, <1>7, <1>10, <1>15, ConnectionStep
  <1>16. QED
    BY Zenon, <1>9, <1>12, <1>13, <1>14, <1>15

\* A new session keeps the protocol: nothing is known of its id.
LEMMA AcceptStep ==
    ASSUME ConnBase, ConnBase', Protocol, Accept
    PROVE  Protocol'
  <1>1. PICK fd \in Fd, id \in SessionId :
          /\ FreshId(id) /\ session_round' = id
          /\ conn' = [conn EXCEPT ![fd] =
                  [ZeroConnection EXCEPT !.session_id = id, !.active = TRUE,
                                         !.removed = FALSE]]
          /\ pipe_master' = Send(pipe_master, BoundTo[fd], "CONNECT", id)
          /\ UNCHANGED <<idle_check, workerVars, sent, released, requests>>
    BY Zenon DEF Accept
  <1> DEFINE c2 == [ZeroConnection EXCEPT !.session_id = id, !.active = TRUE, !.removed = FALSE]
  <1>2. /\ c2.session_id = id /\ c2.active /\ ~c2.closed /\ ~c2.close_queued
        /\ Len(c2.out_buffer) = 0
    BY Zenon DEF ZeroConnection
  <1>3. conn' = [conn EXCEPT ![fd] = c2] /\ id > session_round
    BY Zenon, <1>1 DEF FreshId
  <1>4. UNCHANGED <<pipe_worker, worker, log, released>>
    BY Zenon, <1>1 DEF workerVars
  <1> HIDE DEF c2
  <1>5. conn'[fd] = c2 /\ \A g \in Fd : g # fd => conn'[g] = conn[g]
    BY Zenon, <1>3 DEF ConnBase, SharedTypes
  <1>6. PipesInOrder'
    BY Zenon, <1>1, <1>2, <1>3, <1>4, ConnectPosted DEF Protocol
  <1>7. id \in Nat /\ session_round \in Nat /\ id # 0
    BY ConnectionAssumption DEF SessionId, ConnBase, GhostTypes
  <1>8. \A g \in Fd : conn[g].session_id # id
    <2>1. \A g \in Fd : conn[g] \in Connection
      BY Zenon DEF ConnBase, SharedTypes
    <2>2. \A g \in Fd : conn[g].session_id \in Nat /\ conn[g].session_id <= session_round
      BY Zenon, <2>1, ConnFields DEF Protocol, PipesInOrder, IdsGiven
    <2>3. QED
      BY <1>3, <1>7, <2>2
  <1>9. SessionsDiffer'
    <2> SUFFICES ASSUME NEW f \in Fd, NEW g \in Fd,
                        conn'[f].session_id = conn'[g].session_id, conn'[f].session_id # 0
                 PROVE  f = g
      BY Zenon DEF SessionsDiffer
    <2>1. QED
      BY <1>2, <1>5, <1>8 DEF Protocol, SessionsDiffer
  <1>10. log[id] = <<>> /\ ~Ran(log, id)
    BY Zenon, <1>3 DEF Protocol, PipesInOrder, IdsGiven, Ran
  <1>11. FlagsTrue'
    <2> SUFFICES ASSUME NEW g \in Fd
                 PROVE  /\ conn'[g].session_id # 0 /\ Ran(log, conn'[g].session_id) => conn'[g].closed
                        /\ conn'[g].active /\ conn'[g].closed => Ran(log, conn'[g].session_id)
                        /\ Asked(conn'[g]) => conn'[g].session_id # 0 /\ Ran(log, conn'[g].session_id)
      BY Zenon, <1>4 DEF FlagsTrue
    <2>1. CASE g # fd
      BY Zenon, <1>5, <2>1 DEF Protocol, FlagsTrue
    <2>2. CASE g = fd
      <3>1. ~Asked(c2)
        BY <1>2 DEF Asked
      <3>2. QED
        BY Zenon, <1>2, <1>5, <1>10, <2>2, <3>1
    <2>3. QED
      BY Zenon, <2>1, <2>2
  <1>12. EndsTrue'
    <2> SUFFICES ASSUME NEW w \in Worker, worker[w].pc # "idle"
                 PROVE  /\ log[worker[w].id] # <<>>
                        /\ worker[w].pc \in {"onClose", "finish"} =>
                              Ran(log, worker[w].id) \/ Gone(conn', worker[w].id)
      BY Zenon, <1>4 DEF EndsTrue
    <2>1. /\ log[worker[w].id] # <<>>
          /\ worker[w].pc \in {"onClose", "finish"} => Ran(log, worker[w].id) \/ Gone(conn, worker[w].id)
      BY Zenon DEF Protocol, EndsTrue
    <2>2. worker[w].id # id
      BY Zenon, <1>10, <2>1
    <2>3. Gone(conn, worker[w].id) => Gone(conn', worker[w].id)
      BY Zenon, <1>2, <1>5, <2>2 DEF Gone
    <2>4. QED
      BY Zenon, <2>1, <2>3
  <1>13. AnswersTrue' /\ ReleasedTrue' /\ LogsTrue'
    BY Zenon, <1>4 DEF Protocol, AnswersTrue, ReleasedTrue, LogsTrue
  <1>14. QED
    BY Zenon, <1>6, <1>9, <1>11, <1>12, <1>13 DEF Protocol

-----------------------------------------------------------------------------
(* The workers.                                                            *)

Callback == {"connect", "receive", "close"}

\* Logs that agree are the same.
LEMMA LogsAgree ==
    ASSUME NEW s \in Seq(Callback), NEW t \in Seq(Callback), Len(s) = Len(t),
           \A i \in 1..Len(s) : s[i] = t[i]
    PROVE  s = t
  OBVIOUS

\* What a callback adds to a log.
LEMMA LogAppended ==
    ASSUME NEW l \in Seq(Callback), NEW e \in Callback
    PROVE  /\ Append(l, e) \in Seq(Callback) /\ Len(Append(l, e)) = Len(l) + 1
           /\ \A i \in 1..Len(l) : Append(l, e)[i] = l[i]
           /\ Append(l, e)[Len(l) + 1] = e /\ Append(l, e) # <<>>
           /\ Append(l, e)[Len(Append(l, e))] = e
  OBVIOUS

\* The logs there can be.
LEMMA LogsGrowTo ==
    /\ Append(<<>>, "connect") = <<"connect">>
    /\ Append(<<"connect">>, "receive") = <<"connect", "receive">>
    /\ Append(<<"connect">>, "close") = <<"connect", "close">>
    /\ Append(<<"connect", "receive">>, "close") = <<"connect", "receive", "close">>
  <1>0. "connect" \in Callback /\ "receive" \in Callback /\ "close" \in Callback
    BY Zenon DEF Callback
  <1>1. /\ <<>> \in Seq(Callback) /\ <<"connect">> \in Seq(Callback)
        /\ <<"connect", "receive">> \in Seq(Callback)
    BY DEF Callback
  <1>2. <<"connect", "close">> \in Seq(Callback)
    BY DEF Callback
  <1>3. <<"connect", "receive", "close">> \in Seq(Callback)
    BY DEF Callback
  <1>4. Append(<<>>, "connect") = <<"connect">>
    <2> DEFINE s == Append(<<>>, "connect")
    <2>1. s \in Seq(Callback) /\ Len(s) = 1 /\ s[1] = "connect"
      BY <1>0, <1>1, LogAppended
    <2> HIDE DEF s
    <2>2. QED
      BY <1>1, <2>1, LogsAgree DEF s
  <1>5. ASSUME NEW e \in Callback, <<"connect", e>> \in Seq(Callback)
        PROVE  Append(<<"connect">>, e) = <<"connect", e>>
    <2> DEFINE l == <<"connect">>
               s == Append(l, e)
               t == <<"connect", e>>
    <2>1. l \in Seq(Callback) /\ Len(l) = 1 /\ l[1] = "connect"
      BY Zenon, <1>1
    <2>2. t \in Seq(Callback) /\ Len(t) = 2 /\ t[1] = "connect" /\ t[2] = e
      BY Zenon, <1>5
    <2> HIDE DEF l, t
    <2>3. s \in Seq(Callback) /\ Len(s) = 2 /\ s[1] = "connect" /\ s[2] = e
      <3>1. /\ s \in Seq(Callback) /\ Len(s) = Len(l) + 1
            /\ \A i \in 1..Len(l) : s[i] = l[i]
            /\ s[Len(l) + 1] = e
        BY Zenon, <1>5, <2>1, LogAppended
      <3> HIDE DEF s
      <3>2. QED
        BY <2>1, <3>1
    <2> HIDE DEF s
    <2>4. \A i \in 1..Len(s) : s[i] = t[i]
      BY <2>2, <2>3
    <2>5. s = t
      BY Zenon, <2>2, <2>3, <2>4, LogsAgree
    <2>6. QED
      BY Zenon, <2>5 DEF s, t, l
  <1>6. Append(<<"connect", "receive">>, "close") = <<"connect", "receive", "close">>
    <2> DEFINE l == <<"connect", "receive">>
               s == Append(l, "close")
               t == <<"connect", "receive", "close">>
    <2>1. l \in Seq(Callback) /\ Len(l) = 2 /\ l[1] = "connect" /\ l[2] = "receive"
      BY Zenon, <1>1
    <2>2. t \in Seq(Callback) /\ Len(t) = 3 /\ t[1] = "connect" /\ t[2] = "receive" /\ t[3] = "close"
      BY Zenon, <1>3
    <2> HIDE DEF l, t
    <2>3. s \in Seq(Callback) /\ Len(s) = 3 /\ s[1] = "connect" /\ s[2] = "receive" /\ s[3] = "close"
      <3>1. /\ s \in Seq(Callback) /\ Len(s) = Len(l) + 1
            /\ \A i \in 1..Len(l) : s[i] = l[i]
            /\ s[Len(l) + 1] = "close"
        BY Zenon, <1>0, <2>1, LogAppended
      <3> HIDE DEF s
      <3>2. QED
        BY <2>1, <3>1
    <2> HIDE DEF s
    <2>4. \A i \in 1..Len(s) : s[i] = t[i]
      BY <2>2, <2>3
    <2>5. s = t
      BY Zenon, <2>2, <2>3, <2>4, LogsAgree
    <2>6. QED
      BY Zenon, <2>5 DEF s, t, l
  <1>7. QED
    BY Zenon, <1>0, <1>1, <1>2, <1>4, <1>5, <1>6

\* How the log of a session may grow.
LEMMA LogGrows ==
    ASSUME NEW l \in Logs
    PROVE  /\ l = <<>> => Append(l, "connect") \in Logs
           /\ l # <<>> /\ l[Len(l)] # "close" => Append(l, "close") \in Logs
           /\ l # <<>> /\ l[Len(l)] # "close" /\ l[Len(l)] # "receive" =>
                Append(l, "receive") \in Logs
           /\ l \in Seq(Callback)
  <1>1. CASE l = <<>>
    BY <1>1, LogsGrowTo DEF Logs
  <1>2. CASE l = <<"connect">>
    <2>1. l # <<>> /\ l \in Seq(Callback)
      BY <1>2 DEF Callback
    <2>2. QED
      BY Zenon, <1>2, <2>1, LogsGrowTo DEF Logs
  <1>3. CASE l = <<"connect", "receive">>
    <2>1. l # <<>> /\ Len(l) = 2 /\ l[Len(l)] = "receive" /\ l \in Seq(Callback)
      BY <1>3 DEF Callback
    <2>2. QED
      BY Zenon, <1>3, <2>1, LogsGrowTo DEF Logs
  <1>4. CASE l = <<"connect", "close">>
    <2>1. l # <<>> /\ Len(l) = 2 /\ l[Len(l)] = "close" /\ l \in Seq(Callback)
      BY <1>4 DEF Callback
    <2>2. QED
      BY Zenon, <2>1
  <1>5. CASE l = <<"connect", "receive", "close">>
    <2>1. l # <<>> /\ Len(l) = 3 /\ l[Len(l)] = "close" /\ l \in Seq(Callback)
      BY <1>5 DEF Callback
    <2>2. QED
      BY Zenon, <2>1
  <1>6. QED
    BY Zenon, <1>1, <1>2, <1>3, <1>4, <1>5 DEF Logs

\* A callback begins a log or goes on with one that is not closed.
LEMMA CallbackLogged ==
    ASSUME LogsTrue, NEW id \in SessionId, ~Ran(log, id), NEW e \in {"connect", "receive", "close"},
           e = "connect" <=> log[id] = <<>>, log' = Logged(id, e)
    PROVE  /\ LogsTrue' /\ log'[id] # <<>> /\ (Ran(log', id) <=> e = "close")
           /\ \A x \in SessionId : x # id => log'[x] = log[x]
  <1>1. log \in [SessionId -> Logs] /\ log[id] \in Logs
    BY Zenon DEF LogsTrue
  <1>2. CASE log' = log /\ e = "receive" /\ log[id] # <<>>
    BY Zenon, <1>1, <1>2 DEF LogsTrue, Ran
  <1> DEFINE l2 == Append(log[id], e)
  <1>3. CASE log' = [log EXCEPT ![id] = l2] /\ ~(e = "receive" /\ log[id] # <<>> /\ log[id][Len(log[id])] = e)
    <2>1. l2 \in Logs /\ l2 # <<>> /\ (l2[Len(l2)] = "close" <=> e = "close")
      <3>1. log[id] \in Seq(Callback) /\ e \in Callback
        BY Zenon, <1>1, LogGrows DEF Callback
      <3>2. l2 # <<>> /\ l2[Len(l2)] = e
        BY Zenon, <3>1, LogAppended
      <3>3. l2 \in Logs
        <4>1. CASE e = "connect"
          BY Zenon, <1>1, <4>1, LogGrows
        <4>2. CASE e = "close"
          BY Zenon, <1>1, <4>2, LogGrows DEF Ran
        <4>3. CASE e = "receive"
          BY Zenon, <1>1, <1>3, <4>3, LogGrows DEF Ran
        <4>4. QED
          BY Zenon, <4>1, <4>2, <4>3
      <3>4. QED
        BY Zenon, <3>2, <3>3
    <2> HIDE DEF l2
    <2>2. log'[id] = l2 /\ log' \in [SessionId -> Logs] /\ \A x \in SessionId : x # id => log'[x] = log[x]
      BY Zenon, <1>1, <1>3, <2>1
    <2>3. Ran(log', id) <=> e = "close"
      BY Zenon, <2>1, <2>2 DEF Ran
    <2>4. QED
      BY Zenon, <2>1, <2>2, <2>3 DEF LogsTrue
  <1>4. QED
    BY Zenon, <1>2, <1>3 DEF Logged

\* onClose was run, for the same sessions.
RanSame == \A id \in SessionId : Ran(log', id) <=> Ran(log, id)

\* What depends on onClose only is kept when it is not run.
LEMMA NothingRan ==
    ASSUME ConnBase, Protocol, RanSame, UNCHANGED <<conn, pipe_worker, released>>
    PROVE  SessionsDiffer' /\ FlagsTrue' /\ AnswersTrue' /\ ReleasedTrue'
  <1>1. SessionsDiffer'
    BY Zenon DEF Protocol, SessionsDiffer
  <1>2. FlagsTrue'
    <2> SUFFICES ASSUME NEW g \in Fd
                 PROVE  /\ conn[g].session_id # 0 /\ Ran(log', conn[g].session_id) => conn[g].closed
                        /\ conn[g].active /\ conn[g].closed => Ran(log', conn[g].session_id)
                        /\ Asked(conn[g]) => conn[g].session_id # 0 /\ Ran(log', conn[g].session_id)
      BY Zenon DEF FlagsTrue
    <2>1. conn[g] \in Connection /\ (conn[g].active => conn[g].session_id # 0)
      BY Zenon DEF ConnBase, SharedTypes, InUse
    <2>2. conn[g].session_id # 0 => (Ran(log', conn[g].session_id) <=> Ran(log, conn[g].session_id))
      BY Zenon, <2>1, ConnFields DEF RanSame
    <2>3. QED
      BY Zenon, <2>1, <2>2 DEF Protocol, FlagsTrue
  <1>3. AnswersTrue'
    <2>1. \A w \in Worker : \A i \in 1..Len(pipe_worker[w]) : pipe_worker[w][i].id \in SessionId
      BY Zenon, PipeHolds DEF ConnBase, WorkerTypes
    <2>2. QED
      BY Zenon, <2>1 DEF Protocol, AnswersTrue, RanSame
  <1>4. ReleasedTrue'
    BY Zenon DEF Protocol, ReleasedTrue, RanSame
  <1>5. QED
    BY Zenon, <1>1, <1>2, <1>3, <1>4

\* worker_accept_event keeps the protocol: the CONNECT comes first, and a request
\* of a session that is closed is discarded.
LEMMA TakesStep ==
    ASSUME ConnBase, ConnBase', Protocol, NEW w \in Worker, WorkerTakes(w)
    PROVE  Protocol'
  <1> DEFINE m == Head(pipe_master[w])
             fd == VerifiedFd(m.id)
  <1>0. pipe_master \in [Worker -> Seq(Message)] /\ pipe_master[w] # <<>>
    BY Zenon DEF WorkerTakes, ConnBase, SharedTypes
  <1>1. m = pipe_master[w][1] /\ 1 \in 1..Len(pipe_master[w])
    BY <1>0
  <1>2. m.id \in SessionId /\ m = [type |-> m.type, id |-> m.id]
    BY <1>0, <1>1, PipeHolds
  <1>3. /\ m.type = "CONNECT" => log[m.id] = <<>>
        /\ m.type # "CONNECT" => log[m.id] # <<>>
    <2>1. \A j \in 1..(1 - 1) : FALSE
      OBVIOUS
    <2>2. QED
      BY Zenon, <1>1, <2>1 DEF Protocol, PipesInOrder, ConnectFirst
  <1>4. /\ pipe_master' = [pipe_master EXCEPT ![w] = Tail(@)]
        /\ UNCHANGED <<conn, pipe_worker, released, session_round>>
    BY Zenon DEF WorkerTakes, reactorVars
  <1>5. \/ m.type = "CONNECT" /\ log' = Logged(m.id, "connect") /\ worker' = worker
        \/ /\ m.type = "RECV_DATA" /\ worker' = worker
           /\ log' = log \/ (fd # 0 /\ ~conn[fd].closed /\ log' = Logged(m.id, "receive"))
        \/ /\ m.type = "CLOSE" /\ log' = log
           /\ \/ worker' = worker
              \/ worker' = [worker EXCEPT ![w] = [pc |-> "verified", id |-> m.id, fd |-> fd]]
    BY Zenon DEF WorkerTakes
  <1> HIDE DEF m
  <1>6. fd # 0 => fd \in Fd /\ conn[fd].session_id = m.id
    BY Zenon, VerifiedIs
  <1>7. fd # 0 /\ ~conn[fd].closed => ~Ran(log, m.id)
    <2>1. m.id # 0
      BY Zenon, <1>2, IdIsGiven
    <2>2. QED
      BY Zenon, <1>6, <2>1 DEF Protocol, FlagsTrue
  <1> HIDE DEF fd
  <1>8. LogsTrue
    BY Zenon DEF Protocol
  <1>9. LogsTrue' /\ RanSame /\ LogsMove(m)
    <2>1. CASE m.type = "CONNECT" /\ log' = Logged(m.id, "connect")
      <3>1. ~Ran(log, m.id)
        BY Zenon, <1>3, <2>1 DEF Ran
      <3>2. /\ LogsTrue' /\ log'[m.id] # <<>> /\ ~Ran(log', m.id)
            /\ \A x \in SessionId : x # m.id => log'[x] = log[x]
        BY Zenon, <1>2, <1>3, <1>8, <2>1, <3>1, CallbackLogged
      <3>3. \A x \in SessionId : m = Connect(x) => x = m.id
        BY DEF Connect
      <3>4. QED
        BY Zenon, <1>3, <2>1, <3>1, <3>2, <3>3 DEF RanSame, LogsMove, Ran
    <2>2. CASE m.type # "CONNECT" /\ log' = log
      <3>1. \A x \in SessionId : m # Connect(x)
        BY <2>2 DEF Connect
      <3>2. QED
        BY Zenon, <1>8, <2>2, <3>1 DEF LogsTrue, RanSame, LogsMove
    <2>3. CASE m.type = "RECV_DATA" /\ ~Ran(log, m.id) /\ log' = Logged(m.id, "receive")
      <3>1. /\ LogsTrue' /\ log'[m.id] # <<>> /\ ~Ran(log', m.id)
            /\ \A x \in SessionId : x # m.id => log'[x] = log[x]
        BY Zenon, <1>2, <1>3, <1>8, <2>3, CallbackLogged
      <3>2. \A x \in SessionId : m # Connect(x)
        BY <2>3 DEF Connect
      <3>3. QED
        BY Zenon, <1>3, <2>3, <3>1, <3>2 DEF RanSame, LogsMove, Ran
    <2>4. QED
      BY Zenon, <1>5, <1>7, <2>1, <2>2, <2>3
  <1>10. PipesInOrder'
    BY Zenon, <1>0, <1>4, <1>9, MessageTaken DEF Protocol, m
  <1>11. SessionsDiffer' /\ FlagsTrue' /\ AnswersTrue' /\ ReleasedTrue'
    BY Zenon, <1>4, <1>9, NothingRan
  <1>12. EndsTrue'
    <2> SUFFICES ASSUME NEW v \in Worker, worker'[v].pc # "idle"
                 PROVE  /\ log'[worker'[v].id] # <<>>
                        /\ worker'[v].pc \in {"onClose", "finish"} =>
                              Ran(log', worker'[v].id) \/ Gone(conn, worker'[v].id)
      BY Zenon, <1>4 DEF EndsTrue
    <2>1. CASE worker'[v] = worker[v]
      <3>1. worker[v] \in Step /\ worker[v].id # 0
        BY Zenon, <2>1 DEF ConnBase, WorkerTypes, InEndOf
      <3>2. worker[v].id \in SessionId
        BY Zenon, <3>1, IdIsGiven DEF Step
      <3>3. /\ log[worker[v].id] # <<>>
            /\ worker[v].pc \in {"onClose", "finish"} => Ran(log, worker[v].id) \/ Gone(conn, worker[v].id)
        BY Zenon, <2>1 DEF Protocol, EndsTrue
      <3>4. log'[worker[v].id] # <<>> /\ (Ran(log', worker[v].id) <=> Ran(log, worker[v].id))
        BY Zenon, <1>9, <3>2, <3>3 DEF LogsMove, RanSame
      <3>5. QED
        BY Zenon, <2>1, <3>3, <3>4
    <2>2. CASE log' = log /\ m.type = "CLOSE" /\ worker'[v] = [pc |-> "verified", id |-> m.id, fd |-> fd]
      <3> DEFINE step == [pc |-> "verified", id |-> m.id, fd |-> fd]
      <3>0. step.pc = "verified" /\ step.id = m.id
        BY Zenon
      <3> HIDE DEF step
      <3>1. worker'[v].pc = "verified" /\ worker'[v].id = m.id
        <4>1. worker'[v] = step
          BY Zenon, <2>2 DEF step
        <4>2. QED
          BY Zenon, <3>0, <4>1
      <3>2. QED
        BY Zenon, <1>3, <2>2, <3>1
    <2>3. \/ worker'[v] = worker[v]
          \/ log' = log /\ m.type = "CLOSE" /\ worker'[v] = [pc |-> "verified", id |-> m.id, fd |-> fd]
      BY Zenon, <1>5 DEF ConnBase, WorkerTypes
    <2>4. QED
      BY Zenon, <2>1, <2>2, <2>3
  <1>13. QED
    BY Zenon, <1>9, <1>10, <1>11, <1>12 DEF Protocol

\* Server::send keeps the protocol.
LEMMA SendResponseStep ==
    ASSUME ConnBase, Protocol, NEW w \in Worker, NEW id \in SessionId, SendResponse(w, id)
    PROVE  Protocol'
  <1>1. UNCHANGED <<conn, pipe_master, log, released, session_round, worker>>
    BY Zenon DEF SendResponse, reactorVars
  <1>2. pipe_worker' = pipe_worker \/ pipe_worker' = Send(pipe_worker, w, "SEND_DATA", id)
    BY Zenon DEF SendResponse
  <1>3. AnswersTrue'
    <2>1. CASE pipe_worker' = pipe_worker
      BY Zenon, <1>1, <2>1 DEF Protocol, AnswersTrue
    <2> DEFINE m == [type |-> "SEND_DATA", id |-> id]
    <2>2. CASE pipe_worker' = Send(pipe_worker, w, "SEND_DATA", id)
      <3>1. Longer(pipe_worker, pipe_worker', w, m) /\ m.type # "CLOSE"
        BY Zenon, <2>2, SendLonger DEF ConnBase, WorkerTypes
      <3> HIDE DEF m
      <3>2. QED
        BY Zenon, <1>1, <3>1 DEF Longer, Protocol, AnswersTrue
    <2>3. QED
      BY Zenon, <1>2, <2>1, <2>2
  <1>4. WorkersMove
    BY Zenon, <1>1 DEF WorkersMove
  <1>5. QED
    BY Zenon, <1>1, <1>3, <1>4, QuietStep

\* Server::close keeps the protocol.
LEMMA CloseSessionStep ==
    ASSUME ConnBase, ConnBase', Protocol, NEW w \in Worker, NEW id \in SessionId,
           NEW reset \in BOOLEAN, CloseSession(w, id, reset)
    PROVE  Protocol'
  <1> DEFINE fd == VerifiedFd(id)
             c2 == [conn[fd] EXCEPT !.close_actively = TRUE, !.close_reset = @ \/ reset]
  <1>1. UNCHANGED <<log, released, session_round, pipe_worker>> /\ log[id] # <<>>
    BY Zenon DEF CloseSession, Calls, reactorVars
  <1>2. AnswersTrue'
    BY Zenon, <1>1 DEF Protocol, AnswersTrue
  <1>3. CASE fd = 0
    <2>1. UNCHANGED <<conn, pipe_master, worker>>
      BY Zenon, <1>3 DEF CloseSession
    <2>2. WorkersMove
      BY Zenon, <2>1 DEF WorkersMove
    <2>3. QED
      BY Zenon, <1>1, <1>2, <2>1, <2>2, QuietStep
  <1>4. CASE fd # 0
    <2>1. fd \in Fd /\ conn[fd].session_id = id
      BY Zenon, <1>4, VerifiedIs
    <2>2. /\ conn' = [conn EXCEPT ![fd] = c2]
          /\ pipe_master' = Send(pipe_master, BoundTo[fd], "CLOSE", id) \/ pipe_master' = pipe_master
          /\ worker' = [worker EXCEPT ![w] = [pc |-> "verified", id |-> id, fd |-> fd]] \/ worker' = worker
      BY Zenon, <1>4, <2>1 DEF CloseSession, ConnBase, SharedTypes
    <2>3. conn[fd] \in Connection /\ id # 0
      <3>1. conn[fd] \in Connection
        BY Zenon, <2>1 DEF ConnBase, SharedTypes
      <3>2. QED
        BY Zenon, <3>1, IdIsGiven
    <2> HIDE DEF fd
    <2>4. /\ c2 \in Connection /\ c2.session_id = conn[fd].session_id /\ c2.active = conn[fd].active
          /\ c2.closed = conn[fd].closed /\ c2.close_queued = conn[fd].close_queued
          /\ c2.out_buffer = conn[fd].out_buffer
      BY Zenon, <2>3 DEF Connection
    <2> HIDE DEF c2
    <2>5. Edited(fd, c2)
      BY Zenon, <2>2, <2>4 DEF Edited, Moved, Asked, Due
    <2>6. Posts(fd)
      BY Zenon, <2>1, <2>2, <2>3 DEF Posts
    <2>7. Touches(fd)
      BY Zenon, <1>1, <2>5, <2>6 DEF Touches
    <2>8. WorkersMove
      <3> DEFINE r == [pc |-> "verified", id |-> id, fd |-> fd]
      <3>1. r.pc = "verified" /\ r.id = id
        BY Zenon
      <3>2. worker' = [worker EXCEPT ![w] = r] \/ worker' = worker
        BY Zenon, <2>2
      <3> HIDE DEF r
      <3>3. \A v \in Worker : worker'[v] = worker[v] \/ worker'[v] = r
        BY Zenon, <3>2 DEF ConnBase, WorkerTypes
      <3>4. QED
        BY Zenon, <1>1, <3>1, <3>3 DEF WorkersMove
    <2>9. QED
      BY Zenon, <1>1, <1>2, <2>1, <2>7, <2>8, ConnectionStep
  <1>5. QED
    BY Zenon, <1>3, <1>4

\* The protect method keeps the protocol.
LEMMA ProtectStep ==
    ASSUME ConnBase, ConnBase', Protocol, NEW w \in Worker, NEW id \in SessionId,
           NEW value \in BOOLEAN, Protect(w, id, value)
    PROVE  Protocol'
  <1>1. UNCHANGED <<log, released, session_round, pipe_worker, pipe_master, worker>>
    BY Zenon DEF Protect, reactorVars
  <1>2. AnswersTrue' /\ WorkersMove
    BY Zenon, <1>1 DEF Protocol, AnswersTrue, WorkersMove
  <1>3. CASE conn' = conn
    BY Zenon, <1>1, <1>2, <1>3, QuietStep
  <1>4. ASSUME NEW fd \in Fd, conn' = [conn EXCEPT ![fd] = [conn[fd] EXCEPT !.protect = value]]
        PROVE  Protocol'
    <2> DEFINE c2 == [conn[fd] EXCEPT !.protect = value]
    <2>1. /\ c2 \in Connection /\ c2.session_id = conn[fd].session_id /\ c2.active = conn[fd].active
          /\ c2.closed = conn[fd].closed /\ c2.close_queued = conn[fd].close_queued
          /\ c2.out_buffer = conn[fd].out_buffer
      BY Zenon, ProtectEdit DEF ConnBase, SharedTypes
    <2>2. conn' = [conn EXCEPT ![fd] = c2]
      BY Zenon, <1>4
    <2> HIDE DEF c2
    <2>3. Edited(fd, c2)
      BY Zenon, <2>1, <2>2 DEF Edited, Moved, Asked, Due
    <2>4. Touches(fd)
      BY Zenon, <1>1, <2>3 DEF Touches, Posts
    <2>5. QED
      BY Zenon, <1>1, <1>2, <2>4, ConnectionStep
  <1>5. QED
    BY Zenon, <1>3, <1>4, ProtectWrites

\* What was run stays run.
RanMore == \A id \in SessionId : Ran(log, id) => Ran(log', id)

\* ProcessFactory::end at onClose keeps the protocol: the one who sets closed
\* runs it, for a session whose onClose was not run.
LEMMA OnCloseStep ==
    ASSUME ConnBase, ConnBase', Protocol, NEW w \in Worker, NEW fd \in Fd, NEW id \in SessionId,
           worker[w].pc = "verified", id = worker[w].id,
           conn[fd].session_id = id, ~conn[fd].closed,
           conn' = [conn EXCEPT ![fd] = [conn[fd] EXCEPT !.closed = TRUE, !.closing = TRUE]],
           log' = Logged(id, "close"),
           worker' = [worker EXCEPT ![w].pc = "onClose"],
           UNCHANGED <<pipe_master, pipe_worker, released, session_round>>
    PROVE  Protocol'
  <1> DEFINE c2 == [conn[fd] EXCEPT !.closed = TRUE, !.closing = TRUE]
  <1>1. id # 0 /\ log[id] # <<>> /\ ~Ran(log, id)
    <2>1. id # 0
      BY Zenon, IdIsGiven
    <2>2. QED
      BY Zenon, <2>1 DEF Protocol, EndsTrue, FlagsTrue
  <1>2. /\ LogsTrue' /\ log'[id] # <<>> /\ Ran(log', id)
        /\ \A x \in SessionId : x # id => log'[x] = log[x]
    <2>1. LogsTrue
      BY Zenon DEF Protocol
    <2>2. QED
      BY Zenon, <1>1, <2>1, CallbackLogged
  <1>3. SameKnown
    BY Zenon, <1>1, <1>2 DEF SameKnown
  <1>4. RanMore
    BY Zenon, <1>1, <1>2 DEF RanMore, Ran
  <1>5. conn \in [Fd -> Connection] /\ conn[fd] \in Connection
    BY Zenon DEF ConnBase, SharedTypes
  <1>6. /\ c2.session_id = id /\ c2.active = conn[fd].active /\ c2.closed
        /\ c2.close_queued = conn[fd].close_queued /\ c2.out_buffer = conn[fd].out_buffer
    BY Zenon, <1>5 DEF Connection
  <1>7. conn'[fd] = c2 /\ \A g \in Fd : g # fd => conn'[g] = conn[g]
    BY Zenon, <1>5
  <1> HIDE DEF c2
  <1>8. SameIds
    BY <1>6, <1>7 DEF SameIds
  <1>9. PipesInOrder'
    <2>1. Posts(fd)
      BY Zenon DEF Posts
    <2>2. QED
      BY Zenon, <1>3, <1>8, <2>1, PostsInOrder DEF Protocol
  <1>10. SessionsDiffer'
    BY <1>8 DEF Protocol, SessionsDiffer, SameIds
  <1>11. FlagsTrue'
    <2> SUFFICES ASSUME NEW g \in Fd
                 PROVE  /\ conn'[g].session_id # 0 /\ Ran(log', conn'[g].session_id) => conn'[g].closed
                        /\ conn'[g].active /\ conn'[g].closed => Ran(log', conn'[g].session_id)
                        /\ Asked(conn'[g]) => conn'[g].session_id # 0 /\ Ran(log', conn'[g].session_id)
      BY Zenon DEF FlagsTrue
    <2>1. CASE g = fd
      BY <1>1, <1>2, <1>6, <1>7, <2>1
    <2>2. CASE g # fd
      <3>1. conn'[g] = conn[g] /\ conn[g].session_id # id
        BY Zenon, <1>1, <1>7, <2>2 DEF Protocol, SessionsDiffer
      <3>2. conn[g] \in Connection /\ (conn[g].active => conn[g].session_id # 0)
        BY Zenon DEF ConnBase, SharedTypes, InUse
      <3>3. conn[g].session_id # 0 => (Ran(log', conn[g].session_id) <=> Ran(log, conn[g].session_id))
        BY Zenon, <1>2, <3>1, <3>2, ConnFields DEF Ran
      <3>4. QED
        BY Zenon, <3>1, <3>2, <3>3 DEF Protocol, FlagsTrue
    <2>3. QED
      BY Zenon, <2>1, <2>2
  <1>12. EndsTrue'
    <2> SUFFICES ASSUME NEW v \in Worker, worker'[v].pc # "idle"
                 PROVE  /\ log'[worker'[v].id] # <<>>
                        /\ worker'[v].pc \in {"onClose", "finish"} =>
                              Ran(log', worker'[v].id) \/ Gone(conn', worker'[v].id)
      BY Zenon DEF EndsTrue
    <2>0. worker \in [Worker -> Step]
      BY Zenon DEF ConnBase, WorkerTypes
    <2>1. CASE v = w
      <3>1. worker'[v].id = id
        BY Zenon, <2>0, <2>1 DEF Step
      <3>2. QED
        BY Zenon, <1>2, <3>1
    <2>2. CASE v # w
      <3>1. worker'[v] = worker[v] /\ worker[v].id # 0 /\ worker[v] \in Step
        BY Zenon, <2>0, <2>2 DEF ConnBase, WorkerTypes, InEndOf
      <3>2. worker[v].id \in SessionId
        BY Zenon, <3>1, IdIsGiven DEF Step
      <3>3. /\ log[worker[v].id] # <<>>
            /\ worker[v].pc \in {"onClose", "finish"} => Ran(log, worker[v].id) \/ Gone(conn, worker[v].id)
        BY Zenon, <3>1 DEF Protocol, EndsTrue
      <3>4. Gone(conn, worker[v].id) => Gone(conn', worker[v].id)
        BY <1>6, <1>7 DEF Gone
      <3>5. QED
        BY Zenon, <1>3, <1>4, <3>1, <3>2, <3>3, <3>4 DEF SameKnown, RanMore
    <2>3. QED
      BY Zenon, <2>1, <2>2
  <1>13. AnswersTrue'
    <2>1. \A v \in Worker : \A i \in 1..Len(pipe_worker[v]) : pipe_worker[v][i].id \in SessionId
      BY Zenon, PipeHolds DEF ConnBase, WorkerTypes
    <2>2. QED
      BY Zenon, <1>4, <2>1 DEF Protocol, AnswersTrue, RanMore
  <1>14. ReleasedTrue'
    BY Zenon, <1>4 DEF Protocol, ReleasedTrue, RanMore
  <1>15. QED
    BY Zenon, <1>2, <1>9, <1>10, <1>11, <1>12, <1>13, <1>14 DEF Protocol

\* ProcessFactory::end at its tests keeps the protocol, when the descriptor is
\* still that of the session it verified.
LEMMA EndBeginsStep ==
    ASSUME ConnBase, ConnBase', Protocol, NEW w \in Worker, EndBegins(w), ~reused'
    PROVE  Protocol'
  <1> DEFINE fd == worker[w].fd
             id == worker[w].id
             c2 == [conn[fd] EXCEPT !.closed = TRUE, !.closing = TRUE]
  <1>1. worker \in [Worker -> Step] /\ worker[w] \in Step /\ worker[w].pc = "verified"
    BY Zenon DEF EndBegins, ConnBase, WorkerTypes
  <1>2. fd \in Fd /\ id # 0 /\ id \in 0..MaxSessions
    BY Zenon, <1>1 DEF ConnBase, WorkerTypes, InEndOf, Step
  <1>3. id \in SessionId
    BY Zenon, <1>2, IdIsGiven
  <1>4. conn[fd].session_id = id
    BY Zenon DEF EndBegins
  <1>5. UNCHANGED <<pipe_master, pipe_worker, released, session_round>> /\ conn \in [Fd -> Connection]
    BY Zenon DEF EndBegins, reactorVars, ConnBase, SharedTypes
  <1>6. \/ UNCHANGED <<conn, log>> /\ worker' = [worker EXCEPT ![w] = Idle]
        \/ /\ ~conn[fd].closed /\ log' = Logged(id, "close")
           /\ conn' = [conn EXCEPT ![fd].closed = TRUE, ![fd].closing = TRUE]
           /\ worker' = [worker EXCEPT ![w].pc = "onClose"]
        \/ /\ conn[fd].closed /\ UNCHANGED <<conn, log>>
           /\ worker' = [worker EXCEPT ![w].pc = "finish"]
    BY Zenon DEF EndBegins, if_do_close_callback
  <1>7. CASE UNCHANGED <<conn, log>> /\ worker' = [worker EXCEPT ![w] = Idle]
    <2>1. AnswersTrue'
      BY Zenon, <1>5, <1>7 DEF Protocol, AnswersTrue
    <2>2. WorkersMove
      BY Zenon, <1>1, <1>7 DEF WorkersMove, Idle
    <2>3. QED
      BY Zenon, <1>5, <1>7, <2>1, <2>2, QuietStep
  <1>8. CASE /\ ~conn[fd].closed /\ log' = Logged(id, "close")
             /\ conn' = [conn EXCEPT ![fd].closed = TRUE, ![fd].closing = TRUE]
             /\ worker' = [worker EXCEPT ![w].pc = "onClose"]
    <2>1. conn' = [conn EXCEPT ![fd] = c2]
      BY Zenon, <1>2, <1>5, <1>8 DEF Connection
    <2>2. QED
      BY Zenon, <1>1, <1>2, <1>3, <1>4, <1>5, <1>8, <2>1, OnCloseStep
  <1>9. CASE /\ conn[fd].closed /\ UNCHANGED <<conn, log>>
             /\ worker' = [worker EXCEPT ![w].pc = "finish"]
    <2>1. AnswersTrue'
      BY Zenon, <1>5, <1>9 DEF Protocol, AnswersTrue
    <2>2. Ran(log, id) \/ Gone(conn, id)
      <3>1. CASE conn[fd].active
        BY Zenon, <1>2, <1>4, <1>9, <3>1 DEF Protocol, FlagsTrue
      <3>2. CASE ~conn[fd].active
        BY Zenon, <1>2, <1>4, <3>2 DEF Protocol, SessionsDiffer, Gone
      <3>3. QED
        BY Zenon, <3>1, <3>2
    <2>3. log[id] # <<>>
      BY Zenon, <1>1 DEF Protocol, EndsTrue
    <2>4. worker'[w].id = id /\ \A v \in Worker : v # w => worker'[v] = worker[v]
      BY Zenon, <1>1, <1>9 DEF Step
    <2>5. WorkersMove
      BY Zenon, <1>9, <2>2, <2>3, <2>4 DEF WorkersMove
    <2>6. QED
      BY Zenon, <1>5, <1>9, <2>1, <2>5, QuietStep
  <1>10. QED
    BY Zenon, <1>6, <1>7, <1>8, <1>9

\* The end of onClose, the answer of ProcessFactory::finish and the death of a
\* worker keep the protocol: what is answered was run.
LEMMA OnCloseReturnsStep ==
    ASSUME ConnBase, ConnBase', Protocol, NEW w \in Worker, OnCloseReturns(w)
    PROVE  Protocol'
  <1> DEFINE fd == worker[w].fd
             c2 == [conn[fd] EXCEPT !.closing = FALSE]
  <1>1. worker \in [Worker -> Step] /\ worker[w] \in Step /\ worker[w].pc = "onClose"
    BY Zenon DEF OnCloseReturns, ConnBase, WorkerTypes
  <1>2. fd \in Fd
    BY Zenon, <1>1 DEF ConnBase, WorkerTypes, InEndOf, Step
  <1>3. conn \in [Fd -> Connection] /\ conn[fd] \in Connection
    BY Zenon, <1>2 DEF ConnBase, SharedTypes
  <1>4. /\ UNCHANGED <<pipe_master, pipe_worker, log, released, session_round>>
        /\ worker' = [worker EXCEPT ![w].pc = "finish"]
        /\ conn' = [conn EXCEPT ![fd].closing = FALSE]
    BY Zenon DEF OnCloseReturns, reactorVars
  <1>5. conn' = [conn EXCEPT ![fd] = c2]
    BY Zenon, <1>2, <1>3, <1>4 DEF Connection
  <1>6. /\ c2 \in Connection /\ c2.session_id = conn[fd].session_id /\ c2.active = conn[fd].active
        /\ c2.closed = conn[fd].closed /\ c2.close_queued = conn[fd].close_queued
        /\ c2.out_buffer = conn[fd].out_buffer
    BY Zenon, <1>3 DEF Connection
  <1>7. WorkersMove
    <2>1. worker'[w].id = worker[w].id /\ \A v \in Worker : v # w => worker'[v] = worker[v]
      BY Zenon, <1>1, <1>4 DEF Step
    <2>2. QED
      BY Zenon, <1>1, <2>1 DEF WorkersMove
  <1> HIDE DEF c2, fd
  <1>8. Touches(fd)
    <2>1. Edited(fd, c2)
      BY Zenon, <1>5, <1>6 DEF Edited, Moved, Asked, Due
    <2>2. Posts(fd)
      BY Zenon, <1>4 DEF Posts
    <2>3. QED
      BY Zenon, <1>4, <2>1, <2>2 DEF Touches
  <1>9. AnswersTrue'
    BY Zenon, <1>4 DEF Protocol, AnswersTrue
  <1>10. QED
    BY Zenon, <1>2, <1>4, <1>7, <1>8, <1>9, ConnectionStep

LEMMA EndFinishesStep ==
    ASSUME ConnBase, Protocol, NEW w \in Worker, EndFinishes(w) \/ WorkerCrashes(w)
    PROVE  Protocol'
  <1> DEFINE id == worker[w].id
             m == [type |-> "CLOSE", id |-> id]
  <1>1. /\ UNCHANGED <<conn, pipe_master, log, released, session_round>>
        /\ worker' = [worker EXCEPT ![w] = Idle]
    BY Zenon DEF EndFinishes, WorkerCrashes, reactorVars
  <1>2. WorkersMove
    BY Zenon, <1>1 DEF WorkersMove, Idle, ConnBase, WorkerTypes
  <1>3. AnswersTrue'
    <2>1. CASE pipe_worker' = pipe_worker
      BY Zenon, <1>1, <2>1 DEF Protocol, AnswersTrue
    <2>2. CASE worker[w].pc = "finish" /\ VerifiedFd(id) # 0 /\ pipe_worker' = Send(pipe_worker, w, "CLOSE", id)
      <3>1. ~Gone(conn, id)
        BY Zenon, <2>2, VerifiedIs DEF Gone
      <3>2. Ran(log, id)
        BY Zenon, <2>2, <3>1 DEF Protocol, EndsTrue
      <3>3. Longer(pipe_worker, pipe_worker', w, m) /\ m.id = id
        BY Zenon, <2>2, SendLonger DEF ConnBase, WorkerTypes
      <3> HIDE DEF m, id
      <3>4. QED
        BY ZenonT(30), <1>1, <3>2, <3>3 DEF Longer, Protocol, AnswersTrue
    <2>3. QED
      BY Zenon, <2>1, <2>2 DEF EndFinishes, WorkerCrashes
  <1>4. QED
    BY Zenon, <1>1, <1>2, <1>3, QuietStep

-----------------------------------------------------------------------------
(* The server starts with no connection.                                   *)

LEMMA InitInv == ConnectionInit => ConnInv
  <1> SUFFICES ASSUME ConnectionInit
               PROVE  ConnInv
    BY Zenon
  <1>0. ZeroConnection \in Connection
    <2>1. 0 \in 0..MaxSessions /\ <<>> \in Seq({"DATA", "CLOSE"})
      BY ConnectionAssumption
    <2>2. QED
      BY Zenon, <2>1 DEF ZeroConnection, Connection
  <1>1. \A fd \in Fd : conn[fd] = ZeroConnection
    BY Zenon DEF ConnectionInit
  <1>2. /\ ZeroConnection.session_id = 0 /\ ~ZeroConnection.active /\ ~Asked(ZeroConnection)
    BY DEF ZeroConnection, Asked
  <1>3. /\ \A w \in Worker : pipe_master[w] = <<>> /\ pipe_worker[w] = <<>> /\ worker[w] = Idle
        /\ \A id \in SessionId : log[id] = <<>> /\ released[id] = "no"
    BY Zenon DEF ConnectionInit
  <1>a. Idle.pc = "idle"
    BY Zenon DEF Idle
  <1>4. SharedTypes
    <2>1. conn \in [Fd -> Connection] /\ client \in [Fd -> {"none", "open", "shut"}]
      BY Zenon, <1>0 DEF ConnectionInit
    <2>2. session_list \in [0..(SW_SESSION_LIST_SIZE - 1) -> [fd : Fd \cup {0}, id : 0..MaxSessions]]
      BY ConnectionAssumption DEF ConnectionInit
    <2>3. pipe_master \in [Worker -> Seq(Message)] /\ released \in [SessionId -> {"no", "closed", "idle", "forced"}]
      BY DEF ConnectionInit
    <2>4. InUse
      BY Zenon, <1>1, <1>2 DEF InUse, ConnectionInit
    <2>5. QED
      BY Zenon, <2>1, <2>2, <2>3, <2>4 DEF SharedTypes
  <1>5. WorkerTypes
    <2>1. Idle \in Step
      BY ConnectionAssumption DEF Idle, Step
    <2>2. pipe_worker \in [Worker -> Seq(Message)] /\ worker \in [Worker -> Step]
      BY <2>1 DEF ConnectionInit
    <2>3. InEndOf
      BY Zenon, <1>3, <1>a DEF InEndOf
    <2>4. QED
      BY Zenon, <2>2, <2>3 DEF WorkerTypes
  <1>6. GhostTypes
    BY ConnectionAssumption DEF GhostTypes, ConnectionInit
  <1>7. LogsTrue /\ ReleasedTrue
    BY Zenon, <1>3 DEF ConnectionInit, LogsTrue, Logs, ReleasedTrue, Unforced
  <1>8. PipesInOrder
    <2>1. \A w \in Worker : Len(pipe_master[w]) = 0 /\ 1..Len(pipe_master[w]) = {}
      BY <1>3
    <2>2. IdsGiven
      <3>1. session_round = 0 /\ \A fd \in Fd : conn[fd].session_id <= session_round
        BY <1>1, <1>2 DEF ConnectionInit
      <3>2. QED
        BY Zenon, <1>3, <2>1, <3>1 DEF IdsGiven
    <2>3. ConnectFirst /\ ConnectOnce
      BY Zenon, <2>1 DEF ConnectFirst, ConnectOnce
    <2>4. Announced
      BY Zenon, <1>1, <1>2 DEF Announced
    <2>5. QED
      BY Zenon, <2>2, <2>3, <2>4 DEF PipesInOrder
  <1>9. SessionsDiffer /\ FlagsTrue
    BY Zenon, <1>1, <1>2 DEF SessionsDiffer, FlagsTrue
  <1>10. EndsTrue
    BY Zenon, <1>3, <1>a DEF EndsTrue
  <1>11. AnswersTrue
    <2>1. \A w \in Worker : 1..Len(pipe_worker[w]) = {}
      BY <1>3
    <2>2. QED
      BY Zenon, <2>1 DEF AnswersTrue
  <1>12. QED
    BY Zenon, <1>4, <1>5, <1>6, <1>7, <1>8, <1>9, <1>10, <1>11 DEF ConnInv, ConnBase, Protocol

\* Every step of the reactor, the workers and the environment keeps the types.
LEMMA NextBase ==
    ASSUME ConnBase, ConnectionNext
    PROVE  ConnBase'
  <1>1. CASE Accept
    BY Zenon, <1>1, AcceptBase
  <1>2. ASSUME NEW fd \in Fd,
               OnRead(fd) \/ OnReadEnd(fd) \/ OnWrite(fd) \/ IdleClose(fd) \/ ClientCloses(fd)
        PROVE  ConnBase'
    BY Zenon, <1>2, OnReadBase, OnReadEndBase, OnWriteBase, IdleCloseBase, ClientClosesBase
  <1>3. ASSUME NEW w \in Worker,
               \/ OnPipeRead(w) \/ WorkerTakes(w)
               \/ EndBegins(w) \/ OnCloseReturns(w) \/ EndFinishes(w) \/ WorkerCrashes(w)
        PROVE  ConnBase'
    BY Zenon, <1>3, OnPipeReadBase, WorkerTakesBase, EndBase
  <1>4. ASSUME NEW w \in Worker, NEW id \in SessionId, SendResponse(w, id)
        PROVE  ConnBase'
    BY Zenon, <1>4, SendResponseBase
  <1>5. ASSUME NEW w \in Worker, NEW id \in SessionId, NEW reset \in BOOLEAN,
               CloseSession(w, id, reset)
        PROVE  ConnBase'
    BY Zenon, <1>5, CloseSessionBase
  <1>6. ASSUME NEW w \in Worker, NEW id \in SessionId, NEW value \in BOOLEAN,
               Protect(w, id, value)
        PROVE  ConnBase'
    BY Zenon, <1>6, ProtectBase
  <1>7. QED
    BY Zenon, <1>1, <1>2, <1>3, <1>4, <1>5, <1>6 DEF ConnectionNext

\* A descriptor that was reused under end() stays in the record.
LEMMA NotReusedBefore ==
    ASSUME ConnectionNext, ~reused'
    PROVE  ~reused
  <1>1. CASE Accept
    BY <1>1 DEF Accept, workerVars
  <1>2. ASSUME NEW fd \in Fd,
               OnRead(fd) \/ OnReadEnd(fd) \/ OnWrite(fd) \/ IdleClose(fd) \/ ClientCloses(fd)
        PROVE  ~reused
    BY <1>2, Zenon DEF OnRead, OnReadEnd, OnWrite, IdleClose, ClientCloses, workerVars
  <1>3. ASSUME NEW w \in Worker, OnPipeRead(w) \/ WorkerTakes(w) \/ EndFinishes(w) \/ WorkerCrashes(w)
        PROVE  ~reused
    BY <1>3, Zenon DEF OnPipeRead, WorkerTakes, EndFinishes, WorkerCrashes
  <1>4. ASSUME NEW w \in Worker, EndBegins(w) \/ OnCloseReturns(w)
        PROVE  ~reused
    BY <1>4, Zenon DEF EndBegins, OnCloseReturns
  <1>5. ASSUME NEW w \in Worker, NEW id \in SessionId,
               SendResponse(w, id) \/ \E reset \in BOOLEAN : CloseSession(w, id, reset)
        PROVE  ~reused
    BY <1>5, Zenon DEF SendResponse, CloseSession
  <1>6. ASSUME NEW w \in Worker, NEW id \in SessionId, NEW value \in BOOLEAN, Protect(w, id, value)
        PROVE  ~reused
    BY <1>6, Zenon DEF Protect
  <1>7. QED
    BY Zenon, <1>1, <1>2, <1>3, <1>4, <1>5, <1>6 DEF ConnectionNext

\* And, as long as no descriptor is reused under end(), the protocol.
LEMMA NextProtocol ==
    ASSUME ConnBase, ConnBase', Protocol, ConnectionNext, ~reused'
    PROVE  Protocol'
  <1>1. CASE Accept
    BY Zenon, <1>1, AcceptStep
  <1>2. ASSUME NEW fd \in Fd,
               OnRead(fd) \/ OnReadEnd(fd) \/ OnWrite(fd) \/ IdleClose(fd) \/ ClientCloses(fd)
        PROVE  Protocol'
    BY Zenon, <1>2, ReadStep
  <1>3. ASSUME NEW w \in Worker, OnPipeRead(w) \/ WorkerTakes(w)
        PROVE  Protocol'
    BY Zenon, <1>3, PipeReadStep, TakesStep
  <1>4. ASSUME NEW w \in Worker,
               EndBegins(w) \/ OnCloseReturns(w) \/ EndFinishes(w) \/ WorkerCrashes(w)
        PROVE  Protocol'
    BY Zenon, <1>4, EndBeginsStep, OnCloseReturnsStep, EndFinishesStep
  <1>5. ASSUME NEW w \in Worker, NEW id \in SessionId, SendResponse(w, id)
        PROVE  Protocol'
    BY Zenon, <1>5, SendResponseStep
  <1>6. ASSUME NEW w \in Worker, NEW id \in SessionId, NEW reset \in BOOLEAN,
               CloseSession(w, id, reset)
        PROVE  Protocol'
    BY Zenon, <1>6, CloseSessionStep
  <1>7. ASSUME NEW w \in Worker, NEW id \in SessionId, NEW value \in BOOLEAN,
               Protect(w, id, value)
        PROVE  Protocol'
    BY Zenon, <1>7, ProtectStep
  <1>8. QED
    BY Zenon, <1>1, <1>2, <1>3, <1>4, <1>5, <1>6, <1>7 DEF ConnectionNext

LEMMA StepInv == ConnInv /\ [ConnectionNext]_connectionVars => ConnInv'
  <1> SUFFICES ASSUME ConnInv, [ConnectionNext]_connectionVars
               PROVE  ConnInv'
    BY Zenon
  <1>1. CASE ConnectionNext
    <2>1. ConnBase'
      BY Zenon, <1>1, NextBase DEF ConnInv
    <2>2. ASSUME ~reused'
          PROVE  Protocol'
      BY Zenon, <1>1, <2>1, <2>2, NotReusedBefore, NextProtocol DEF ConnInv
    <2>3. QED
      BY Zenon, <2>1, <2>2 DEF ConnInv
  <1>2. CASE UNCHANGED connectionVars
    <2>1. ConnBase'
      BY Zenon, <1>2 DEF ConnInv, ConnBase, SharedTypes, WorkerTypes, GhostTypes, InUse, InEndOf, connectionVars
    <2>2. ASSUME ~reused'
          PROVE  Protocol'
      <3>1. Protocol
        BY Zenon, <1>2, <2>2 DEF ConnInv, connectionVars
      <3>2. UNCHANGED <<conn, pipe_master, pipe_worker, worker, log, released, session_round>>
        BY Zenon, <1>2 DEF connectionVars
      <3>3. AnswersTrue' /\ WorkersMove
        BY Zenon, <3>1, <3>2 DEF Protocol, AnswersTrue, WorkersMove
      <3>4. QED
        BY Zenon, <3>1, <3>2, <3>3, QuietStep DEF ConnInv
    <2>3. QED
      BY Zenon, <2>1, <2>2 DEF ConnInv
  <1>3. QED
    BY Zenon, <1>1, <1>2

-----------------------------------------------------------------------------
(* The callbacks of a connection.                                          *)

\* For any number of descriptors, workers, sessions, requests, calls and
\* crashes: onConnect comes first, onReceive only between the two, onClose once
\* and last, and a connection that is released without force had its onClose
\* (ReactorThread_onClose, ProcessFactory::end, Server::close_connection), as
\* long as end() does not go on with a descriptor that has been given to
\* another session in the meantime.
THEOREM ConnectionCallbacks == ConnectionSpec => []CallbackProtocol
  <1>1. ConnInv => CallbackProtocol
    BY Zenon DEF ConnInv, ConnBase, SharedTypes, WorkerTypes, GhostTypes, Step, Protocol, LogsTrue, Logs,
           ReleasedTrue, Unforced, Ran, CallbackProtocol, ConnectionTypeOK
  <1>2. QED
    BY <1>1, InitInv, StepInv, PTL DEF ConnectionSpec
=============================================================================
