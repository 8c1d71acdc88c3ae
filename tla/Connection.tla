----------------------------- MODULE Connection -----------------------------
(***************************************************************************)
(* The life of a TCP connection of a server in process mode: accepted by   *)
(* the reactor (add_connection, connection_incoming), served by the worker *)
(* its fd is bound to (dispatch mode FDMOD), closed by the handshake       *)
(* between the two: the reactor tells the worker (ReactorThread_onClose),  *)
(* the worker runs onClose and answers (ProcessFactory::end), the reactor  *)
(* flushes what is still to be sent and releases fd and session            *)
(* (send_to_connection, ReactorThread_onWrite, Server::close_connection).  *)
(*                                                                         *)
(* The Connection structures and the session list are in shared memory:    *)
(* workers read and write them while the reactor does.  The reactor is one *)
(* thread that also accepts (single_thread); each of its event handlers is *)
(* one action.  ProcessFactory::end is three: the session is verified and  *)
(* marked, the flags are tested and onClose begins, onClose returns and    *)
(* the answer is written.  A worker may crash between any two and is       *)
(* replaced; its pipes survive.  SSL and disable_notify are off, and an    *)
(* onClose that closes does so for sessions of other workers or its own.   *)
(***************************************************************************)
EXTENDS Naturals, Sequences

CONSTANTS Fd,                    \* the descriptors accept() can return, positive
          Worker,                \* the event workers
          BoundTo,               \* schedule_worker: the worker of each descriptor
          SW_SESSION_LIST_SIZE,  \* slots of the session list
          MaxSessions,           \* bound: connections accepted
          MaxRequests,           \* bound: reads that deliver data
          MaxCalls,              \* bound: calls of send and close
          MaxCrashes             \* bound: workers that crash

ASSUME ConnectionAssumption ==
  /\ Fd \subseteq Nat \ {0} /\ BoundTo \in [Fd -> Worker]
  /\ SW_SESSION_LIST_SIZE \in Nat \ {0} /\ MaxSessions \in Nat

VARIABLES idle_check,    \* configuration: who closes idle connections
          conn,          \* connection_list, with what matters of conn->socket
          client,        \* the peer: none, open, or shut once it closed
          session_list, session_round,
          pipe_master,   \* messages on their way to each worker
          pipe_worker,   \* messages on their way back to the reactor
          worker,        \* what each worker is doing
          log,           \* ghost: the callbacks run for each session
          given, sent,   \* ghost: responses accepted for and written to it
          released,      \* ghost: whether its connection was released, and how
          reused,        \* ghost: end() went on with the descriptor of another
          requests, calls, crashes

connectionVars == <<idle_check, conn, client, session_list, session_round,
                    pipe_master, pipe_worker, worker, log, given, sent, released,
                    reused, requests, calls, crashes>>

SessionId == 1..MaxSessions
IdleCheck == {"none", "heartbeat", "max_idle_time"}
Message == [type : {"CONNECT", "RECV_DATA", "SEND_DATA", "CLOSE"}, id : SessionId]

Connection == [session_id : 0..MaxSessions, out_buffer : Seq({"DATA", "CLOSE"}),
               active : BOOLEAN, closed : BOOLEAN, closing : BOOLEAN,
               peer_closed : BOOLEAN, close_queued : BOOLEAN,
               close_force : BOOLEAN, close_reset : BOOLEAN,
               close_actively : BOOLEAN, close_notified : BOOLEAN,
               protect : BOOLEAN, removed : BOOLEAN]

ZeroConnection == [session_id |-> 0, out_buffer |-> <<>>, active |-> FALSE,
                   closed |-> FALSE, closing |-> FALSE, peer_closed |-> FALSE,
                   close_queued |-> FALSE, close_force |-> FALSE,
                   close_reset |-> FALSE, close_actively |-> FALSE,
                   close_notified |-> FALSE, protect |-> FALSE, removed |-> TRUE]

Idle == [pc |-> "idle", id |-> 0, fd |-> 0]

ConnectionTypeOK ==
  /\ idle_check \in IdleCheck
  /\ conn \in [Fd -> Connection]
  /\ client \in [Fd -> {"none", "open", "shut"}]
  /\ session_list \in [0..(SW_SESSION_LIST_SIZE - 1) ->
                         [fd : Fd \cup {0}, id : 0..MaxSessions]]
  /\ session_round \in 0..MaxSessions
  /\ pipe_master \in [Worker -> Seq(Message)]
  /\ pipe_worker \in [Worker -> Seq(Message)]
  /\ worker \in [Worker -> [pc : {"idle", "verified", "onClose", "finish"},
                            id : 0..MaxSessions, fd : Fd \cup {0}]]
  /\ given \in [SessionId -> Nat] /\ sent \in [SessionId -> Nat]
  /\ released \in [SessionId -> {"no", "closed", "idle", "forced"}]

ConnectionInit ==
  /\ idle_check \in IdleCheck
  /\ conn = [fd \in Fd |-> ZeroConnection]
  /\ client = [fd \in Fd |-> "none"]
  /\ session_list = [s \in 0..(SW_SESSION_LIST_SIZE - 1) |-> [fd |-> 0, id |-> 0]]
  /\ session_round = 0
  /\ pipe_master = [w \in Worker |-> <<>>]
  /\ pipe_worker = [w \in Worker |-> <<>>]
  /\ worker = [w \in Worker |-> Idle]
  /\ log = [id \in SessionId |-> <<>>]
  /\ given = [id \in SessionId |-> 0] /\ sent = [id \in SessionId |-> 0]
  /\ released = [id \in SessionId |-> "no"]
  /\ reused = FALSE
  /\ requests = 0 /\ calls = 0 /\ crashes = 0

-----------------------------------------------------------------------------
(* Sessions.                                                               *)

Slot(id) == id % SW_SESSION_LIST_SIZE

\* get_connection_verify_no_ssl: the session and the connection name each other.
Verified(id, fd) ==
  /\ session_list[Slot(id)] = [fd |-> fd, id |-> id]
  /\ fd \in Fd
  /\ conn[fd].active /\ conn[fd].session_id = id

VerifiedFd(id) == IF \E fd \in Fd : Verified(id, fd)
                  THEN CHOOSE fd \in Fd : Verified(id, fd) ELSE 0

Send(pipe, w, type, id) == [pipe EXCEPT ![w] = Append(@, [type |-> type, id |-> id])]

\* The callback e is run for session id (repeated requests are not told apart).
Logged(id, e) ==
  IF e = "receive" /\ log[id] # <<>> /\ log[id][Len(log[id])] = e
  THEN log ELSE [log EXCEPT ![id] = Append(@, e)]

workerVars == <<pipe_worker, worker, log, given, reused, calls, crashes>>

-----------------------------------------------------------------------------
(* The reactor.                                                            *)

\* The new id is the first after session_round whose slot is free.
FreshId(id) ==
  /\ id > session_round /\ session_list[Slot(id)].fd = 0
  /\ \A j \in (session_round + 1)..(id - 1) : session_list[Slot(j)].fd # 0

\* accept_connection: a new connection on the lowest free descriptor.
Accept ==
  \E fd \in Fd, id \in SessionId :
    /\ client[fd] = "none" /\ \A g \in Fd : g < fd => client[g] # "none"
    /\ FreshId(id)
    /\ client' = [client EXCEPT ![fd] = "open"]
    /\ session_list' = [session_list EXCEPT ![Slot(id)] = [fd |-> fd, id |-> id]]
    /\ session_round' = id
    /\ conn' = [conn EXCEPT ![fd] =
                  [ZeroConnection EXCEPT !.session_id = id, !.active = TRUE,
                                         !.removed = FALSE]]
    /\ pipe_master' = Send(pipe_master, BoundTo[fd], "CONNECT", id)
    /\ UNCHANGED <<idle_check, workerVars, sent, released, requests>>

\* Server::close_connection: session and descriptor are given back, after the
\* CLOSE of the worker (closed) or because the connection was idle.
Release(fd, c, how) ==
  /\ session_list' = [session_list EXCEPT ![Slot(c.session_id)].fd = 0]
  /\ conn' = [conn EXCEPT ![fd] = [c EXCEPT !.active = FALSE, !.closed = TRUE,
                                            !.removed = TRUE, !.out_buffer = <<>>]]
  /\ client' = [client EXCEPT ![fd] = "none"]
  /\ released' = [released EXCEPT ![c.session_id] =
                    IF c.close_force THEN "forced" ELSE how]
  /\ UNCHANGED pipe_master

\* ProcessFactory::dispatch: nothing for a connection the server has closed,
\* but the notification of a forced close.
MayDispatch(c, type) == ~c.closed \/ (type = "CLOSE" /\ c.close_force)

\* ReactorThread_onClose, entered with the connection as c.
OnClose(fd, c) ==
  \/ /\ c.removed                                   \* del() fails
     /\ conn' = [conn EXCEPT ![fd] = c]
     /\ UNCHANGED <<session_list, client, released, pipe_master>>
  \/ /\ ~c.removed /\ c.close_queued
     /\ Release(fd, c, "closed")
  \/ /\ ~c.removed /\ ~c.close_queued
     /\ conn' = [conn EXCEPT ![fd] =
                   IF c.close_notified THEN [c EXCEPT !.removed = TRUE]
                   ELSE [c EXCEPT !.removed = TRUE, !.peer_closed = TRUE,
                                  !.close_notified = TRUE]]
     /\ pipe_master' = IF ~c.close_notified /\ MayDispatch(c, "CLOSE")
                       THEN Send(pipe_master, BoundTo[fd], "CLOSE", c.session_id)
                       ELSE pipe_master
     /\ UNCHANGED <<session_list, client, released>>

\* readable_callback_raw: data for the worker.
OnRead(fd) ==
  /\ client[fd] # "none" /\ ~conn[fd].removed
  /\ requests < MaxRequests /\ requests' = requests + 1
  /\ pipe_master' = IF MayDispatch(conn[fd], "RECV_DATA")
                    THEN Send(pipe_master, BoundTo[fd], "RECV_DATA", conn[fd].session_id)
                    ELSE pipe_master
  /\ UNCHANGED <<idle_check, conn, client, session_list, session_round,
                 workerVars, sent, released>>

\* readable_callback_raw: recv() returns 0 or a connection error.
OnReadEnd(fd) ==
  /\ client[fd] = "shut" /\ ~conn[fd].removed
  /\ OnClose(fd, conn[fd])
  /\ UNCHANGED <<idle_check, session_round, workerVars, sent, requests>>

\* send_to_connection of a response: written at once, or behind the others.
\* An error of send() is not looked at: the data is buffered.
SendData(fd, id) ==
  \/ /\ conn[fd].out_buffer = <<>>
     /\ sent' = [sent EXCEPT ![id] = @ + 1]
     /\ UNCHANGED <<conn, session_list, client, released, pipe_master>>
  \/ /\ conn' = IF conn[fd].peer_closed THEN conn
                ELSE [conn EXCEPT ![fd].out_buffer = Append(@, "DATA"),
                                  ![fd].removed = FALSE]
     /\ UNCHANGED <<sent, session_list, client, released, pipe_master>>

\* Mutant: the close does not wait for the data before it.
SendClose_at_once(fd) == Release(fd, conn[fd], "closed") /\ UNCHANGED sent

\* send_to_connection of a CLOSE: at once, or when all is written.
SendClose(fd) ==
  LET c == conn[fd] IN
  /\ IF c.close_reset \/ c.close_force \/ c.peer_closed \/ c.out_buffer = <<>>
     THEN Release(fd, c, "closed")
     ELSE /\ conn' = [conn EXCEPT ![fd].out_buffer = Append(@, "CLOSE"),
                                  ![fd].close_queued = TRUE,
                                  ![fd].removed = FALSE]
          /\ UNCHANGED <<session_list, client, released, pipe_master>>
  /\ UNCHANGED sent

\* ReactorThread_onPipeRead: the next message of a worker.
OnPipeRead(w) ==
  /\ pipe_worker[w] # <<>>
  /\ pipe_worker' = [pipe_worker EXCEPT ![w] = Tail(@)]
  /\ LET m == Head(pipe_worker[w])
         fd == VerifiedFd(m.id) IN
     \/ /\ fd = 0
        /\ UNCHANGED <<conn, session_list, client, released, pipe_master, sent>>
     \/ fd # 0 /\ m.type = "SEND_DATA" /\ SendData(fd, m.id)
     \/ fd # 0 /\ m.type = "CLOSE" /\ SendClose(fd)
  /\ UNCHANGED <<idle_check, session_round, worker, log, given, reused, calls,
                 crashes, requests>>

\* ReactorThread_onWrite: the queue is written from its front, n responses of
\* it; a CLOSE that is then in front releases the connection; an error is a
\* close event.
OnWrite(fd) ==
  LET c == conn[fd]
      out == c.out_buffer
      rest(n) == [c EXCEPT !.out_buffer = SubSeq(out, n + 1, Len(out))] IN
  /\ client[fd] # "none" /\ ~c.removed /\ out # <<>>
  /\ \E n \in 0..Len(out) :
       /\ \A i \in 1..n : out[i] = "DATA"
       /\ sent' = [sent EXCEPT ![c.session_id] = @ + n]
       /\ \/ /\ n < Len(out) => out[n + 1] = "DATA"
             /\ conn' = [conn EXCEPT ![fd] = rest(n)]
             /\ UNCHANGED <<session_list, client, released, pipe_master>>
          \/ /\ n < Len(out) /\ out[n + 1] = "CLOSE"
             /\ Release(fd, rest(n), "closed")
          \/ /\ n < Len(out) /\ out[n + 1] = "DATA" /\ client[fd] = "shut"
             /\ OnClose(fd, rest(n))
  /\ UNCHANGED <<idle_check, session_round, workerVars, requests>>

\* Mutant: the worker is asked again and again.
IdleClose_asks_again(fd) ==
  /\ idle_check # "none" /\ conn[fd].active
  /\ OnClose(fd, [conn[fd] EXCEPT !.close_force = TRUE])
  /\ UNCHANGED <<idle_check, session_round, workerVars, sent, requests>>

\* An idle connection is released at once the second time, by heartbeat_check
\* (ReactorThread::close_connection) and by the timer of max_idle_time
\* (get_timeout_callback).  The timer releases one that is closed already at
\* once, too, whatever is still to be sent to it.
ReleasesIdle(fd) ==
  conn[fd].close_force \/ (idle_check = "max_idle_time" /\ conn[fd].closed)

\* Unless it is protected it is closed: through the worker the first time.
IdleClose(fd) ==
  /\ idle_check # "none" /\ conn[fd].active /\ ~conn[fd].protect
  /\ IF ReleasesIdle(fd)
     THEN Release(fd, conn[fd], "idle")
     ELSE OnClose(fd, [conn[fd] EXCEPT !.close_force = TRUE])
  /\ UNCHANGED <<idle_check, session_round, workerVars, sent, requests>>

-----------------------------------------------------------------------------
(* The workers.                                                            *)

reactorVars == <<idle_check, client, session_list, session_round, sent, released,
                 requests>>

\* worker_accept_event: a message is taken and its callback run to its end.
\* A CLOSE enters ProcessFactory::end.
WorkerTakes(w) ==
  /\ worker[w].pc = "idle" /\ pipe_master[w] # <<>>
  /\ pipe_master' = [pipe_master EXCEPT ![w] = Tail(@)]
  /\ LET m == Head(pipe_master[w])
         fd == VerifiedFd(m.id) IN
     \/ /\ m.type = "CONNECT"
        /\ log' = Logged(m.id, "connect") /\ UNCHANGED worker
     \/ /\ m.type = "RECV_DATA"                     \* Worker_discard_data
        /\ log' = IF fd # 0 /\ ~conn[fd].closed
                  THEN Logged(m.id, "receive") ELSE log
        /\ UNCHANGED worker
     \/ /\ m.type = "CLOSE"
        /\ worker' = IF fd = 0 THEN worker
                     ELSE [worker EXCEPT ![w] = [pc |-> "verified", id |-> m.id, fd |-> fd]]
        /\ UNCHANGED log
  /\ UNCHANGED <<reactorVars, reused, conn, pipe_worker, given, calls, crashes>>

\* The application of worker w knows session id and calls the server about it
\* (calls that are refused are not counted).
Calls(w, id, refused) ==
  /\ worker[w].pc \in {"idle", "onClose"}
  /\ log[id] # <<>>
  /\ calls < MaxCalls
  /\ calls' = IF refused THEN calls ELSE calls + 1

\* Server::send: ProcessFactory::finish of SEND_DATA.  The responses of the
\* worker the connection is bound to are counted.
SendResponse(w, id) ==
  /\ LET fd == VerifiedFd(id)
         ok == fd # 0 /\ ~conn[fd].closed /\ ~conn[fd].peer_closed IN
     /\ Calls(w, id, ~ok)
     /\ pipe_worker' = IF ok THEN Send(pipe_worker, w, "SEND_DATA", id) ELSE pipe_worker
     /\ given' = IF ok /\ w = BoundTo[fd] THEN [given EXCEPT ![id] = @ + 1] ELSE given
  /\ UNCHANGED <<reactorVars, reused, conn, pipe_master, worker, log, crashes>>

\* Server::close: ProcessFactory::end with CLOSE_ACTIVELY and perhaps
\* CLOSE_RESET, up to the label _close.  Another worker forwards it; inside
\* onClose of the same session it ends at the test of closing.
CloseSession(w, id, reset) ==
  /\ Calls(w, id, VerifiedFd(id) = 0)
  /\ LET fd == VerifiedFd(id)
         home == BoundTo[fd] = w IN
     \/ fd = 0 /\ UNCHANGED <<conn, pipe_master, worker>>
     \/ /\ fd # 0
        /\ conn' = [conn EXCEPT ![fd].close_actively = TRUE,
                                ![fd].close_reset = @ \/ reset]
        /\ pipe_master' = IF home THEN pipe_master
                          ELSE Send(pipe_master, BoundTo[fd], "CLOSE", id)
        /\ home => worker[w].pc = "idle" \/ worker[w].fd = fd
        /\ worker' = IF home /\ worker[w].pc = "idle"
                     THEN [worker EXCEPT ![w] = [pc |-> "verified", id |-> id, fd |-> fd]]
                     ELSE worker
  /\ UNCHANGED <<reactorVars, reused, pipe_worker, log, given, crashes>>

\* The protect method of the server: the idle check passes over the connection,
\* or no longer does.
Protect(w, id, value) ==
  /\ LET fd == VerifiedFd(id)
         ok == fd # 0 /\ ~conn[fd].closed IN
     /\ Calls(w, id, ~ok)
     /\ conn' = IF ok THEN [conn EXCEPT ![fd].protect = value] ELSE conn
  /\ UNCHANGED <<reactorVars, reused, pipe_master, pipe_worker, worker, log, given, crashes>>

\* Mutant: a forced close runs onClose whether or not it was run.
if_do_close_callback_again(c) == ~c.closed \/ c.close_force

if_do_close_callback(c) == ~c.closed

\* ProcessFactory::end at _close: the tests, and onClose for the one who sets
\* closed (if_do_close_callback).
EndBegins(w) ==
  LET c == conn[worker[w].fd]
      refused == c.closing \/ (c.closed /\ ~c.close_force /\ ~c.close_reset) IN
  /\ worker[w].pc = "verified"
  /\ \/ /\ refused
        /\ worker' = [worker EXCEPT ![w] = Idle] /\ UNCHANGED <<conn, log>>
     \/ /\ ~refused /\ if_do_close_callback(c)
        /\ conn' = [conn EXCEPT ![worker[w].fd].closed = TRUE,
                                ![worker[w].fd].closing = TRUE]
        /\ log' = Logged(worker[w].id, "close")
        /\ worker' = [worker EXCEPT ![w].pc = "onClose"]
     \/ /\ ~refused /\ ~if_do_close_callback(c)
        /\ worker' = [worker EXCEPT ![w].pc = "finish"] /\ UNCHANGED <<conn, log>>
  /\ reused' = (reused \/ c.session_id # worker[w].id)
  /\ UNCHANGED <<reactorVars, pipe_master, pipe_worker, given, calls, crashes>>

\* onClose returns.
OnCloseReturns(w) ==
  /\ worker[w].pc = "onClose"
  /\ conn' = [conn EXCEPT ![worker[w].fd].closing = FALSE]
  /\ worker' = [worker EXCEPT ![w].pc = "finish"]
  /\ reused' = (reused \/ conn[worker[w].fd].session_id # worker[w].id)
  /\ UNCHANGED <<reactorVars, pipe_master, pipe_worker, log, given, calls, crashes>>

\* ProcessFactory::finish of CLOSE: the answer to the reactor.
EndFinishes(w) ==
  /\ worker[w].pc = "finish"
  /\ pipe_worker' = IF VerifiedFd(worker[w].id) # 0
                    THEN Send(pipe_worker, w, "CLOSE", worker[w].id) ELSE pipe_worker
  /\ worker' = [worker EXCEPT ![w] = Idle]
  /\ UNCHANGED <<reactorVars, reused, conn, pipe_master, log, given, calls, crashes>>

-----------------------------------------------------------------------------
(* The environment.                                                        *)

ClientCloses(fd) ==
  /\ client[fd] = "open"
  /\ client' = [client EXCEPT ![fd] = "shut"]
  /\ UNCHANGED <<idle_check, conn, session_list, session_round, pipe_master,
                 workerVars, sent, released, requests>>

\* A worker dies inside end() and is replaced: what it was doing is lost.
\* Only where idle connections are looked for.
WorkerCrashes(w) ==
  /\ idle_check # "none" /\ crashes < MaxCrashes
  /\ worker[w].pc # "idle"
  /\ worker' = [worker EXCEPT ![w] = Idle]
  /\ crashes' = crashes + 1
  /\ UNCHANGED <<reactorVars, reused, conn, pipe_master, pipe_worker, log, given, calls>>

EndStep(w) == WorkerTakes(w) \/ EndBegins(w) \/ OnCloseReturns(w) \/ EndFinishes(w)

ConnectionNext ==
  \/ Accept
  \/ \E fd \in Fd : \/ OnRead(fd) \/ OnReadEnd(fd) \/ OnWrite(fd)
                    \/ IdleClose(fd) \/ ClientCloses(fd)
  \/ \E w \in Worker :
       \/ OnPipeRead(w) \/ WorkerTakes(w)
       \/ EndBegins(w) \/ OnCloseReturns(w) \/ EndFinishes(w) \/ WorkerCrashes(w)
       \/ \E id \in SessionId :
            \/ SendResponse(w, id)
            \/ \E reset \in BOOLEAN : CloseSession(w, id, reset)
            \/ \E value \in BOOLEAN : Protect(w, id, value)

ConnectionSpec == ConnectionInit /\ [][ConnectionNext]_connectionVars

\* Reactor and workers keep running; a peer that is gone stays silent, so
\* where idle connections are looked for it is found again and again.
ConnectionFairness ==
  /\ \A fd \in Fd : /\ WF_connectionVars(OnReadEnd(fd))
                    /\ WF_connectionVars(OnWrite(fd))
                    /\ WF_connectionVars(client[fd] = "shut" /\ IdleClose(fd))
  /\ \A w \in Worker : /\ WF_connectionVars(OnPipeRead(w))
                       /\ WF_connectionVars(EndStep(w))

-----------------------------------------------------------------------------
(* Properties.                                                             *)

\* The callbacks of a session come in the order onConnect, onReceive, onClose,
\* the first and the last at most once, whatever mix of peer, workers and idle
\* check closes it (if_do_close_callback, Worker_discard_data, dispatch).  And
\* a connection is released only after its onClose, unless it was forced.  Not
\* so once end() has verified a session whose descriptor is another's by the
\* time it tests the flags: it then works on the flags of the other (reused).
CallbackProtocol ==
  /\ ConnectionTypeOK
  /\ ~reused => \A id \in SessionId :
       /\ log[id] \in {<<>>, <<"connect">>, <<"connect", "receive">>,
                       <<"connect", "close">>, <<"connect", "receive", "close">>}
       /\ released[id] \in {"closed", "idle"} => log[id] # <<>> /\ log[id][Len(log[id])] = "close"

\* A connection that is released on the CLOSE of its worker, without reset, force
\* or the timer of max_idle_time, was sent all that the worker was allowed to
\* send: the CLOSE waits behind the data in the pipe and in out_buffer, whatever
\* the peer, the idle check and other workers do meanwhile (send_to_connection,
\* ReactorThread_onWrite).
ResponsesBeforeClose ==
  [][\A fd \in Fd :
       LET c == conn[fd] IN
       /\ client[fd] = "open" /\ client'[fd] = "none"
       /\ ~c.close_reset /\ released'[c.session_id] = "closed"
       => sent'[c.session_id] >= given[c.session_id]]_connectionVars

\* end() went wrong, and nothing looks for the connection: it died with its
\* worker, or worked on a descriptor that was in use again.
Stranded(fd) ==
  (reused \/ crashes > 0) /\ (idle_check = "none" \/ conn[fd].protect)

\* Once the peer is gone its descriptor and session are given back, whoever
\* began the close, and, where idle connections are looked for and this one is
\* not protected, even if the worker died in the middle of end() or end() worked
\* on a descriptor that was in use again (ReactorThread_onClose, end,
\* close_connection, heartbeat_check).
ConnectionReleased ==
  \A fd \in Fd : client[fd] = "shut" ~> client[fd] = "none" \/ Stranded(fd)
=============================================================================
