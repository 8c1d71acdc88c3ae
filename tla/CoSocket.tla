------------------------------- MODULE CoSocket -------------------------------
(***************************************************************************)
(* One coroutine socket (src/src/coroutine/socket.cc) shared by several    *)
(* coroutines of a thread.  At most one of them waits to read and one to   *)
(* write.  A wait is ended by the reactor, by a timer, by cancel() or by   *)
(* close(), and each of them switches to the waiting coroutine at once:    *)
(* what it does next, a further close() included, happens inside the call  *)
(* that woke it.  `stack' holds the coroutines that are running one inside *)
(* another; when it is empty the event loop runs.                          *)
(***************************************************************************)
EXTENDS Naturals, Sequences, FiniteSets

CONSTANTS
    SocketCo,     \* the coroutines that have the socket
    NoOne,        \* nullptr
    Ssl,          \* whether the socket is encrypted
    MaxCalls      \* bound: calls of all coroutines, close() aside

ASSUME SocketAssumption ==
    NoOne \notin SocketCo /\ Ssl \in BOOLEAN /\ MaxCalls \in Nat

VARIABLES
    fd_open,      \* sock_fd != SW_BAD_SOCKET
    close_wait,   \* socket->close_wait
    events,       \* socket->events; the socket is `removed' when it is empty
    bound,        \* read_co and write_co
    want_event,   \* want_event
    co_timer,     \* read_timer and write_timer: "none", "set", or "never" (-1)
    errCode,      \* errCode
    revents,      \* what is left to dispatch of the event epoll_wait() returned
    event_hup,    \* socket->event_hup
    stack,        \* the coroutines that run, each resumed by the one before it
    step,         \* where each coroutine is
    call,         \* the operation each coroutine is in
    calls,        \* how many calls have been made
    owes,         \* the coroutines that were told of the close and have to close
    released,     \* how often close() returned true
    nobody,       \* a callback resumed a null pointer
    stale         \* a bit of revents whose wait has ended since epoll_wait()

socketVars == <<fd_open, close_wait, events, bound, want_event, co_timer,
                errCode, revents, event_hup, stack, step, call, calls, owes,
                released, nobody, stale>>

Event == {"READ", "WRITE"}

Other(d) == IF d = "READ" THEN "WRITE" ELSE "READ"

Kind == {"loop", "all"}

Call == [dir : Event, kind : Kind, added : Event]

NoCall == [dir |-> "READ", kind |-> "loop", added |-> "READ"]

SocketTypeOK ==
    /\ fd_open \in BOOLEAN /\ close_wait \in BOOLEAN /\ event_hup \in BOOLEAN
    /\ events \subseteq Event
    /\ bound \in [Event -> SocketCo \cup {NoOne}]
    /\ want_event \in Event \cup {"NULL"}
    /\ co_timer \in [Event -> {"none", "set", "never"}]
    /\ errCode \in {"0", "ETIMEDOUT", "ECANCELED", "CLOSE_WAIT", "EBADF"}
    /\ revents \subseteq {"IN", "OUT", "ERR", "ERR2"}
    /\ stack \in Seq(SocketCo)
    /\ step \in [SocketCo -> {"asleep", "user", "try", "wait", "woken", "cancelled",
                              "close_read", "close_end", "done"}]
    /\ call \in [SocketCo -> Call]
    /\ calls \in 0..MaxCalls
    /\ owes \subseteq SocketCo
    /\ released \in Nat
    /\ nobody \in BOOLEAN /\ stale \in BOOLEAN

SocketInit ==
    /\ fd_open = TRUE /\ close_wait = FALSE /\ events = {}
    /\ bound = [d \in Event |-> NoOne]
    /\ want_event = "NULL"
    /\ co_timer = [d \in Event |-> "none"]
    /\ errCode = "0" /\ revents = {} /\ event_hup = FALSE
    /\ stack = <<>>
    /\ step = [c \in SocketCo |-> "asleep"]
    /\ call = [c \in SocketCo |-> NoCall]
    /\ calls = 0
    /\ owes = {} /\ released = 0 /\ nobody = FALSE /\ stale = FALSE

-----------------------------------------------------------------------------
removed == events = {}

\* Mutant: only the reader is looked for.
has_bound_reader(ds) == "READ" \in ds /\ bound["READ"] # NoOne

has_bound(ds) == \E d \in ds : bound[d] # NoOne

\* Mutant: the socket is in the reactor, so nothing is added.
add_event_once(d) == IF removed THEN {d} ELSE events

add_event(d) == events \cup {d}

\* The coroutine c is the one that runs, and is at s.
Runs(c, s) == stack # <<>> /\ stack[Len(stack)] = c /\ step[c] = s

InLoop == stack = <<>> /\ ~nobody

Return == SubSeq(stack, 1, Len(stack) - 1)

\* Coroutine::resume() of the one bound to d; `st' is `step' for the others.
ResumeBound(d, st) ==
    IF bound[d] = NoOne
    THEN nobody' = TRUE /\ step' = st /\ UNCHANGED stack
    ELSE /\ stack' = Append(stack, bound[d])
         /\ step' = [st EXCEPT ![bound[d]] = "woken"]
         /\ UNCHANGED nobody

\* The operation of c ends: the destructor of its TimerController runs.
EndCall(c) ==
    /\ step' = [step EXCEPT ![c] = "user"]
    /\ call' = [call EXCEPT ![c] = NoCall]
    /\ co_timer' = [co_timer EXCEPT ![call[c].dir] = "none"]
    /\ owes' = IF close_wait THEN owes \cup {c} ELSE owes

Count == calls < MaxCalls /\ calls' = calls + 1

-----------------------------------------------------------------------------
(* The operations.  "loop" is recv(), send(), read() and the others that   *)
(* try again after each event, "all" is recv_all() and send_all(), whose   *)
(* barrier tries inside the callback.  poll(), accept() and connect() are  *)
(* a "loop" that does not try a second time.                               *)

\* is_available().  check_bound_co() ends the program when the direction is
\* taken, so a correct program does not call then.
Begin(c, d, k) ==
    /\ Runs(c, "user") /\ c \notin owes /\ Count
    /\ bound[d] = NoOne
    /\ IF fd_open /\ ~close_wait
       THEN /\ step' = [step EXCEPT ![c] = "try"]
            /\ call' = [call EXCEPT ![c] = [dir |-> d, kind |-> k, added |-> d]]
            /\ UNCHANGED <<errCode, owes>>
       ELSE /\ errCode' = IF fd_open THEN "CLOSE_WAIT" ELSE "EBADF"
            /\ owes' = IF fd_open THEN owes \cup {c} ELSE owes
            /\ UNCHANGED <<step, call>>
    /\ UNCHANGED <<fd_open, close_wait, events, bound, want_event, co_timer,
                   revents, event_hup, stack, released, nobody, stale>>

\* The system call succeeds, or fails for good.
Finish(c) ==
    /\ Runs(c, "try")
    /\ EndCall(c)
    /\ errCode' = "0"
    /\ UNCHANGED <<fd_open, close_wait, events, bound, want_event, revents,
                   event_hup, stack, calls, released, nobody, stale>>

\* The system call would block: TimerController::start() and wait_event() up to
\* its yield().  `added' is the other event when the SSL layer has to read in
\* order to write, or to write in order to read.
WaitEvent(c, t, added) ==
    LET d == call[c].dir IN
    /\ Runs(c, "try")
    /\ added = d \/ Ssl
    /\ co_timer' = [co_timer EXCEPT ![d] = IF @ = "none" THEN t ELSE @]
    /\ want_event' = IF added = d THEN want_event ELSE added
    /\ events' = add_event(added)
    /\ errCode' = "0"
    /\ bound' = [bound EXCEPT ![d] = c]
    /\ call' = [call EXCEPT ![c].added = added]
    /\ step' = [step EXCEPT ![c] = "wait"]
    /\ stack' = Return
    /\ UNCHANGED <<fd_open, close_wait, revents, event_hup, calls, owes,
                   released, nobody, stale>>

\* wait_event() from its yield() on, and the loop around it.
Woken(c) ==
    LET d == call[c].dir
        a == call[c].added
        unbound == [bound EXCEPT ![d] = NoOne]
        gone == want_event = "NULL" \/ \A e \in Event : unbound[e] = NoOne
        ok == fd_open /\ errCode = "0"
    IN
    /\ Runs(c, "woken")
    /\ bound' = unbound
    /\ events' = IF gone THEN events \ {a} ELSE events
    /\ want_event' = "NULL"
    /\ stale' = (stale \/ (IF a = "READ" THEN "IN" ELSE "OUT") \in revents)
    /\ IF ok /\ call[c].kind = "loop"
       THEN step' = [step EXCEPT ![c] = "try"] /\ UNCHANGED <<co_timer, call, owes>>
       ELSE EndCall(c)
    /\ UNCHANGED <<fd_open, close_wait, errCode, revents, event_hup, stack,
                   calls, released, nobody>>

-----------------------------------------------------------------------------
(* What other coroutines do to the one that waits.                         *)

\* cancel(), also reached through Coroutine::cancel() and the cancel function.
Cancel(c, d) ==
    /\ Runs(c, "user") /\ c \notin owes /\ Count
    /\ has_bound({d})
    /\ errCode' = "ECANCELED"
    /\ ResumeBound(d, [step EXCEPT ![c] = "cancelled"])
    /\ UNCHANGED <<fd_open, close_wait, events, bound, want_event, co_timer,
                   revents, event_hup, call, owes, released, stale>>

CancelReturns(c) ==
    /\ Runs(c, "cancelled")
    /\ step' = [step EXCEPT ![c] = "user"]
    /\ UNCHANGED <<fd_open, close_wait, events, bound, want_event, co_timer,
                   errCode, revents, event_hup, stack, call, calls, owes,
                   released, nobody, stale>>

\* close() up to and with cancel(SW_EVENT_WRITE).
Close(c) ==
    /\ Runs(c, "user")
    /\ c \in owes \/ (fd_open /\ ~close_wait)
    /\ owes' = owes \ {c}
    /\ IF ~fd_open
       THEN /\ errCode' = "EBADF"
            /\ UNCHANGED <<fd_open, close_wait, released, step, stack, nobody>>
       ELSE IF has_bound(Event)
       THEN /\ close_wait' = TRUE
            /\ IF has_bound({"WRITE"})
               THEN /\ errCode' = "ECANCELED"
                    /\ ResumeBound("WRITE", [step EXCEPT ![c] = "close_read"])
               ELSE /\ step' = [step EXCEPT ![c] = "close_read"]
                    /\ UNCHANGED <<errCode, stack, nobody>>
            /\ UNCHANGED <<fd_open, released>>
       ELSE /\ fd_open' = FALSE
            /\ released' = released + 1
            /\ UNCHANGED <<close_wait, errCode, step, stack, nobody>>
    /\ UNCHANGED <<events, bound, want_event, co_timer, revents, event_hup,
                   call, calls, stale>>

\* close() goes on: cancel(SW_EVENT_READ).
CloseRead(c) ==
    /\ Runs(c, "close_read")
    /\ IF has_bound({"READ"})
       THEN /\ errCode' = "ECANCELED"
            /\ ResumeBound("READ", [step EXCEPT ![c] = "close_end"])
       ELSE /\ step' = [step EXCEPT ![c] = "close_end"]
            /\ UNCHANGED <<errCode, stack, nobody>>
    /\ UNCHANGED <<fd_open, close_wait, events, bound, want_event, co_timer,
                   revents, event_hup, call, calls, owes, released, stale>>

CloseReturns(c) ==
    /\ Runs(c, "close_end")
    /\ errCode' = "CLOSE_WAIT"
    /\ step' = [step EXCEPT ![c] = "user"]
    /\ UNCHANGED <<fd_open, close_wait, events, bound, want_event, co_timer,
                   revents, event_hup, stack, call, calls, owes, released,
                   nobody, stale>>

\* The coroutine waits for something else, or ends.
Leave(c, s) ==
    /\ Runs(c, "user")
    /\ \/ s = "asleep" /\ Count
       \/ s = "done" /\ c \notin owes /\ UNCHANGED calls
    /\ step' = [step EXCEPT ![c] = s]
    /\ stack' = Return
    /\ UNCHANGED <<fd_open, close_wait, events, bound, want_event, co_timer,
                   errCode, revents, event_hup, call, owes, released, nobody,
                   stale>>

-----------------------------------------------------------------------------
(* The event loop.                                                         *)

\* epoll_wait() returns an event of the socket.
EpollWait(rs, hup) ==
    /\ InLoop /\ revents = {}
    /\ ~removed
    /\ rs = {"ERR"} \/ (rs # {} /\ rs \subseteq {"IN", "OUT"})
    /\ "IN" \in rs => "READ" \in events
    /\ "OUT" \in rs => "WRITE" \in events
    /\ revents' = rs
    /\ event_hup' = (event_hup \/ hup)
    /\ stale' = FALSE
    /\ UNCHANGED <<fd_open, close_wait, events, bound, want_event, co_timer,
                   errCode, stack, step, call, calls, owes, released, nobody>>

\* readable_event_callback() and writable_event_callback(); `swallow' is the
\* barrier's answer that the operation is not complete.
Dispatch(d, swallow) ==
    LET bit == IF d = "READ" THEN "IN" ELSE "OUT" IN
    /\ InLoop
    /\ bit \in revents /\ (bit = "OUT" => "IN" \notin revents)
    /\ revents' = revents \ {bit}
    /\ swallow => /\ ~removed /\ want_event = "NULL" /\ ~event_hup
                  /\ bound[d] # NoOne /\ call[bound[d]].kind = "all"
    /\ IF removed \/ swallow \/ want_event = Other(d)
       THEN UNCHANGED <<stack, step, nobody>>
       ELSE ResumeBound(IF want_event = d THEN Other(d) ELSE d, step)
    /\ errCode' = IF removed THEN errCode ELSE "0"
    /\ UNCHANGED <<fd_open, close_wait, events, bound, want_event, co_timer,
                   event_hup, call, calls, owes, released, stale>>

\* error_event_callback(): the writer, then the reader.
DispatchError ==
    /\ InLoop
    /\ \/ "ERR" \in revents /\ revents' = {"ERR2"}
       \/ "ERR2" \in revents /\ revents' = {}
    /\ LET d == IF "ERR" \in revents THEN "WRITE" ELSE "READ" IN
       IF ~removed /\ has_bound({d})
       THEN errCode' = "0" /\ ResumeBound(d, step)
       ELSE UNCHANGED <<errCode, stack, step, nobody>>
    /\ UNCHANGED <<fd_open, close_wait, events, bound, want_event, co_timer,
                   event_hup, call, calls, owes, released, stale>>

\* timer_callback().
TimerCallback(d) ==
    /\ InLoop /\ revents = {}
    /\ co_timer[d] = "set"
    /\ co_timer' = [co_timer EXCEPT ![d] = "none"]
    /\ errCode' = "ETIMEDOUT"
    /\ ResumeBound(d, step)
    /\ UNCHANGED <<fd_open, close_wait, events, bound, want_event, revents,
                   event_hup, call, calls, owes, released, stale>>

\* Something else resumes a coroutine that is not in an operation.
WakeUp(c) ==
    /\ InLoop /\ revents = {}
    /\ step[c] = "asleep"
    /\ step' = [step EXCEPT ![c] = "user"]
    /\ stack' = <<c>>
    /\ UNCHANGED <<fd_open, close_wait, events, bound, want_event, co_timer,
                   errCode, revents, event_hup, call, calls, owes, released,
                   nobody, stale>>

Goes(c) ==
    \/ \E d \in Event, k \in Kind : Begin(c, d, k)
    \/ Finish(c)
    \/ \E t \in {"set", "never"}, e \in Event : WaitEvent(c, t, e)
    \/ Woken(c)
    \/ \E d \in Event : Cancel(c, d)
    \/ CancelReturns(c)
    \/ Close(c) \/ CloseRead(c) \/ CloseReturns(c)
    \/ \E s \in {"asleep", "done"} : Leave(c, s)

SocketNext ==
    \/ \E c \in SocketCo : Goes(c) \/ WakeUp(c)
    \/ \E rs \in SUBSET {"IN", "OUT", "ERR"}, hup \in BOOLEAN : EpollWait(rs, hup)
    \/ \E d \in Event, swallow \in BOOLEAN : Dispatch(d, swallow)
    \/ DispatchError
    \/ \E d \in Event : TimerCallback(d)

SocketSpec == SocketInit /\ [][SocketNext]_socketVars

ThreadRuns ==
    \/ \E c \in SocketCo : Goes(c)
    \/ \E d \in Event, swallow \in BOOLEAN : Dispatch(d, swallow)
    \/ DispatchError

\* The thread runs on, every coroutine is resumed at last, and timers fire.
SocketFairness ==
    /\ WF_socketVars(ThreadRuns)
    /\ \A c \in SocketCo : WF_socketVars(WakeUp(c))
    /\ \A d \in Event : SF_socketVars(TimerCallback(d))

-----------------------------------------------------------------------------
(* Whenever the event loop has dispatched an event, the socket is in the   *)
(* reactor for exactly the directions somebody waits for, and a timer      *)
(* exists only for a wait that is under way: the callbacks resume read_co  *)
(* and write_co without a test.  They meet a null pointer only with a bit  *)
(* that an earlier callback of the same event has made stale.  And nobody  *)
(* is about to wait on a socket that is being closed: the test of          *)
(* close_wait in wait_event() never succeeds.                              *)
WakeupsFindWaiter ==
    /\ SocketTypeOK
    /\ nobody => stale
    /\ (InLoop /\ revents = {}) => \A d \in Event :
          /\ d \in events <=> bound[d] # NoOne
          /\ co_timer[d] # "none" <=> bound[d] # NoOne
    /\ \A c \in SocketCo : step[c] = "try" => ~close_wait

(* close() returns true to one caller only, nobody waits on the socket and *)
(* it is out of the reactor by then (the assertion of the destructor), and *)
(* when all who were told of the close have closed it has been released.   *)
ReleasedOnceUnused ==
    /\ released <= 1
    /\ ~fd_open => /\ released = 1 /\ removed /\ ~has_bound(Event)
                   /\ \A d \in Event : co_timer[d] = "none"
    /\ (close_wait /\ \A c \in SocketCo : step[c] = "done") => ~fd_open

(* After close() found somebody waiting, the socket is released in the     *)
(* end, and a wait with a time-out ends.                                   *)
SocketWaitTimed(c) == step[c] = "wait" /\ co_timer[call[c].dir] = "set"
SocketWaitOver(c) == step[c] # "wait" \/ nobody
Released == ~fd_open \/ nobody
SocketWaitsEnd ==
    /\ close_wait ~> Released
    /\ \A c \in SocketCo : SocketWaitTimed(c) ~> SocketWaitOver(c)
=============================================================================
