------------------------------- MODULE Signal -------------------------------
(***************************************************************************)
(* Signals without signalfd (os/signal.cc): the handler that the kernel    *)
(* calls only marks the signal, and swoole_signal_dispatch() calls back    *)
(* later for what is marked.  The kernel may interrupt the dispatch        *)
(* anywhere.                                                               *)
(***************************************************************************)
EXTENDS Naturals, FiniteSets

CONSTANTS
    SIGNO_MAX,      \* signals are 1 .. SIGNO_MAX
    MaxArrivals     \* bound on the arrivals of each signal

ASSUME SignalAssumption == SIGNO_MAX \in Nat \ {0} /\ MaxArrivals \in Nat

Signo == 1 .. SIGNO_MAX

VARIABLES
    triggered_signals, signal_dispatch,
    pc,         \* swoole_signal_dispatch(): idle, test, clear, end
    i,          \* the signal that it looks at
    arrivals,   \* history: how often each signal has arrived and been called back
    callbacks,
    owed        \* history: the signals that arrived while no dispatch was running and
                \* have not been called back since

signalVars == <<triggered_signals, signal_dispatch, pc, i, arrivals, callbacks, owed>>

SignalInit ==
    /\ triggered_signals = {} /\ signal_dispatch = FALSE
    /\ pc = "idle" /\ i = 1
    /\ arrivals = [s \in Signo |-> 0] /\ callbacks = [s \in Signo |-> 0]
    /\ owed = {}

\* signal_handler_safety(): it interrupts the process, at any place.
Arrive(s) ==
    /\ arrivals[s] < MaxArrivals
    /\ triggered_signals' = triggered_signals \cup {s}
    /\ signal_dispatch' = TRUE
    /\ arrivals' = [arrivals EXCEPT ![s] = @ + 1]
    /\ owed' = IF pc = "idle" THEN owed \cup {s} ELSE owed
    /\ UNCHANGED <<pc, i, callbacks>>

\* swoole_signal_dispatch() is called by the loop of the process.
DispatchBegin ==
    /\ pc = "idle" /\ signal_dispatch
    /\ pc' = "test" /\ i' = 1
    /\ UNCHANGED <<triggered_signals, signal_dispatch, arrivals, callbacks, owed>>

\* The next signal, or the end of the loop.
Advance == IF i = SIGNO_MAX THEN pc' = "end" /\ i' = 1 ELSE pc' = "test" /\ i' = i + 1

Test ==
    /\ pc = "test"
    /\ IF i \in triggered_signals
       THEN /\ callbacks' = [callbacks EXCEPT ![i] = @ + 1]
            /\ owed' = owed \ {i}
            /\ pc' = "clear" /\ UNCHANGED i
       ELSE Advance /\ UNCHANGED <<callbacks, owed>>
    /\ UNCHANGED <<triggered_signals, signal_dispatch, arrivals>>

\* The callback has returned.
Clear ==
    /\ pc = "clear"
    /\ triggered_signals' = triggered_signals \ {i}
    /\ Advance
    /\ UNCHANGED <<signal_dispatch, arrivals, callbacks, owed>>

DispatchEnd ==
    /\ pc = "end"
    /\ signal_dispatch' = FALSE
    /\ pc' = "idle"
    /\ UNCHANGED <<triggered_signals, i, arrivals, callbacks, owed>>

DispatchStep == DispatchBegin \/ Test \/ Clear \/ DispatchEnd

SignalNext == DispatchStep \/ \E s \in Signo : Arrive(s)

SignalSpec == SignalInit /\ [][SignalNext]_signalVars

\* Fairness: the loop of the process comes round.
SignalFairness == WF_signalVars(DispatchStep)

-----------------------------------------------------------------------------
\* A signal that is marked while no dispatch is running is called back (signal.cc:
\* 179-182 and the comment at include/swoole_signal.h:61-69).  One that arrives
\* during the dispatch may lose its mark (signal.cc:206) or the flag (209) to it.
\* And no mark is served twice (199-210).
SignalsHandled ==
    \A s \in Signo :
        /\ s \in owed ~> s \notin owed
        /\ [](callbacks[s] <= arrivals[s])
=============================================================================
