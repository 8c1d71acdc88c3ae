-------------------------------- MODULE Timer --------------------------------
(***************************************************************************)
(* The timers of an event loop: core/timer.cc, driven by the reactor.  One *)
(* round of the loop is a wait of at most timeout_msec, the events, the    *)
(* timers that are due (Timer::select()) and the deferred tasks; events,   *)
(* callbacks and deferred tasks add and remove timers, events delay them.  *)
(* The clock advances at any moment.                                       *)
(***************************************************************************)
EXTENDS Heap, Integers, FiniteSets

CONSTANTS
    MaxTimers,  \* bound on the timers added: ids are 1 .. MaxTimers
    Intervals,  \* the values of msec
    MaxTime     \* bound on the clock

ASSUME TimerAssumption ==
    MaxTimers \in Nat /\ MaxTime \in Nat /\ Intervals \subseteq Nat \ {0}

Id == 1 .. MaxTimers
Unset == -1

\* The fields of a timer that does not exist.
NoNode == [exec_msec |-> 0, interval |-> 0, removed |-> FALSE]

VARIABLES
    clock,          \* get_relative_msec()
    map,            \* the ids in it
    node,           \* the fields of each timer: exec_msec, interval, removed
    heap,
    fresh,          \* the timers whose round is the current one
    _next_id, _current_id, next_msec_,
    phase,             \* wait, events, select, callback, deferred
    now_msec,       \* local of select()
    wait_began, wait_ends,  \* the wait of the reactor; it ends by itself at wait_ends
    fired           \* history: the timers called by this select()

timerVars == <<map, node, heap, fresh, _next_id, _current_id, next_msec_>>
loopVars == <<phase, now_msec, wait_began, wait_ends, fired>>
timingVars == <<clock, timerVars, loopVars>>

TInit ==
    /\ clock = 0
    /\ map = {}
    /\ node = [x \in Id |-> NoNode]
    /\ heap = EmptyHeap(Id)
    /\ fresh = {} /\ _next_id = 1 /\ _current_id = Unset /\ next_msec_ = Unset
    /\ phase = "events"
    /\ now_msec = 0 /\ wait_began = 0 /\ wait_ends = Unset /\ fired = {}

Tick ==
    /\ clock < MaxTime
    /\ clock' = clock + 1
    /\ UNCHANGED <<timerVars, loopVars>>

\* Where the program runs code that may use timers.
Running == phase \in {"events", "callback", "deferred"}

add(msec, persistent) ==
    /\ Running
    /\ _next_id <= MaxTimers
    /\ _next_id' = _next_id + 1
    /\ node' = [node EXCEPT ![_next_id] =
                    [exec_msec |-> clock + msec, interval |-> IF persistent THEN msec ELSE 0,
                     removed |-> FALSE]]
    /\ fresh' = fresh \cup {_next_id}
    /\ next_msec_' = IF next_msec_ < 0 \/ next_msec_ > msec THEN msec ELSE next_msec_
    /\ heap' = push(heap, _next_id, clock + msec)
    /\ map' = map \cup {_next_id}
    /\ UNCHANGED <<clock, _current_id, loopVars>>

\* Mutant: the timer whose callback runs is erased like any other.
remove_at_once(x) ==
    /\ Running /\ x \in map /\ ~node[x].removed
    /\ map' = map \ {x}
    /\ heap' = remove(heap, x)
    /\ node' = [node EXCEPT ![x] = NoNode]
    /\ UNCHANGED <<clock, fresh, _next_id, _current_id, next_msec_, loopVars>>

\* Timer::remove() by id; false for one that is not there.  The timer whose
\* callback is running is only marked.
RemoveTimer(x) ==
    /\ Running /\ x \in map /\ ~node[x].removed
    /\ IF x = _current_id
       THEN node' = [node EXCEPT ![x].removed = TRUE] /\ UNCHANGED <<map, heap>>
       ELSE /\ map' = map \ {x}
            /\ heap' = remove(heap, x)
            /\ node' = [node EXCEPT ![x] = NoNode]
    /\ UNCHANGED <<clock, fresh, _next_id, _current_id, next_msec_, loopVars>>

\* swoole_timer_delay(): the deadline is delay_ms from now, whether that is later
\* or earlier than it was, and next_msec_ stays.  Its caller is the handler of an
\* event (ReactorThread_onWrite), which passes seconds for a timer that was added
\* in milliseconds.
Delay(x, delay_ms) ==
    /\ phase = "events" /\ x \in map
    /\ node' = [node EXCEPT ![x].exec_msec = clock + delay_ms]
    /\ heap' = change_priority(heap, x, clock + delay_ms)
    /\ UNCHANGED <<clock, map, fresh, _next_id, _current_id, next_msec_, loopVars>>

-----------------------------------------------------------------------------
(***************************************************************************)
(* Timer::select().                                                        *)
(***************************************************************************)

SelectBegins ==
    /\ phase = "events"
    /\ phase' = "select"
    /\ now_msec' = clock
    /\ UNCHANGED <<clock, timerVars, wait_began, wait_ends, fired>>

Due(x) == node[x].exec_msec <= now_msec /\ x \notin fresh

\* The heap's top is due: its callback begins.
CallbackBegins ==
    /\ phase = "select" /\ heap.nodes # <<>> /\ Due(top(heap))
    /\ _current_id' = top(heap)
    /\ phase' = "callback"
    /\ fired' = fired \cup {top(heap)}
    /\ UNCHANGED <<clock, map, node, heap, fresh, _next_id, next_msec_, now_msec,
                   wait_began, wait_ends>>

\* Mutant: one interval on, even if that is in the past.
CatchUp_once(exec_msec, interval) == exec_msec + interval

\* The first multiple of the interval past now_msec.
CatchUp(exec_msec, interval) ==
    exec_msec + interval * ((now_msec - exec_msec) \div interval + 1)

\* The rest of the loop's body: tmp is still the node at the top.
CallbackEnds ==
    /\ phase = "callback"
    /\ _current_id' = Unset
    /\ LET x == _current_id
           exec_msec == CatchUp(node[x].exec_msec, node[x].interval)
       IN  IF node[x].interval > 0 /\ ~node[x].removed
           THEN /\ node' = [node EXCEPT ![x].exec_msec = exec_msec]
                /\ heap' = change_priority(heap, x, exec_msec)
                /\ UNCHANGED map
           ELSE /\ heap' = pop(heap)
                /\ map' = map \ {x}
                /\ node' = [node EXCEPT ![x] = NoNode]
    /\ phase' = "select"
    /\ UNCHANGED <<clock, fresh, _next_id, next_msec_, now_msec, wait_began, wait_ends, fired>>

SelectEnds ==
    /\ phase = "select" /\ (heap.nodes # <<>> => ~Due(top(heap)))
    /\ next_msec_' = IF heap.nodes = <<>> THEN Unset
                     ELSE LET left == node[top(heap)].exec_msec - now_msec
                          IN  IF left <= 0 THEN 1 ELSE left
    /\ fresh' = {}
    /\ fired' = {}
    /\ phase' = "deferred"
    /\ UNCHANGED <<clock, map, node, heap, _next_id, _current_id, now_msec, wait_began,
                   wait_ends>>

-----------------------------------------------------------------------------
(***************************************************************************)
(* The reactor.                                                            *)
(***************************************************************************)

WaitBegins ==
    /\ phase = "deferred"
    /\ phase' = "wait"
    /\ wait_began' = clock
    /\ wait_ends' = IF next_msec_ < 0 THEN Unset ELSE clock + next_msec_
    /\ UNCHANGED <<clock, timerVars, now_msec, fired>>

\* An event, or the timeout.
WaitEnds ==
    /\ phase = "wait"
    /\ phase' = "events"
    /\ now_msec' = 0 /\ wait_began' = 0 /\ wait_ends' = Unset
    /\ UNCHANGED <<clock, timerVars, fired>>

\* Without an event a wait of finite length ends too.
Timeout == WaitEnds /\ wait_ends # Unset

Select == SelectBegins \/ CallbackBegins \/ CallbackEnds \/ SelectEnds

TNext ==
    \/ Tick
    \/ \E msec \in Intervals, persistent \in BOOLEAN : add(msec, persistent)
    \/ \E x \in Id : RemoveTimer(x) \/ \E msec \in Intervals \cup {0} : Delay(x, msec)
    \/ Select
    \/ WaitBegins \/ WaitEnds

TSpec == TInit /\ [][TNext]_timingVars

(***************************************************************************)
(* Fairness: the loop goes round, a wait of finite length ends and the    *)
(* clock advances.  No event is ever needed.                               *)
(***************************************************************************)
LoopGoesRound == Select \/ WaitBegins \/ Timeout

TFairSpec == TSpec /\ WF_timingVars(Tick) /\ WF_timingVars(LoopGoesRound)

-----------------------------------------------------------------------------
(***************************************************************************)
(* Properties.                                                             *)
(***************************************************************************)

\* Every variable has its type.
TTypeOK ==
    /\ clock \in 0 .. MaxTime /\ now_msec \in 0 .. clock /\ wait_began \in 0 .. clock
    /\ map \subseteq Id /\ fresh \subseteq Id /\ fired \subseteq Id
    /\ \A x \in Id : node[x].exec_msec \in Nat /\ node[x].interval \in Intervals \cup {0}
    /\ _next_id \in 1 .. MaxTimers + 1
    /\ _current_id \in Id \cup {Unset}
    /\ next_msec_ \in Nat \cup {Unset} /\ wait_ends \in Nat \cup {Unset}
    /\ phase \in {"wait", "events", "select", "callback", "deferred"}

\* The heap holds exactly the timers of the map, each once, under its deadline
\* and at the position it believes to be at (timer.cc:107-112, 137-142, 184-189;
\* Heap::remove() and change_priority() start from that position).
HeapIsMap ==
    /\ TTypeOK
    /\ {heap.nodes[i] : i \in 1 .. Len(heap.nodes)} = map
    /\ \A i \in 1 .. Len(heap.nodes) :
          LET x == heap.nodes[i]
          IN  heap.position[x] = i /\ heap.priority[x] = node[x].exec_msec

\* The timer whose callback runs stays at the top, whatever the callback adds or
\* removes: heap.pop() after it takes that timer (timer.cc:188).
CurrentIsTop == phase = "callback" => heap.nodes # <<>> /\ top(heap) = _current_id

\* A callback runs at its deadline or later, before the callback of every timer
\* with a later deadline, and once per select() (timer.cc:160-192).
CallbacksInOrder ==
    [][phase = "select" /\ phase' = "callback" =>
            LET x == _current_id'
            IN  /\ x \notin fired
                /\ node[x].exec_msec <= clock
                /\ \A y \in map : node[y].exec_msec >= node[x].exec_msec]_timingVars

\* The reactor never waits past the first deadline, also if delay() has brought
\* one forward since: only the time between select() and the wait is added, or
\* the one millisecond of a timer that was due but too new (timer.cc:102-105,
\* 194-203).
WakesInTime ==
    phase = "wait" /\ map # {} =>
        /\ wait_ends # Unset
        /\ \A x \in map :
              \/ wait_ends <= wait_began + 1
              \/ wait_ends - wait_began <= node[x].exec_msec - now_msec

\* The books of the timer are exact whatever callbacks do to them, and the wait
\* of the reactor is computed from them.
TimersAreExact == HeapIsMap /\ CurrentIsTop /\ WakesInTime

\* Every timer is called at last, unless it is removed or put off beyond the end
\* of time: a new timer that is due stops select() from looking further
\* (timer.cc:162), but not for ever.
WillFire(x) == x \in map /\ node[x].exec_msec <= MaxTime
TimersFire == \A x \in Id : WillFire(x) ~> ~WillFire(x)
=============================================================================
