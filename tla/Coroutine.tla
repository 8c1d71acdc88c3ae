----------------------------- MODULE Coroutine -----------------------------
(***************************************************************************)
(* The coroutine scheduler of one thread (coroutine/base.cc).              *)
(*                                                                         *)
(* There is no run queue: resume() switches to its target at once, nested  *)
(* in the caller, and yield() switches back to whoever resumed the         *)
(* coroutine (its origin).  Between two switches a coroutine runs without  *)
(* interference, so a step of this module is the code between two          *)
(* switches.  The context a coroutine is suspended in is its pc:           *)
(*   user      in its own code                                             *)
(*   in_resume in a call that switched to another coroutine, which goes    *)
(*             back to its own code when that one yields or ends           *)
(*   yield     in yield();  yield_ex  in yield_ex()                        *)
(* Modules that suspend coroutines in calls of their own add pc values.    *)
(*                                                                         *)
(* A behaviour is one activation of the scheduler, from activate() to      *)
(* deactivate(): on_bailout is reset by the next one only.  What the       *)
(* callback given to bailout() does, when check_end() calls it in the      *)
(* event loop, is the caller's: it ends the process, where a behaviour may *)
(* stop anyway, or returns.  bailout() without one, and every check_end()  *)
(* after a bailout() of the event loop itself, ends the process.           *)
(***************************************************************************)
EXTENDS Naturals, FiniteSets

CONSTANTS
    Co,     \* the coroutine objects
    NoCo    \* nullptr: the main context, that is the event loop

ASSUME NoCoAssumption == NoCo \notin Co

VARIABLES
    current,       \* Coroutine::current
    origin,        \* the coroutine that resumed this one
    state,         \* Coroutine::state
    resume_code,   \* resume_code_
    cancel_fn,     \* cancel_fn_ : "none", or the call whose function it is
    timer,         \* the timer this wait armed is pending
    pc,            \* the context the coroutine is suspended in
    on_bailout,    \* Coroutine::on_bailout is set
    abandoned      \* history: the coroutines that had begun at the last bailout

coVars ==
    <<current, origin, state, resume_code, cancel_fn, timer, pc, on_bailout, abandoned>>

CoInit ==
    /\ current = NoCo
    /\ origin = [c \in Co |-> NoCo]
    /\ state = [c \in Co |-> "INIT"]
    /\ resume_code = [c \in Co |-> "OK"]
    /\ cancel_fn = [c \in Co |-> "none"]
    /\ timer = [c \in Co |-> FALSE]
    /\ pc = [c \in Co |-> "user"]
    /\ on_bailout = FALSE
    /\ abandoned = {}

-----------------------------------------------------------------------------
(***************************************************************************)
(* The switches.  Each gives current, origin and state their next values.  *)
(***************************************************************************)

\* Coroutine::resume(): nothing happens once the scheduler has bailed out.
resume(c) ==
    IF on_bailout
    THEN UNCHANGED <<current, origin, state>>
    ELSE /\ current' = c
         /\ origin' = [origin EXCEPT ![c] = current]
         /\ state' = [state EXCEPT ![c] = "RUNNING"]

\* The same call made by the running context.  A coroutine that makes it is
\* suspended inside the call with the given pc, if the call switches; the event
\* loop has no pc.
InCaller(newpc) ==
    pc' = IF current \in Co /\ ~on_bailout THEN [pc EXCEPT ![current] = newpc] ELSE pc

\* Mutant: yield() that always goes back to the event loop.
yield_to_main(c) ==
    /\ current' = NoCo
    /\ state' = [state EXCEPT ![c] = "WAITING"]
    /\ origin' = origin

\* Coroutine::yield(): back to the coroutine that resumed this one.
yield(c) ==
    /\ current' = origin[c]
    /\ state' = [state EXCEPT ![c] = "WAITING"]
    /\ origin' = origin

\* The running context can make a call: it is the event loop, or a coroutine
\* that is in its own code.
CanCall == current = NoCo \/ (current \in Co /\ pc[current] = "user")

-----------------------------------------------------------------------------
\* Coroutine::create(), that is the constructor and run(): unlike resume() it
\* switches after a bailout too.
Create(c) ==
    /\ CanCall
    /\ state[c] = "INIT"
    /\ current' = c
    /\ origin' = [origin EXCEPT ![c] = current]
    /\ state' = [state EXCEPT ![c] = "RUNNING"]
    /\ pc' = IF current \in Co THEN [pc EXCEPT ![current] = "in_resume"] ELSE pc
    /\ UNCHANGED <<resume_code, cancel_fn, timer, on_bailout, abandoned>>

\* Control comes back to a coroutine that had resumed another one.
ReturnFromResume(c) ==
    /\ current = c /\ pc[c] = "in_resume"
    /\ pc' = [pc EXCEPT ![c] = "user"]
    /\ UNCHANGED <<current, origin, state, resume_code, cancel_fn, timer, on_bailout, abandoned>>

\* yield(): suspended with no cancel function; only resume() ends it.
Yield(c) ==
    /\ current = c /\ pc[c] = "user"
    /\ yield(c)
    /\ resume_code' = [resume_code EXCEPT ![c] = "OK"]
    /\ pc' = [pc EXCEPT ![c] = "yield"]
    /\ UNCHANGED <<cancel_fn, timer, on_bailout, abandoned>>

AfterYield(c) ==
    /\ current = c /\ pc[c] = "yield"
    /\ pc' = [pc EXCEPT ![c] = "user"]
    /\ UNCHANGED <<current, origin, state, resume_code, cancel_fn, timer, on_bailout, abandoned>>

\* yield_ex(timeout): suspended with a cancel function and, if timeout > 0,
\* a timer.
YieldEx(c, timed) ==
    /\ current = c /\ pc[c] = "user"
    /\ yield(c)
    /\ resume_code' = [resume_code EXCEPT ![c] = "OK"]
    /\ cancel_fn' = [cancel_fn EXCEPT ![c] = "yield_ex"]
    /\ timer' = [timer EXCEPT ![c] = timed]
    /\ pc' = [pc EXCEPT ![c] = "yield_ex"]
    /\ UNCHANGED <<on_bailout, abandoned>>

\* Mutant: yield_ex() that leaves its timer armed.
AfterYieldEx_keeps_timer(c) ==
    /\ current = c /\ pc[c] = "yield_ex"
    /\ cancel_fn' = [cancel_fn EXCEPT ![c] = "none"]
    /\ pc' = [pc EXCEPT ![c] = "user"]
    /\ UNCHANGED <<current, origin, state, resume_code, timer, on_bailout, abandoned>>

\* What yield_ex() does when it is resumed: forget the cancel function and
\* delete the timer, which has gone already when it is what fired.
AfterYieldEx(c) ==
    /\ current = c /\ pc[c] = "yield_ex"
    /\ cancel_fn' = [cancel_fn EXCEPT ![c] = "none"]
    /\ timer' = [timer EXCEPT ![c] = FALSE]
    /\ pc' = [pc EXCEPT ![c] = "user"]
    /\ UNCHANGED <<current, origin, state, resume_code, on_bailout, abandoned>>

\* The owner of a suspended coroutine resumes it.
ResumeCo(c) ==
    /\ CanCall
    /\ state[c] = "WAITING" /\ pc[c] \in {"yield", "yield_ex"}
    /\ resume(c)
    /\ InCaller("in_resume")
    /\ UNCHANGED <<resume_code, cancel_fn, timer, on_bailout, abandoned>>

\* Mutant: the timer of yield_ex() only records that it fired.
YieldExTimeout_without_resume(c) ==
    /\ current = NoCo
    /\ timer[c] /\ pc[c] = "yield_ex"
    /\ timer' = [timer EXCEPT ![c] = FALSE]
    /\ resume_code' = [resume_code EXCEPT ![c] = "TIMEDOUT"]
    /\ UNCHANGED <<current, origin, state, cancel_fn, pc, on_bailout, abandoned>>

\* The timer of yield_ex() fires: Timer::select() runs in the event loop.
YieldExTimeout(c) ==
    /\ current = NoCo
    /\ timer[c] /\ pc[c] = "yield_ex"
    /\ timer' = [timer EXCEPT ![c] = FALSE]
    /\ resume_code' = [resume_code EXCEPT ![c] = "TIMEDOUT"]
    /\ resume(c)
    /\ UNCHANGED <<cancel_fn, pc, on_bailout, abandoned>>

\* Coroutine::cancel() of a coroutine in yield_ex().
CancelYieldEx(c) ==
    /\ CanCall
    /\ cancel_fn[c] = "yield_ex"
    /\ cancel_fn' = [cancel_fn EXCEPT ![c] = "none"]
    /\ resume_code' = [resume_code EXCEPT ![c] = "CANCELED"]
    /\ resume(c)
    /\ InCaller("in_resume")
    /\ UNCHANGED <<timer, on_bailout, abandoned>>

\* Mutant: close() that leaves its children's origin alone.
close_children_forgotten(c) == [origin EXCEPT ![c] = NoCo]

\* The function returns: check_end() and close().  The coroutines this one had
\* resumed may still be suspended, so their origin is cleared.
close_children(c) ==
    [d \in Co |-> IF d = c \/ origin[d] = c THEN NoCo ELSE origin[d]]

End(c) ==
    /\ current = c /\ pc[c] = "user"
    /\ state' = [state EXCEPT ![c] = "END"]
    /\ current' = origin[c]
    /\ origin' = close_children(c)
    /\ UNCHANGED <<resume_code, cancel_fn, timer, pc, on_bailout, abandoned>>

-----------------------------------------------------------------------------
\* A set of coroutines that holds with a coroutine the one that resumed it.
OriginClosed(S) == \A c \in S : origin[c] \in S \cup {NoCo}

\* The coroutines from current down to the event loop, by origin: the ones that
\* every such set with current in it holds.
OriginChain ==
    {c \in Co : \A S \in SUBSET Co :
                    current \in S \cup {NoCo} /\ OriginClosed(S) => c \in S}

\* The coroutine of the chain that the event loop resumed.
RootOf == CHOOSE c \in OriginChain : origin[c] = NoCo

\* Mutant: bailout() that yields current without the walk along origin.
Bailout_of_current ==
    /\ CanCall
    /\ on_bailout' = TRUE
    /\ abandoned' = {c \in Co : state[c] # "INIT"}
    /\ current' = IF current = NoCo THEN NoCo ELSE origin[current]
    /\ state' = IF current = NoCo THEN state ELSE [state EXCEPT ![current] = "WAITING"]
    /\ UNCHANGED <<origin, resume_code, cancel_fn, timer, pc>>

\* Coroutine::bailout(): the coroutine closest to the main context yields,
\* which abandons every coroutine above it.
Bailout ==
    /\ CanCall
    /\ on_bailout' = TRUE
    /\ abandoned' = {c \in Co : state[c] # "INIT"}
    /\ current' = NoCo
    /\ state' = IF current = NoCo THEN state ELSE [state EXCEPT ![RootOf] = "WAITING"]
    /\ resume_code' = IF current = NoCo THEN resume_code
                      ELSE [resume_code EXCEPT ![RootOf] = "OK"]
    /\ UNCHANGED <<origin, cancel_fn, timer, pc>>

CoNext ==
    \/ Bailout
    \/ \E c \in Co :
        \/ Create(c) \/ ReturnFromResume(c) \/ End(c)
        \/ Yield(c) \/ AfterYield(c)
        \/ \E timed \in BOOLEAN : YieldEx(c, timed)
        \/ AfterYieldEx(c) \/ YieldExTimeout(c) \/ CancelYieldEx(c)
        \/ ResumeCo(c)

CoSpec == CoInit /\ [][CoNext]_coVars

(***************************************************************************)
(* Fairness.  A context that holds the thread runs on until it switches, a *)
(* due timer is fired when the event loop is reached again and again, and  *)
(* a coroutine function that is executed again and again returns.          *)
(***************************************************************************)
RunsOn == \E c \in Co : ReturnFromResume(c) \/ AfterYield(c) \/ AfterYieldEx(c)

Returns == \E c \in Co : End(c)

CoFairness ==
    /\ WF_coVars(RunsOn) /\ SF_coVars(Returns)
    /\ \A c \in Co : SF_coVars(YieldExTimeout(c))

CoFairSpec == CoSpec /\ CoFairness

-----------------------------------------------------------------------------
CoStates == {"INIT", "WAITING", "RUNNING", "END"}

\* Type correctness of the scheduler's state.
CoTypeOK ==
    /\ current \in Co \cup {NoCo}
    /\ origin \in [Co -> Co \cup {NoCo}]
    /\ state \in [Co -> CoStates]
    /\ resume_code \in [Co -> {"OK", "TIMEDOUT", "CANCELED"}]
    /\ cancel_fn \in [Co -> {"none", "yield_ex"}]
    /\ timer \in [Co -> BOOLEAN]
    /\ pc \in [Co -> {"user", "in_resume", "yield", "yield_ex"}]
    /\ on_bailout \in BOOLEAN
    /\ abandoned \in SUBSET Co

\* The running coroutines, those that a bailout left in the middle of a call set
\* aside, are exactly the ones between current and the event loop by origin, and
\* that walk, which bailout() makes, ends in the event loop: resume() and yield()
\* never put a coroutine on the chain twice or leave one running off it.
RunningIsOriginChain ==
    /\ OriginChain = {c \in Co \ abandoned : state[c] = "RUNNING"}
    /\ current # NoCo => \E c \in OriginChain : origin[c] = NoCo

\* close() releases a coroutine only after every reference to it is gone: no
\* coroutine has an ended one as its origin, and none is current.
NoReferenceToEnded ==
    /\ \A c \in Co : origin[c] # NoCo => state[origin[c]] # "END"
    /\ current # NoCo => state[current] # "END"

\* A pending timer's callback captures the frame of yield_ex(), so a timer is
\* pending only while the coroutine that armed it is still in that call.
TimerWithinItsWait ==
    \A c \in Co : timer[c] => pc[c] = "yield_ex"

\* cancel() resumes whatever has a cancel function, so a coroutine that has one
\* is suspended, or has just been switched to and not yet run.
CancelOnlySuspended ==
    \A c \in Co : cancel_fn[c] # "none" =>
        /\ pc[c] = "yield_ex"
        /\ state[c] = "WAITING" \/ current = c \/ on_bailout

\* What the rest of the scheduler holds of a wait, its timer and its cancel
\* function, is on the stack of that wait: both are used only while the frame is
\* alive, whichever of a resume, the timer and cancel() comes first.
FramesAlive == TimerWithinItsWait /\ CancelOnlySuspended

\* bailout() breaks the contexts it jumps over, so a coroutine that had begun by
\* then never runs again.  The event loop goes on: timers fire, coroutines are
\* resumed and cancelled, and new ones are created, which create others, yield,
\* end and bail out themselves; none of it leads back into an abandoned one.
AbandonedNeverRuns == current \notin abandoned

\* A yield_ex() with a timeout does not wait for ever, whoever resumes whom in
\* the meantime, unless the scheduler bails out.
YieldTimed(c) == timer[c] /\ ~on_bailout
YieldOver(c) == pc[c] # "yield_ex" \/ on_bailout
TimedYieldEnds == \A c \in Co : YieldTimed(c) ~> YieldOver(c)
=============================================================================
