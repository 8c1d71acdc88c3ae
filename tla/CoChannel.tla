----------------------------- MODULE CoChannel -----------------------------
(***************************************************************************)
(* A coroutine channel (coroutine/channel.cc, swoole_coroutine_channel.h)  *)
(* used by the coroutines of one scheduler.  push() and pop() switch: they *)
(* suspend the caller when it has to wait, and they resume the first       *)
(* waiter of the other side from inside the call.  A step is the code      *)
(* between two switches.  The pc values added to those of Coroutine are    *)
(*   wait_push, wait_pop    suspended in ChannelBase::yield()              *)
(*   close_producers, close_consumers   in a loop of close(), inside a     *)
(*             resume() of a waiter or about to test the loop condition    *)
(* Calls to push() and pop() are numbered: the number of a call stands for *)
(* the datum it pushes, and orders the calls.                              *)
(***************************************************************************)
EXTENDS Coroutine, Sequences

CONSTANTS
    Capacity,   \* of the constructor, after 0 became 1
    MaxCalls    \* bound on the calls to push() and pop()

ASSUME CapacityAssumption == Capacity \in Nat \ {0}
ASSUME MaxCallsAssumption == MaxCalls \in Nat

VARIABLES
    producer_queue, consumer_queue,     \* the waiting coroutines
    closed, error_,
    data_queue, head_, tail_, count_,   \* the ring of ChannelImpl
    msg_error,                          \* TimeoutMessage.error of the wait
    call,                               \* the number of the call a coroutine is in
    ret,                                \* how its last push() or pop() ended
    calls,                              \* calls made so far
    pushed, popped,                     \* history: data accepted, data returned
    served                              \* history: the calls to pop() that got them

dataVars == <<data_queue, head_, tail_, count_>>
waitVars == <<producer_queue, consumer_queue, closed, error_, msg_error>>
callVars == <<call, ret, calls>>
histVars == <<pushed, popped, served>>
chanVars == <<waitVars, dataVars, callVars, histVars>>
vars == <<coVars, chanVars>>

Slots == 0 .. Capacity - 1
Numbers == 0 .. MaxCalls

Init ==
    /\ CoInit
    /\ producer_queue = <<>> /\ consumer_queue = <<>>
    /\ closed = FALSE /\ error_ = "OK"
    /\ data_queue = [i \in Slots |-> 0]
    /\ head_ = 0 /\ tail_ = 0 /\ count_ = 0
    /\ msg_error = [c \in Co |-> FALSE]
    /\ call = [c \in Co |-> 0]
    /\ ret = [c \in Co |-> "OK"]
    /\ calls = 0
    /\ pushed = <<>> /\ popped = <<>> /\ served = <<>>

-----------------------------------------------------------------------------
is_empty == count_ = 0
is_full == count_ = Capacity

\* mask_ is set when the capacity is a power of two, and & mask_ is % there.
mask_ == IF \E k \in 0 .. Capacity : Capacity = 2 ^ k THEN Capacity - 1 ELSE 0

next(offset) ==
    IF mask_ # 0 THEN (offset + 1) % (mask_ + 1)
    ELSE IF offset + 1 = Capacity THEN 0 ELSE offset + 1

\* producer_remove() and consumer_remove(): a coroutine is queued at most once.
Without(q, c) ==
    IF \E i \in 1 .. Len(q) : q[i] = c
    THEN LET i == CHOOSE j \in 1 .. Len(q) : q[j] = c
         IN  SubSeq(q, 1, i - 1) \o SubSeq(q, i + 1, Len(q))
    ELSE q

-----------------------------------------------------------------------------
(***************************************************************************)
(* The pieces of push() and pop(), for the running coroutine c.            *)
(***************************************************************************)

\* The call fails.  pop_data() of an empty ring is the failure that leaves the
\* error_ of an earlier call in place.
Fail(c, error) ==
    /\ error_' = IF error = "EMPTY" THEN error_ ELSE error
    /\ ret' = [ret EXCEPT ![c] = error]
    /\ pc' = [pc EXCEPT ![c] = "user"]
    /\ UNCHANGED <<current, origin, state, producer_queue, consumer_queue>>
    /\ UNCHANGED <<dataVars, histVars>>

\* Mutant: the last waiter is resumed first.
notify_last_consumer(c) ==
    IF consumer_queue = <<>>
    THEN /\ pc' = [pc EXCEPT ![c] = "user"]
         /\ UNCHANGED <<current, origin, state, consumer_queue>>
    ELSE /\ consumer_queue' = SubSeq(consumer_queue, 1, Len(consumer_queue) - 1)
         /\ resume(consumer_queue[Len(consumer_queue)])
         /\ pc' = [pc EXCEPT ![c] = "in_resume"]

\* notify_consumer() and notify_producer(): resume the first waiter, if any.
notify_consumer(c) ==
    IF consumer_queue = <<>>
    THEN /\ pc' = [pc EXCEPT ![c] = "user"]
         /\ UNCHANGED <<current, origin, state, consumer_queue>>
    ELSE /\ consumer_queue' = Tail(consumer_queue)
         /\ resume(Head(consumer_queue))
         /\ pc' = [pc EXCEPT ![c] = "in_resume"]

\* Mutant: pop() that does not tell the producers.
notify_nobody(c) ==
    /\ pc' = [pc EXCEPT ![c] = "user"]
    /\ UNCHANGED <<current, origin, state, producer_queue>>

notify_producer(c) ==
    IF producer_queue = <<>>
    THEN /\ pc' = [pc EXCEPT ![c] = "user"]
         /\ UNCHANGED <<current, origin, state, producer_queue>>
    ELSE /\ producer_queue' = Tail(producer_queue)
         /\ resume(Head(producer_queue))
         /\ pc' = [pc EXCEPT ![c] = "in_resume"]

\* push_data() of the datum of call number n.
push_data(c, n) ==
    IF is_full
    THEN Fail(c, "TIMEOUT")
    ELSE /\ data_queue' = [data_queue EXCEPT ![tail_] = n]
         /\ tail_' = next(tail_)
         /\ count_' = count_ + 1
         /\ pushed' = Append(pushed, n)
         /\ ret' = [ret EXCEPT ![c] = "OK"]
         /\ notify_consumer(c)
         /\ UNCHANGED <<producer_queue, error_, head_, popped, served>>

\* Mutant: pop() that does not look at closed again after the wait.
pop_data_unless_closed(c, n) ==
    IF is_empty
    THEN Fail(c, "EMPTY")
    ELSE /\ popped' = Append(popped, data_queue[head_])
         /\ served' = Append(served, n)
         /\ head_' = next(head_)
         /\ count_' = count_ - 1
         /\ ret' = [ret EXCEPT ![c] = "OK"]
         /\ notify_producer(c)
         /\ UNCHANGED <<consumer_queue, error_, data_queue, tail_, pushed>>

\* Mutant: the head does not move.
pop_data_again(c, n) ==
    IF is_empty
    THEN Fail(c, IF closed THEN "CLOSED" ELSE "EMPTY")
    ELSE /\ popped' = Append(popped, data_queue[head_])
         /\ served' = Append(served, n)
         /\ count_' = count_ - 1
         /\ ret' = [ret EXCEPT ![c] = "OK"]
         /\ notify_producer(c)
         /\ UNCHANGED <<consumer_queue, error_, data_queue, head_, tail_, pushed>>

\* pop() of call number n once wait_pop() has returned true.
pop_data(c, n) ==
    IF is_empty
    THEN Fail(c, IF closed THEN "CLOSED" ELSE "EMPTY")
    ELSE /\ popped' = Append(popped, data_queue[head_])
         /\ served' = Append(served, n)
         /\ head_' = next(head_)
         /\ count_' = count_ - 1
         /\ ret' = [ret EXCEPT ![c] = "OK"]
         /\ notify_producer(c)
         /\ UNCHANGED <<consumer_queue, error_, data_queue, tail_, pushed>>

\* wait_push() and wait_pop() suspend the caller, after ChannelBase::yield()
\* has queued it.
Suspend(c, timed, waiting) ==
    /\ yield(c)
    /\ resume_code' = [resume_code EXCEPT ![c] = "OK"]
    /\ cancel_fn' = [cancel_fn EXCEPT ![c] = waiting]
    /\ timer' = [timer EXCEPT ![c] = timed]
    /\ msg_error' = [msg_error EXCEPT ![c] = FALSE]
    /\ pc' = [pc EXCEPT ![c] = waiting]
    /\ ret' = [ret EXCEPT ![c] = "PENDING"]
    /\ UNCHANGED <<error_, dataVars, histVars>>

\* They go on: the cancel function is forgotten and the timer deleted.
Resumed(c, waiting) ==
    /\ current = c /\ pc[c] = waiting
    /\ cancel_fn' = [cancel_fn EXCEPT ![c] = "none"]
    /\ timer' = [timer EXCEPT ![c] = FALSE]
    /\ UNCHANGED <<resume_code, on_bailout, abandoned, closed, msg_error, call, calls>>

\* A call starts in a coroutine's own code.
Called(c) ==
    /\ current = c /\ pc[c] = "user" /\ calls < MaxCalls
    /\ calls' = calls + 1
    /\ call' = [call EXCEPT ![c] = calls + 1]
    /\ UNCHANGED <<on_bailout, abandoned, closed>>

NoWait == UNCHANGED <<resume_code, cancel_fn, timer, msg_error>>

-----------------------------------------------------------------------------
(***************************************************************************)
(* push()                                                                  *)
(***************************************************************************)
Push(c, timed) ==
    /\ Called(c)
    /\ \/ closed /\ Fail(c, "CLOSED") /\ NoWait
       \/ /\ ~closed /\ (is_full \/ producer_queue # <<>>)
          /\ producer_queue' = Append(producer_queue, c)
          /\ Suspend(c, timed, "wait_push")
          /\ UNCHANGED consumer_queue
       \/ /\ ~closed /\ ~is_full /\ producer_queue = <<>>
          /\ push_data(c, calls + 1)
          /\ NoWait

PushWake(c) ==
    /\ Resumed(c, "wait_push")
    /\ IF resume_code[c] = "CANCELED" THEN Fail(c, "CANCELED")
       ELSE IF msg_error[c] THEN Fail(c, "TIMEOUT")
       ELSE IF closed THEN Fail(c, "CLOSED")
       ELSE push_data(c, call[c])

(***************************************************************************)
(* pop()                                                                   *)
(***************************************************************************)
Pop(c, timed) ==
    /\ Called(c)
    /\ \/ closed /\ is_empty /\ Fail(c, "CLOSED") /\ NoWait
       \/ /\ ~(closed /\ is_empty) /\ (is_empty \/ consumer_queue # <<>>)
          /\ consumer_queue' = Append(consumer_queue, c)
          /\ Suspend(c, timed, "wait_pop")
          /\ UNCHANGED producer_queue
       \/ /\ ~is_empty /\ consumer_queue = <<>>
          /\ pop_data(c, calls + 1)
          /\ NoWait

PopWake(c) ==
    /\ Resumed(c, "wait_pop")
    /\ IF resume_code[c] = "CANCELED" THEN Fail(c, "CANCELED")
       ELSE IF msg_error[c] THEN Fail(c, "TIMEOUT")
       ELSE pop_data(c, call[c])

(***************************************************************************)
(* close(): the two loops resume every waiter, one by one.  Between two of *)
(* them the resumed coroutine, and whatever it resumes, has run.           *)
(***************************************************************************)
Close(c) ==
    /\ current = c /\ pc[c] = "user" /\ ~closed
    /\ closed' = TRUE
    /\ pc' = [pc EXCEPT ![c] = "close_producers"]
    /\ UNCHANGED <<current, origin, state, resume_code, cancel_fn, timer, on_bailout, abandoned>>
    /\ UNCHANGED <<producer_queue, consumer_queue, error_, msg_error>>
    /\ UNCHANGED <<dataVars, callVars, histVars>>

\* Mutant: close() returns after the first loop.
CloseProducers_only(c) ==
    /\ current = c /\ pc[c] = "close_producers"
    /\ IF producer_queue = <<>>
       THEN /\ pc' = [pc EXCEPT ![c] = "user"]
            /\ UNCHANGED <<current, origin, state, producer_queue>>
       ELSE /\ producer_queue' = Tail(producer_queue)
            /\ resume(Head(producer_queue))
            /\ pc' = pc
    /\ UNCHANGED <<resume_code, cancel_fn, timer, on_bailout, abandoned>>
    /\ UNCHANGED <<consumer_queue, closed, error_, msg_error>>
    /\ UNCHANGED <<dataVars, callVars, histVars>>

CloseProducers(c) ==
    /\ current = c /\ pc[c] = "close_producers"
    /\ IF producer_queue = <<>>
       THEN /\ pc' = [pc EXCEPT ![c] = "close_consumers"]
            /\ UNCHANGED <<current, origin, state, producer_queue>>
       ELSE /\ producer_queue' = Tail(producer_queue)
            /\ resume(Head(producer_queue))
            /\ pc' = pc
    /\ UNCHANGED <<resume_code, cancel_fn, timer, on_bailout, abandoned>>
    /\ UNCHANGED <<consumer_queue, closed, error_, msg_error>>
    /\ UNCHANGED <<dataVars, callVars, histVars>>

\* Mutant: close() resumes one consumer instead of all of them.
CloseConsumers_once(c) ==
    /\ current = c /\ pc[c] = "close_consumers"
    /\ pc' = [pc EXCEPT ![c] = "user"]
    /\ IF consumer_queue = <<>>
       THEN UNCHANGED <<current, origin, state, consumer_queue>>
       ELSE /\ consumer_queue' = Tail(consumer_queue)
            /\ resume(Head(consumer_queue))
    /\ UNCHANGED <<resume_code, cancel_fn, timer, on_bailout, abandoned>>
    /\ UNCHANGED <<producer_queue, closed, error_, msg_error>>
    /\ UNCHANGED <<dataVars, callVars, histVars>>

CloseConsumers(c) ==
    /\ current = c /\ pc[c] = "close_consumers"
    /\ IF consumer_queue = <<>>
       THEN /\ pc' = [pc EXCEPT ![c] = "user"]
            /\ UNCHANGED <<current, origin, state, consumer_queue>>
       ELSE /\ consumer_queue' = Tail(consumer_queue)
            /\ resume(Head(consumer_queue))
            /\ pc' = pc
    /\ UNCHANGED <<resume_code, cancel_fn, timer, on_bailout, abandoned>>
    /\ UNCHANGED <<producer_queue, closed, error_, msg_error>>
    /\ UNCHANGED <<dataVars, callVars, histVars>>

(***************************************************************************)
(* The two other ways a wait ends.                                         *)
(***************************************************************************)

\* Mutant: the waiter stays in its queue.
RemoveWaiter_forgotten(c) == UNCHANGED <<producer_queue, consumer_queue>>

\* producer_remove() or consumer_remove(), by the side c waits on.
RemoveWaiter(c) ==
    /\ producer_queue' = IF pc[c] = "wait_push" THEN Without(producer_queue, c)
                         ELSE producer_queue
    /\ consumer_queue' = IF pc[c] = "wait_pop" THEN Without(consumer_queue, c)
                         ELSE consumer_queue

\* Mutant: the callback takes the waiter out and does not resume it.
TimerCallback_without_resume(c) ==
    /\ current = NoCo
    /\ timer[c] /\ pc[c] \in {"wait_push", "wait_pop"}
    /\ msg_error' = [msg_error EXCEPT ![c] = TRUE]
    /\ timer' = [timer EXCEPT ![c] = FALSE]
    /\ RemoveWaiter(c)
    /\ UNCHANGED <<current, origin, state, resume_code, cancel_fn, pc, on_bailout, abandoned>>
    /\ UNCHANGED <<closed, error_, dataVars, callVars, histVars>>

\* timer_callback(), called from the event loop.
TimerCallback(c) ==
    /\ current = NoCo
    /\ timer[c] /\ pc[c] \in {"wait_push", "wait_pop"}
    /\ msg_error' = [msg_error EXCEPT ![c] = TRUE]
    /\ timer' = [timer EXCEPT ![c] = FALSE]
    /\ RemoveWaiter(c)
    /\ resume(c)
    /\ UNCHANGED <<resume_code, cancel_fn, pc, on_bailout, abandoned>>
    /\ UNCHANGED <<closed, error_, dataVars, callVars, histVars>>

\* Coroutine::cancel() with the cancel function of ChannelBase::yield().
CancelWaiter(c) ==
    /\ CanCall
    /\ cancel_fn[c] \in {"wait_push", "wait_pop"}
    /\ cancel_fn' = [cancel_fn EXCEPT ![c] = "none"]
    /\ resume_code' = [resume_code EXCEPT ![c] = "CANCELED"]
    /\ RemoveWaiter(c)
    /\ resume(c)
    /\ InCaller("in_resume")
    /\ UNCHANGED <<timer, on_bailout, abandoned>>
    /\ UNCHANGED <<closed, error_, msg_error, dataVars, callVars, histVars>>

-----------------------------------------------------------------------------
\* What a coroutine does besides using the channel: it creates others, sleeps
\* and ends.
Scheduling(c) ==
    /\ \/ Create(c) \/ ReturnFromResume(c) \/ End(c)
       \/ YieldEx(c, TRUE) \/ AfterYieldEx(c) \/ YieldExTimeout(c)
    /\ UNCHANGED chanVars

Next ==
    \E c \in Co :
        \/ Scheduling(c)
        \/ \E timed \in BOOLEAN : Push(c, timed) \/ Pop(c, timed)
        \/ PushWake(c) \/ PopWake(c)
        \/ Close(c) \/ CloseProducers(c) \/ CloseConsumers(c)
        \/ TimerCallback(c) \/ CancelWaiter(c)

Spec == Init /\ [][Next]_vars

\* The thread is never idle while a coroutine can go on.
Running(c) ==
    /\ current = c
    /\ \/ Scheduling(c) \/ \E timed \in BOOLEAN : Push(c, timed) \/ Pop(c, timed)
       \/ PushWake(c) \/ PopWake(c)
       \/ Close(c) \/ CloseProducers(c) \/ CloseConsumers(c)

(***************************************************************************)
(* Fairness.  A coroutine that holds the thread runs on until it switches  *)
(* or ends, and a due timer fires if the event loop is reached again and   *)
(* again.                                                                  *)
(***************************************************************************)
Fairness ==
    \A c \in Co :
        /\ WF_vars(Running(c))
        /\ SF_vars(TimerCallback(c))
        /\ SF_vars(YieldExTimeout(c) /\ UNCHANGED chanVars)

FairSpec == Spec /\ Fairness

-----------------------------------------------------------------------------
Waits == {"wait_push", "wait_pop"}
Loops == {"close_producers", "close_consumers"}

\* Type correctness of the scheduler's and the channel's state.
TypeOK ==
    /\ current \in Co \cup {NoCo}
    /\ origin \in [Co -> Co \cup {NoCo}]
    /\ state \in [Co -> CoStates]
    /\ resume_code \in [Co -> {"OK", "TIMEDOUT", "CANCELED"}]
    /\ cancel_fn \in [Co -> {"none", "yield_ex"} \cup Waits]
    /\ timer \in [Co -> BOOLEAN]
    /\ pc \in [Co -> {"user", "in_resume", "yield_ex"} \cup Waits \cup Loops]
    /\ on_bailout = FALSE
    /\ producer_queue \in Seq(Co) /\ consumer_queue \in Seq(Co)
    /\ closed \in BOOLEAN
    /\ error_ \in {"OK", "TIMEOUT", "CLOSED", "CANCELED"}
    /\ head_ \in Slots /\ tail_ \in Slots /\ count_ \in 0 .. Capacity
    /\ data_queue \in [Slots -> Numbers]
    /\ msg_error \in [Co -> BOOLEAN]
    /\ call \in [Co -> Numbers] /\ calls \in Numbers
    /\ ret \in [Co -> {"OK", "PENDING", "TIMEOUT", "CLOSED", "CANCELED", "EMPTY"}]
    /\ pushed \in Seq(Numbers) /\ popped \in Seq(Numbers) /\ served \in Seq(Numbers)

Queued(q) == {q[i] : i \in 1 .. Len(q)}
NoRepeats(q) == \A i, j \in 1 .. Len(q) : q[i] = q[j] => i = j

\* The coroutines in a queue are exactly the ones suspended in that wait, each
\* queued once.  notify, close, the timer and cancel all take a coroutine out
\* before they resume it: none is resumed twice or stays behind in a queue.
QueuedAreWaiting ==
    /\ NoRepeats(producer_queue) /\ NoRepeats(consumer_queue)
    /\ Queued(producer_queue) = {c \in Co : state[c] = "WAITING" /\ pc[c] = "wait_push"}
    /\ Queued(consumer_queue) = {c \in Co : state[c] = "WAITING" /\ pc[c] = "wait_pop"}

\* The coroutine just switched to has been resumed out of this wait.
JustResumed(waiting) == current # NoCo /\ pc[current] = waiting

\* No wake-up is lost: a consumer waits only if there is nothing to take, a
\* producer only if there is no room, except while the one that was notified
\* has not run yet.  A closed channel has producers waiting that close() has
\* still to resume.
NoLostWakeup ==
    /\ consumer_queue # <<>> => is_empty \/ JustResumed("wait_pop")
    /\ producer_queue # <<>> => is_full \/ closed \/ JustResumed("wait_push")

\* When close() returns no coroutine is left waiting, and none waits later.
ClosedLeavesNoWaiter ==
    (closed /\ \A c \in Co : pc[c] \notin Loops)
        => producer_queue = <<>> /\ consumer_queue = <<>>

\* The timer and the TimeoutMessage it points to are on the stack of the wait,
\* so a pending timer means that the coroutine is still suspended in that call.
TimeoutMessageAlive ==
    \A c \in Co : timer[c] =>
        /\ pc[c] \in Waits \cup {"yield_ex"}
        /\ state[c] = "WAITING" \/ current = c

\* Queue entries, timers and their messages all belong to waits that are under
\* way: a notification, the timeout, cancel() and close() that race for a waiter
\* leave nothing behind for the others to find.
WaitersInFrame == QueuedAreWaiting /\ TimeoutMessageAlive

\* A failed call has a reason of its own: pop_data() and push_data() never find
\* that the ring was emptied or filled again before the notified coroutine ran,
\* so no caller reads the error_ of somebody else's call.
FailureIsExplained ==
    \A c \in Co :
        /\ ret[c] # "EMPTY"
        /\ ret[c] = "TIMEOUT" => msg_error[c]
        /\ ret[c] = "CLOSED" => closed

Increasing(s) == \A i, j \in 1 .. Len(s) : i < j => s[i] < s[j]

\* Calls that succeed are served in the order in which they were made, on each
\* side: a later call never overtakes a coroutine that waits.
ServedInOrder == Increasing(pushed) /\ Increasing(served)

\* The channel is a bounded FIFO queue.
Fifo == INSTANCE BoundedFifo WITH
            Data <- Numbers, Bound <- Capacity, in <- pushed, out <- popped, shut <- closed
RefinesFifo == Fifo!FifoSpec

\* close() resumes every waiting coroutine, whatever those it resumes do.
CloseEndsWaits == closed ~> (producer_queue = <<>> /\ consumer_queue = <<>>)

\* A wait with a timeout ends.
TimedWaitEnds == \A c \in Co : timer[c] ~> pc[c] \notin Waits \cup {"yield_ex"}
=============================================================================
