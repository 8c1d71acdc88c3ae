---------------------------- MODULE CoSocket_proofs ----------------------------
(***************************************************************************)
(* A coroutine socket without SSL: callbacks find whom they resume, and    *)
(* the socket is released once, by the last who used it, for any number of *)
(* coroutines and of calls.                                                *)
(***************************************************************************)
EXTENDS CoSocket, TLAPS

Active == {"user", "try", "woken"}
Nested == {"cancelled", "close_read", "close_end"}
Steps == {"asleep", "wait", "done"} \cup Active \cup Nested

InCall(c) == step[c] \in {"try", "wait", "woken"}

\* Without SSL a wait is for the event of its own direction.
PlainInv == want_event = "NULL" /\ \A c \in SocketCo : call[c].added = call[c].dir

\* Who is on the stack: each once, all but the last inside close() or cancel().
StackInv ==
    /\ \A i, j \in 1..Len(stack) : stack[i] = stack[j] => i = j
    /\ \A i \in 1..Len(stack) : step[stack[i]] \in Active \cup Nested
    /\ \A i \in 1..(Len(stack) - 1) : step[stack[i]] \in Nested
    /\ \A c \in SocketCo : step[c] \in Active \cup Nested =>
          \E i \in 1..Len(stack) : stack[i] = c

\* read_co and write_co are the coroutines in a wait.
BoundInv ==
    /\ \A d \in Event : bound[d] # NoOne =>
          step[bound[d]] \in {"wait", "woken"} /\ call[bound[d]].dir = d
    /\ \A c \in SocketCo :
          /\ step[c] \in {"wait", "woken"} => bound[call[c].dir] = c
          /\ step[c] = "try" => bound[call[c].dir] = NoOne

\* The socket is in the reactor for the waits, and what is left of an event is
\* for them, unless it is stale.
EventsInv ==
    /\ \A d \in Event : d \in events <=> bound[d] # NoOne
    /\ ~stale => ("IN" \in revents => "READ" \in events)
              /\ ("OUT" \in revents => "WRITE" \in events)
    /\ nobody => stale

\* A timer belongs to an operation, and a wait has its timer.
TimerInv ==
    /\ \A d \in Event : co_timer[d] # "none" =>
          \E c \in SocketCo : InCall(c) /\ call[c].dir = d
    /\ \A c \in SocketCo : step[c] = "wait" => co_timer[call[c].dir] # "none"

\* While the socket is being closed nobody begins to wait, who waits is about to
\* be woken, and is told why.
ClosingInv ==
    close_wait =>
        /\ \A c \in SocketCo : step[c] # "try" /\ (step[c] = "woken" => errCode # "0")
        /\ bound["WRITE"] # NoOne => step[bound["WRITE"]] = "woken"
        /\ bound["READ"] # NoOne => \/ step[bound["READ"]] = "woken"
                                    \/ \E c \in SocketCo : step[c] = "close_read"

\* Somebody has to release the socket; it is released once and not used then.
ReleaseInv ==
    /\ released = IF fd_open THEN 0 ELSE 1
    /\ ~fd_open => \A c \in SocketCo : ~InCall(c)
    /\ \A c \in owes : step[c] # "done"
    /\ close_wait /\ fd_open => \E c \in SocketCo : c \in owes \/ InCall(c)

SocketInv ==
    /\ SocketTypeOK /\ PlainInv /\ StackInv /\ BoundInv
    /\ EventsInv /\ TimerInv /\ ClosingInv /\ ReleaseInv

-----------------------------------------------------------------------------
(* The stack.                                                              *)

\* The coroutine that runs is the only one that is not inside a call of close()
\* or cancel(), and not waiting.
LEMMA OneRuns ==
    ASSUME SocketTypeOK, StackInv, NEW c \in SocketCo, NEW s, Runs(c, s)
    PROVE  /\ \A x \in SocketCo : x # c => step[x] \notin Active
           /\ Len(stack) \in Nat \ {0} /\ stack[Len(stack)] = c /\ step[c] = s
           /\ s \in Active \cup Nested
<1>1. Len(stack) \in Nat \ {0} /\ stack[Len(stack)] = c /\ step[c] = s
  BY DEF Runs, SocketTypeOK
<1>2. ASSUME NEW x \in SocketCo, x # c PROVE step[x] \notin Active
  <2>1. SUFFICES ASSUME step[x] \in Active PROVE FALSE
    BY Zenon
  <2>2. PICK i \in 1..Len(stack) : stack[i] = x
    BY Zenon, <2>1 DEF StackInv
  <2>3. i \in 1..(Len(stack) - 1)
    BY <1>1, <1>2, <2>2
  <2>4. step[x] \in Nested
    BY Zenon, <2>2, <2>3 DEF StackInv
  <2>5. QED
    BY Zenon, <2>1, <2>4 DEF Active, Nested
<1>3. s \in Active \cup Nested
  BY <1>1 DEF StackInv
<1>4. QED
  BY Zenon, <1>1, <1>2, <1>3

\* While the event loop runs every coroutine sleeps, waits or has ended.
LEMMA NoneRuns ==
    ASSUME SocketTypeOK, StackInv, stack = <<>>
    PROVE  \A x \in SocketCo : step[x] \notin Active \cup Nested
<1>1. Len(stack) = 0
  BY Zenon
<1>2. QED
  BY <1>1 DEF StackInv

\* The coroutine that runs goes on without a switch.
LEMMA StackKept ==
    ASSUME SocketTypeOK, StackInv, NEW c \in SocketCo, NEW s, Runs(c, s),
           NEW t \in Active \cup Nested, step' = [step EXCEPT ![c] = t], stack' = stack
    PROVE  StackInv'
<1>1. Len(stack) \in Nat \ {0} /\ stack[Len(stack)] = c
  BY Zenon, OneRuns
<1>2. \A i \in 1..Len(stack) : stack[i] \in SocketCo
  BY DEF SocketTypeOK
<1>3. \A x \in SocketCo : step'[x] = IF x = c THEN t ELSE step[x]
  BY Zenon DEF SocketTypeOK
<1>4. \A i \in 1..(Len(stack) - 1) : stack[i] # c /\ i \in 1..Len(stack)
  BY <1>1 DEF StackInv
<1>5. \A x \in SocketCo : step'[x] \in Active \cup Nested =>
          \E i \in 1..Len(stack) : stack[i] = x
  BY <1>1, <1>3 DEF StackInv
<1>6. \A i \in 1..Len(stack) : step'[stack[i]] \in Active \cup Nested
  BY <1>2, <1>3 DEF StackInv
<1>7. \A i \in 1..(Len(stack) - 1) : step'[stack[i]] \in Nested
  BY <1>2, <1>3, <1>4 DEF StackInv
<1>8. QED
  BY <1>5, <1>6, <1>7 DEF StackInv

\* The coroutine that runs yields.
LEMMA StackPopped ==
    ASSUME SocketTypeOK, StackInv, NEW c \in SocketCo, NEW s, Runs(c, s),
           NEW t \in {"asleep", "wait", "done"}, step' = [step EXCEPT ![c] = t],
           stack' = Return
    PROVE  StackInv' /\ stack' \in Seq(SocketCo)
<1> DEFINE n == Len(stack)
<1>1. n \in Nat \ {0} /\ stack[n] = c
  BY Zenon, OneRuns
<1>2. \A i \in 1..n : stack[i] \in SocketCo
  BY DEF SocketTypeOK
<1>3. /\ stack' \in Seq(SocketCo) /\ Len(stack') = n - 1
      /\ \A i \in 1..(n - 1) : stack'[i] = stack[i]
  <2> DEFINE m == n - 1
             front == SubSeq(stack, 1, m)
  <2>1. m \in Nat /\ m + 1 = n /\ m - 1 + 1 = m /\ \A i \in 1..m : stack[i] \in SocketCo
    BY <1>1, <1>2
  <2>2. stack' = front
    BY Zenon DEF Return
  <2> HIDE DEF m
  <2>3. /\ front \in Seq(SocketCo)
        /\ Len(front) = IF 1 <= m THEN m - 1 + 1 ELSE 0
        /\ \A i \in 1..(m - 1 + 1) : front[i] = stack[1 + i - 1]
    BY <2>1
  <2> HIDE DEF front
  <2>4. Len(front) = m /\ \A i \in 1..m : front[i] = stack[i]
    <3>1. \A i \in 1..m : 1 + i - 1 = i
      BY <2>1
    <3>2. QED
      BY <2>1, <2>3, <3>1
  <2>5. QED
    BY Zenon, <2>2, <2>3, <2>4 DEF m
<1>4. \A i \in 1..(n - 1) : stack[i] # c /\ i \in 1..n
  BY <1>1 DEF StackInv
<1>5. \A x \in SocketCo : step'[x] = IF x = c THEN t ELSE step[x]
  BY Zenon DEF SocketTypeOK
<1>6. \A i \in 1..(n - 1) : step'[stack'[i]] \in Nested
  BY <1>2, <1>3, <1>4, <1>5 DEF StackInv
<1>7. ASSUME NEW x \in SocketCo, step'[x] \in Active \cup Nested
      PROVE  \E i \in 1..(n - 1) : stack'[i] = x
  <2>1. x # c /\ step[x] \in Active \cup Nested
    BY Zenon, <1>5, <1>7 DEF Active, Nested
  <2>2. PICK i \in 1..n : stack[i] = x
    BY Zenon, <2>1 DEF StackInv
  <2>3. i \in 1..(n - 1)
    BY <1>1, <2>1, <2>2
  <2>4. QED
    BY Zenon, <1>3, <2>2, <2>3
<1>8. \A i, j \in 1..(n - 1) : stack'[i] = stack'[j] => i = j
  BY <1>3, <1>4 DEF StackInv
<1>9. 1..(n - 1 - 1) \subseteq 1..(n - 1)
  BY <1>1
<1>10. QED
  BY <1>3, <1>6, <1>7, <1>8, <1>9 DEF StackInv

\* A waiting coroutine is resumed, by the loop or by one that is now inside a call.
LEMMA StackPushed ==
    ASSUME SocketTypeOK, StackInv, NEW b \in SocketCo, step[b] \in {"asleep", "wait"},
           NEW t \in {"user", "woken"}, NEW st \in [SocketCo -> Steps],
           step' = [st EXCEPT ![b] = t], stack' = Append(stack, b),
           \A i \in 1..Len(stack) : st[stack[i]] \in Nested,
           \A x \in SocketCo : st[x] \in Active \cup Nested => step[x] \in Active \cup Nested
    PROVE  StackInv' /\ stack' \in Seq(SocketCo)
<1> DEFINE n == Len(stack)
<1>1. n \in Nat /\ \A i \in 1..n : stack[i] \in SocketCo
  BY DEF SocketTypeOK
<1>2. /\ stack' \in Seq(SocketCo) /\ Len(stack') = n + 1 /\ stack'[n + 1] = b
      /\ \A i \in 1..n : stack'[i] = stack[i]
  BY DEF SocketTypeOK
<1>3. \A i \in 1..n : stack[i] # b
  BY Zenon DEF StackInv, Active, Nested
<1>4. \A x \in SocketCo : step'[x] = IF x = b THEN t ELSE st[x]
  BY Zenon
<1>5. \A i \in 1..n : step'[stack'[i]] \in Nested
  BY <1>1, <1>2, <1>3, <1>4
<1>6. step'[stack'[n + 1]] \in Active
  BY Zenon, <1>2, <1>4 DEF Active
<1>7. \A i \in 1..(n + 1) : i = n + 1 \/ i \in 1..n
  BY <1>1
<1>8. \A i, j \in 1..(n + 1) : stack'[i] = stack'[j] => i = j
  BY <1>2, <1>3, <1>7 DEF StackInv
<1>9. ASSUME NEW x \in SocketCo, step'[x] \in Active \cup Nested
      PROVE  \E i \in 1..(n + 1) : stack'[i] = x
  <2>1. CASE x = b
    BY <1>1, <1>2, <2>1
  <2>2. CASE x # b
    <3>1. PICK i \in 1..n : stack[i] = x
      BY <1>4, <1>9, <2>2 DEF StackInv
    <3>2. QED
      BY <1>1, <1>2, <3>1
  <2>3. QED
    BY Zenon, <2>1, <2>2
<1>10. 1..(n + 1 - 1) = 1..n
  BY <1>1
<1>11. QED
  BY <1>2, <1>6, <1>8 DEF StackInv
-----------------------------------------------------------------------------
(* Switches to a waiting coroutine.                                        *)

\* A switch neither begins nor ends an operation.
CallsGoOn ==
    \A x \in SocketCo :
        /\ InCall(x)' <=> InCall(x)
        /\ step[x] = "woken" => step'[x] = "woken"
        /\ step'[x] \in {"try", "wait", "done"} => step'[x] = step[x]

\* The event loop resumes the coroutine bound to d.
LEMMA LoopResumes ==
    ASSUME SocketInv, NEW d \in Event, stack = <<>>, bound[d] # NoOne, ResumeBound(d, step)
    PROVE  /\ bound[d] \in SocketCo /\ step[bound[d]] = "wait" /\ call[bound[d]].dir = d
           /\ \A x \in SocketCo : step'[x] = IF x = bound[d] THEN "woken" ELSE step[x]
           /\ step' \in [SocketCo -> Steps] /\ StackInv' /\ stack' \in Seq(SocketCo)
           /\ nobody' = nobody /\ CallsGoOn
<1> USE DEF SocketInv
<1> DEFINE b == bound[d]
<1>1. b \in SocketCo /\ step[b] \in {"wait", "woken"} /\ call[b].dir = d
  BY DEF SocketTypeOK, BoundInv
<1>2. step[b] = "wait"
  BY Zenon, <1>1, NoneRuns DEF Active
<1>3. step \in [SocketCo -> Steps]
  BY Zenon DEF SocketTypeOK, Steps, Active, Nested
<1>4. step' = [step EXCEPT ![b] = "woken"] /\ stack' = Append(stack, b) /\ nobody' = nobody
  BY Zenon DEF ResumeBound
<1>5. \A i \in 1..Len(stack) : step[stack[i]] \in Nested
  <2>1. Len(stack) = 0
    BY Zenon
  <2>2. QED
    BY <2>1
<1>6. StackInv' /\ stack' \in Seq(SocketCo)
  BY <1>1, <1>2, <1>3, <1>4, <1>5, StackPushed
<1>7. /\ \A x \in SocketCo : step'[x] = IF x = b THEN "woken" ELSE step[x]
      /\ step' \in [SocketCo -> Steps]
  BY Zenon, <1>1, <1>3, <1>4 DEF Steps, Active
<1>8. CallsGoOn
  BY <1>2, <1>7 DEF CallsGoOn, InCall
<1>9. QED
  BY Zenon, <1>1, <1>2, <1>4, <1>6, <1>7, <1>8

\* cancel() and close() resume the coroutine bound to d.
LEMMA CallResumes ==
    ASSUME SocketInv, NEW d \in Event, bound[d] # NoOne, NEW c \in SocketCo,
           NEW s \in {"user", "close_read"}, Runs(c, s),
           NEW t \in Nested, ResumeBound(d, [step EXCEPT ![c] = t])
    PROVE  /\ bound[d] \in SocketCo /\ step[bound[d]] = "wait" /\ call[bound[d]].dir = d
           /\ bound[d] # c
           /\ \A x \in SocketCo : step'[x] = IF x = bound[d] THEN "woken"
                                             ELSE IF x = c THEN t ELSE step[x]
           /\ step' \in [SocketCo -> Steps] /\ StackInv' /\ stack' \in Seq(SocketCo)
           /\ nobody' = nobody /\ CallsGoOn
<1> USE DEF SocketInv
<1> DEFINE b == bound[d]
           st == [step EXCEPT ![c] = t]
<1>1. b \in SocketCo /\ step[b] \in {"wait", "woken"} /\ call[b].dir = d
  BY DEF SocketTypeOK, BoundInv
<1>2. /\ \A x \in SocketCo : x # c => step[x] \notin Active
      /\ Len(stack) \in Nat \ {0} /\ stack[Len(stack)] = c /\ step[c] = s
  BY Zenon, OneRuns
<1>3. step[b] = "wait" /\ b # c
  BY Zenon, <1>1, <1>2 DEF Active
<1>4. st \in [SocketCo -> Steps] /\ \A x \in SocketCo : st[x] = IF x = c THEN t ELSE step[x]
  BY DEF SocketTypeOK, Steps, Active, Nested
<1>5. step' = [st EXCEPT ![b] = "woken"] /\ stack' = Append(stack, b) /\ nobody' = nobody
  BY Zenon DEF ResumeBound
<1> HIDE DEF st
<1>6. \A i \in 1..Len(stack) : st[stack[i]] \in Nested
  <2>1. \A i \in 1..Len(stack) : stack[i] \in SocketCo
    BY DEF SocketTypeOK
  <2>2. \A i \in 1..Len(stack) : i = Len(stack) \/ i \in 1..(Len(stack) - 1)
    BY <1>2
  <2>3. QED
    BY <1>2, <1>4, <2>1, <2>2 DEF StackInv
<1>7. \A x \in SocketCo : st[x] \in Active \cup Nested => step[x] \in Active \cup Nested
  BY Zenon, <1>2, <1>4 DEF Active, Nested
<1>8. StackInv' /\ stack' \in Seq(SocketCo)
  BY <1>1, <1>3, <1>4, <1>5, <1>6, <1>7, StackPushed
<1>9. /\ \A x \in SocketCo : step'[x] = IF x = b THEN "woken"
                                        ELSE IF x = c THEN t ELSE step[x]
      /\ step' \in [SocketCo -> Steps]
  BY <1>1, <1>4, <1>5 DEF Steps, Active
<1>10. CallsGoOn
  BY <1>2, <1>3, <1>9 DEF CallsGoOn, InCall, Nested
<1>11. QED
  BY Zenon, <1>1, <1>3, <1>5, <1>8, <1>9, <1>10

-----------------------------------------------------------------------------
(* One lemma for each action.                                              *)

\* Steps of coroutines that are in no operation leave the waits as they are.
LEMMA BoundKept ==
    ASSUME SocketTypeOK, BoundInv, UNCHANGED <<bound, call>>,
           \A x \in SocketCo : \/ step'[x] = step[x]
                               \/ ~InCall(x) /\ ~InCall(x)'
    PROVE  BoundInv'
<1>1. \A x \in SocketCo :
          /\ step'[x] = "try" => step[x] = "try"
          /\ step'[x] \in {"wait", "woken"} <=> step[x] \in {"wait", "woken"}
  BY DEF InCall
<1>2. ASSUME NEW d \in Event, bound'[d] # NoOne
      PROVE  step'[bound'[d]] \in {"wait", "woken"} /\ call'[bound'[d]].dir = d
  <2>1. bound[d] \in SocketCo /\ bound' = bound /\ call' = call
    BY <1>2 DEF SocketTypeOK
  <2>2. step[bound[d]] \in {"wait", "woken"} /\ call[bound[d]].dir = d
    BY <1>2, <2>1 DEF BoundInv
  <2>3. step'[bound[d]] \in {"wait", "woken"}
    BY <1>1, <2>1, <2>2
  <2>4. QED
    BY <2>1, <2>2, <2>3
<1>3. ASSUME NEW x \in SocketCo
      PROVE  /\ step'[x] \in {"wait", "woken"} => bound'[call'[x].dir] = x
             /\ step'[x] = "try" => bound'[call'[x].dir] = NoOne
  <2>1. /\ step[x] \in {"wait", "woken"} => bound[call[x].dir] = x
        /\ step[x] = "try" => bound[call[x].dir] = NoOne
    BY DEF BoundInv
  <2>2. QED
    BY <1>1, <2>1
<1>4. QED
  BY Zenon, <1>2, <1>3 DEF BoundInv

\* An operation begins, or is refused.
LEMMA BeginStep ==
    ASSUME SocketInv, NEW c \in SocketCo, NEW d \in Event, NEW k \in Kind, Begin(c, d, k)
    PROVE  SocketInv'
<1>1. /\ SocketTypeOK /\ PlainInv /\ StackInv /\ BoundInv
      /\ EventsInv /\ TimerInv /\ ClosingInv /\ ReleaseInv
  BY Zenon DEF SocketInv
<1>2. /\ \A x \in SocketCo : x # c => step[x] \notin Active
      /\ stack # <<>> /\ step[c] = "user" /\ Runs(c, "user")
  <2>1. Runs(c, "user")
    BY Zenon DEF Begin
  <2>2. QED
    BY <1>1, <2>1, OneRuns DEF Runs
<1>3. \/ /\ fd_open /\ ~close_wait /\ step' = [step EXCEPT ![c] = "try"]
         /\ call' = [call EXCEPT ![c] = [dir |-> d, kind |-> k, added |-> d]]
         /\ \A x \in SocketCo : /\ step'[x] = IF x = c THEN "try" ELSE step[x]
                                /\ x # c => call'[x] = call[x]
         /\ call'[c] = [dir |-> d, kind |-> k, added |-> d]
         /\ owes' = owes /\ errCode' = errCode
      \/ /\ step' = step /\ call' = call /\ owes' \in {owes, owes \cup {c}}
         /\ ~(fd_open /\ ~close_wait) /\ errCode' # "0"
  BY <1>1 DEF Begin, SocketTypeOK, Call
<1>4. SocketTypeOK'
  BY <1>1, <1>3, SocketAssumption DEF Begin, Count, SocketTypeOK, Call
<1>5. PlainInv'
  BY <1>1, <1>3 DEF Begin, PlainInv
<1>6. StackInv'
  <2>1. CASE step' = [step EXCEPT ![c] = "try"]
    BY <1>1, <1>2, <1>3, <2>1, StackKept DEF Begin, Active
  <2>2. CASE step' = step
    BY <1>1, <2>2 DEF Begin, StackInv
  <2>3. QED
    BY <1>1, <1>2, <1>3, <2>1, <2>2
<1>7. BoundInv'
  <2>1. UNCHANGED bound /\ bound[d] = NoOne
    BY Zenon DEF Begin
  <2>2. CASE step' = step /\ call' = call
    BY <1>1, <2>1, <2>2, BoundKept
  <2>3. CASE /\ \A x \in SocketCo : /\ step'[x] = IF x = c THEN "try" ELSE step[x]
                                    /\ x # c => call'[x] = call[x]
             /\ call'[c] = [dir |-> d, kind |-> k, added |-> d]
    <3>1. call'[c].dir = d /\ step'[c] = "try" /\ step[c] = "user"
      BY <1>2, <2>3
    <3>2. ASSUME NEW e \in Event, bound[e] # NoOne
          PROVE  /\ bound[e] \in SocketCo /\ bound[e] # c
                 /\ step[bound[e]] \in {"wait", "woken"} /\ call[bound[e]].dir = e
      <4>1. step[bound[e]] \in {"wait", "woken"} /\ call[bound[e]].dir = e
        BY <1>1, <3>2 DEF BoundInv
      <4>2. QED
        BY <1>1, <3>1, <3>2, <4>1 DEF SocketTypeOK
    <3>3. \A x \in SocketCo : x # c => step'[x] = step[x] /\ call'[x] = call[x]
      BY <2>3
    <3>4. ASSUME NEW e \in Event, bound'[e] # NoOne
          PROVE  step'[bound'[e]] \in {"wait", "woken"} /\ call'[bound'[e]].dir = e
      <4>1. /\ bound[e] \in SocketCo /\ bound[e] # c /\ bound'[e] = bound[e]
            /\ step[bound[e]] \in {"wait", "woken"} /\ call[bound[e]].dir = e
        BY <2>1, <3>2, <3>4
      <4>2. step'[bound[e]] = step[bound[e]] /\ call'[bound[e]] = call[bound[e]]
        BY Zenon, <3>3, <4>1
      <4>3. QED
        BY <4>1, <4>2
    <3>5. \A x \in SocketCo :
            /\ step'[x] \in {"wait", "woken"} => bound'[call'[x].dir] = x
            /\ step'[x] = "try" => bound'[call'[x].dir] = NoOne
      BY <1>1, <2>1, <3>1, <3>3 DEF BoundInv
    <3>6. QED
      BY <3>4, <3>5 DEF BoundInv
  <2>4. QED
    BY <1>3, <2>2, <2>3
<1>8. EventsInv'
  BY Zenon, <1>1 DEF Begin, EventsInv
<1>9. TimerInv'
  <2>1. \A x \in SocketCo : InCall(x) => InCall(x)' /\ call'[x] = call[x]
    BY Zenon, <1>2, <1>3 DEF InCall
  <2>2. \A x \in SocketCo : step'[x] = "wait" => step[x] = "wait" /\ call'[x] = call[x]
    BY Zenon, <1>2, <1>3
  <2>3. co_timer' = co_timer
    BY Zenon DEF Begin
  <2>4. QED
    BY <1>1, <2>1, <2>2, <2>3 DEF TimerInv
<1>10. ClosingInv'
  BY Zenon, <1>1 DEF Begin, ClosingInv
<1>11. ReleaseInv'
  BY <1>1, <1>2 DEF Begin, ReleaseInv, InCall, SocketTypeOK
<1>12. QED
  BY <1>4, <1>5, <1>6, <1>7, <1>8, <1>9, <1>10, <1>11 DEF SocketInv

\* An operation ends with its system call.
LEMMA FinishStep ==
    ASSUME SocketInv, NEW c \in SocketCo, Finish(c)
    PROVE  SocketInv'
<1>1. /\ SocketTypeOK /\ PlainInv /\ StackInv /\ BoundInv
      /\ EventsInv /\ TimerInv /\ ClosingInv /\ ReleaseInv
  BY DEF SocketInv
<1>2. /\ \A x \in SocketCo : x # c => step[x] \notin Active
      /\ stack # <<>> /\ step[c] = "try"
      /\ Runs(c, "try")
  <2>1. Runs(c, "try")
    BY Zenon DEF Finish, EndCall
  <2>2. QED
    BY <1>1, <2>1, OneRuns, <2>1 DEF Runs
<1>3. /\ step' = [step EXCEPT ![c] = "user"]
      /\ \A x \in SocketCo : step'[x] = IF x = c THEN "user" ELSE step[x]
  BY Zenon, <1>1 DEF Finish, EndCall, SocketTypeOK
<1>4. /\ call' = [call EXCEPT ![c] = NoCall]
      /\ \A x \in SocketCo : x # c => call'[x] = call[x]
  BY Zenon, <1>1 DEF Finish, EndCall, SocketTypeOK
<1>5. SocketTypeOK'
  BY <1>1 DEF Finish, EndCall, SocketTypeOK, Call, Event, Kind, NoCall
<1>6. PlainInv'
  BY <1>1, <1>4 DEF Finish, PlainInv, NoCall
<1>7. StackInv'
  BY <1>1, <1>2, <1>3, <1>4, StackKept DEF Finish, EndCall, Active, Nested
<1>8. BoundInv'
  BY <1>1, <1>2, <1>3, <1>4 DEF Finish, BoundInv
<1>9. EventsInv'
  BY Zenon, <1>1 DEF Finish, EventsInv
<1>10. TimerInv'
  BY <1>1, <1>2, SocketAssumption
     DEF Finish, EndCall, TimerInv, BoundInv, InCall, SocketTypeOK
<1>11. ClosingInv'
  BY Zenon, <1>1, <1>2 DEF Finish, ClosingInv
<1>12. ReleaseInv'
  BY <1>1, <1>2 DEF Finish, EndCall, ReleaseInv, InCall
<1>13. QED
  BY <1>5, <1>6, <1>7, <1>8, <1>9, <1>10, <1>11, <1>12 DEF SocketInv

\* An operation waits; without SSL for its own direction.
LEMMA WaitEventStep ==
    ASSUME SocketInv, NEW c \in SocketCo, ~Ssl, NEW t \in {"set", "never"}, NEW e \in Event, WaitEvent(c, t, e)
    PROVE  SocketInv'
<1>1. /\ SocketTypeOK /\ PlainInv /\ StackInv /\ BoundInv
      /\ EventsInv /\ TimerInv /\ ClosingInv /\ ReleaseInv
  BY Zenon DEF SocketInv
<1>2. /\ \A x \in SocketCo : x # c => step[x] \notin Active
      /\ stack # <<>> /\ step[c] = "try"
      /\ Runs(c, "try")
  <2>1. Runs(c, "try")
    BY Zenon DEF WaitEvent, add_event
  <2>2. QED
    BY Zenon, <1>1, <2>1, OneRuns, <2>1 DEF Runs
<1>3. /\ step' = [step EXCEPT ![c] = "wait"]
      /\ \A x \in SocketCo : step'[x] = IF x = c THEN "wait" ELSE step[x]
  BY Zenon, <1>1 DEF WaitEvent, add_event, SocketTypeOK
<1>4. /\ call[c].dir \in Event /\ e = call[c].dir
      /\ call'[c].dir = e /\ call'[c].added = e
      /\ call' \in [SocketCo -> Call]
      /\ \A x \in SocketCo : x # c => call'[x] = call[x]
  BY <1>1 DEF WaitEvent, SocketTypeOK, Call
<1>5. SocketTypeOK'
  <2>1. stack' \in Seq(SocketCo)
    BY <1>1, <1>2, <1>3, <1>4, StackPopped DEF WaitEvent, add_event
  <2>2. QED
    BY Zenon, <1>1, <1>4, <2>1 DEF WaitEvent, add_event, SocketTypeOK
<1>6. PlainInv'
  BY <1>1 DEF WaitEvent, PlainInv
<1>7. StackInv'
  BY <1>1, <1>2, <1>3, <1>4, StackPopped DEF WaitEvent, add_event
<1>8. BoundInv'
  BY <1>1, <1>2, SocketAssumption DEF WaitEvent, BoundInv, SocketTypeOK, Active
<1>9. EventsInv'
  BY Zenon, <1>1, SocketAssumption DEF WaitEvent, add_event, EventsInv, SocketTypeOK
<1>10. TimerInv'
  BY <1>1 DEF WaitEvent, TimerInv, InCall, SocketTypeOK
<1>11. ClosingInv'
  BY Zenon, <1>1, <1>2 DEF WaitEvent, ClosingInv
<1>12. ReleaseInv'
  BY <1>1, <1>2 DEF WaitEvent, ReleaseInv, InCall
<1>13. QED
  BY Zenon, <1>5, <1>6, <1>7, <1>8, <1>9, <1>10, <1>11, <1>12 DEF SocketInv

\* cancel() returns.
LEMMA CancelReturnsStep ==
    ASSUME SocketInv, NEW c \in SocketCo, CancelReturns(c)
    PROVE  SocketInv'
<1>1. /\ SocketTypeOK /\ PlainInv /\ StackInv /\ BoundInv
      /\ EventsInv /\ TimerInv /\ ClosingInv /\ ReleaseInv
  BY Zenon DEF SocketInv
<1>2. /\ \A x \in SocketCo : x # c => step[x] \notin Active
      /\ stack # <<>> /\ step[c] = "cancelled"
      /\ Runs(c, "cancelled")
  <2>1. Runs(c, "cancelled")
    BY Zenon DEF CancelReturns
  <2>2. QED
    BY Zenon, <1>1, <2>1, OneRuns, <2>1 DEF Runs
<1>3. /\ step' = [step EXCEPT ![c] = "user"]
      /\ \A x \in SocketCo : step'[x] = IF x = c THEN "user" ELSE step[x]
  BY Zenon, <1>1 DEF CancelReturns, SocketTypeOK
<1>4. SocketTypeOK'
  BY <1>1 DEF CancelReturns, SocketTypeOK
<1>5. PlainInv'
  BY Zenon, <1>1 DEF CancelReturns, PlainInv
<1>6. StackInv'
  BY <1>1, <1>2, <1>3, StackKept DEF CancelReturns, Active, Nested
<1>7. BoundInv'
  BY <1>1, <1>2 DEF CancelReturns, BoundInv
<1>8. EventsInv'
  BY Zenon, <1>1 DEF CancelReturns, EventsInv
<1>9. TimerInv'
  BY <1>1, <1>2 DEF CancelReturns, TimerInv, InCall
<1>10. ClosingInv'
  BY <1>1, <1>2 DEF CancelReturns, ClosingInv
<1>11. ReleaseInv'
  BY <1>1, <1>2 DEF CancelReturns, ReleaseInv, InCall
<1>12. QED
  BY Zenon, <1>4, <1>5, <1>6, <1>7, <1>8, <1>9, <1>10, <1>11 DEF SocketInv

\* close() returns.
LEMMA CloseReturnsStep ==
    ASSUME SocketInv, NEW c \in SocketCo, CloseReturns(c)
    PROVE  SocketInv'
<1>1. /\ SocketTypeOK /\ PlainInv /\ StackInv /\ BoundInv
      /\ EventsInv /\ TimerInv /\ ClosingInv /\ ReleaseInv
  BY Zenon DEF SocketInv
<1>2. /\ \A x \in SocketCo : x # c => step[x] \notin Active
      /\ stack # <<>> /\ step[c] = "close_end"
      /\ Runs(c, "close_end")
  <2>1. Runs(c, "close_end")
    BY Zenon DEF CloseReturns
  <2>2. QED
    BY <1>1, <2>1, OneRuns, <2>1 DEF Runs
<1>3. /\ step' = [step EXCEPT ![c] = "user"]
      /\ \A x \in SocketCo : step'[x] = IF x = c THEN "user" ELSE step[x]
  BY Zenon, <1>1 DEF CloseReturns, SocketTypeOK
<1>4. SocketTypeOK'
  BY <1>1 DEF CloseReturns, SocketTypeOK
<1>5. PlainInv'
  BY Zenon, <1>1 DEF CloseReturns, PlainInv
<1>6. StackInv'
  BY <1>1, <1>2, <1>3, StackKept DEF CloseReturns, Active, Nested
<1>7. BoundInv'
  BY <1>1, <1>2 DEF CloseReturns, BoundInv
<1>8. EventsInv'
  BY <1>1 DEF CloseReturns, EventsInv
<1>9. TimerInv'
  BY <1>1, <1>2 DEF CloseReturns, TimerInv, InCall
<1>10. ClosingInv'
  BY <1>1, <1>2 DEF CloseReturns, ClosingInv
<1>11. ReleaseInv'
  BY <1>1, <1>2 DEF CloseReturns, ReleaseInv, InCall
<1>12. QED
  BY Zenon, <1>4, <1>5, <1>6, <1>7, <1>8, <1>9, <1>10, <1>11 DEF SocketInv

\* A coroutine waits for something else, or ends.
LEMMA LeaveStep ==
    ASSUME SocketInv, NEW c \in SocketCo, NEW s \in {"asleep", "done"}, Leave(c, s)
    PROVE  SocketInv'
<1>1. /\ SocketTypeOK /\ PlainInv /\ StackInv /\ BoundInv
      /\ EventsInv /\ TimerInv /\ ClosingInv /\ ReleaseInv
  BY Zenon DEF SocketInv
<1>2. /\ \A x \in SocketCo : x # c => step[x] \notin Active
      /\ stack # <<>> /\ step[c] = "user" /\ Runs(c, "user")
  <2>1. Runs(c, "user")
    BY Zenon DEF Leave
  <2>2. QED
    BY Zenon, <1>1, <2>1, OneRuns DEF Runs
<1>3. /\ step' = [step EXCEPT ![c] = s]
      /\ \A x \in SocketCo : step'[x] = IF x = c THEN s ELSE step[x]
  BY Zenon, <1>1 DEF Leave, SocketTypeOK
<1>4. StackInv' /\ stack' \in Seq(SocketCo)
  BY <1>1, <1>2, <1>3, StackPopped DEF Leave
<1>5. SocketTypeOK'
  BY <1>1, <1>4, SocketAssumption DEF Leave, Count, SocketTypeOK
<1>6. PlainInv'
  BY Zenon, <1>1 DEF Leave, PlainInv
<1>7. StackInv'
  BY Zenon, <1>4
<1>8. BoundInv'
  BY <1>1, <1>2 DEF Leave, BoundInv
<1>9. EventsInv'
  BY Zenon, <1>1 DEF Leave, EventsInv
<1>10. TimerInv'
  BY <1>1, <1>2 DEF Leave, TimerInv, InCall
<1>11. ClosingInv'
  BY <1>1, <1>2 DEF Leave, ClosingInv
<1>12. ReleaseInv'
  BY <1>1, <1>2 DEF Leave, ReleaseInv, InCall
<1>13. QED
  BY Zenon, <1>5, <1>6, <1>7, <1>8, <1>9, <1>10, <1>11, <1>12 DEF SocketInv

\* A wait is over: the operation goes on or ends.
LEMMA WokenStep ==
    ASSUME SocketInv, NEW c \in SocketCo, Woken(c)
    PROVE  SocketInv'
<1>1. /\ SocketTypeOK /\ PlainInv /\ StackInv /\ BoundInv
      /\ EventsInv /\ TimerInv /\ ClosingInv /\ ReleaseInv
  BY Zenon DEF SocketInv
<1>2. /\ \A x \in SocketCo : x # c => step[x] \notin Active
      /\ stack # <<>> /\ step[c] = "woken" /\ Runs(c, "woken")
  <2>1. Runs(c, "woken")
    BY Zenon DEF Woken
  <2>2. QED
    BY Zenon, <1>1, <2>1, OneRuns DEF Runs
<1>3. /\ call[c].dir \in Event /\ call[c].added = call[c].dir /\ bound[call[c].dir] = c
      /\ bound' = [bound EXCEPT ![call[c].dir] = NoOne] /\ want_event' = "NULL"
      /\ events' = events \ {call[c].dir}
  BY <1>1, <1>2 DEF Woken, PlainInv, BoundInv, SocketTypeOK, Call
<1>4. stale' = (stale \/ (IF call[c].dir = "READ" THEN "IN" ELSE "OUT") \in revents)
  BY Zenon, <1>3 DEF Woken
<1>5. /\ UNCHANGED <<fd_open, close_wait, errCode, revents, event_hup, stack, calls>>
      /\ UNCHANGED <<released, nobody>>
  BY Zenon DEF Woken
<1>6. \/ /\ step' = [step EXCEPT ![c] = "try"] /\ fd_open /\ errCode = "0"
         /\ co_timer' = co_timer /\ call' = call /\ owes' = owes
      \/ /\ step' = [step EXCEPT ![c] = "user"] /\ call' = [call EXCEPT ![c] = NoCall]
         /\ co_timer' = [co_timer EXCEPT ![call[c].dir] = "none"]
         /\ owes' = IF close_wait THEN owes \cup {c} ELSE owes
  BY DEF Woken, EndCall
<1>7. NoCall \in Call /\ NoCall.dir = NoCall.added
  BY Zenon DEF NoCall, Call, Event, Kind
<1>8. /\ call' \in [SocketCo -> Call] /\ call'[c] \in {call[c], NoCall}
      /\ \A x \in SocketCo : x # c => step'[x] = step[x] /\ call'[x] = call[x]
  BY <1>1, <1>6, <1>7 DEF SocketTypeOK
<1>9. SocketTypeOK'
  <2>1. co_timer' \in [Event -> {"none", "set", "never"}] /\ owes' \subseteq SocketCo
    BY Zenon, <1>1, <1>6 DEF SocketTypeOK
  <2>2. /\ bound' \in [Event -> SocketCo \cup {NoOne}] /\ events' \subseteq Event
        /\ stale' \in BOOLEAN
    BY Zenon, <1>1, <1>3, <1>4 DEF SocketTypeOK
  <2>3. step' \in [SocketCo -> {"asleep", "user", "try", "wait", "woken", "cancelled",
                                "close_read", "close_end", "done"}]
    BY Zenon, <1>1, <1>6 DEF SocketTypeOK
  <2>4. QED
    BY Zenon, <1>1, <1>3, <1>5, <1>8, <2>1, <2>2, <2>3 DEF SocketTypeOK
<1>10. PlainInv'
  BY Zenon, <1>1, <1>3, <1>7, <1>8 DEF PlainInv
<1>11. StackInv'
  <2>1. PICK t \in {"user", "try"} : step' = [step EXCEPT ![c] = t]
    BY Zenon, <1>6
  <2>2. QED
    BY <1>1, <1>2, <1>5, <2>1, StackKept DEF Active
<1>12. BoundInv'
  BY <1>1, <1>3, <1>6, <1>7 DEF Event, BoundInv, SocketTypeOK, NoCall, Active, Nested
<1>13. EventsInv'
  <2>1. \A e \in Event : e \in events' <=> bound'[e] # NoOne
    BY <1>1, <1>3 DEF EventsInv, SocketTypeOK
  <2>2. ~stale' => /\ "IN" \in revents' => "READ" \in events'
                   /\ "OUT" \in revents' => "WRITE" \in events'
    BY <1>1, <1>3, <1>4, <1>5 DEF EventsInv, Event
  <2>3. nobody' => stale'
    BY <1>1, <1>4, <1>5 DEF EventsInv, SocketTypeOK
  <2>4. QED
    BY Zenon, <2>1, <2>2, <2>3 DEF EventsInv
<1>14. TimerInv'
  <2>1. \A x \in SocketCo : x # c /\ step[x] \in {"wait", "woken"} => call[x].dir # call[c].dir
    BY Zenon, <1>1, <1>3 DEF BoundInv
  <2>2. \A x \in SocketCo : x # c => (InCall(x)' <=> InCall(x))
    BY Zenon, <1>8 DEF InCall
  <2>3. \A x \in SocketCo : x # c /\ step[x] = "wait" => call[x].dir \in Event
    BY Zenon, <1>1 DEF SocketTypeOK, Call
  <2>4. CASE step' = [step EXCEPT ![c] = "try"] /\ co_timer' = co_timer /\ call' = call
    <3>1. InCall(c)' /\ step'[c] = "try"
      BY Zenon, <1>1, <2>4 DEF InCall, SocketTypeOK
    <3>2. QED
      BY <1>1, <1>8, <2>2, <2>4, <3>1 DEF TimerInv
  <2>5. CASE /\ step' = [step EXCEPT ![c] = "user"]
             /\ co_timer' = [co_timer EXCEPT ![call[c].dir] = "none"]
    <3>1. \A e \in Event : co_timer'[e] = IF e = call[c].dir THEN "none" ELSE co_timer[e]
      BY Zenon, <1>1, <2>5 DEF SocketTypeOK
    <3>2. step'[c] = "user"
      BY Zenon, <1>1, <2>5 DEF SocketTypeOK
    <3>3. ASSUME NEW e \in Event, co_timer'[e] # "none"
          PROVE  \E x \in SocketCo : InCall(x)' /\ call'[x].dir = e
      <4>1. PICK x \in SocketCo : InCall(x) /\ call[x].dir = e
        BY Zenon, <1>1, <3>1, <3>3 DEF TimerInv
      <4>2. x # c
        BY Zenon, <3>1, <3>3, <4>1
      <4>3. QED
        BY Zenon, <1>8, <2>2, <4>1, <4>2
    <3>4. ASSUME NEW x \in SocketCo, step'[x] = "wait"
          PROVE  co_timer'[call'[x].dir] # "none"
      <4>1. x # c
        BY Zenon, <3>2, <3>4
      <4>2. step[x] = "wait" /\ call'[x] = call[x]
        BY Zenon, <1>8, <3>4, <4>1
      <4>3. call[x].dir # call[c].dir /\ call[x].dir \in Event
        BY Zenon, <2>1, <2>3, <4>1, <4>2
      <4>4. co_timer[call[x].dir] # "none"
        BY Zenon, <1>1, <4>2 DEF TimerInv
      <4>5. co_timer'[call[x].dir] = co_timer[call[x].dir]
        BY Zenon, <3>1, <4>3
      <4>6. QED
        BY Zenon, <4>2, <4>4, <4>5
    <3>5. QED
      BY Zenon, <3>3, <3>4 DEF TimerInv
  <2>6. QED
    BY Zenon, <1>6, <2>4, <2>5
<1>15. ClosingInv'
  BY <1>1, <1>2, <1>3, <1>5, <1>6 DEF Event, ClosingInv, BoundInv, SocketTypeOK
<1>16. ReleaseInv'
  BY <1>1, <1>5, <1>6 DEF ReleaseInv, InCall, SocketTypeOK
<1>17. QED
  BY Zenon, <1>9, <1>10, <1>11, <1>12, <1>13, <1>14, <1>15, <1>16 DEF SocketInv

\* cancel() resumes the waiting coroutine.
LEMMA CancelStep ==
    ASSUME SocketInv, NEW c \in SocketCo, NEW d \in Event, Cancel(c, d)
    PROVE  SocketInv'
<1>1. /\ SocketTypeOK /\ PlainInv /\ StackInv /\ BoundInv
      /\ EventsInv /\ TimerInv /\ ClosingInv /\ ReleaseInv
  BY Zenon DEF SocketInv
<1>2. /\ \A x \in SocketCo : x # c => step[x] \notin Active
      /\ stack # <<>> /\ step[c] = "user" /\ Runs(c, "user")
  <2>1. Runs(c, "user")
    BY Zenon DEF Cancel
  <2>2. QED
    BY Zenon, <1>1, <2>1, OneRuns DEF Runs
<1>3. /\ bound[d] \in SocketCo /\ step[bound[d]] = "wait" /\ call[bound[d]].dir = d
      /\ bound[d] # c
      /\ \A x \in SocketCo : step'[x] = IF x = bound[d] THEN "woken"
                                        ELSE IF x = c THEN "cancelled" ELSE step[x]
      /\ step' \in [SocketCo -> Steps] /\ StackInv' /\ stack' \in Seq(SocketCo)
      /\ nobody' = nobody /\ CallsGoOn
  <2>1. bound[d] # NoOne /\ ResumeBound(d, [step EXCEPT ![c] = "cancelled"]) /\ d \in Event
    BY DEF Cancel, has_bound, Count, Event
  <2>2. QED
    BY <1>2, <2>1, CallResumes DEF Nested
<1>4. SocketTypeOK'
  BY <1>1, <1>3, SocketAssumption DEF Cancel, Count, SocketTypeOK
<1>5. PlainInv'
  BY Zenon, <1>1 DEF Cancel, PlainInv
<1>6. StackInv'
  BY Zenon, <1>3
<1>7. BoundInv'
  BY <1>1, <1>2, <1>3 DEF Cancel, BoundInv, SocketTypeOK, Event
<1>8. EventsInv'
  BY Zenon, <1>1, <1>3 DEF Cancel, EventsInv
<1>9. TimerInv'
  BY <1>1, <1>2, <1>3 DEF Cancel, TimerInv, InCall, Event
<1>10. ClosingInv'
  <2>1. UNCHANGED <<close_wait, bound>> /\ errCode' = "ECANCELED"
    BY Zenon DEF Cancel
  <2>2. SUFFICES ASSUME close_wait PROVE ClosingInv'
    BY Zenon, <2>1 DEF ClosingInv
  <2>3. bound["WRITE"] = NoOne
    BY Zenon, <1>1, <1>2, <2>2 DEF ClosingInv, SocketTypeOK, Event, Active
  <2>4. d = "READ" /\ step'[bound["READ"]] = "woken"
    BY Zenon, <1>3, <2>3, SocketAssumption DEF Event
  <2>5. QED
    BY Zenon, <1>1, <1>3, <2>1, <2>3, <2>4 DEF ClosingInv
<1>11. ReleaseInv'
  <2>1. UNCHANGED <<fd_open, close_wait, owes, released>>
    BY Zenon DEF Cancel, has_bound, Count
  <2>2. \A x \in owes : step'[x] # "done"
    BY <1>1, <1>3 DEF ReleaseInv, CallsGoOn, SocketTypeOK
  <2>3. QED
    BY Zenon, <1>1, <1>3, <2>1, <2>2 DEF ReleaseInv, CallsGoOn
<1>12. QED
  BY Zenon, <1>4, <1>5, <1>6, <1>7, <1>8, <1>9, <1>10, <1>11 DEF SocketInv

\* close() resumes the reader.
LEMMA CloseReadWakes ==
    ASSUME SocketInv, NEW c \in SocketCo, bound["READ"] # NoOne, CloseRead(c)
    PROVE  SocketInv'
<1>1. /\ SocketTypeOK /\ PlainInv /\ StackInv /\ BoundInv
      /\ EventsInv /\ TimerInv /\ ClosingInv /\ ReleaseInv
  BY Zenon DEF SocketInv
<1>2. /\ \A x \in SocketCo : x # c => step[x] \notin Active
      /\ stack # <<>> /\ step[c] = "close_read" /\ Runs(c, "close_read")
  <2>1. Runs(c, "close_read")
    BY Zenon DEF CloseRead
  <2>2. QED
    BY Zenon, <1>1, <2>1, OneRuns DEF Runs
<1>3. /\ bound["READ"] \in SocketCo /\ step[bound["READ"]] = "wait" /\ call[bound["READ"]].dir = "READ"
      /\ bound["READ"] # c
      /\ \A x \in SocketCo : step'[x] = IF x = bound["READ"] THEN "woken"
                                        ELSE IF x = c THEN "close_end" ELSE step[x]
      /\ step' \in [SocketCo -> Steps] /\ StackInv' /\ stack' \in Seq(SocketCo)
      /\ nobody' = nobody /\ CallsGoOn
  <2>1. bound["READ"] # NoOne /\ ResumeBound("READ", [step EXCEPT ![c] = "close_end"]) /\ "READ" \in Event
    BY DEF CloseRead, has_bound, Event
  <2>2. QED
    BY <1>2, <2>1, CallResumes DEF Nested
<1>4. SocketTypeOK'
  BY <1>1, <1>3 DEF CloseRead, SocketTypeOK
<1>5. PlainInv'
  BY <1>1 DEF CloseRead, PlainInv
<1>6. StackInv'
  BY Zenon, <1>3
<1>7. BoundInv'
  BY <1>1, <1>2, <1>3 DEF CloseRead, has_bound, BoundInv, SocketTypeOK, Event
<1>8. EventsInv'
  BY Zenon, <1>1, <1>3 DEF CloseRead, EventsInv
<1>9. TimerInv'
  BY <1>1, <1>2, <1>3 DEF CloseRead, TimerInv, InCall, Event, Active
<1>10. ClosingInv'
  <2>1. UNCHANGED <<close_wait, bound>> /\ errCode' = "ECANCELED"
    BY Zenon DEF CloseRead, has_bound
  <2>2. SUFFICES ASSUME close_wait PROVE ClosingInv'
    BY Zenon, <2>1 DEF ClosingInv
  <2>3. bound["WRITE"] = NoOne
    BY Zenon, <1>1, <1>2, <2>2 DEF ClosingInv, SocketTypeOK, Event, Active
  <2>4. step'[bound["READ"]] = "woken"
    BY Zenon, <1>3
  <2>5. QED
    BY Zenon, <1>1, <1>3, <2>1, <2>3 DEF ClosingInv
<1>11. ReleaseInv'
  <2>1. UNCHANGED <<fd_open, close_wait, owes, released>>
    BY Zenon DEF CloseRead, has_bound
  <2>2. \A x \in owes : step'[x] # "done"
    BY <1>1, <1>3 DEF ReleaseInv, CallsGoOn, SocketTypeOK
  <2>3. QED
    BY Zenon, <1>1, <1>3, <2>1, <2>2 DEF ReleaseInv, CallsGoOn
<1>12. QED
  BY Zenon, <1>4, <1>5, <1>6, <1>7, <1>8, <1>9, <1>10, <1>11 DEF SocketInv

\* close() finds no reader.
LEMMA CloseReadEnds ==
    ASSUME SocketInv, NEW c \in SocketCo, bound["READ"] = NoOne, CloseRead(c)
    PROVE  SocketInv'
<1>1. /\ SocketTypeOK /\ PlainInv /\ StackInv /\ BoundInv
      /\ EventsInv /\ TimerInv /\ ClosingInv /\ ReleaseInv
  BY Zenon DEF SocketInv
<1>2. /\ \A x \in SocketCo : x # c => step[x] \notin Active
      /\ stack # <<>> /\ step[c] = "close_read"
      /\ Runs(c, "close_read")
  <2>1. Runs(c, "close_read")
    BY Zenon DEF CloseRead, has_bound
  <2>2. QED
    BY Zenon, <1>1, <2>1, OneRuns, <2>1 DEF Runs
<1>3. /\ step' = [step EXCEPT ![c] = "close_end"]
      /\ \A x \in SocketCo : step'[x] = IF x = c THEN "close_end" ELSE step[x]
  BY Zenon, <1>1 DEF CloseRead, has_bound, SocketTypeOK
<1>4. SocketTypeOK'
  BY <1>1 DEF CloseRead, has_bound, SocketTypeOK
<1>5. PlainInv'
  BY Zenon, <1>1 DEF CloseRead, PlainInv
<1>6. StackInv'
  BY Zenon, <1>1, StackKept DEF CloseRead, has_bound, Active, Nested
<1>7. BoundInv'
  BY <1>1, <1>2, <1>3, BoundKept DEF CloseRead, InCall
<1>8. EventsInv'
  BY Zenon, <1>1 DEF CloseRead, has_bound, EventsInv
<1>9. TimerInv'
  BY <1>1, <1>2, <1>3 DEF CloseRead, TimerInv, InCall
<1>10. ClosingInv'
  BY <1>1, <1>2, <1>3 DEF CloseRead, ClosingInv
<1>11. ReleaseInv'
  BY <1>1, <1>2, <1>3 DEF CloseRead, ReleaseInv, InCall
<1>12. QED
  BY Zenon, <1>4, <1>5, <1>6, <1>7, <1>8, <1>9, <1>10, <1>11 DEF SocketInv

\* close() finds a writer and resumes it.
LEMMA CloseWakes ==
    ASSUME SocketInv, NEW c \in SocketCo, fd_open, bound["WRITE"] # NoOne, Close(c)
    PROVE  SocketInv'
<1>1. /\ SocketTypeOK /\ PlainInv /\ StackInv /\ BoundInv
      /\ EventsInv /\ TimerInv /\ ClosingInv /\ ReleaseInv
  BY Zenon DEF SocketInv
<1>2. /\ \A x \in SocketCo : x # c => step[x] \notin Active
      /\ stack # <<>> /\ step[c] = "user" /\ Runs(c, "user")
  <2>1. Runs(c, "user")
    BY Zenon DEF Close
  <2>2. QED
    BY Zenon, <1>1, <2>1, OneRuns DEF Runs
<1>3. /\ bound["WRITE"] \in SocketCo /\ step[bound["WRITE"]] = "wait" /\ call[bound["WRITE"]].dir = "WRITE"
      /\ bound["WRITE"] # c
      /\ \A x \in SocketCo : step'[x] = IF x = bound["WRITE"] THEN "woken"
                                        ELSE IF x = c THEN "close_read" ELSE step[x]
      /\ step' \in [SocketCo -> Steps] /\ StackInv' /\ stack' \in Seq(SocketCo)
      /\ nobody' = nobody /\ CallsGoOn
  <2>1. bound["WRITE"] # NoOne /\ ResumeBound("WRITE", [step EXCEPT ![c] = "close_read"]) /\ "WRITE" \in Event
    BY DEF Close, has_bound, Event
  <2>2. QED
    BY <1>2, <2>1, CallResumes DEF Nested
<1>4. SocketTypeOK'
  BY <1>1, <1>3 DEF Close, has_bound, SocketTypeOK, Event
<1>5. PlainInv'
  BY <1>1 DEF Close, PlainInv
<1>6. StackInv'
  BY Zenon, <1>3
<1>7. BoundInv'
  BY <1>1, <1>2, <1>3 DEF Close, has_bound, BoundInv, SocketTypeOK, Event
<1>8. EventsInv'
  BY Zenon, <1>1, <1>3 DEF Close, EventsInv
<1>9. TimerInv'
  BY <1>1, <1>2, <1>3 DEF Close, TimerInv, InCall, Event
<1>10. ClosingInv'
  <2>1. UNCHANGED bound /\ errCode' = "ECANCELED"
    BY Zenon DEF Close, has_bound, Event
  <2>2. step'[c] = "close_read" /\ step'[bound["WRITE"]] = "woken"
    BY Zenon, <1>3
  <2>3. \A x \in SocketCo : step'[x] # "try"
    BY Zenon, <1>2, <1>3 DEF CallsGoOn, Active
  <2>4. QED
    BY Zenon, <2>1, <2>2, <2>3 DEF ClosingInv
<1>11. ReleaseInv'
  <2>1. UNCHANGED <<fd_open, released>> /\ owes' = owes \ {c}
    BY Zenon DEF Close, has_bound, Event
  <2>2. \A x \in owes : step'[x] # "done"
    BY <1>1, <1>3 DEF ReleaseInv, CallsGoOn, SocketTypeOK
  <2>3. \E x \in SocketCo : InCall(x)'
    BY Zenon, <1>3 DEF CallsGoOn, InCall
  <2>4. QED
    BY Zenon, <1>1, <2>1, <2>2, <2>3 DEF ReleaseInv
<1>12. QED
  BY Zenon, <1>4, <1>5, <1>6, <1>7, <1>8, <1>9, <1>10, <1>11 DEF SocketInv

\* close() finds a reader only.
LEMMA CloseGoesOn ==
    ASSUME SocketInv, NEW c \in SocketCo, fd_open, bound["WRITE"] = NoOne, bound["READ"] # NoOne, Close(c)
    PROVE  SocketInv'
<1>1. /\ SocketTypeOK /\ PlainInv /\ StackInv /\ BoundInv
      /\ EventsInv /\ TimerInv /\ ClosingInv /\ ReleaseInv
  BY Zenon DEF SocketInv
<1>2. /\ \A x \in SocketCo : x # c => step[x] \notin Active
      /\ stack # <<>> /\ step[c] = "user"
      /\ Runs(c, "user")
  <2>1. Runs(c, "user")
    BY Zenon DEF Close, has_bound, Event
  <2>2. QED
    BY Zenon, <1>1, <2>1, OneRuns, <2>1 DEF Runs
<1>3. /\ step' = [step EXCEPT ![c] = "close_read"]
      /\ \A x \in SocketCo : step'[x] = IF x = c THEN "close_read" ELSE step[x]
  BY Zenon, <1>1 DEF Close, has_bound, Event, SocketTypeOK
<1>4. SocketTypeOK'
  BY <1>1 DEF Close, has_bound, Event, SocketTypeOK
<1>5. PlainInv'
  BY Zenon, <1>1 DEF Close, PlainInv
<1>6. StackInv'
  BY Zenon, <1>1, StackKept DEF Close, has_bound, Event, Active, Nested
<1>7. BoundInv'
  BY <1>1, <1>2, <1>3 DEF Close, BoundInv
<1>8. EventsInv'
  BY Zenon, <1>1 DEF Close, has_bound, Event, EventsInv
<1>9. TimerInv'
  BY <1>1, <1>2, <1>3 DEF Close, TimerInv, InCall
<1>10. ClosingInv'
  BY <1>2, <1>3 DEF Close, ClosingInv, Active
<1>11. ReleaseInv'
  BY <1>1, <1>2 DEF Close, has_bound, Event, ReleaseInv, BoundInv, InCall, SocketTypeOK
<1>12. QED
  BY Zenon, <1>4, <1>5, <1>6, <1>7, <1>8, <1>9, <1>10, <1>11 DEF SocketInv

\* close() finds nobody: it releases the socket, or finds it released.
LEMMA CloseEnds ==
    ASSUME SocketInv, NEW c \in SocketCo, ~fd_open \/ \A d \in Event : bound[d] = NoOne, Close(c)
    PROVE  SocketInv'
<1>1. /\ SocketTypeOK /\ PlainInv /\ StackInv /\ BoundInv
      /\ EventsInv /\ TimerInv /\ ClosingInv /\ ReleaseInv
  BY DEF SocketInv
<1>2. /\ \A x \in SocketCo : x # c => step[x] \notin Active
      /\ stack # <<>> /\ step[c] = "user" /\ Runs(c, "user")
  <2>1. Runs(c, "user")
    BY Zenon DEF Close
  <2>2. QED
    BY <1>1, <2>1, OneRuns DEF Runs
<1>3. /\ step' = step /\ stack' = stack /\ owes' = owes \ {c} /\ close_wait' = close_wait
      /\ nobody' = nobody /\ fd_open' = FALSE /\ errCode' \in {errCode, "EBADF"}
      /\ released' = IF fd_open THEN released + 1 ELSE released
      /\ UNCHANGED <<events, bound, want_event, co_timer, revents, event_hup, call, calls, stale>>
  BY <1>1 DEF Close, has_bound, SocketTypeOK
<1>4. \A x \in SocketCo : ~InCall(x)
  <2>1. CASE ~fd_open
    BY Zenon, <1>1, <2>1 DEF ReleaseInv
  <2>2. CASE \A d \in Event : bound[d] = NoOne
    BY <1>1, <1>2, <2>2, SocketAssumption DEF BoundInv, InCall, SocketTypeOK, Call, Active
  <2>3. QED
    BY Zenon, <2>1, <2>2
<1>5. SocketTypeOK'
  <2>1. released' \in Nat
    BY <1>1, <1>3 DEF SocketTypeOK
  <2>2. errCode' \in {"0", "ETIMEDOUT", "ECANCELED", "CLOSE_WAIT", "EBADF"}
    BY Zenon, <1>1, <1>3 DEF SocketTypeOK
  <2>3. fd_open' \in BOOLEAN /\ close_wait' \in BOOLEAN /\ nobody' \in BOOLEAN
    BY <1>1, <1>3 DEF SocketTypeOK
  <2>4. owes' \subseteq SocketCo
    BY Zenon, <1>1, <1>3 DEF SocketTypeOK
  <2>5. QED
    BY <1>1, <1>3, <2>3 DEF SocketTypeOK
<1>6. PlainInv'
  BY Zenon, <1>1, <1>3 DEF PlainInv
<1>7. StackInv'
  BY <1>1, <1>3 DEF StackInv
<1>8. BoundInv'
  BY <1>1, <1>3 DEF BoundInv
<1>9. EventsInv'
  BY Zenon, <1>1, <1>3 DEF EventsInv
<1>10. TimerInv'
  BY Zenon, <1>1, <1>3, <1>4 DEF TimerInv
<1>11. ClosingInv'
  BY Zenon, <1>1, <1>3 DEF ClosingInv
<1>12. ReleaseInv'
  BY <1>1, <1>3, <1>4 DEF InCall, ReleaseInv
<1>13. QED
  BY Zenon, <1>5, <1>6, <1>7, <1>8, <1>9, <1>10, <1>11, <1>12 DEF SocketInv

\* The event loop wakes the coroutine that waits in direction d.
LEMMA LoopWakes ==
    ASSUME SocketInv, NEW d \in Event, stack = <<>>, bound[d] # NoOne, ResumeBound(d, step),
           errCode' \in {"0", "ETIMEDOUT"}, revents' \subseteq {"IN", "OUT", "ERR", "ERR2"},
           \A r \in {"IN", "OUT"} : r \in revents' => r \in revents,
           co_timer' \in {co_timer, [co_timer EXCEPT ![d] = "none"]},
           UNCHANGED <<fd_open, close_wait, events, bound, want_event, event_hup, call,
                       calls, owes, released, stale>>
    PROVE  SocketInv'
<1>1. /\ SocketTypeOK /\ PlainInv /\ StackInv /\ BoundInv
      /\ EventsInv /\ TimerInv /\ ClosingInv /\ ReleaseInv
  BY Zenon DEF SocketInv
<1>2. \A x \in SocketCo : step[x] \notin Active \cup Nested
  BY Zenon, <1>1, NoneRuns
<1>3. /\ bound[d] \in SocketCo /\ step[bound[d]] = "wait" /\ call[bound[d]].dir = d
      /\ \A x \in SocketCo : step'[x] = IF x = bound[d] THEN "woken" ELSE step[x]
      /\ step' \in [SocketCo -> Steps] /\ StackInv' /\ stack' \in Seq(SocketCo)
      /\ nobody' = nobody /\ CallsGoOn
  BY Zenon, LoopResumes
<1>4. ~close_wait
  BY Zenon, <1>1, <1>2, <1>3 DEF ClosingInv, Nested, Event
<1>5. SocketTypeOK'
  BY <1>1, <1>3 DEF SocketTypeOK, Steps, Active, Nested
<1>6. PlainInv'
  BY Zenon, <1>1 DEF PlainInv
<1>7. StackInv'
  BY Zenon, <1>3
<1>8. BoundInv'
  BY <1>1, <1>3 DEF BoundInv, SocketTypeOK
<1>9. EventsInv'
  BY Zenon, <1>1, <1>3 DEF EventsInv
<1>10. TimerInv'
  <2>1. \A x \in SocketCo : x # bound[d] /\ step[x] = "wait" =>
            call[x].dir # d /\ call[x].dir \in Event
    BY Zenon, <1>1 DEF BoundInv, SocketTypeOK, Call
  <2>2. \A e \in Event : co_timer'[e] = co_timer[e] \/ (e = d /\ co_timer'[e] = "none")
    BY Zenon, <1>1 DEF SocketTypeOK
  <2>3. \A e \in Event : co_timer'[e] # "none" =>
            \E x \in SocketCo : InCall(x)' /\ call'[x].dir = e
    BY <1>1, <1>3, <2>2 DEF TimerInv, CallsGoOn
  <2>4. \A x \in SocketCo : step'[x] = "wait" => co_timer'[call'[x].dir] # "none"
    BY <1>1, <1>3, <2>1, <2>2 DEF TimerInv
  <2>5. QED
    BY Zenon, <2>3, <2>4 DEF TimerInv
<1>11. ClosingInv'
  BY Zenon, <1>4 DEF ClosingInv
<1>12. ReleaseInv'
  BY <1>1, <1>3, <1>4 DEF ReleaseInv, CallsGoOn, SocketTypeOK
<1>13. QED
  BY Zenon, <1>5, <1>6, <1>7, <1>8, <1>9, <1>10, <1>11, <1>12 DEF SocketInv

\* The event loop has an event that wakes nobody.
LEMMA LoopIdles ==
    ASSUME SocketInv, stack = <<>>, UNCHANGED <<stack, step>>, errCode' \in {errCode, "0"},
           revents' \subseteq {"IN", "OUT", "ERR", "ERR2"}, event_hup' \in BOOLEAN,
           nobody' \in BOOLEAN, stale' \in BOOLEAN, nobody' => stale',
           ~stale' => /\ "IN" \in revents' => "READ" \in events
                      /\ "OUT" \in revents' => "WRITE" \in events,
           UNCHANGED <<fd_open, close_wait, events, bound, want_event, co_timer, call,
                       calls, owes, released>>
    PROVE  SocketInv'
<1>1. /\ SocketTypeOK /\ PlainInv /\ StackInv /\ BoundInv
      /\ EventsInv /\ TimerInv /\ ClosingInv /\ ReleaseInv
  BY Zenon DEF SocketInv
<1>2. \A x \in SocketCo : step[x] \notin Active \cup Nested
  BY Zenon, <1>1, NoneRuns
<1>3. SocketTypeOK'
  BY Zenon, <1>1 DEF SocketTypeOK
<1>4. PlainInv'
  BY Zenon, <1>1 DEF PlainInv
<1>5. StackInv'
  BY <1>1 DEF StackInv
<1>6. BoundInv'
  BY Zenon, <1>1 DEF BoundInv
<1>7. EventsInv'
  BY Zenon, <1>1 DEF EventsInv
<1>8. TimerInv'
  BY Zenon, <1>1 DEF TimerInv, InCall
<1>9. ClosingInv'
  BY Zenon, <1>1, <1>2 DEF ClosingInv, Active
<1>10. ReleaseInv'
  BY Zenon, <1>1 DEF ReleaseInv, InCall
<1>11. QED
  BY Zenon, <1>3, <1>4, <1>5, <1>6, <1>7, <1>8, <1>9, <1>10 DEF SocketInv

\* A coroutine that is in no operation is resumed.
LEMMA WakeUpStep ==
    ASSUME SocketInv, NEW c \in SocketCo, WakeUp(c)
    PROVE  SocketInv'
<1>1. /\ SocketTypeOK /\ PlainInv /\ StackInv /\ BoundInv
      /\ EventsInv /\ TimerInv /\ ClosingInv /\ ReleaseInv
  BY Zenon DEF SocketInv
<1>2. stack = <<>> /\ step[c] = "asleep"
  BY Zenon DEF WakeUp, InLoop
<1>3. \A x \in SocketCo : step[x] \notin Active \cup Nested
  BY Zenon, <1>1, <1>2, NoneRuns
<1>4. /\ step' = [step EXCEPT ![c] = "user"]
      /\ \A x \in SocketCo : step'[x] = IF x = c THEN "user" ELSE step[x]
      /\ UNCHANGED <<fd_open, close_wait, events, bound, want_event, co_timer, errCode>>
      /\ UNCHANGED <<revents, event_hup, call, calls, owes, released, nobody, stale>>
  BY Zenon, <1>1 DEF WakeUp, SocketTypeOK
<1>5. StackInv' /\ stack' \in Seq(SocketCo)
  <2>1. stack' = Append(stack, c) /\ Len(stack) = 0
    BY <1>2 DEF WakeUp
  <2>2. step \in [SocketCo -> Steps] /\ \A i \in 1..Len(stack) : step[stack[i]] \in Nested
    BY <1>1, <2>1 DEF SocketTypeOK, Steps, Active, Nested
  <2>3. QED
    BY <1>1, <1>2, <1>4, <2>1, <2>2, StackPushed
<1>6. SocketTypeOK'
  BY <1>1, <1>4, <1>5 DEF SocketTypeOK
<1>7. PlainInv'
  BY <1>1, <1>4 DEF PlainInv
<1>8. StackInv'
  BY Zenon, <1>5
<1>9. BoundInv'
  BY <1>1, <1>2, <1>4, BoundKept DEF InCall
<1>10. EventsInv'
  BY Zenon, <1>1, <1>4 DEF EventsInv
<1>11. TimerInv'
  BY <1>1, <1>2, <1>4 DEF TimerInv, InCall
<1>12. ClosingInv'
  BY <1>1, <1>2, <1>4 DEF ClosingInv
<1>13. ReleaseInv'
  BY <1>1, <1>2, <1>4 DEF ReleaseInv, InCall
<1>14. QED
  BY Zenon, <1>6, <1>7, <1>8, <1>9, <1>10, <1>11, <1>12, <1>13 DEF SocketInv

\* The actions of the event loop.
LEMMA EventLoopSteps ==
    ASSUME SocketInv,
           \/ \E rs \in SUBSET {"IN", "OUT", "ERR"}, hup \in BOOLEAN : EpollWait(rs, hup)
           \/ \E d \in Event, swallow \in BOOLEAN : Dispatch(d, swallow)
           \/ DispatchError
           \/ \E d \in Event : TimerCallback(d)
    PROVE  SocketInv'
<1>1. SocketTypeOK /\ PlainInv /\ StackInv /\ BoundInv /\ EventsInv /\ TimerInv
  BY Zenon DEF SocketInv
<1>2. ASSUME NEW rs \in SUBSET {"IN", "OUT", "ERR"}, NEW hup \in BOOLEAN, EpollWait(rs, hup)
      PROVE  SocketInv'
  <2>1. /\ stack = <<>> /\ ~nobody /\ revents' = rs /\ stale' = FALSE /\ nobody' = nobody
        /\ "IN" \in rs => "READ" \in events
        /\ "OUT" \in rs => "WRITE" \in events
        /\ event_hup' \in BOOLEAN
    BY Zenon, <1>1, <1>2 DEF EpollWait, InLoop, SocketTypeOK
  <2>2. /\ UNCHANGED <<stack, step, errCode>>
        /\ UNCHANGED <<fd_open, close_wait, events, bound, want_event, co_timer, call,
                       calls, owes, released>>
    BY Zenon, <1>2 DEF EpollWait
  <2>3. /\ nobody' \in BOOLEAN /\ stale' \in BOOLEAN /\ (nobody' => stale')
        /\ revents' \subseteq {"IN", "OUT", "ERR", "ERR2"}
        /\ ~stale' => /\ "IN" \in revents' => "READ" \in events
                      /\ "OUT" \in revents' => "WRITE" \in events
    BY <1>1, <2>1 DEF SocketTypeOK
  <2>4. errCode' \in {errCode, "0"}
    BY <2>2
  <2>5. QED
    BY Zenon, <2>1, <2>2, <2>3, <2>4, LoopIdles
<1>3. ASSUME NEW d \in Event, NEW swallow \in BOOLEAN, Dispatch(d, swallow) PROVE SocketInv'
  <2>1. /\ stack = <<>> /\ ~nobody /\ revents' \subseteq revents
        /\ (IF d = "READ" THEN "IN" ELSE "OUT") \in revents
        /\ UNCHANGED <<fd_open, close_wait, events, bound, want_event, co_timer, event_hup,
                       call, calls, owes, released, stale>>
        /\ errCode' = IF removed THEN errCode ELSE "0"
    BY <1>3 DEF Dispatch, InLoop
  <2>2. \/ UNCHANGED <<stack, step, nobody>>
        \/ ~removed /\ ResumeBound(d, step)
    BY <1>1, <1>3 DEF Dispatch, PlainInv, Event, Other
  <2>3. ~stale => /\ "IN" \in revents' => "READ" \in events
                  /\ "OUT" \in revents' => "WRITE" \in events
    BY <1>1, <2>1 DEF EventsInv
  <2>4. revents' \subseteq {"IN", "OUT", "ERR", "ERR2"} /\ event_hup \in BOOLEAN /\ stale \in BOOLEAN
    BY <1>1, <2>1 DEF SocketTypeOK
  <2>5. CASE UNCHANGED <<stack, step, nobody>>
    <3>1. /\ nobody' \in BOOLEAN /\ stale' \in BOOLEAN /\ (nobody' => stale')
          /\ event_hup' \in BOOLEAN /\ errCode' \in {errCode, "0"}
      BY <1>1, <2>1, <2>4, <2>5 DEF SocketTypeOK
    <3>2. ~stale' => /\ "IN" \in revents' => "READ" \in events
                     /\ "OUT" \in revents' => "WRITE" \in events
      BY Zenon, <2>1, <2>3
    <3>3. QED
      BY <2>1, <2>4, <2>5, <3>1, <3>2, LoopIdles
  <2>6. CASE ~removed /\ bound[d] # NoOne /\ ResumeBound(d, step)
    BY Zenon, <2>1, <2>4, <2>6, LoopWakes
  <2>7. CASE bound[d] = NoOne /\ ResumeBound(d, step)
    <3>1. stale
      BY Zenon, <1>1, <2>1, <2>7 DEF EventsInv, Event, SocketTypeOK
    <3>2. nobody' = TRUE /\ step' = step /\ stack' = stack
      BY Zenon, <2>7 DEF ResumeBound
    <3>3. QED
      BY Zenon, <2>1, <2>4, <3>1, <3>2, LoopIdles
  <2>8. QED
    BY <2>2, <2>5, <2>6, <2>7
<1>4. ASSUME DispatchError PROVE SocketInv'
  <2>1. /\ stack = <<>> /\ ~nobody /\ revents' \subseteq {"ERR2"}
        /\ UNCHANGED <<fd_open, close_wait, events, bound, want_event, co_timer, event_hup,
                       call, calls, owes, released, stale>>
    BY Zenon, <1>4 DEF DispatchError, InLoop
  <2>2. \/ UNCHANGED <<errCode, stack, step, nobody>>
        \/ \E d \in Event : bound[d] # NoOne /\ errCode' = "0" /\ ResumeBound(d, step)
    BY Zenon, <1>4 DEF DispatchError, has_bound, Event
  <2>3. event_hup \in BOOLEAN /\ stale \in BOOLEAN
    BY Zenon, <1>1 DEF SocketTypeOK
  <2>4. CASE UNCHANGED <<errCode, stack, step, nobody>>
    <3>1. /\ nobody' \in BOOLEAN /\ stale' \in BOOLEAN /\ (nobody' => stale')
          /\ event_hup' \in BOOLEAN /\ errCode' \in {errCode, "0"}
          /\ revents' \subseteq {"IN", "OUT", "ERR", "ERR2"}
      BY Zenon, <1>1, <2>1, <2>3, <2>4 DEF SocketTypeOK
    <3>2. "IN" \notin revents' /\ "OUT" \notin revents'
      BY Zenon, <2>1
    <3>3. QED
      BY Zenon, <2>1, <2>4, <3>1, <3>2, LoopIdles
  <2>5. ASSUME NEW d \in Event, bound[d] # NoOne, errCode' = "0", ResumeBound(d, step)
        PROVE  SocketInv'
    BY Zenon, <2>1, <2>5, LoopWakes
  <2>6. QED
    BY Zenon, <2>2, <2>4, <2>5
<1>5. ASSUME NEW d \in Event, TimerCallback(d) PROVE SocketInv'
  <2>1. /\ stack = <<>> /\ co_timer[d] = "set" /\ ResumeBound(d, step)
        /\ errCode' = "ETIMEDOUT" /\ revents' = revents
        /\ co_timer' = [co_timer EXCEPT ![d] = "none"]
        /\ UNCHANGED <<fd_open, close_wait, events, bound, want_event, event_hup, call,
                       calls, owes, released, stale>>
    BY <1>5 DEF TimerCallback, InLoop
  <2>2. PICK x \in SocketCo : InCall(x) /\ call[x].dir = d
    BY <1>1, <2>1 DEF TimerInv
  <2>3. step[x] = "wait"
    BY <1>1, <2>1, <2>2, NoneRuns DEF InCall, Active
  <2>4. bound[d] # NoOne
    BY <1>1, <2>2, <2>3, SocketAssumption DEF BoundInv
  <2>5. revents' \subseteq {"IN", "OUT", "ERR", "ERR2"}
    BY Zenon, <1>1, <2>1 DEF SocketTypeOK
  <2>6. QED
    BY <2>1, <2>4, <2>5, LoopWakes
<1>6. QED
  BY <1>2, <1>3, <1>4, <1>5

-----------------------------------------------------------------------------
(* The theorems.                                                           *)

\* The invariant holds at first.
LEMMA SocketInvInit == SocketInit => SocketInv
<1> SUFFICES ASSUME SocketInit PROVE SocketInv
  BY Zenon
<1>1. SocketTypeOK
  <2>1. NoCall \in Call /\ 0 \in 0..MaxCalls /\ stack \in Seq(SocketCo)
    BY SocketAssumption DEF SocketInit, NoCall, Call, Event, Kind
  <2>2. /\ bound \in [Event -> SocketCo \cup {NoOne}]
        /\ co_timer \in [Event -> {"none", "set", "never"}]
        /\ call \in [SocketCo -> Call] /\ calls \in 0..MaxCalls
        /\ step \in [SocketCo -> {"asleep", "user", "try", "wait", "woken", "cancelled",
                                  "close_read", "close_end", "done"}]
    BY <2>1 DEF SocketInit
  <2>3. QED
    BY <2>1, <2>2 DEF SocketInit, SocketTypeOK
<1>2. Len(stack) = 0 /\ \A c \in SocketCo : step[c] = "asleep" /\ call[c] = NoCall
  BY DEF SocketInit
<1>3. StackInv
  BY <1>2 DEF StackInv, Active, Nested
<1>4. PlainInv /\ BoundInv /\ EventsInv
  BY <1>2 DEF SocketInit, PlainInv, BoundInv, EventsInv, NoCall
<1>5. TimerInv /\ ClosingInv /\ ReleaseInv
  BY <1>2 DEF SocketInit, TimerInv, ClosingInv, ReleaseInv
<1>6. QED
  BY <1>1, <1>3, <1>4, <1>5 DEF SocketInv

\* Every step keeps the invariant, without SSL.
LEMMA SocketInvStep ==
    ASSUME ~Ssl, SocketInv, [SocketNext]_socketVars
    PROVE  SocketInv'
<1>1. ASSUME NEW c \in SocketCo, Close(c) PROVE SocketInv'
  BY <1>1, CloseWakes, CloseGoesOn, CloseEnds DEF Event
<1>2. ASSUME NEW c \in SocketCo, CloseRead(c) PROVE SocketInv'
  BY <1>2, CloseReadWakes, CloseReadEnds
<1>3. ASSUME NEW c \in SocketCo, Goes(c) PROVE SocketInv'
  <2>1. ASSUME NEW d \in Event, NEW k \in Kind, Begin(c, d, k) PROVE SocketInv'
    BY <2>1, BeginStep
  <2>2. ASSUME NEW t \in {"set", "never"}, NEW e \in Event, WaitEvent(c, t, e) PROVE SocketInv'
    BY <2>2, WaitEventStep
  <2>3. ASSUME NEW d \in Event, Cancel(c, d) PROVE SocketInv'
    BY <2>3, CancelStep
  <2>4. ASSUME NEW s \in {"asleep", "done"}, Leave(c, s) PROVE SocketInv'
    BY <2>4, LeaveStep
  <2>5. ASSUME Finish(c) \/ Woken(c) \/ CancelReturns(c) \/ CloseReturns(c) PROVE SocketInv'
    BY <2>5, FinishStep, WokenStep, CancelReturnsStep, CloseReturnsStep
  <2>6. QED
    BY <1>1, <1>2, <1>3, <2>1, <2>2, <2>3, <2>4, <2>5 DEF Goes
<1>4. ASSUME NEW c \in SocketCo, WakeUp(c) PROVE SocketInv'
  BY Zenon, <1>4, WakeUpStep
<1>5. CASE UNCHANGED socketVars
  <2>1. SocketTypeOK' /\ PlainInv'
    BY Zenon, <1>5 DEF socketVars, SocketInv, SocketTypeOK, PlainInv
  <2>2. StackInv' /\ BoundInv' /\ EventsInv'
    BY <1>5 DEF socketVars, SocketInv, StackInv, BoundInv, EventsInv
  <2>3. TimerInv' /\ ClosingInv' /\ ReleaseInv'
    BY Zenon, <1>5 DEF socketVars, SocketInv, TimerInv, ClosingInv, ReleaseInv, InCall
  <2>4. QED
    BY Zenon, <2>1, <2>2, <2>3 DEF SocketInv
<1>6. QED
  BY <1>3, <1>4, <1>5, EventLoopSteps DEF SocketNext

\* Callbacks find whom they resume, unless their bit is stale, and nobody waits on
\* a socket that is being closed: events, timers and read_co, write_co agree.
THEOREM SocketWakesWaiter == ASSUME ~Ssl PROVE SocketSpec => []WakeupsFindWaiter
<1>1. SocketInv => WakeupsFindWaiter
  <2> SUFFICES ASSUME SocketInv PROVE WakeupsFindWaiter
    OBVIOUS
  <2>1. /\ SocketTypeOK /\ StackInv /\ BoundInv /\ EventsInv
        /\ TimerInv /\ ClosingInv
    BY DEF SocketInv
  <2>2. ASSUME InLoop, NEW d \in Event
        PROVE  co_timer[d] # "none" <=> bound[d] # NoOne
    <3>1. \A x \in SocketCo : step[x] \notin Active
      BY <2>1, <2>2, NoneRuns DEF InLoop
    <3>2. \A x \in SocketCo : InCall(x) => step[x] = "wait"
      BY <3>1 DEF InCall, Active
    <3>3. co_timer[d] # "none" => bound[d] # NoOne
      BY <2>1, <3>2, SocketAssumption DEF TimerInv, BoundInv
    <3>4. bound[d] # NoOne => co_timer[d] # "none"
      BY <2>1, <3>1 DEF TimerInv, BoundInv, SocketTypeOK, Active
    <3>5. QED
      BY <3>3, <3>4
  <2>3. \A d \in Event : d \in events <=> bound[d] # NoOne
    BY Zenon, <2>1 DEF EventsInv
  <2>4. nobody => stale
    BY <2>1 DEF EventsInv
  <2>5. \A c \in SocketCo : step[c] = "try" => ~close_wait
    BY <2>1 DEF ClosingInv
  <2>6. QED
    BY <2>1, <2>2, <2>3, <2>4, <2>5 DEF WakeupsFindWaiter
<1>2. QED
  BY <1>1, SocketInvInit, SocketInvStep, PTL DEF SocketSpec

\* The socket is released by one close(), when nobody uses it, and if coroutines
\* were told of the close, at the latest by the last of them.
THEOREM SocketReleasedOnce == ASSUME ~Ssl PROVE SocketSpec => []ReleasedOnceUnused
<1>1. SocketInv => ReleasedOnceUnused
  <2> SUFFICES ASSUME SocketInv PROVE ReleasedOnceUnused
    BY Zenon
  <2>1. SocketTypeOK /\ BoundInv /\ EventsInv /\ TimerInv /\ ReleaseInv
    BY DEF SocketInv
  <2>2. released <= 1
    BY <2>1 DEF ReleaseInv
  <2>3. ASSUME ~fd_open
        PROVE  /\ released = 1 /\ removed /\ ~has_bound(Event)
               /\ \A d \in Event : co_timer[d] = "none"
    <3>1. released = 1 /\ \A c \in SocketCo : ~InCall(c)
      BY Zenon, <2>1, <2>3 DEF ReleaseInv
    <3>2. \A d \in Event : bound[d] = NoOne
      BY <2>1, <3>1 DEF BoundInv, InCall, SocketTypeOK
    <3>3. \A d \in Event : co_timer[d] = "none"
      BY Zenon, <2>1, <3>1 DEF TimerInv
    <3>4. removed
      BY <2>1, <3>2 DEF EventsInv, SocketTypeOK, removed
    <3>5. QED
      BY <3>1, <3>2, <3>3, <3>4 DEF has_bound
  <2>4. (close_wait /\ \A c \in SocketCo : step[c] = "done") => ~fd_open
    BY Zenon, <2>1 DEF ReleaseInv, InCall
  <2>5. QED
    BY <2>2, <2>3, <2>4 DEF ReleasedOnceUnused
<1>2. QED
  BY <1>1, SocketInvInit, SocketInvStep, PTL DEF SocketSpec
=============================================================================
