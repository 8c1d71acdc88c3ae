-------------------------- MODULE Processes_proofs --------------------------
(***************************************************************************)
(* Proofs about child processes: the coroutines that wait for children get *)
(* their exits, and the loop of the process pool's master keeps every      *)
(* worker manned, for any number of either.                                *)
(***************************************************************************)
EXTENDS ProcessPool, WaitPid, TLAPS

-----------------------------------------------------------------------------
(* The coroutines that wait for child processes.                           *)

(***************************************************************************)
(* The list of the tasks: what its operations do to the set of coroutines  *)
(* in it.                                                                  *)
(***************************************************************************)
Listed(list) == {list[k] : k \in 1 .. Len(list)}

OnceEach(list) == \A j, k \in 1 .. Len(list) : list[j] = list[k] => j = k

\* wait_list.push_back() of a coroutine that is not in the list.
LEMMA PushBack ==
    ASSUME NEW q \in Seq(Co), NEW c \in Co, OnceEach(q), c \notin Listed(q)
    PROVE  /\ Append(q, c) \in Seq(Co)
           /\ OnceEach(Append(q, c))
           /\ Listed(Append(q, c)) = Listed(q) \cup {c}
  BY DEF OnceEach, Listed

\* wait_list.pop_front() takes out the first one only.
LEMMA PopFront ==
    ASSUME NEW q \in Seq(Co), q # <<>>, OnceEach(q)
    PROVE  /\ Head(q) \in Listed(q) /\ Head(q) \in Co
           /\ Tail(q) \in Seq(Co)
           /\ OnceEach(Tail(q))
           /\ Listed(Tail(q)) = Listed(q) \ {Head(q)}
  <1>1. /\ Len(q) \in Nat \ {0} /\ Head(q) = q[1] /\ Len(Tail(q)) = Len(q) - 1
        /\ \A k \in 1 .. Len(q) - 1 : Tail(q)[k] = q[k + 1]
    OBVIOUS
  <1>2. Head(q) \in Listed(q) /\ Head(q) \in Co /\ Tail(q) \in Seq(Co)
    BY <1>1 DEF Listed
  <1>3. OnceEach(Tail(q)) /\ Listed(Tail(q)) \subseteq Listed(q) \ {Head(q)}
    BY <1>1 DEF OnceEach, Listed
  <1>4. ASSUME NEW k \in 1 .. Len(q), q[k] # Head(q) PROVE q[k] \in Listed(Tail(q))
    <2>1. k - 1 \in 1 .. Len(Tail(q)) /\ Tail(q)[k - 1] = q[k]
      BY <1>1, <1>4
    <2>2. QED
      BY Zenon, <2>1 DEF Listed
  <1>5. QED
    BY <1>2, <1>3, <1>4 DEF Listed

\* The sequence without what is at one place.
LeftOut(q, k) == SubSeq(q, 1, k - 1) \o SubSeq(q, k + 1, Len(q))

\* A sequence with one place left out has the elements of the other places, in
\* their order.
LEMMA OnePlaceLess ==
    ASSUME NEW q \in Seq(Co), NEW k \in 1 .. Len(q)
    PROVE  /\ LeftOut(q, k) \in Seq(Co) /\ Len(LeftOut(q, k)) = Len(q) - 1
           /\ \A j \in 1 .. Len(q) - 1 :
                LeftOut(q, k)[j] = IF j < k THEN q[j] ELSE q[j + 1]
  <1> DEFINE a == SubSeq(q, 1, k - 1)
             b == SubSeq(q, k + 1, Len(q))
  <1>1. a \in Seq(Co) /\ Len(a) = k - 1 /\ \A j \in 1 .. k - 1 : a[j] = q[j]
    OBVIOUS
  <1>2. /\ b \in Seq(Co) /\ Len(b) = Len(q) - k
        /\ \A j \in 1 .. Len(q) - k : b[j] = q[k + j]
    OBVIOUS
  <1>3. LeftOut(q, k) = a \o b
    BY Zenon DEF LeftOut
  <1>a. a \in Seq(Co) /\ b \in Seq(Co)
    BY <1>1, <1>2
  <1> HIDE DEF a, b
  <1>4. /\ a \o b \in Seq(Co) /\ Len(a \o b) = Len(a) + Len(b)
        /\ \A j \in 1 .. Len(a) + Len(b) :
              (a \o b)[j] = IF j <= Len(a) THEN a[j] ELSE b[j - Len(a)]
    BY <1>a
  <1>5. Len(q) \in Nat /\ Len(a) + Len(b) = Len(q) - 1
    BY <1>1, <1>2
  <1>6. ASSUME NEW j \in 1 .. Len(q) - 1, j < k PROVE (a \o b)[j] = q[j]
    BY <1>1, <1>4, <1>5, <1>6
  <1>7. ASSUME NEW j \in 1 .. Len(q) - 1, ~(j < k) PROVE (a \o b)[j] = q[j + 1]
    <2>1. j - (k - 1) \in 1 .. Len(q) - k /\ k + (j - (k - 1)) = j + 1
      BY <1>5, <1>7
    <2>2. b[j - (k - 1)] = q[j + 1]
      BY Zenon, <1>2, <2>1
    <2>3. QED
      BY <1>1, <1>4, <1>5, <1>7, <2>2
  <1>8. QED
    BY <1>3, <1>4, <1>5, <1>6, <1>7

\* wait_list.remove() takes out that coroutine only.
LEMMA RemoveTask ==
    ASSUME NEW q \in Seq(Co), NEW c \in Listed(q), OnceEach(q)
    PROVE  /\ Without(q, c) \in Seq(Co)
           /\ OnceEach(Without(q, c))
           /\ Listed(Without(q, c)) = Listed(q) \ {c}
  <1>1. PICK k \in 1 .. Len(q) : q[k] = c
    BY DEF Listed
  <1>2. (CHOOSE i \in 1 .. Len(q) : q[i] = c) = k
    BY <1>1 DEF OnceEach
  <1>3. Without(q, c) = LeftOut(q, k)
    BY Zenon, <1>2 DEF Without, LeftOut
  <1> DEFINE r == LeftOut(q, k)
  <1> HIDE DEF r
  <1>4. /\ r \in Seq(Co) /\ Len(r) = Len(q) - 1 /\ Without(q, c) = r
        /\ \A j \in 1 .. Len(q) - 1 : r[j] = IF j < k THEN q[j] ELSE q[j + 1]
    BY <1>3, OnePlaceLess DEF r
  <1>5. OnceEach(r)
    BY <1>1, <1>4 DEF OnceEach
  <1>6. ASSUME NEW j \in 1 .. Len(r) PROVE r[j] \in Listed(q) /\ r[j] # c
    <2>1. PICK i \in 1 .. Len(q) : r[j] = q[i] /\ i # k
      <3>1. CASE j < k
        BY <1>4, <3>1
      <3>2. CASE ~ (j < k)
        <4>1. j + 1 \in 1 .. Len(q) /\ r[j] = q[j + 1] /\ j + 1 # k
          BY <1>4, <3>2
        <4>2. QED
          BY Zenon, <4>1
      <3>3. QED
        BY <3>1, <3>2
    <2>2. QED
      BY Zenon, <1>1, <2>1 DEF OnceEach, Listed
  <1>7. ASSUME NEW j \in 1 .. Len(q), q[j] # c PROVE q[j] \in Listed(r)
    <2>1. CASE j < k
      BY <1>4, <2>1 DEF Listed
    <2>2. CASE j > k
      <3>1. j - 1 \in 1 .. Len(r) /\ r[j - 1] = q[j]
        BY <1>4, <2>2
      <3>2. QED
        BY Zenon, <3>1 DEF Listed
    <2>3. QED
      BY <1>1, <1>7, <2>1, <2>2
  <1>8. Listed(r) = Listed(q) \ {c}
    BY <1>6, <1>7 DEF Listed
  <1>9. QED
    BY <1>4, <1>5, <1>8

-----------------------------------------------------------------------------
(***************************************************************************)
(* The inductive invariant.                                                *)
(***************************************************************************)

\* Each coroutine asks for what its program says, and the one that runs is not
\* suspended.
TargetInv ==
    /\ targets \in [Co -> SUBSET (Pid \cup {AnyPid})]
    /\ \A c \in Co : waiting[c] # None => waiting[c] \in targets[c]
    /\ current # None => waiting[current] = None

\* The list has the coroutines that wait for any child, each once, and the map
\* has none that does not wait for that child.
TaskInv ==
    /\ OnceEach(wait_list)
    /\ Listed(wait_list) = {c \in Co : waiting[c] = AnyPid}
    /\ \A p \in Pid : waitpid_map[p] # None => waiting[waitpid_map[p]] = p

\* A status is kept or has one owner, from the moment the child is reaped.
StatusInv ==
    \A p \in Pid :
        /\ process[p] = "reaped" <=> p \in child_processes \/ \E c \in Co : p \in got[c]
        /\ \A c \in Co : p \in got[c] =>
              p \notin child_processes /\ \A d \in Co : p \in got[d] => d = c

\* Since a coroutine that waits has installed the handler and has seen no zombie,
\* one that there is now has sent a signal, which is pending or being handled.
SignalInv ==
    \A c \in Co : waiting[c] # None =>
        /\ signal_ready
        /\ \A p \in Pid :
              Matches(waiting[c], p) /\ process[p] = "zombie" => sigchld \/ handling

\* Coroutines that keep apart do not overwrite each other's entry of the map, and
\* nobody else reaps the child that one waits for.
ApartInv ==
    Apart =>
        \A c \in Co, p \in Pid : waiting[c] # None /\ Matches(waiting[c], p) =>
            /\ p \notin child_processes
            /\ waiting[c] = p => waitpid_map[p] = c /\ process[p] # "reaped"

WaitInv == WaitTypeOK /\ TargetInv /\ TaskInv /\ StatusInv /\ SignalInv /\ ApartInv

\* A child exits.
LEMMA ExitStep ==
    ASSUME WaitInv, UNCHANGED targets, NEW p \in Pid, Exit(p)
    PROVE  WaitInv'
  <1>1. WaitTypeOK'
    BY Zenon DEF WaitInv, WaitTypeOK, Exit
  <1>2. TargetInv'
    BY Zenon DEF WaitInv, WaitTypeOK, TargetInv, Exit
  <1>3. TaskInv'
    BY DEF WaitInv, WaitTypeOK, TaskInv, Exit
  <1>4. StatusInv'
    BY DEF WaitInv, WaitTypeOK, StatusInv, Exit
  <1>5. SignalInv'
    BY Zenon DEF WaitInv, WaitTypeOK, SignalInv, Exit, Matches
  <1>6. ApartInv'
    BY DEF WaitInv, WaitTypeOK, ApartInv, Exit, Apart, Matches
  <1>7. QED
    BY <1>1, <1>2, <1>3, <1>4, <1>5, <1>6 DEF WaitInv

\* A coroutine that does not wait for a child goes on.
LEMMA RunStep ==
    ASSUME WaitInv, UNCHANGED targets, NEW c \in Co, Run(c)
    PROVE  WaitInv'
  <1>1. WaitTypeOK'
    BY Zenon DEF WaitInv, WaitTypeOK, Run
  <1>2. TargetInv'
    BY Zenon DEF WaitInv, WaitTypeOK, TargetInv, Run
  <1>3. TaskInv'
    BY DEF WaitInv, WaitTypeOK, TaskInv, Run
  <1>4. StatusInv'
    BY DEF WaitInv, WaitTypeOK, StatusInv, Run
  <1>5. SignalInv'
    BY Zenon DEF WaitInv, WaitTypeOK, SignalInv, Run, Matches
  <1>6. ApartInv'
    BY DEF WaitInv, WaitTypeOK, ApartInv, Run, Apart, Matches
  <1>7. QED
    BY Zenon, <1>1, <1>2, <1>3, <1>4, <1>5, <1>6 DEF WaitInv

\* The coroutine that runs stops.
LEMMA StopStep ==
    ASSUME WaitInv, UNCHANGED targets, Stop
    PROVE  WaitInv'
  <1>1. WaitTypeOK'
    BY Zenon DEF WaitInv, WaitTypeOK, Stop
  <1>2. TargetInv'
    BY Zenon DEF WaitInv, WaitTypeOK, TargetInv, Stop
  <1>3. TaskInv'
    BY Zenon DEF WaitInv, WaitTypeOK, TaskInv, Stop
  <1>4. StatusInv'
    BY Zenon DEF WaitInv, WaitTypeOK, StatusInv, Stop
  <1>5. SignalInv'
    BY Zenon DEF WaitInv, WaitTypeOK, SignalInv, Stop, Matches
  <1>6. ApartInv'
    BY DEF WaitInv, WaitTypeOK, ApartInv, Stop, Apart, Matches
  <1>7. QED
    BY <1>1, <1>2, <1>3, <1>4, <1>5, <1>6 DEF WaitInv

\* waitpid() takes a status that was kept.
LEMMA CachedStep ==
    ASSUME WaitInv, UNCHANGED targets, NEW c \in Co, NEW target, Cached(c, target)
    PROVE  WaitInv'
  <1>1. WaitTypeOK'
    BY DEF WaitInv, WaitTypeOK, Cached, Give
  <1>2. TargetInv'
    BY Zenon DEF WaitInv, WaitTypeOK, TargetInv, Cached, Give
  <1>3. TaskInv'
    BY Zenon DEF WaitInv, WaitTypeOK, TaskInv, Cached, Give
  <1>4. StatusInv'
    BY DEF WaitInv, WaitTypeOK, StatusInv, Cached, Give
  <1>5. SignalInv'
    BY Zenon DEF WaitInv, WaitTypeOK, SignalInv, Cached, Give, Matches
  <1>6. ApartInv'
    BY DEF WaitInv, WaitTypeOK, ApartInv, Cached, Give, Apart, Matches
  <1>7. QED
    BY <1>1, <1>2, <1>3, <1>4, <1>5, <1>6 DEF WaitInv

\* waitpid() reaps a child at once: a coroutine that keeps apart takes no
\* child that another one waits for.
LEMMA ReapStep ==
    ASSUME WaitInv, UNCHANGED targets, NEW c \in Co, NEW target \in targets[c], Reap(c, target)
    PROVE  WaitInv'
  <1>1. WaitTypeOK'
    BY DEF WaitInv, WaitTypeOK, Reap, Give, InState, signal_init
  <1>2. TargetInv'
    BY Zenon DEF WaitInv, WaitTypeOK, TargetInv, Reap, Give, InState
  <1>3. TaskInv'
    BY Zenon DEF WaitInv, WaitTypeOK, TaskInv, Reap, Give, InState
  <1>4. StatusInv'
    BY DEF WaitInv, WaitTypeOK, StatusInv, Reap, Give, InState
  <1>5. SignalInv'
    BY DEF WaitInv, WaitTypeOK, SignalInv, Reap, Give, InState, Misses, signal_init, Matches
  <1>6. ApartInv'
    <2>1. PICK p \in Pid : /\ process[p] = "zombie" /\ Matches(target, p)
                           /\ process' = [process EXCEPT ![p] = "reaped"]
      BY DEF Reap, InState
    <2>2. UNCHANGED <<targets, waiting, waitpid_map, child_processes>>
      BY DEF Reap
    <2>3. ASSUME Apart, NEW d \in Co, waiting[d] = p PROVE FALSE
      <3>1. d # c /\ p \in targets[d]
        BY <2>3, WaitAssumption DEF WaitInv, TargetInv, Reap, Misses
      <3>2. p # AnyPid /\ target \in targets[c] /\ target \in {AnyPid, p}
        BY Zenon, <2>1, WaitAssumption DEF Matches
      <3>3. QED
        BY <2>3, <3>1, <3>2 DEF Apart
    <2>4. ASSUME Apart, NEW d \in Co, NEW r \in Pid, waiting[d] # None, Matches(waiting[d], r)
          PROVE  /\ r \notin child_processes
                 /\ waiting[d] = r => waitpid_map[r] = d /\ process'[r] # "reaped"
      BY <2>1, <2>3, <2>4 DEF WaitInv, WaitTypeOK, ApartInv
    <2>5. QED
      BY Zenon, <2>2, <2>4 DEF ApartInv, Apart, Matches
  <1>7. QED
    BY <1>1, <1>2, <1>3, <1>4, <1>5, <1>6 DEF WaitInv

\* The handler of SIGCHLD begins.
LEMMA HandlerBeginStep ==
    ASSUME WaitInv, UNCHANGED targets, HandlerBegin
    PROVE  WaitInv'
  <1>1. WaitTypeOK'
    BY DEF WaitInv, WaitTypeOK, HandlerBegin
  <1>2. TargetInv'
    BY DEF WaitInv, WaitTypeOK, TargetInv, HandlerBegin
  <1>3. TaskInv'
    BY DEF WaitInv, WaitTypeOK, TaskInv, HandlerBegin
  <1>4. StatusInv'
    BY DEF WaitInv, WaitTypeOK, StatusInv, HandlerBegin
  <1>5. SignalInv'
    BY DEF WaitInv, WaitTypeOK, SignalInv, HandlerBegin, Matches
  <1>6. ApartInv'
    BY DEF WaitInv, WaitTypeOK, ApartInv, HandlerBegin, Apart, Matches
  <1>7. QED
    BY Zenon, <1>1, <1>2, <1>3, <1>4, <1>5, <1>6 DEF WaitInv

\* The handler ends when there is no zombie left.
LEMMA HandlerEndStep ==
    ASSUME WaitInv, UNCHANGED targets, HandlerEnd
    PROVE  WaitInv'
  <1>1. WaitTypeOK'
    BY DEF WaitInv, WaitTypeOK, HandlerEnd, InState
  <1>2. TargetInv'
    BY DEF WaitInv, WaitTypeOK, TargetInv, HandlerEnd, InState
  <1>3. TaskInv'
    BY DEF WaitInv, WaitTypeOK, TaskInv, HandlerEnd, InState
  <1>4. StatusInv'
    BY DEF WaitInv, WaitTypeOK, StatusInv, HandlerEnd, InState
  <1>5. SignalInv'
    BY DEF WaitInv, WaitTypeOK, SignalInv, HandlerEnd, InState, Matches
  <1>6. ApartInv'
    BY DEF WaitInv, WaitTypeOK, ApartInv, HandlerEnd, InState, Apart, Matches
  <1>7. QED
    BY Zenon, <1>1, <1>2, <1>3, <1>4, <1>5, <1>6 DEF WaitInv

\* A coroutine goes to wait: the handler is installed, no child that it asks for
\* is a zombie or has been kept, and its task goes into the list or the map.
LEMMA YieldStep ==
    ASSUME WaitInv, UNCHANGED targets, NEW c \in Co, NEW target \in targets[c],
           Yield(c, target)
    PROVE  WaitInv'
  <1>1. /\ UNCHANGED <<targets, child_processes, process, sigchld, handling, got>>
        /\ signal_ready' = TRUE
        /\ current = c /\ waiting[c] = None
        /\ target \in Pid \cup {AnyPid} /\ target # None
        /\ \A p \in Pid :
                Matches(target, p) => p \notin child_processes /\ process[p] # "zombie"
    BY WaitAssumption
       DEF WaitInv, WaitTypeOK, TargetInv, Yield, Misses, InState, signal_init
  <1>2. CASE UNCHANGED <<wait_list, waitpid_map, waiting, current>>
    <2>1. WaitTypeOK' /\ TargetInv' /\ TaskInv' /\ StatusInv'
      BY Zenon, <1>1, <1>2 DEF WaitInv, WaitTypeOK, TargetInv, TaskInv, StatusInv
    <2>2. SignalInv' /\ ApartInv'
      BY <1>1, <1>2 DEF WaitInv, SignalInv, ApartInv, Apart, Matches
    <2>3. QED
      BY Zenon, <2>1, <2>2 DEF WaitInv
  <1>3. CASE ~ UNCHANGED <<wait_list, waitpid_map, waiting, current>>
    <2>1. /\ IF target = AnyPid
             THEN wait_list' = Append(wait_list, c) /\ UNCHANGED waitpid_map
             ELSE waitpid_map' = [waitpid_map EXCEPT ![target] = c] /\ UNCHANGED wait_list
          /\ waiting' = [waiting EXCEPT ![c] = target]
          /\ current' = None
          /\ \E p \in Pid : process[p] = "alive" /\ Matches(target, p)
      BY <1>3 DEF Yield, InState
    <2>2. c \notin Listed(wait_list) /\ wait_list \in Seq(Co) /\ OnceEach(wait_list)
      BY <1>1, WaitAssumption DEF WaitInv, WaitTypeOK, TaskInv
    <2>3. /\ Append(wait_list, c) \in Seq(Co)
          /\ OnceEach(Append(wait_list, c))
          /\ Listed(Append(wait_list, c)) = Listed(wait_list) \cup {c}
      BY <2>2, PushBack
    <2>4. \A d \in Co : waiting'[d] = IF d = c THEN target ELSE waiting[d]
      BY <2>1 DEF WaitInv, WaitTypeOK
    <2>5. WaitTypeOK'
      BY <1>1, <2>1, <2>3 DEF WaitInv, WaitTypeOK
    <2>6. TargetInv'
      BY <1>1, <2>1, <2>4 DEF WaitInv, TargetInv
    <2>7. OnceEach(wait_list)' /\ Listed(wait_list)' = {d \in Co : waiting'[d] = AnyPid}
      <3>1. CASE target = AnyPid
        <4>1. wait_list' = Append(wait_list, c)
          BY Zenon, <2>1, <3>1
        <4>2. Listed(wait_list) = {d \in Co : waiting[d] = AnyPid}
          BY Zenon DEF WaitInv, TaskInv
        <4>3. {d \in Co : waiting'[d] = AnyPid} = Listed(wait_list) \cup {c}
          BY Zenon, <2>4, <3>1, <4>2
        <4>4. QED
          BY Zenon, <2>3, <4>1, <4>3
      <3>2. CASE target # AnyPid
        <4>1. /\ wait_list' = wait_list
              /\ \A d \in Co : waiting'[d] = AnyPid <=> waiting[d] = AnyPid
          BY <1>1, <2>1, <2>4, <3>2, WaitAssumption
        <4>2. QED
          BY Zenon, <4>1 DEF WaitInv, TaskInv
      <3>3. QED
        BY Zenon, <3>1, <3>2
    <2>8. ASSUME NEW p \in Pid, waitpid_map'[p] # None PROVE waiting'[waitpid_map'[p]] = p
      BY <1>1, <2>1, <2>4, <2>8, WaitAssumption DEF WaitInv, WaitTypeOK, TaskInv
    <2>9. TaskInv'
      BY Zenon, <2>7, <2>8 DEF TaskInv
    <2>10. StatusInv'
      BY Zenon, <1>1 DEF WaitInv, StatusInv
    <2>11. SignalInv'
      BY Zenon, <1>1, <2>4 DEF WaitInv, SignalInv, Matches
    <2>12. ASSUME Apart, NEW d \in Co, NEW p \in Pid, waiting'[d] # None, Matches(waiting'[d], p)
           PROVE  /\ p \notin child_processes
                  /\ waiting'[d] = p => waitpid_map'[p] = d /\ process[p] # "reaped"
      <3>1. CASE d = c
        <4>1. p \notin child_processes
          BY <1>1, <2>4, <2>12, <3>1
        <4>2. ASSUME target = p PROVE waitpid_map'[p] = c /\ process[p] # "reaped"
          BY <2>1, <4>2, WaitAssumption DEF WaitInv, WaitTypeOK, Matches
        <4>3. QED
          BY Zenon, <2>4, <3>1, <4>1, <4>2
      <3>2. CASE d # c
        <4>1. waiting'[d] = waiting[d]
          BY <2>4, <3>2
        <4>2. /\ p \notin child_processes
              /\ waiting[d] = p => waitpid_map[p] = d /\ process[p] # "reaped"
          BY <2>12, <4>1 DEF WaitInv, ApartInv
        <4>3. ASSUME waiting[d] = p PROVE target # p
          <5>1. p \in targets[d] /\ p # AnyPid
            BY <4>1, <4>3, <2>12, WaitAssumption DEF WaitInv, TargetInv
          <5>2. QED
            BY <2>12, <3>2, <5>1 DEF Apart
        <4>4. QED
          BY <2>1, <4>1, <4>2, <4>3 DEF WaitInv, WaitTypeOK
      <3>3. QED
        BY Zenon, <3>1, <3>2
    <2>13. ApartInv'
      BY <1>1, <2>12 DEF ApartInv, Apart, Matches
    <2>14. QED
      BY Zenon, <2>5, <2>6, <2>9, <2>10, <2>11, <2>13 DEF WaitInv
  <1>4. QED
    BY Zenon, <1>2, <1>3

\* A coroutine that is resumed takes its own task out and no other, if what is
\* left of the list is the list without it.
LEMMA DequeueTask ==
    ASSUME WaitInv, UNCHANGED <<targets, signal_ready>>, NEW c \in Co, waiting[c] # None,
           current = None, NEW list, Dequeue(c, list),
           waiting[c] = AnyPid =>
                list \in Seq(Co) /\ OnceEach(list) /\ Listed(list) = Listed(wait_list) \ {c}
    PROVE  /\ wait_list' \in Seq(Co) /\ waitpid_map' \in [Pid -> Co \cup {None}]
           /\ waiting' \in [Co -> Pid \cup {AnyPid, None}] /\ current' \in Co \cup {None}
           /\ \A d \in Co : waiting'[d] = IF d = c THEN None ELSE waiting[d]
           /\ \A p \in Pid : waitpid_map'[p] = IF waiting[c] = p THEN None ELSE waitpid_map[p]
           /\ TargetInv' /\ TaskInv'
  <1>1. waiting[c] \in Pid \cup {AnyPid} /\ AnyPid \notin Pid /\ None \notin Pid \cup {AnyPid}
    BY WaitAssumption DEF WaitInv, WaitTypeOK
  <1>2. \A d \in Co : waiting'[d] = IF d = c THEN None ELSE waiting[d]
    BY DEF Dequeue, WaitInv, WaitTypeOK
  <1>3. \A p \in Pid : waitpid_map'[p] = IF waiting[c] = p THEN None ELSE waitpid_map[p]
    BY <1>1 DEF Dequeue, WaitInv, WaitTypeOK
  <1>4. /\ wait_list' \in Seq(Co) /\ waitpid_map' \in [Pid -> Co \cup {None}]
        /\ waiting' \in [Co -> Pid \cup {AnyPid, None}] /\ current' \in Co \cup {None}
    BY Zenon, <1>1 DEF Dequeue, WaitInv, WaitTypeOK
  <1>5. TargetInv'
    BY <1>2 DEF Dequeue, WaitInv, TargetInv
  <1>6. OnceEach(wait_list)' /\ Listed(wait_list)' = {d \in Co : waiting'[d] = AnyPid}
    BY <1>1, <1>2 DEF Dequeue, WaitInv, TaskInv
  <1>7. ASSUME NEW p \in Pid, waitpid_map'[p] # None PROVE waiting'[waitpid_map'[p]] = p
    BY <1>1, <1>2, <1>3, <1>7 DEF WaitInv, WaitTypeOK, TaskInv
  <1>8. QED
    BY <1>2, <1>3, <1>4, <1>5, <1>6, <1>7 DEF TaskInv

\* Between coroutines that keep apart, what one has left the others still have.
LEMMA DequeueApart ==
    ASSUME WaitInv, NEW c \in Co, NEW d \in Co, NEW p \in Pid, Apart,
           waiting[d] = p, waiting[c] = p
    PROVE  c = d
  BY WaitAssumption DEF WaitInv, ApartInv, Matches

\* A wait ends by a timeout or cancel().
LEMMA GiveUpStep ==
    ASSUME WaitInv, UNCHANGED targets, NEW c \in Co, GiveUp(c)
    PROVE  WaitInv'
  <1>1. /\ UNCHANGED <<targets, child_processes, signal_ready, process, sigchld, handling, got>>
        /\ current = None /\ waiting[c] # None /\ Dequeue(c, Without(wait_list, c))
    BY DEF GiveUp
  <1>2. waiting[c] = AnyPid =>
            /\ Without(wait_list, c) \in Seq(Co)
            /\ OnceEach(Without(wait_list, c))
            /\ Listed(Without(wait_list, c)) = Listed(wait_list) \ {c}
    BY RemoveTask DEF WaitInv, WaitTypeOK, TaskInv
  <1>3. /\ wait_list' \in Seq(Co) /\ waitpid_map' \in [Pid -> Co \cup {None}]
        /\ waiting' \in [Co -> Pid \cup {AnyPid, None}] /\ current' \in Co \cup {None}
        /\ \A d \in Co : waiting'[d] = IF d = c THEN None ELSE waiting[d]
        /\ \A p \in Pid : waitpid_map'[p] = IF waiting[c] = p THEN None ELSE waitpid_map[p]
        /\ TargetInv' /\ TaskInv'
    BY <1>1, <1>2, DequeueTask
  <1>4. WaitTypeOK'
    BY <1>1, <1>3 DEF WaitInv, WaitTypeOK
  <1>5. StatusInv'
    BY <1>1 DEF WaitInv, StatusInv
  <1>6. SignalInv'
    BY <1>1, <1>3 DEF WaitInv, SignalInv, Matches
  <1>7. ApartInv'
    <2> SUFFICES ASSUME Apart', NEW d \in Co, NEW p \in Pid,
                        waiting'[d] # None, Matches(waiting'[d], p)
                 PROVE  /\ p \notin child_processes'
                        /\ waiting'[d] = p => waitpid_map'[p] = d /\ process'[p] # "reaped"
      BY DEF ApartInv, Matches
    <2>1. Apart
      BY <1>1 DEF Apart
    <2>2. d # c /\ waiting'[d] = waiting[d]
      BY <1>3
    <2>3. /\ p \notin child_processes
          /\ waiting[d] = p => waitpid_map[p] = d /\ process[p] # "reaped"
      BY <2>1, <2>2 DEF WaitInv, ApartInv
    <2>4. waiting[d] = p => waiting[c] # p
      BY <2>1, <2>2, DequeueApart
    <2> QED
      BY <1>1, <1>3, <2>2, <2>3, <2>4
  <1>8. QED
    BY <1>3, <1>4, <1>5, <1>6, <1>7 DEF WaitInv

\* The handler reaps a child and resumes the coroutine that waits for it, or the
\* first that waits for any, or keeps the status since nobody waits.
LEMMA HandlerLoopStep ==
    ASSUME WaitInv, UNCHANGED targets, NEW p \in Pid, HandlerLoop(p)
    PROVE  WaitInv'
  <1>1. /\ UNCHANGED <<targets, signal_ready, sigchld, handling>>
        /\ current = None /\ process[p] = "zombie" /\ handling
        /\ process' = [process EXCEPT ![p] = "reaped"]
    BY DEF HandlerLoop
  <1>2. /\ \A r \in Pid : process'[r] = IF r = p THEN "reaped" ELSE process[r]
        /\ process' \in [Pid -> {"alive", "zombie", "reaped"}]
    BY <1>1 DEF WaitInv, WaitTypeOK
  <1>3. p \notin child_processes /\ \A c \in Co : p \notin got[c]
    BY <1>1 DEF WaitInv, StatusInv
  <1>4. CASE Waiter(p) = None
    <2>1. /\ child_processes' = child_processes \cup {p}
          /\ UNCHANGED <<wait_list, waitpid_map, waiting, got, current>>
      BY <1>4 DEF HandlerLoop, Keep
    <2>2. waitpid_map[p] = None /\ wait_list = <<>>
      BY <1>4, WaitAssumption DEF Waiter, WaitInv, WaitTypeOK
    <2>3. \A c \in Co : waiting[c] # AnyPid
      BY <2>2 DEF WaitInv, TaskInv, Listed
    <2>4. WaitTypeOK'
      BY Zenon, <1>1, <1>2, <2>1 DEF WaitInv, WaitTypeOK
    <2>5. TargetInv' /\ TaskInv'
      BY Zenon, <1>1, <2>1 DEF WaitInv, TargetInv, TaskInv
    <2>6. StatusInv'
      BY Zenon, <1>2, <1>3, <2>1 DEF WaitInv, StatusInv
    <2>7. SignalInv'
      BY <1>1, <1>2, <2>1 DEF WaitInv, SignalInv, Matches
    <2>8. ApartInv'
      BY <1>1, <1>2, <2>1, <2>2, <2>3, WaitAssumption DEF WaitInv, ApartInv, Apart, Matches
    <2>9. QED
      BY <2>4, <2>5, <2>6, <2>7, <2>8 DEF WaitInv
  <1>5. CASE Waiter(p) # None
    <2> DEFINE c == Waiter(p)
    <2>1. /\ Give(c, p) /\ Dequeue(c, Tail(wait_list)) /\ UNCHANGED child_processes
      BY Zenon, <1>5 DEF HandlerLoop
    <2>2. /\ c \in Co /\ waiting[c] \in {p, AnyPid}
          /\ waiting[c] = AnyPid => wait_list # <<>> /\ c = Head(wait_list)
      <3>1. CASE waitpid_map[p] # None
        BY <3>1, WaitAssumption DEF Waiter, WaitInv, WaitTypeOK, TaskInv
      <3>2. CASE waitpid_map[p] = None
        <4>1. wait_list # <<>> /\ c = Head(wait_list)
          BY <1>5, <3>2 DEF Waiter
        <4>2. Head(wait_list) \in Listed(wait_list) /\ Head(wait_list) \in Co
          BY <4>1, PopFront DEF WaitInv, WaitTypeOK, TaskInv
        <4>3. QED
          BY Zenon, <4>1, <4>2 DEF WaitInv, TaskInv
      <3>3. QED
        BY Zenon, <3>1, <3>2
    <2> HIDE DEF c
    <2>3. waiting[c] = AnyPid =>
              /\ Tail(wait_list) \in Seq(Co) /\ OnceEach(Tail(wait_list))
              /\ Listed(Tail(wait_list)) = Listed(wait_list) \ {c}
      BY <2>2, PopFront DEF WaitInv, WaitTypeOK, TaskInv
    <2>4. waiting[c] # None
      BY <2>2, WaitAssumption
    <2>5. /\ wait_list' \in Seq(Co) /\ waitpid_map' \in [Pid -> Co \cup {None}]
          /\ waiting' \in [Co -> Pid \cup {AnyPid, None}] /\ current' \in Co \cup {None}
          /\ \A d \in Co : waiting'[d] = IF d = c THEN None ELSE waiting[d]
          /\ \A r \in Pid : waitpid_map'[r] = IF waiting[c] = r THEN None ELSE waitpid_map[r]
          /\ TargetInv' /\ TaskInv'
      BY <1>1, <2>1, <2>2, <2>3, <2>4, DequeueTask
    <2>6. /\ got' \in [Co -> SUBSET Pid]
          /\ \A d \in Co : got'[d] = IF d = c THEN got[d] \cup {p} ELSE got[d]
      BY <2>1, <2>2 DEF Give, WaitInv, WaitTypeOK
    <2>7. WaitTypeOK'
      BY <1>1, <1>2, <2>1, <2>5, <2>6 DEF WaitInv, WaitTypeOK
    <2>8. StatusInv'
      BY <1>2, <1>3, <2>1, <2>2, <2>6 DEF WaitInv, StatusInv
    <2>9. SignalInv'
      BY Zenon, <1>1, <2>5 DEF WaitInv, SignalInv, Matches
    <2>10. ASSUME Apart, NEW d \in Co, NEW r \in Pid, waiting'[d] # None, Matches(waiting'[d], r)
           PROVE  /\ r \notin child_processes
                  /\ waiting'[d] = r => waitpid_map'[r] = d /\ process'[r] # "reaped"
      <3>1. d # c /\ waiting'[d] = waiting[d]
        BY <2>5, <2>10
      <3>2. /\ r \notin child_processes
            /\ waiting[d] = r => waitpid_map[r] = d /\ process[r] # "reaped"
        BY <2>10, <3>1 DEF WaitInv, ApartInv
      <3>3. ASSUME waiting[d] = r PROVE waiting[c] # r
        BY <2>2, <2>10, <3>1, <3>3, DequeueApart
      <3>4. ASSUME waiting[d] = p PROVE FALSE
        <4>1. waitpid_map[p] = d /\ d # None
          BY <2>10, <3>4, WaitAssumption DEF WaitInv, ApartInv, Matches
        <4>2. QED
          BY <3>1, <4>1 DEF c, Waiter
      <3>5. QED
        BY Zenon, <1>2, <2>5, <3>1, <3>2, <3>3, <3>4
    <2>11. ApartInv'
      BY <1>1, <2>1, <2>10 DEF ApartInv, Apart, Matches
    <2>12. QED
      BY Zenon, <2>5, <2>7, <2>8, <2>9, <2>11 DEF WaitInv
  <1>6. QED
    BY <1>4, <1>5

-----------------------------------------------------------------------------
(***************************************************************************)
(* The theorems.                                                           *)
(***************************************************************************)

\* The invariant holds before the first call of waitpid().
LEMMA WaitInvInit == WaitInit => WaitInv
  <1> SUFFICES ASSUME WaitInit PROVE WaitInv
    OBVIOUS
  <1>1. WaitTypeOK
    <2>1. /\ wait_list \in Seq(Co) /\ waitpid_map \in [Pid -> Co \cup {None}]
          /\ process \in [Pid -> {"alive", "zombie", "reaped"}]
          /\ waiting \in [Co -> Pid \cup {AnyPid, None}]
      BY DEF WaitInit
    <2>2. got \in [Co -> SUBSET Pid] /\ child_processes \subseteq Pid
      BY DEF WaitInit
    <2>3. /\ signal_ready \in BOOLEAN /\ sigchld \in BOOLEAN /\ handling \in BOOLEAN
          /\ current \in Co \cup {None}
      BY DEF WaitInit
    <2>4. QED
      BY <2>1, <2>2, <2>3 DEF WaitTypeOK
  <1>2. \A c \in Co : waiting[c] = None /\ None # AnyPid
    BY WaitAssumption DEF WaitInit
  <1>3. TargetInv
    BY <1>2, WaitAssumption DEF WaitInit, TargetInv
  <1>4. TaskInv
    BY <1>2 DEF WaitInit, TaskInv, OnceEach, Listed
  <1>5. StatusInv /\ SignalInv /\ ApartInv
    BY Zenon, <1>2 DEF WaitInit, StatusInv, SignalInv, ApartInv
  <1>6. QED
    BY <1>1, <1>3, <1>4, <1>5 DEF WaitInv

\* Every step of a coroutine, of the handler and of the kernel keeps it.
LEMMA WaitInvStep == WaitInv /\ [WaitNext]_waitVars => WaitInv'
  <1> SUFFICES ASSUME WaitInv, [WaitNext]_waitVars PROVE WaitInv'
    BY Zenon
  <1>1. CASE UNCHANGED waitVars
    BY <1>1 DEF waitVars, WaitInv, WaitTypeOK, TargetInv, TaskInv, StatusInv, SignalInv,
                ApartInv, Apart, Matches
  <1>2. CASE UNCHANGED targets /\ (Stop \/ HandlerBegin \/ HandlerEnd)
    BY Zenon, <1>2, StopStep, HandlerBeginStep, HandlerEndStep
  <1>3. ASSUME UNCHANGED targets, NEW p \in Pid, Exit(p) \/ HandlerLoop(p) PROVE WaitInv'
    BY Zenon, <1>3, ExitStep, HandlerLoopStep
  <1>4. ASSUME UNCHANGED targets, NEW c \in Co, Run(c) \/ GiveUp(c) PROVE WaitInv'
    BY Zenon, <1>4, RunStep, GiveUpStep
  <1>5. ASSUME UNCHANGED targets, NEW c \in Co, NEW target \in targets[c],
               Cached(c, target) \/ Reap(c, target) \/ Yield(c, target)
        PROVE  WaitInv'
    BY Zenon, <1>5, CachedStep, ReapStep, YieldStep
  <1>6. QED
    BY <1>1, <1>2, <1>3, <1>4, <1>5 DEF WaitNext

\* In every behaviour of the waits.
LEMMA WaitInvAlways == WaitSpec => []WaitInv
  BY WaitInvInit, WaitInvStep, PTL DEF WaitSpec

\* A task in the list or in the map is on the stack of a coroutine that is still
\* suspended in waitpid(), and one that calls wait() is in the list
\* (wait.cc:141, 152-171).
THEOREM WaitTasksOnStack == WaitSpec => []TasksOnStack
  <1>1. WaitInv => TasksOnStack
    <2> SUFFICES ASSUME WaitInv PROVE TasksOnStack
      OBVIOUS
    <2>1. WaitTypeOK /\ TaskInv
      BY DEF WaitInv
    <2>2. \A k \in 1 .. Len(wait_list) : waiting[wait_list[k]] = AnyPid
      BY Zenon, <2>1 DEF TaskInv, Listed
    <2>3. \A c \in Co : waiting[c] = AnyPid => \E k \in 1 .. Len(wait_list) : wait_list[k] = c
      BY Zenon, <2>1 DEF TaskInv, Listed
    <2> QED
      BY Zenon, <2>1, <2>2, <2>3 DEF TaskInv, TasksOnStack
  <1>2. QED
    BY <1>1, WaitInvAlways, PTL

\* When the signals that came have been handled, no coroutine waits for a child
\* that has exited, if the coroutines keep apart (wait.cc:50-77, 139).
THEOREM WaitNobodyMissesExit == WaitSpec => []NobodyMissesExit
  <1>1. ASSUME WaitInv, Apart, ~handling, ~sigchld, NEW c \in Co, NEW p \in Pid,
               waiting[c] # None, Matches(waiting[c], p)
        PROVE  /\ process[p] # "zombie" /\ p \notin child_processes
               /\ waiting[c] = p => process[p] = "alive"
    BY <1>1 DEF WaitInv, WaitTypeOK, SignalInv, ApartInv
  <1>2. WaitInv => NobodyMissesExit
    BY Zenon, <1>1 DEF NobodyMissesExit
  <1>3. QED
    BY <1>2, WaitInvAlways, PTL

-----------------------------------------------------------------------------
(* The process pool.                                                       *)

\* The map and workers[] agree, at every step of the loop.
MapIsExact == \A i \in Workers, q \in ProcId : map_[q] = i <=> q = worker_pid[i]

\* A worker's process has been forked.
WorkersAreBorn == \A i \in Workers : proc[worker_pid[i]] # "unborn"

\* A worker's process that was reaped is the one this round is about, or one
\* that a reload passed over.
ReapedIsSeen ==
    pool_running =>
        \A i \in Workers :
            proc[worker_pid[i]] = "reaped" =>
                \/ worker_pid[i] \in forgotten
                \/ round = "messages" /\ worker_pid[i] = exit_pid

\* The last part of wait() is reached only when the pool does not run.
StopIsLast == round \in {"stop", "stopped"} => ~pool_running

\* A reload that was asked for has its task.
ReloadHasTask == pool_running /\ reload_init => reload_task # NoReload

ManInv ==
    /\ ProcessPoolTypeOK
    /\ MapIsExact /\ WorkersAreBorn /\ ReapedIsSeen
    /\ StopIsLast /\ ReloadHasTask

\* Signals and exits neither fork nor reap.
SameEnds(ps, qs) ==
    \A p \in ProcId : /\ ps[p] = "unborn" <=> qs[p] = "unborn"
                      /\ ps[p] = "reaped" <=> qs[p] = "reaped"

ProcStates == Living \cup {"unborn", "zombie", "reaped"}

-----------------------------------------------------------------------------
(* Facts about the operators.                                              *)

\* Pids are positive numbers.
LEMMA PidsArePositive == ProcId \subseteq Nat \ {0} /\ Workers \subseteq ProcId /\ Workers \subseteq Nat \ {0}
<1>1. pool_worker_num <= pool_worker_num * (MaxReloads + 1) + MaxFaults
  <2>1. pool_worker_num * (MaxReloads + 1) = pool_worker_num * MaxReloads + pool_worker_num
    BY PoolSizesAssumption
  <2>2. pool_worker_num * MaxReloads \in Nat
    BY PoolSizesAssumption
  <2> QED
    BY <2>1, <2>2, PoolSizesAssumption
<1>2. pool_worker_num * (MaxReloads + 1) + MaxFaults \in Nat
  BY PoolSizesAssumption
<1> QED
  BY <1>1, <1>2, PoolSizesAssumption DEF ProcId, Workers

\* kill_one() stops inside its queue or one past its end.
LEMMA KillIndexInRange ==
    ASSUME NEW task \in ReloadTasks(ProcId), NEW dead
    PROVE  KillIndex(task, dead) \in 1 .. Len(task.kill_queue) + 1
<1> DEFINE q == task.kill_queue
           first(i) == /\ q[i] \in task.workers \ dead
                       /\ \A j \in 1 .. i - 1 : q[j] \notin task.workers \ dead
<1>1. q \in Seq(ProcId) /\ Len(q) \in Nat
  BY DEF ReloadTasks
<1>2. KillIndex(task, dead) = IF \E i \in 1 .. Len(q) : first(i)
                              THEN CHOOSE i \in 1 .. Len(q) : first(i) ELSE Len(q) + 1
  BY DEF KillIndex
<1> HIDE DEF first
<1>3. CASE \E i \in 1 .. Len(q) : first(i)
  <2>1. KillIndex(task, dead) \in 1 .. Len(q)
    BY <1>2, <1>3
  <2> QED
    BY <1>1, <2>1
<1>4. CASE ~ \E i \in 1 .. Len(q) : first(i)
  <2>1. KillIndex(task, dead) = Len(q) + 1
    BY <1>2, <1>4
  <2> QED
    BY <1>1, <2>1
<1> QED
  BY <1>3, <1>4

\* The tasks that the operations return are tasks.
LEMMA TasksAreTyped ==
    ASSUME NEW task \in ReloadTasks(ProcId), NEW dead, NEW pid
    PROVE  /\ kill_one(task, dead) \in ReloadTasks(ProcId)
           /\ kill_all(task, dead) \in ReloadTasks(ProcId)
           /\ [kill_all(task, dead) EXCEPT !.timer = FALSE] \in ReloadTasks(ProcId)
           /\ remove(task, pid) \in ReloadTasks(ProcId)
<1>1. KillIndex(task, dead) \in 1 .. Len(task.kill_queue) + 1
  BY KillIndexInRange
<1>2. SubSeq(task.kill_queue, KillIndex(task, dead) + 1, Len(task.kill_queue)) \in Seq(ProcId)
  <2> DEFINE q == task.kill_queue
             i == KillIndex(task, dead)
  <2>1. q \in Seq(ProcId) /\ i \in 1 .. Len(q) + 1
    BY <1>1 DEF ReloadTasks
  <2> HIDE DEF q, i
  <2>2. SubSeq(q, i + 1, Len(q)) \in Seq(ProcId)
    BY <2>1
  <2> QED
    BY <2>2 DEF q, i
<1>3. kill_one(task, dead) \in ReloadTasks(ProcId)
  BY Zenon, <1>2 DEF ReloadTasks, kill_one
<1>4. kill_all(task, dead) \in ReloadTasks(ProcId)
  <2>1. <<>> \in Seq(ProcId)
    OBVIOUS
  <2> QED
    BY Zenon, <2>1 DEF ReloadTasks, kill_all
<1>5. [kill_all(task, dead) EXCEPT !.timer = FALSE] \in ReloadTasks(ProcId)
  BY Zenon, <1>4 DEF ReloadTasks
<1>6. remove(task, pid) \in ReloadTasks(ProcId)
  BY DEF ReloadTasks, remove
<1> QED
  BY <1>3, <1>4, <1>5, <1>6

\* The task that reload() creates has its type.
LEMMA NewIsTyped == NewReloadTask(~polite) \in ReloadTasks(ProcId)
<1>1. <<>> \in Seq(ProcId) /\ (~polite) \in BOOLEAN
  OBVIOUS
<1> QED
  BY <1>1 DEF NewReloadTask, ReloadTasks

\* The workers' pids are a list that add_workers() can take.
LEMMA AddedIsTyped ==
    ASSUME NEW task \in ReloadTasks(ProcId), NEW list \in [Workers -> ProcId]
    PROVE  add_workers(task, list) \in ReloadTasks(ProcId)
<1>1. list \in Seq(ProcId) /\ Len(list) = pool_worker_num
  BY PoolSizesAssumption DEF Workers
<1>2. {list[i] : i \in 1 .. Len(list)} \subseteq ProcId
  BY <1>1
<1>3. task.kill_queue \o list \in Seq(ProcId)
  BY <1>1 DEF ReloadTasks
<1> QED
  BY Zenon, <1>2, <1>3 DEF ReloadTasks, add_workers

\* Signals change states only among the living.
LEMMA SignalsKeepEnds ==
    ASSUME NEW ps \in [ProcId -> ProcStates], NEW set
    PROVE  /\ Asked(ps, set) \in [ProcId -> ProcStates] /\ SameEnds(ps, Asked(ps, set))
           /\ Killed(ps, set) \in [ProcId -> ProcStates] /\ SameEnds(ps, Killed(ps, set))
  BY DEF Asked, Killed, SameEnds, ProcStates, Living

\* fork() returns the pid of a process that there was not.
LEMMA NextPidIsFresh ==
    ASSUME \E p \in ProcId : IsNext(p)
    PROVE  NextPid \in ProcId /\ proc[NextPid] = "unborn"
<1>1. NextPid \in ProcId /\ IsNext(NextPid)
  <2> HIDE DEF IsNext
  <2> QED
    BY DEF NextPid
<1> QED
  BY <1>1 DEF IsNext

\* spawn() of a worker in place of the process that exited or detached itself:
\* the map stays exact, and no other worker changes its process.
LEMMA SpawnReplaces ==
    ASSUME ManInv,
           NEW old \in ProcId, map_[old] # 0,
           Spawn(map_[old], old)
    PROVE  /\ NextPid \in ProcId /\ proc[NextPid] = "unborn"
           /\ map_[old] \in Workers
           /\ worker_pid' = [worker_pid EXCEPT ![map_[old]] = NextPid]
           /\ worker_pid' \in [Workers -> ProcId]
           /\ map_' \in [ProcId -> Workers \cup {0}]
           /\ MapIsExact'
           /\ \A i \in Workers : \/ worker_pid'[i] = NextPid
                                 \/ /\ worker_pid'[i] = worker_pid[i]
                                    /\ worker_pid[i] # old /\ worker_pid[i] # NextPid
<1> DEFINE n == NextPid
           w == map_[old]
<1>1. n \in ProcId /\ proc[n] = "unborn"
  BY NextPidIsFresh DEF Spawn
<1>2. w \in Workers /\ worker_pid[w] = old
  BY DEF ManInv, ProcessPoolTypeOK, MapIsExact
<1>3. n # old /\ \A i \in Workers : worker_pid[i] # n
  BY <1>1, <1>2 DEF ManInv, WorkersAreBorn
<1> HIDE DEF n
<1>4. /\ worker_pid' = [worker_pid EXCEPT ![w] = n]
      /\ map_' = [map_ EXCEPT ![old] = 0, ![old] = 0, ![n] = w]
  BY <1>2 DEF Spawn, n
<1>5. /\ worker_pid \in [Workers -> ProcId]
      /\ map_ \in [ProcId -> Workers \cup {0}]
      /\ MapIsExact
  BY DEF ManInv, ProcessPoolTypeOK
<1>6. worker_pid' \in [Workers -> ProcId] /\ map_' \in [ProcId -> Workers \cup {0}]
  BY <1>1, <1>2, <1>4, <1>5
<1>7. MapIsExact'
  <2> SUFFICES ASSUME NEW i \in Workers, NEW q \in ProcId
               PROVE  map_'[q] = i <=> q = worker_pid'[i]
    BY DEF MapIsExact, Workers, ProcId
  <2>0. i # 0
    BY PidsArePositive
  <2>1. CASE q = n
    BY <2>1, <1>1, <1>2, <1>3, <1>4, <1>5
  <2>2. CASE q = old
    BY <2>0, <2>2, <1>1, <1>2, <1>3, <1>4, <1>5 DEF MapIsExact
  <2>3. CASE q # n /\ q # old
    BY <2>3, <1>1, <1>2, <1>3, <1>4, <1>5 DEF MapIsExact
  <2> QED
    BY <2>1, <2>2, <2>3
<1>8. \A i \in Workers : \/ worker_pid'[i] = n
                         \/ /\ worker_pid'[i] = worker_pid[i]
                            /\ worker_pid[i] # old /\ worker_pid[i] # n
  BY <1>2, <1>3, <1>4, <1>5 DEF MapIsExact
<1> QED
  BY <1>1, <1>2, <1>4, <1>6, <1>7, <1>8 DEF n

-----------------------------------------------------------------------------
(* The inductive invariant.                                                *)

\* start() establishes the invariant.
LEMMA ManInitial == ASSUME ProcessPoolInit PROVE ManInv
<1>1. ProcessPoolTypeOK
  <2>1. message_box \in Seq(ProcId)
    BY DEF ProcessPoolInit
  <2>2. /\ proc \in [ProcId -> ProcStates]
        /\ worker_pid \in [Workers -> ProcId]
        /\ map_ \in [ProcId -> Workers \cup {0}]
    BY PidsArePositive DEF ProcessPoolInit, ProcStates, Living
  <2> QED
    BY Zenon, <2>1, <2>2 DEF ProcessPoolInit, ProcessPoolTypeOK, ProcStates
<1>2. MapIsExact /\ WorkersAreBorn /\ ReapedIsSeen
  BY PidsArePositive DEF ProcessPoolInit, MapIsExact, WorkersAreBorn, ReapedIsSeen
<1> QED
  BY <1>1, <1>2 DEF ProcessPoolInit, ManInv, StopIsLast, ReloadHasTask

\* A step that leaves the books alone and neither forks nor reaps.
LEMMA QuietStep ==
    ASSUME ManInv, ProcessPoolTypeOK',
           UNCHANGED <<worker_pid, map_, exit_pid>>,
           SameEnds(proc, proc'),
           forgotten \subseteq forgotten',
           pool_running' => /\ pool_running
                            /\ \/ round' = round
                               \/ \A i \in Workers :
                                    worker_pid[i] = exit_pid => exit_pid \in forgotten'
    PROVE  MapIsExact' /\ WorkersAreBorn' /\ ReapedIsSeen'
<1>1. worker_pid \in [Workers -> ProcId]
  BY DEF ManInv, ProcessPoolTypeOK
<1>2. MapIsExact'
  BY DEF ManInv, MapIsExact, Workers, ProcId
<1>3. WorkersAreBorn'
  BY <1>1 DEF ManInv, WorkersAreBorn, SameEnds, Workers
<1>4. ReapedIsSeen'
  BY <1>1 DEF ManInv, ReapedIsSeen, SameEnds, Workers
<1> QED
  BY <1>2, <1>3, <1>4

\* What the processes and those who signal the master do.
LEMMA OthersKeep ==
    ASSUME ManInv,
           \/ AskReload \/ AskStop
           \/ \E p \in ProcId : Exits(p) \/ Detach(p)
    PROVE  ManInv'
<1>0. ProcessPoolTypeOK
  BY DEF ManInv
<1>1. /\ UNCHANGED loopVars
      /\ \/ UNCHANGED proc
         \/ \E p \in ProcId : proc[p] \in Living /\ proc' = [proc EXCEPT ![p] = "zombie"]
         \/ \E p \in ProcId : proc[p] \in Living /\ proc' = [proc EXCEPT ![p] = "detached"]
  BY DEF AskReload, AskStop, Exits, Detach, Living
<1>2. message_box' \in Seq(ProcId)
  BY <1>0 DEF AskReload, AskStop, Exits, Detach, ProcessPoolTypeOK
<1>3. arrived' \subseteq {"USR1", "IO", "TERM"}
  BY Zenon, <1>0 DEF AskReload, AskStop, Exits, Detach, Arrives, ProcessPoolTypeOK
<1>4. proc' \in [ProcId -> ProcStates] /\ SameEnds(proc, proc')
  BY <1>0, <1>1 DEF ProcessPoolTypeOK, ProcStates, Living, SameEnds
<1>5. ProcessPoolTypeOK'
  BY <1>0, <1>1, <1>2, <1>3, <1>4 DEF ProcessPoolTypeOK, loopVars, ProcStates
<1>6. MapIsExact' /\ WorkersAreBorn' /\ ReapedIsSeen'
  BY <1>1, <1>4, <1>5, QuietStep DEF loopVars
<1>7. StopIsLast' /\ ReloadHasTask'
  BY <1>1 DEF ManInv, StopIsLast, ReloadHasTask, loopVars
<1> QED
  BY <1>5, <1>6, <1>7 DEF ManInv

\* wait() reaps a process, which the round is then about.
LEMMA WaitReturnsKeeps == ASSUME ManInv, WaitReturns PROVE ManInv'
<1>0. ProcessPoolTypeOK
  BY DEF ManInv
<1> DEFINE reload == "USR1" \in arrived
           task == IF reload THEN Reloading(reload_task) ELSE reload_task
<1>1. PICK pid \in ProcId \cup {0}, late \in BOOLEAN :
        /\ round = "wait" /\ pool_running
        /\ pid # 0 => proc[pid] = "zombie"
        /\ late => KillerFires
        /\ exit_pid' = pid
        /\ proc' = LET reaped == IF pid = 0 THEN proc ELSE [proc EXCEPT ![pid] = "reaped"]
                   IN  IF late THEN Killed(reaped, KilledByAll(reload_task, Dead))
                       ELSE reaped
        /\ reload_task' = IF late
                          THEN [kill_all(task, Dead \cup ({pid} \ {0})) EXCEPT !.timer = FALSE]
                          ELSE task
        /\ reload_init' = (reload_init \/ (reload /\ reload_task = NoReload))
        /\ pool_running' = ("TERM" \notin arrived)
        /\ arrived' = {}
        /\ round' = "messages"
        /\ UNCHANGED <<polite, worker_pid, map_, detached_workers, message_box, forgotten>>
  BY Zenon DEF WaitReturns
<1> DEFINE reaped == IF pid = 0 THEN proc ELSE [proc EXCEPT ![pid] = "reaped"]
<1>2. reaped \in [ProcId -> ProcStates]
  BY <1>0 DEF ProcessPoolTypeOK, ProcStates
<1>3. proc' \in [ProcId -> ProcStates] /\ SameEnds(reaped, proc')
  <2>1. proc' = reaped \/ proc' = Killed(reaped, KilledByAll(reload_task, Dead))
    BY <1>1
  <2> HIDE DEF reaped
  <2>2. SameEnds(reaped, reaped)
    BY DEF SameEnds
  <2> QED
    BY <1>2, <2>1, <2>2, SignalsKeepEnds
<1>4. task \in ReloadTasks(ProcId) \cup {NoReload} /\ (late => task \in ReloadTasks(ProcId))
  BY NewIsTyped, <1>0, <1>1 DEF Reloading, ProcessPoolTypeOK, KillerFires
<1>5. reload_task' \in ReloadTasks(ProcId) \cup {NoReload}
  <2> HIDE DEF task
  <2> QED
    BY Zenon, <1>1, <1>4, TasksAreTyped
<1>6. ProcessPoolTypeOK'
  BY Zenon, <1>0, <1>1, <1>3, <1>5 DEF ProcessPoolTypeOK, ProcStates
<1>7. MapIsExact'
  BY <1>1 DEF ManInv, MapIsExact, Workers, ProcId
<1>8. WorkersAreBorn' /\ ReapedIsSeen'
  <2>1. ASSUME NEW i \in Workers
        PROVE  /\ proc'[worker_pid[i]] # "unborn"
               /\ proc'[worker_pid[i]] = "reaped" =>
                    worker_pid[i] \in forgotten \/ worker_pid[i] = pid
    <3>1. worker_pid[i] \in ProcId
      BY <1>0 DEF ProcessPoolTypeOK
    <3>2. /\ proc'[worker_pid[i]] = "unborn" <=> reaped[worker_pid[i]] = "unborn"
          /\ proc'[worker_pid[i]] = "reaped" <=> reaped[worker_pid[i]] = "reaped"
      BY <3>1, <1>3 DEF SameEnds
    <3>3. /\ proc[worker_pid[i]] # "unborn"
          /\ proc[worker_pid[i]] = "reaped" => worker_pid[i] \in forgotten
      BY <1>1 DEF ManInv, WorkersAreBorn, ReapedIsSeen
    <3> QED
      BY <1>0, <3>1, <3>2, <3>3 DEF ProcessPoolTypeOK
  <2> QED
    BY Zenon, <2>1, <1>1 DEF WorkersAreBorn, ReapedIsSeen, Workers
<1>9. StopIsLast'
  BY <1>1 DEF StopIsLast
<1>10. ReloadHasTask'
  <2> SUFFICES ASSUME reload_init' PROVE reload_task' # NoReload
    BY DEF ReloadHasTask
  <2>1. task # NoReload
    BY Zenon, <1>1, NewIsTyped, NoReloadAssumption DEF ManInv, ReloadHasTask, Reloading
  <2>2. task \in ReloadTasks(ProcId)
    BY <2>1, <1>4
  <2> HIDE DEF task
  <2> QED
    BY <2>2, <1>1, TasksAreTyped, NoReloadAssumption
<1> QED
  BY <1>6, <1>7, <1>8, <1>9, <1>10 DEF ManInv

\* What every way to end a round does.
LEMMA RoundEnds ==
    ASSUME ManInv, NextRound, pool_running
    PROVE  /\ round' = "wait" /\ pool_running' /\ exit_pid' = exit_pid
           /\ UNCHANGED <<polite, message_box, arrived>>
           /\ StopIsLast'
  BY DEF NextRound, StopIsLast

\* A round in which wait() returned nothing keeps the invariant.
LEMMA NoExitKeeps == ASSUME ManInv, NoExit PROVE ManInv'
<1>0. ProcessPoolTypeOK
  BY DEF ManInv
<1>1. ProcessPoolTypeOK'
  BY <1>0, RoundEnds DEF NoExit, NextRound, ProcessPoolTypeOK
<1>2. SameEnds(proc, proc')
  BY DEF NoExit, SameEnds
<1>3. \A i \in Workers : worker_pid[i] # exit_pid
  BY <1>0, PidsArePositive DEF NoExit, ProcessPoolTypeOK
<1>4. MapIsExact' /\ WorkersAreBorn' /\ ReapedIsSeen'
  BY <1>1, <1>2, <1>3, RoundEnds, QuietStep DEF NoExit
<1> QED
  BY <1>1, <1>4, RoundEnds DEF ManInv, NoExit, ReloadHasTask

\* The round that begins a reload keeps it: the exit it passes over is forgotten.
LEMMA BeginReloadKeeps == ASSUME ManInv, BeginReload PROVE ManInv'
<1>0. ProcessPoolTypeOK
  BY DEF ManInv
<1> DEFINE task == add_workers(reload_task, worker_pid)
<1>1. reload_task \in ReloadTasks(ProcId) /\ worker_pid \in [Workers -> ProcId]
  BY <1>0 DEF ManInv, BeginReload, ReloadHasTask, ProcessPoolTypeOK
<1>2. task \in ReloadTasks(ProcId)
  BY <1>1, AddedIsTyped
<1> HIDE DEF task
<1>3. reload_task' = kill_one(task, Dead) /\ proc' = Asked(proc, KilledByOne(task, Dead))
  BY DEF BeginReload, KillOne, task
<1>4. reload_task' \in ReloadTasks(ProcId)
  BY Zenon, <1>2, <1>3, TasksAreTyped
<1>5. proc' \in [ProcId -> ProcStates] /\ SameEnds(proc, proc')
  BY <1>0, <1>3, SignalsKeepEnds DEF ProcessPoolTypeOK, ProcStates
<1>6. ProcessPoolTypeOK'
  BY Zenon, <1>0, <1>4, <1>5, RoundEnds DEF BeginReload, ProcessPoolTypeOK, ProcStates
<1>7. /\ forgotten \subseteq forgotten'
      /\ \A i \in Workers : worker_pid[i] = exit_pid => exit_pid \in forgotten'
  BY <1>1, PidsArePositive DEF BeginReload
<1>8. MapIsExact' /\ WorkersAreBorn' /\ ReapedIsSeen'
  BY <1>5, <1>6, <1>7, RoundEnds, QuietStep DEF BeginReload
<1> QED
  BY <1>6, <1>8, RoundEnds DEF ManInv, BeginReload, ReloadHasTask

\* The exit of a process that is no worker any more keeps it.
LEMMA UnknownExitKeeps == ASSUME ManInv, UnknownExit PROVE ManInv'
<1>0. ProcessPoolTypeOK
  BY DEF ManInv
<1>1. ProcessPoolTypeOK'
  BY Zenon, <1>0, RoundEnds DEF UnknownExit, ProcessPoolTypeOK
<1>2. SameEnds(proc, proc')
  BY DEF UnknownExit, SameEnds
<1>3. \A i \in Workers : worker_pid[i] # exit_pid
  BY <1>0, PidsArePositive DEF UnknownExit, ProcessPoolTypeOK, ManInv, MapIsExact
<1>4. MapIsExact' /\ WorkersAreBorn' /\ ReapedIsSeen'
  BY <1>1, <1>2, <1>3, RoundEnds, QuietStep DEF UnknownExit
<1> QED
  BY <1>1, <1>4, RoundEnds DEF ManInv, UnknownExit, ReloadHasTask

\* A process is forked for the worker of old; signals may follow.
LEMMA ForkedStep ==
    ASSUME ManInv,
           NEW old \in ProcId, map_[old] # 0,
           Spawn(map_[old], old),
           SameEnds([proc EXCEPT ![NextPid] = "running"], proc'),
           pool_running' = pool_running, pool_running,
           UNCHANGED <<exit_pid, forgotten>>,
           \/ round' = round
           \/ old = exit_pid
    PROVE  MapIsExact' /\ WorkersAreBorn' /\ ReapedIsSeen'
<1> DEFINE n == NextPid
           forked == [proc EXCEPT ![n] = "running"]
<1>1. /\ n \in ProcId
      /\ MapIsExact'
      /\ worker_pid' \in [Workers -> ProcId]
      /\ \A i \in Workers : \/ worker_pid'[i] = n
                            \/ /\ worker_pid'[i] = worker_pid[i]
                               /\ worker_pid[i] # old /\ worker_pid[i] # n
  BY SpawnReplaces
<1> HIDE DEF n
<1>2. proc \in [ProcId -> ProcStates] /\ worker_pid \in [Workers -> ProcId]
  BY DEF ManInv, ProcessPoolTypeOK, ProcStates
<1>3. \A p \in ProcId : /\ forked[p] = "unborn" <=> proc'[p] = "unborn"
                        /\ forked[p] = "reaped" <=> proc'[p] = "reaped"
  BY DEF SameEnds, n
<1>4. ASSUME NEW i \in Workers
      PROVE  /\ proc'[worker_pid'[i]] # "unborn"
             /\ proc'[worker_pid'[i]] = "reaped" =>
                    /\ proc[worker_pid[i]] = "reaped"
                    /\ worker_pid'[i] = worker_pid[i] /\ worker_pid[i] # old
  <2>1. CASE worker_pid'[i] = n
    BY <2>1, <1>1, <1>2, <1>3
  <2>2. CASE /\ worker_pid'[i] = worker_pid[i]
             /\ worker_pid[i] # old /\ worker_pid[i] # n
    <3>1. worker_pid[i] \in ProcId /\ forked[worker_pid[i]] = proc[worker_pid[i]]
      BY <1>2, <2>2
    <3>2. proc[worker_pid[i]] # "unborn"
      BY DEF ManInv, WorkersAreBorn
    <3> QED
      BY <3>1, <3>2, <2>2, <1>3
  <2> QED
    BY <2>1, <2>2, <1>1
<1>5. WorkersAreBorn'
  BY <1>4 DEF WorkersAreBorn, Workers
<1>6. ReapedIsSeen'
  <2>1. ASSUME NEW i \in Workers, proc'[worker_pid'[i]] = "reaped"
        PROVE  \/ worker_pid'[i] \in forgotten'
               \/ round' = "messages" /\ worker_pid'[i] = exit_pid'
    BY <2>1, <1>4 DEF ManInv, ReapedIsSeen
  <2> QED
    BY <2>1 DEF ReapedIsSeen, Workers
<1> QED
  BY <1>1, <1>5, <1>6

\* A message of a worker that detached itself keeps it: a new process takes its place.
LEMMA PopMessageKeeps == ASSUME ManInv, PopMessage PROVE ManInv'
<1>0. ProcessPoolTypeOK
  BY DEF ManInv
<1> DEFINE p == Head(message_box)
<1>1. p \in ProcId /\ message_box' \in Seq(ProcId)
  BY <1>0 DEF PopMessage, ProcessPoolTypeOK
<1>2. UNCHANGED <<polite, reload_task, reload_init, pool_running, arrived, round, exit_pid,
                  forgotten>>
  BY DEF PopMessage
<1>3. StopIsLast' /\ ReloadHasTask'
  BY <1>2 DEF ManInv, StopIsLast, ReloadHasTask
<1>4. CASE pool_running /\ map_[p] # 0
  <2>1. /\ Spawn(map_[p], p)
        /\ proc' = [proc EXCEPT ![NextPid] = "running"]
        /\ detached_workers' = detached_workers \cup {p}
    BY <1>4 DEF PopMessage
  <2> HIDE DEF p
  <2>2. SameEnds([proc EXCEPT ![NextPid] = "running"], proc')
    BY <2>1 DEF SameEnds
  <2>3. MapIsExact' /\ WorkersAreBorn' /\ ReapedIsSeen'
    BY Zenon, <1>1, <1>2, <1>4, <2>1, <2>2, ForkedStep
  <2>4. /\ worker_pid' \in [Workers -> ProcId]
        /\ map_' \in [ProcId -> Workers \cup {0}]
    BY <1>1, <1>4, <2>1, SpawnReplaces
  <2>5. ProcessPoolTypeOK'
    BY Zenon, <1>0, <1>1, <1>2, <2>1, <2>4 DEF ProcessPoolTypeOK, Living
  <2> QED
    BY <1>3, <2>3, <2>5 DEF ManInv
<1>5. CASE ~(pool_running /\ map_[p] # 0)
  <2>1. UNCHANGED <<worker_pid, map_, proc, detached_workers>>
    BY <1>5 DEF PopMessage
  <2> HIDE DEF p
  <2>2. ProcessPoolTypeOK'
    BY <1>0, <1>1, <1>2, <2>1 DEF ProcessPoolTypeOK
  <2>3. SameEnds(proc, proc')
    BY <2>1 DEF SameEnds
  <2>4. MapIsExact' /\ WorkersAreBorn' /\ ReapedIsSeen'
    BY <1>2, <2>1, <2>2, <2>3, QuietStep
  <2> QED
    BY <1>3, <2>2, <2>4 DEF ManInv
<1> QED
  BY <1>4, <1>5

\* The exit of a worker keeps it: a new process takes its place.
LEMMA WorkerExitKeeps == ASSUME ManInv, WorkerExit PROVE ManInv'
<1>0. ProcessPoolTypeOK
  BY DEF ManInv
<1> DEFINE forked == [proc EXCEPT ![NextPid] = "running"]
           task == remove(reload_task, exit_pid)
<1>1. exit_pid \in ProcId /\ map_[exit_pid] # 0 /\ Spawn(map_[exit_pid], exit_pid)
  BY <1>0 DEF WorkerExit, ProcessPoolTypeOK
<1>2. /\ NextPid \in ProcId
      /\ worker_pid' \in [Workers -> ProcId]
      /\ map_' \in [ProcId -> Workers \cup {0}]
  BY <1>1, SpawnReplaces
<1>3. forked \in [ProcId -> ProcStates] /\ SameEnds(forked, forked)
  BY <1>0, <1>2 DEF ProcessPoolTypeOK, ProcStates, Living, SameEnds
<1>4. /\ proc' = forked \/ proc' = Asked(forked, KilledByOne(task, Dead))
      /\ \/ UNCHANGED reload_task
         \/ reload_task' = NoReload
         \/ reload_task # NoReload /\ reload_task' = kill_one(task, Dead)
  BY DEF WorkerExit
<1>5. proc' \in [ProcId -> ProcStates] /\ SameEnds(forked, proc')
  <2> HIDE DEF forked, task
  <2> QED
    BY <1>3, <1>4, SignalsKeepEnds
<1>6. reload_task' \in ReloadTasks(ProcId) \cup {NoReload}
  <2>1. CASE reload_task = NoReload
    BY <1>4, <2>1, <1>0 DEF ProcessPoolTypeOK
  <2>2. CASE reload_task # NoReload
    <3>1. reload_task \in ReloadTasks(ProcId)
      BY <1>0, <2>2 DEF ProcessPoolTypeOK
    <3>2. task \in ReloadTasks(ProcId)
      BY Zenon, <3>1, TasksAreTyped
    <3> HIDE DEF task
    <3> QED
      BY Zenon, <1>4, <3>1, <3>2, TasksAreTyped
  <2> QED
    BY <2>1, <2>2
<1>7. /\ pool_running /\ ~reload_init /\ NextRound
      /\ UNCHANGED <<detached_workers, reload_init, forgotten>>
  BY DEF WorkerExit
<1> HIDE DEF task
<1>8. ProcessPoolTypeOK'
  BY Zenon, <1>0, <1>2, <1>5, <1>6, <1>7, RoundEnds DEF ProcessPoolTypeOK, ProcStates
<1>9. MapIsExact' /\ WorkersAreBorn' /\ ReapedIsSeen'
  BY Zenon, <1>1, <1>5, <1>7, ForkedStep DEF NextRound
<1> QED
  BY <1>7, <1>8, <1>9, RoundEnds DEF ManInv, ReloadHasTask

\* The steps after the loop: the pool does not run any more.
LEMMA StoppingKeeps ==
    ASSUME ManInv, LeaveLoop \/ AllReaped \/ StopKills
    PROVE  ManInv'
<1>0. ProcessPoolTypeOK
  BY DEF ManInv
<1>1. proc \in [ProcId -> ProcStates] /\ worker_pid \in [Workers -> ProcId]
  BY <1>0 DEF ProcessPoolTypeOK, ProcStates
<1>2. /\ ~pool_running /\ ~pool_running'
      /\ UNCHANGED <<polite, worker_pid, map_, detached_workers, message_box, reload_init,
                     pool_running, arrived, exit_pid, forgotten>>
      /\ round' \in {"stop", "stopped"}
      /\ reload_task' = reload_task \/ reload_task' = NoReload
  <2>1. CASE LeaveLoop
    BY <2>1 DEF LeaveLoop
  <2>2. CASE AllReaped
    BY <2>2 DEF ManInv, StopIsLast, AllReaped
  <2>3. CASE StopKills
    BY <2>3 DEF ManInv, StopIsLast, StopKills, loopVars
  <2> QED
    BY <2>1, <2>2, <2>3
<1>3. /\ proc' \in [ProcId -> ProcStates]
      /\ \A p \in ProcId : proc'[p] = "unborn" => proc[p] = "unborn"
  <2>1. CASE AllReaped
    BY <1>1, <2>1 DEF AllReaped, ProcStates
  <2>2. CASE LeaveLoop \/ StopKills
    <3>1. \/ \E set : proc' = Asked(proc, set)
          \/ \E set : proc' = Killed(proc, set)
      BY Zenon, <2>2 DEF LeaveLoop, StopKills
    <3> QED
      BY <1>1, <3>1, SignalsKeepEnds DEF SameEnds
  <2> QED
    BY <2>1, <2>2
<1>4. ProcessPoolTypeOK'
  BY <1>0, <1>2, <1>3 DEF ProcessPoolTypeOK, ProcStates
<1>5. MapIsExact'
  BY <1>2 DEF ManInv, MapIsExact, Workers, ProcId
<1>6. WorkersAreBorn'
  BY <1>1, <1>2, <1>3 DEF ManInv, WorkersAreBorn, Workers
<1> QED
  BY <1>2, <1>4, <1>5, <1>6 DEF ManInv, ReapedIsSeen, StopIsLast, ReloadHasTask

\* Every step of the pool keeps the invariant.
LEMMA ManStep == ASSUME ManInv, [ProcessPoolNext]_poolLoopVars PROVE ManInv'
<1>1. CASE UNCHANGED poolLoopVars
  BY <1>1 DEF ManInv, ProcessPoolTypeOK, MapIsExact, WorkersAreBorn, ReapedIsSeen,
              StopIsLast, ReloadHasTask, poolLoopVars, ProcId, Workers
<1>2. CASE ProcessPoolNext
  BY <1>2, OthersKeep, WaitReturnsKeeps, PopMessageKeeps, NoExitKeeps, BeginReloadKeeps,
     UnknownExitKeeps, WorkerExitKeeps, StoppingKeeps DEF ProcessPoolNext, MasterNext
<1> QED
  BY <1>1, <1>2

\* While the pool runs, and wait() (os/process_pool.cc) is about to wait for the
\* next exit, every worker has a process that was not reaped, except for an exit
\* that the round that began a reload passed over, and the map leads from that
\* process and from no other to the worker: for any number of workers, of
\* reloads, and of exits and detachments in any order.
THEOREM PoolStaysManned == ProcessPoolSpec => []PoolIsManned
<1>1. ProcessPoolInit => ManInv
  BY ManInitial
<1>2. ManInv /\ [ProcessPoolNext]_poolLoopVars => ManInv'
  BY ManStep
<1>3. ManInv => PoolIsManned
  BY DEF ManInv, PoolIsManned, ReapedIsSeen, MapIsExact
<1> QED
  BY <1>1, <1>2, <1>3, PTL DEF ProcessPoolSpec

-----------------------------------------------------------------------------
\* Counting, of what is given to a coroutine.
INSTANCE FiniteSetTheorems

\* The status of a child is never lost and never given to two coroutines, however
\* the handler, first tries and waits are interleaved (wait.cc:50-77, 118-181).
THEOREM WaitStatusGivenOnce == WaitSpec => []StatusGivenOnce
  <1>1. ASSUME WaitInv, NEW p \in Pid
        PROVE  Cardinality({c \in Co : p \in got[c]}) + (IF p \in child_processes THEN 1 ELSE 0)
                 = (IF process[p] = "reaped" THEN 1 ELSE 0)
    <2>1. CASE \E c \in Co : p \in got[c]
      <3>1. PICK c \in Co : p \in got[c]
        BY Zenon, <2>1
      <3>2. {d \in Co : p \in got[d]} = {c} /\ p \notin child_processes /\ process[p] = "reaped"
        BY <1>1, <3>1 DEF WaitInv, StatusInv
      <3>3. Cardinality({c}) = 1
        BY Zenon, FS_Singleton
      <3>4. QED
        BY <3>2, <3>3
    <2>2. CASE ~ \E c \in Co : p \in got[c]
      <3>1. {c \in Co : p \in got[c]} = {} /\ (process[p] = "reaped" <=> p \in child_processes)
        BY Zenon, <1>1, <2>2 DEF WaitInv, StatusInv
      <3>2. Cardinality({}) = 0
        BY Zenon, FS_EmptySet
      <3>3. QED
        BY <3>1, <3>2
    <2>3. QED
      BY <2>1, <2>2
  <1>2. WaitInv => StatusGivenOnce
    BY <1>1 DEF StatusGivenOnce
  <1>3. QED
    BY <1>2, WaitInvAlways, PTL
=============================================================================
