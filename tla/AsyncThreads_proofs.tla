------------------------- MODULE AsyncThreads_proofs -------------------------
(***************************************************************************)
(* The counters of the pool of AIO threads are exact, and the pool stays   *)
(* within its limits and grows when a task would wait below them, for any  *)
(* number of tasks and threads and any interleaving with the event loop.   *)
(***************************************************************************)
EXTENDS AsyncThreads, FiniteSetTheorems, TLAPS

\* A message of the pipe.
Message == {"task"} \X Task \cup {"release"} \X Thread

SentIn(p, kind) == {i \in 1 .. Len(p) : p[i][1] = kind}

\* Where the threads may be, and what they have then.
PlacesInv ==
    /\ task_num <= dispatched
    /\ running <=> loop_pc \in {"loop", "notify"}
    /\ threads \subseteq 1 .. created
    /\ \A t \in Thread :
         /\ t > created => state[t] = "none"
         /\ task[t] # NoTask <=> state[t] = "handle"
         /\ state[t] \in {"timedout", "idle", "closing"} => t \notin Core

\* The loop is told of a thread that has left once, and the core threads stay.
LeaversInv ==
    /\ \A i \in SentIn(pipe, "release") :
         pipe[i][2] \in Thread \ Core /\ state[pipe[i][2]] = "exited"
    /\ \A i, j \in SentIn(pipe, "release") : pipe[i][2] = pipe[j][2] => i = j

-----------------------------------------------------------------------------
(* Counting.                                                               *)

\* A set of threads is finite.
LEMMA ThreadSets ==
    ASSUME NEW S \in SUBSET Thread
    PROVE  IsFiniteSet(S) /\ Cardinality(S) \in Nat /\ Cardinality(S) <= MaxThreads
  <1>1. IsFiniteSet(Thread) /\ Cardinality(Thread) = MaxThreads
    BY PoolAssumption, FS_Interval DEF Thread
  <1>2. IsFiniteSet(S) /\ Cardinality(S) <= MaxThreads
    BY <1>1, FS_Subset
  <1>3. QED
    BY <1>2, FS_CardinalityType

\* One thread more.
LEMMA OneMore ==
    ASSUME NEW S \in SUBSET Thread, NEW t \in Thread \ S
    PROVE  Cardinality(S \cup {t}) = Cardinality(S) + 1
  BY ThreadSets, FS_AddElement

\* One thread less.
LEMMA OneLess ==
    ASSUME NEW S \in SUBSET Thread, NEW t \in S
    PROVE  Cardinality(S \ {t}) = Cardinality(S) - 1
  BY ThreadSets, FS_RemoveElement

\* A part has no more threads than the whole.
LEMMA PartIsSmaller ==
    ASSUME NEW S \in SUBSET Thread, NEW T \in SUBSET S
    PROVE  Cardinality(T) <= Cardinality(S)
  BY ThreadSets, FS_Subset

\* The messages of a kind are finitely many.
LEMMA SentFinite ==
    ASSUME NEW p \in Seq(Message), NEW kind
    PROVE  IsFiniteSet(SentIn(p, kind)) /\ Cardinality(SentIn(p, kind)) \in Nat
  <1>1. Len(p) \in Nat
    OBVIOUS
  <1>2. IsFiniteSet(1 .. Len(p))
    BY <1>1, FS_Interval
  <1>3. IsFiniteSet(SentIn(p, kind))
    BY <1>2, FS_Subset DEF SentIn
  <1>4. QED
    BY <1>3, FS_CardinalityType

\* A write to the pipe adds to the messages of its kind only.
LEMMA SentAppend ==
    ASSUME NEW p \in Seq(Message), NEW m \in Message, NEW kind
    PROVE  /\ m[1] = kind =>
                /\ SentIn(Append(p, m), kind) = SentIn(p, kind) \cup {Len(p) + 1}
                /\ Cardinality(SentIn(Append(p, m), kind)) = Cardinality(SentIn(p, kind)) + 1
           /\ m[1] # kind => SentIn(Append(p, m), kind) = SentIn(p, kind)
  <1>1. /\ Len(Append(p, m)) = Len(p) + 1 /\ Len(p) \in Nat
        /\ Append(p, m)[Len(p) + 1] = m
        /\ \A i \in 1 .. Len(p) : Append(p, m)[i] = p[i]
    OBVIOUS
  <1>2. m[1] = kind => SentIn(Append(p, m), kind) = SentIn(p, kind) \cup {Len(p) + 1}
    BY <1>1 DEF SentIn
  <1>3. m[1] # kind => SentIn(Append(p, m), kind) = SentIn(p, kind)
    BY <1>1 DEF SentIn
  <1>4. Len(p) + 1 \notin SentIn(p, kind)
    BY <1>1 DEF SentIn
  <1>5. QED
    BY <1>2, <1>3, <1>4, SentFinite, FS_AddElement

\* A read from the pipe takes one message of its kind away.
LEMMA SentTail ==
    ASSUME NEW p \in Seq(Message), p # <<>>, NEW kind
    PROVE  /\ Head(p)[1] = kind =>
                /\ Cardinality(SentIn(p, kind)) > 0
                /\ Cardinality(SentIn(Tail(p), kind)) = Cardinality(SentIn(p, kind)) - 1
           /\ Head(p)[1] # kind =>
                Cardinality(SentIn(Tail(p), kind)) = Cardinality(SentIn(p, kind))
  <1> DEFINE S == SentIn(p, kind)
             T == SentIn(Tail(p), kind)
             f == [i \in T |-> i + 1]
  <1>1. /\ Len(p) \in Nat \ {0} /\ Tail(p) \in Seq(Message) /\ Len(Tail(p)) = Len(p) - 1
        /\ Head(p) = p[1] /\ \A i \in 1 .. Len(p) - 1 : Tail(p)[i] = p[i + 1]
    OBVIOUS
  <1>2. /\ \A i \in T : i \in Nat /\ i + 1 \in S \ {1}
        /\ \A j \in S \ {1} : j - 1 \in T /\ j \in Nat
        /\ 1 \in S <=> Head(p)[1] = kind
    BY <1>1 DEF SentIn
  <1>3. IsFiniteSet(S) /\ IsFiniteSet(T) /\ Cardinality(S) \in Nat
    BY <1>1, SentFinite
  <1> HIDE DEF S, T
  <1>4. f \in Bijection(T, S \ {1})
    <2>1. f \in [T -> S \ {1}]
      BY <1>2
    <2>2. \A i, j \in T : f[i] = f[j] => i = j
      BY <1>2
    <2>3. \A j \in S \ {1} : \E i \in T : f[i] = j
      <3> TAKE j \in S \ {1}
      <3>1. j - 1 \in T /\ f[j - 1] = j
        BY <1>2
      <3>2. QED
        BY <3>1
    <2>4. QED
      BY <2>1, <2>2, <2>3 DEF Bijection, Injection, Surjection, IsInjective
  <1>5. Cardinality(S \ {1}) = Cardinality(T)
    BY <1>3, <1>4, FS_Bijection DEF ExistsBijection
  <1>6. Cardinality(S \ {1}) = IF 1 \in S THEN Cardinality(S) - 1 ELSE Cardinality(S)
    BY <1>3, FS_RemoveElement
  <1>7. 1 \in S => Cardinality(S) # 0
    BY <1>3, FS_EmptySet
  <1>8. QED
    BY <1>2, <1>3, <1>5, <1>6, <1>7 DEF S, T

\* The threads that have left are as many as the messages that say so, at most.
LEMMA ReleasesBounded ==
    ASSUME NEW p \in Seq(Message),
           \A i, j \in SentIn(p, "release") : p[i][2] = p[j][2] => i = j
    PROVE  Cardinality(SentIn(p, "release")) <= MaxThreads
  <1> DEFINE S == SentIn(p, "release")
             f == [i \in S |-> p[i][2]]
  <1>1. \A i \in S : p[i] \in Message /\ p[i][1] = "release"
    BY DEF SentIn
  <1>2. \A i \in S : p[i][2] \in Thread
    BY <1>1 DEF Message
  <1> HIDE DEF S
  <1>3. f \in Injection(S, Thread)
    BY <1>2 DEF Injection, IsInjective, S
  <1>4. IsFiniteSet(Thread) /\ Cardinality(Thread) = MaxThreads
    BY PoolAssumption, FS_Interval DEF Thread
  <1>5. QED
    BY <1>3, <1>4, FS_Injection DEF S

\* The smaller of two numbers.
LEMMA MinOfTwo ==
    ASSUME NEW m \in Nat, NEW n \in Nat
    PROVE  Min({m, n}) = IF m <= n THEN m ELSE n
  <1>1. PICK x \in {m, n} : x = (IF m <= n THEN m ELSE n)
    OBVIOUS
  <1>2. \A y \in {m, n} : x <= y
    BY <1>1
  <1>3. \A z \in {m, n} : (\A y \in {m, n} : z <= y) => z = x
    BY <1>1
  <1>4. QED
    BY <1>1, <1>2, <1>3 DEF Min

-----------------------------------------------------------------------------
(* The invariant.                                                          *)

Busy == {t \in Thread : task[t] # NoTask}

BaseTypeOK ==
    /\ running \in BOOLEAN
    /\ queue_ \in Seq(Task) /\ pipe \in Seq(Message)
    /\ threads \subseteq Thread
    /\ state \in [Thread -> {"none", "check", "lock", "evaluated", "waiting", "woken",
                             "timedout", "idle", "closing", "handle", "exited"}]
    /\ task \in [Thread -> Task \cup {NoTask}]
    /\ mutex \in Thread \cup {NoThread}
    /\ dispatched \in 0 .. MaxTasks
    /\ created \in core_worker_num .. MaxThreads
    /\ canceled \subseteq Task /\ called \subseteq Task
    /\ loop_pc \in {"loop", "notify", "notify_all", "join", "down"}

\* NothingUnderWay, with names for its sets.
CountInv ==
    /\ task_num = Len(queue_) + Cardinality(Busy) + Cardinality(SentIn(pipe, "task"))
    /\ n_closing = Cardinality(SentIn(pipe, "release"))

CoreInv ==
    /\ Cardinality(threads) <= worker_num
    /\ running => \A t \in Core : t \in threads /\ state[t] # "exited"

AioInv == BaseTypeOK /\ CountInv /\ CoreInv /\ PlacesInv /\ LeaversInv /\ PoolGrows

\* The counters stay in their ranges since they count.
LEMMA AioInvIsExact == AioInv => PoolIsExact
  <1> SUFFICES ASSUME AioInv PROVE PoolIsExact
    OBVIOUS
  <1>1. NothingUnderWay
    BY DEF AioInv, CountInv, NothingUnderWay, Busy, SentIn, Sent
  <1>2. Len(queue_) \in Nat /\ pipe \in Seq(Message) /\ dispatched \in 0 .. MaxTasks
    BY DEF AioInv, BaseTypeOK
  <1>3. Cardinality(Busy) \in Nat /\ Cardinality(SentIn(pipe, "task")) \in Nat
    BY <1>2, ThreadSets, SentFinite DEF Busy
  <1>4. task_num \in 0 .. MaxTasks
    BY <1>2, <1>3, PoolAssumption DEF AioInv, CountInv, PlacesInv
  <1>5. \A i, j \in SentIn(pipe, "release") : pipe[i][2] = pipe[j][2] => i = j
    BY DEF AioInv, LeaversInv
  <1>6. n_closing \in 0 .. MaxThreads
    BY <1>2, <1>5, ReleasesBounded, SentFinite, PoolAssumption DEF AioInv, CountInv
  <1>7. PoolTypeOK
    BY <1>4, <1>6 DEF AioInv, BaseTypeOK, PoolTypeOK, Message
  <1>8. QED
    BY <1>1, <1>7 DEF AioInv, CoreInv, PoolIsExact, PoolBounded

\* At first the core threads are there and have nothing to do.
LEMMA AioInvInit == PoolInit => AioInv
  <1> SUFFICES ASSUME PoolInit PROVE AioInv
    OBVIOUS
  <1>1. BaseTypeOK
    BY PoolAssumption DEF PoolInit, BaseTypeOK, Core, Thread, NoTask, Task, Message
  <1>2. CountInv
    <2>0. Busy = {}
      BY DEF PoolInit, Busy
    <2>2. Len(queue_) = 0 /\ Len(pipe) = 0
      BY DEF PoolInit
    <2>1. SentIn(pipe, "task") = {} /\ SentIn(pipe, "release") = {}
      BY <2>2 DEF SentIn
    <2>3. task_num = 0 /\ n_closing = 0
      BY DEF PoolInit
    <2>4. /\ Cardinality(Busy) = 0 /\ Cardinality(SentIn(pipe, "task")) = 0
          /\ Cardinality(SentIn(pipe, "release")) = 0
      BY Zenon, <2>0, <2>1, FS_EmptySet
    <2>5. QED
      BY <2>2, <2>3, <2>4 DEF CountInv
  <1>3. CoreInv
    <2>1. Cardinality(Core) = core_worker_num
      BY PoolAssumption, FS_Interval DEF Core
    <2>2. \A t \in Core : t \in Thread
      BY PoolAssumption DEF Core, Thread
    <2>3. QED
      BY <2>1, <2>2, PoolAssumption DEF PoolInit, CoreInv
  <1>4. PlacesInv /\ LeaversInv
    <2>1. Len(pipe) = 0
      BY DEF PoolInit
    <2>2. LeaversInv
      BY <2>1 DEF LeaversInv, SentIn
    <2>3. PlacesInv
      BY PoolAssumption DEF PoolInit, PlacesInv, Core, NoTask, Thread
    <2>4. QED
      BY <2>2, <2>3
  <1>5. PoolGrows
    BY DEF PoolInit, PoolGrows
  <1>6. QED
    BY <1>1, <1>2, <1>3, <1>4, <1>5 DEF AioInv

-----------------------------------------------------------------------------
(* dispatch() creates threads.                                             *)

Waiting == {t \in Thread : state[t] \in {"evaluated", "waiting", "woken", "timedout"}}

Avail == {t \in Thread : Available(t)}

\* schedule() keeps the pool within worker_num and, below that, gives each task
\* of the queue a thread that waits or a new one (async_thread.cc:135-164).
LEMMA ScheduleBound ==
    ASSUME AioInv, NEW queue \in Seq(Task), NEW n \in schedule(queue)
    PROVE  /\ n \in Nat /\ Cardinality(Waiting) \in Nat
           /\ Cardinality(threads) \in Nat /\ Cardinality(threads) + n <= worker_num
           /\ Cardinality(threads) + n < worker_num => Len(queue) <= Cardinality(Waiting) + n
  <1> DEFINE w == Cardinality(Waiting)
             c == Cardinality(threads)
             l == Len(queue)
  <1>1. w \in Nat /\ c \in Nat /\ l \in Nat /\ c <= worker_num /\ worker_num \in Nat
    BY ThreadSets, PoolAssumption DEF AioInv, BaseTypeOK, CoreInv, Waiting
  <1>2. n_waiting = w
    BY DEF n_waiting, Waiting
  <1>3. n \in IF worker_num - c <= 0 THEN {0}
              ELSE IF l > w THEN {Min({l - w, worker_num - c})}
              ELSE IF l > 1 THEN {0, 1} ELSE {0}
    BY <1>2 DEF schedule
  <1> HIDE DEF w, c, l
  <1>4. CASE worker_num - c <= 0
    BY <1>1, <1>3, <1>4 DEF w, c, l
  <1>5. CASE ~(worker_num - c <= 0) /\ l > w
    <2>1. l - w \in Nat /\ worker_num - c \in Nat
      BY <1>1, <1>5
    <2>2. n = IF l - w <= worker_num - c THEN l - w ELSE worker_num - c
      BY <1>3, <1>5, <2>1, MinOfTwo
    <2>3. QED
      BY <1>1, <1>5, <2>2 DEF w, c, l
  <1>6. CASE ~(worker_num - c <= 0) /\ ~(l > w)
    BY <1>1, <1>3, <1>6 DEF w, c, l
  <1>7. QED
    BY <1>4, <1>5, <1>6

\* The new threads were not there before.
LEMMA DispatchCreates ==
    ASSUME AioInv, Dispatch
    PROVE  \E n \in Nat :
             LET new == created + 1 .. created + n
             IN  /\ created' = created + n /\ created + n <= MaxThreads
                 /\ new \subseteq Thread /\ threads' = threads \cup new
                 /\ \A t \in new : t \notin threads /\ t \notin Waiting
                 /\ state' = [t \in Thread |-> IF t \in new THEN "check" ELSE state[t]]
                 /\ Cardinality(threads') = Cardinality(threads) + n
                 /\ Cardinality(threads') <= worker_num
                 /\ Cardinality(Waiting \cup new) = Cardinality(Waiting) + n
                 /\ Cardinality(threads') < worker_num =>
                        Len(queue_') <= Cardinality(Waiting) + n
  <1>1. queue_' \in Seq(Task)
    BY PoolAssumption DEF Dispatch, AioInv, BaseTypeOK, Task
  <1>2. PICK n \in schedule(queue_') : create_threads(n)
    BY DEF Dispatch
  <1>3. /\ n \in Nat /\ Cardinality(Waiting) \in Nat
        /\ Cardinality(threads) \in Nat /\ Cardinality(threads) + n <= worker_num
        /\ Cardinality(threads) + n < worker_num => Len(queue_') <= Cardinality(Waiting) + n
    BY <1>1, <1>2, ScheduleBound
  <1> DEFINE new == created + 1 .. created + n
  <1>4. /\ created' = created + n /\ created + n <= MaxThreads /\ threads' = threads \cup new
        /\ state' = [t \in Thread |-> IF t \in new THEN "check" ELSE state[t]]
    BY <1>2 DEF create_threads
  <1>5. created \in Nat
    BY PoolAssumption DEF AioInv, BaseTypeOK
  <1>6. new \subseteq Thread /\ IsFiniteSet(new) /\ Cardinality(new) = n
    <2>1. new \subseteq Thread
      BY <1>3, <1>4, <1>5, PoolAssumption DEF Thread
    <2>2. Cardinality(new) = n
      BY <1>3, <1>5, FS_Interval
    <2>3. QED
      BY <2>1, <2>2, ThreadSets
  <1>7. \A t \in new : t \notin threads /\ t \notin Waiting
    BY <1>3, <1>5, <1>6 DEF AioInv, PlacesInv, Waiting
  <1>8. /\ IsFiniteSet(threads) /\ IsFiniteSet(Waiting)
    BY ThreadSets DEF AioInv, BaseTypeOK, Waiting
  <1>9. threads \cap new = {} /\ Waiting \cap new = {}
    BY <1>7
  <1> HIDE DEF new
  <1>10. /\ Cardinality(threads \cup new) = Cardinality(threads) + n
         /\ Cardinality(Waiting \cup new) = Cardinality(Waiting) + n
    <2>1. Cardinality({}) = 0
      BY FS_EmptySet
    <2>2. Cardinality(threads \cup new) = Cardinality(threads) + n - 0
      BY <1>6, <1>8, <1>9, <2>1, FS_Union
    <2>3. Cardinality(Waiting \cup new) = Cardinality(Waiting) + n - 0
      BY <1>6, <1>8, <1>9, <2>1, FS_Union
    <2>4. QED
      BY <2>2, <2>3, <1>3
  <1>11. QED
    BY <1>3, <1>4, <1>6, <1>7, <1>10 DEF new

-----------------------------------------------------------------------------
(* Each step keeps the invariant.                                          *)

\* Types.
LEMMA BaseTypeStep == AioInv /\ [PoolNext]_aioVars => BaseTypeOK'
  <1> SUFFICES ASSUME AioInv, [PoolNext]_aioVars PROVE BaseTypeOK'
    OBVIOUS
  <1>a. BaseTypeOK
    BY DEF AioInv
  <1>b. ASSUME NEW t \in Thread, NEW s \in {"check", "lock", "evaluated", "waiting", "woken",
                             "timedout", "idle", "closing", "handle", "exited"},
               Move(t, s), UNCHANGED <<queue_, task, pipe>>, mutex' \in {mutex, t, NoThread}
        PROVE  BaseTypeOK'
    BY <1>a, <1>b DEF BaseTypeOK, Move
  <1>c. ASSUME NEW t \in Thread, Take(t) PROVE BaseTypeOK'
    <2>1. CASE queue_ # <<>>
      <3>1. Head(queue_) \in Task /\ Tail(queue_) \in Seq(Task)
        BY <1>a, <2>1 DEF BaseTypeOK
      <3>2. QED
        BY <1>a, <1>c, <2>1, <3>1 DEF BaseTypeOK, Take, Move
    <2>2. CASE queue_ = <<>>
      BY <1>b, <1>c, <2>2 DEF Take
    <2>3. QED
      BY <2>1, <2>2
  <1>1. CASE NotifyOne
    BY <1>a, <1>1 DEF NotifyOne, BaseTypeOK
  <1>2. CASE Complete
    <2>1. Tail(pipe) \in Seq(Message) /\ Head(pipe) \in Message
      BY <1>a, <1>2 DEF Complete, BaseTypeOK
    <2>2. Head(pipe)[2] \in Task
      BY <1>2, <2>1 DEF Complete, Message
    <2>3. QED
      BY <1>a, <1>2, <2>1, <2>2 DEF Complete, BaseTypeOK
  <1>3. CASE Release
    <2>1. Tail(pipe) \in Seq(Message)
      BY <1>a, <1>3 DEF Release, BaseTypeOK
    <2>2. QED
      BY <1>a, <1>3, <2>1 DEF Release, BaseTypeOK
  <1>4. CASE NotifyAll
    BY <1>a, <1>4 DEF NotifyAll, BaseTypeOK
  <1>5. CASE Join
    BY <1>a, <1>5 DEF Join, BaseTypeOK
  <1>6. CASE Dispatch
    <2>1. queue_' \in Seq(Task) /\ dispatched' \in 0 .. MaxTasks
      BY <1>a, <1>6, PoolAssumption DEF Dispatch, BaseTypeOK, Task
    <2>2. PICK n \in Nat : /\ created' = created + n /\ created + n <= MaxThreads
                           /\ created + 1 .. created + n \subseteq Thread
                           /\ threads' = threads \cup (created + 1 .. created + n)
                           /\ state' = [t \in Thread |-> IF t \in created + 1 .. created + n
                                                         THEN "check" ELSE state[t]]
      BY <1>6, DispatchCreates
    <2>3. created' \in core_worker_num .. MaxThreads /\ threads' \subseteq Thread
      BY <1>a, <2>2, PoolAssumption DEF BaseTypeOK
    <2>4. QED
      BY <1>a, <1>6, <2>1, <2>2, <2>3 DEF Dispatch, BaseTypeOK
  <1>7. CASE Shutdown
    BY <1>a, <1>7 DEF Shutdown, BaseTypeOK
  <1>8. ASSUME NEW k \in Task, Cancel(k) PROVE BaseTypeOK'
    BY <1>a, <1>8 DEF Cancel, BaseTypeOK
  <1>9. ASSUME NEW t \in Thread, CheckRunning(t) PROVE BaseTypeOK'
    BY <1>b, <1>9 DEF CheckRunning
  <1>10. ASSUME NEW t \in Thread, Lock(t) PROVE BaseTypeOK'
    BY <1>b, <1>c, <1>10 DEF Lock
  <1>11. ASSUME NEW t \in Thread, Block(t) PROVE BaseTypeOK'
    BY <1>b, <1>11 DEF Block
  <1>12. ASSUME NEW t \in Thread, IdleTimeout(t) PROVE BaseTypeOK'
    BY <1>b, <1>12 DEF IdleTimeout
  <1>13. ASSUME NEW t \in Thread, Wake(t) PROVE BaseTypeOK'
    BY <1>b, <1>c, <1>13 DEF Wake
  <1>14. ASSUME NEW t \in Thread, TestClosing(t) PROVE BaseTypeOK'
    BY <1>b, <1>14 DEF TestClosing
  <1>15. ASSUME NEW t \in Thread, Close(t) PROVE BaseTypeOK'
    <2>1. pipe' \in Seq(Message)
      BY <1>a, <1>15 DEF Close, BaseTypeOK, Message
    <2>2. QED
      BY <1>a, <1>15, <2>1 DEF Close, Move, BaseTypeOK
  <1>16. ASSUME NEW t \in Thread, Handle(t) PROVE BaseTypeOK'
    <2>1. task[t] \in Task
      BY <1>a, <1>16 DEF Handle, AioInv, PlacesInv, BaseTypeOK
    <2>2. pipe' \in Seq(Message)
      BY <1>a, <1>16, <2>1 DEF Handle, BaseTypeOK, Message
    <2>3. QED
      BY <1>a, <1>16, <2>2 DEF Handle, Move, BaseTypeOK
  <1>17. CASE UNCHANGED aioVars
    BY <1>a, <1>17 DEF aioVars, BaseTypeOK
  <1>18. QED
    BY <1>1, <1>2, <1>3, <1>4, <1>5, <1>6, <1>7, <1>8, <1>9, <1>10, <1>11, <1>12, <1>13,
       <1>14, <1>15, <1>16, <1>17 DEF PoolNext, LoopStep, ThreadStep

\* task_num and n_closing go on counting what is under way.
LEMMA CountStep == AioInv /\ [PoolNext]_aioVars => CountInv'
  <1> SUFFICES ASSUME AioInv, [PoolNext]_aioVars PROVE CountInv'
    OBVIOUS
  <1>a. /\ CountInv /\ queue_ \in Seq(Task) /\ pipe \in Seq(Message)
        /\ task \in [Thread -> Task \cup {NoTask}] /\ Len(queue_) \in Nat
        /\ Cardinality(Busy) \in Nat /\ Cardinality(SentIn(pipe, "task")) \in Nat
        /\ Cardinality(SentIn(pipe, "release")) \in Nat
    <2>1. CountInv /\ BaseTypeOK
      BY DEF AioInv
    <2>2. QED
      BY <2>1, ThreadSets, SentFinite DEF BaseTypeOK, Busy
  <1>b. UNCHANGED <<queue_, task, pipe, task_num, n_closing>> => CountInv'
    BY <1>a DEF CountInv, Busy
  <1>c. ASSUME NEW t \in Thread, Take(t), task[t] = NoTask PROVE CountInv'
    <2>1. CASE queue_ # <<>>
      <3>1. Len(Tail(queue_)) = Len(queue_) - 1 /\ Head(queue_) \in Task
        BY <1>a, <2>1
      <3>2. Head(queue_) # NoTask
        BY <3>1, PoolAssumption DEF Task, NoTask
      <3>3. Busy' = Busy \cup {t} /\ t \notin Busy
        BY <1>a, <1>c, <2>1, <3>2 DEF Take, Busy
      <3>4. Cardinality(Busy') = Cardinality(Busy) + 1
        BY <3>3, OneMore DEF Busy
      <3>5. QED
        BY <1>a, <1>c, <2>1, <3>1, <3>4 DEF Take, Move, CountInv
    <2>2. CASE queue_ = <<>>
      BY <1>b, <1>c, <2>2 DEF Take, Move
    <2>3. QED
      BY <2>1, <2>2
  <1>1. CASE NotifyOne
    BY <1>b, <1>1 DEF NotifyOne
  <1>2. CASE Complete
    <2>1. /\ Cardinality(SentIn(pipe', "task")) = Cardinality(SentIn(pipe, "task")) - 1
          /\ Cardinality(SentIn(pipe', "release")) = Cardinality(SentIn(pipe, "release"))
      BY <1>a, <1>2, SentTail DEF Complete
    <2>2. Busy' = Busy /\ queue_' = queue_
      BY <1>2 DEF Complete, Busy
    <2>3. QED
      BY <1>a, <1>2, <2>1, <2>2 DEF Complete, CountInv
  <1>3. CASE Release
    <2>1. /\ Cardinality(SentIn(pipe', "task")) = Cardinality(SentIn(pipe, "task"))
          /\ Cardinality(SentIn(pipe', "release")) = Cardinality(SentIn(pipe, "release")) - 1
      BY <1>a, <1>3, SentTail DEF Release
    <2>2. Busy' = Busy /\ queue_' = queue_
      BY <1>3 DEF Release, Busy
    <2>3. QED
      BY <1>a, <1>3, <2>1, <2>2 DEF Release, CountInv
  <1>4. CASE NotifyAll
    BY <1>b, <1>4 DEF NotifyAll
  <1>5. CASE Join
    BY <1>b, <1>5 DEF Join
  <1>6. CASE Dispatch
    <2>1. Len(queue_') = Len(queue_) + 1
      BY <1>a, <1>6 DEF Dispatch
    <2>2. Busy' = Busy /\ pipe' = pipe
      BY <1>6 DEF Dispatch, Busy
    <2>3. QED
      BY <1>a, <1>6, <2>1, <2>2 DEF Dispatch, CountInv
  <1>7. CASE Shutdown
    BY <1>b, <1>7 DEF Shutdown
  <1>8. ASSUME NEW k \in Task, Cancel(k) PROVE CountInv'
    BY <1>b, <1>8 DEF Cancel
  <1>9. ASSUME NEW t \in Thread, CheckRunning(t) PROVE CountInv'
    BY <1>b, <1>9 DEF CheckRunning, Move
  <1>d. ASSUME NEW t \in Thread, state[t] # "handle" PROVE task[t] = NoTask
    BY <1>d DEF AioInv, PlacesInv
  <1>10. ASSUME NEW t \in Thread, Lock(t) PROVE CountInv'
    BY <1>b, <1>c, <1>d, <1>10 DEF Lock, Move
  <1>11. ASSUME NEW t \in Thread, Block(t) PROVE CountInv'
    BY <1>b, <1>11 DEF Block, Move
  <1>12. ASSUME NEW t \in Thread, IdleTimeout(t) PROVE CountInv'
    BY <1>b, <1>12 DEF IdleTimeout, Move
  <1>13. ASSUME NEW t \in Thread, Wake(t) PROVE CountInv'
    BY <1>b, <1>c, <1>d, <1>13 DEF Wake, Move
  <1>14. ASSUME NEW t \in Thread, TestClosing(t) PROVE CountInv'
    BY <1>b, <1>14 DEF TestClosing, Move
  <1>15. ASSUME NEW t \in Thread, Close(t) PROVE CountInv'
    <2>1. <<"release", t>> \in Message /\ pipe' = Append(pipe, <<"release", t>>)
      BY <1>15 DEF Close, Message
    <2>2. /\ Cardinality(SentIn(pipe', "task")) = Cardinality(SentIn(pipe, "task"))
          /\ Cardinality(SentIn(pipe', "release")) = Cardinality(SentIn(pipe, "release")) + 1
      BY <1>a, <2>1, SentAppend
    <2>3. Busy' = Busy /\ queue_' = queue_
      BY <1>15 DEF Close, Busy
    <2>4. QED
      BY <1>a, <1>15, <2>2, <2>3 DEF Close, Move, CountInv
  <1>16. ASSUME NEW t \in Thread, Handle(t) PROVE CountInv'
    <2>1. task[t] \in Task /\ t \in Busy
      BY <1>a, <1>16 DEF Handle, AioInv, PlacesInv, Busy
    <2>2. <<"task", task[t]>> \in Message /\ pipe' = Append(pipe, <<"task", task[t]>>)
      BY <1>16, <2>1 DEF Handle, Message
    <2>3. /\ Cardinality(SentIn(pipe', "task")) = Cardinality(SentIn(pipe, "task")) + 1
          /\ Cardinality(SentIn(pipe', "release")) = Cardinality(SentIn(pipe, "release"))
      BY <1>a, <2>2, SentAppend
    <2>4. Busy' = Busy \ {t}
      BY <1>a, <1>16 DEF Handle, Busy
    <2>5. Cardinality(Busy') = Cardinality(Busy) - 1
      BY <2>1, <2>4, OneLess DEF Busy
    <2>6. QED
      BY <1>a, <1>16, <2>3, <2>5 DEF Handle, Move, CountInv
  <1>17. CASE UNCHANGED aioVars
    BY <1>b, <1>17 DEF aioVars
  <1>18. QED
    BY <1>1, <1>2, <1>3, <1>4, <1>5, <1>6, <1>7, <1>8, <1>9, <1>10, <1>11, <1>12, <1>13,
       <1>14, <1>15, <1>16, <1>17 DEF PoolNext, LoopStep, ThreadStep

\* Threads move as main_func() says.
LEMMA PlacesStep == AioInv /\ [PoolNext]_aioVars => PlacesInv'
  <1> SUFFICES ASSUME AioInv, [PoolNext]_aioVars PROVE PlacesInv'
    OBVIOUS
  <1>a. /\ PlacesInv /\ task_num \in Nat /\ dispatched \in Nat /\ created \in Nat
        /\ state \in [Thread -> {"none", "check", "lock", "evaluated", "waiting", "woken",
                                 "timedout", "idle", "closing", "handle", "exited"}]
        /\ task \in [Thread -> Task \cup {NoTask}] /\ queue_ \in Seq(Task)
    <2>1. BaseTypeOK /\ PlacesInv
      BY DEF AioInv
    <2>2. task_num \in Nat
      BY AioInvIsExact DEF PoolIsExact, PoolBounded, PoolTypeOK
    <2>3. QED
      BY <2>1, <2>2, PoolAssumption DEF BaseTypeOK
  <1>b. ASSUME NEW t \in Thread, NEW s, Move(t, s), state[t] \notin {"none", "handle"},
               s \notin {"none", "handle"}, s \in {"timedout", "idle", "closing"} => t \notin Core,
               UNCHANGED task
        PROVE  PlacesInv'
    <2>1. \A x \in Thread : state'[x] = IF x = t THEN s ELSE state[x]
      BY <1>a, <1>b DEF Move
    <2>2. UNCHANGED <<task_num, dispatched, running, loop_pc, threads, created>>
      BY <1>b DEF Move
    <2>3. QED
      BY <1>a, <1>b, <2>1, <2>2 DEF PlacesInv
  <1>c. ASSUME NEW t \in Thread, Take(t), state[t] \notin {"none", "handle"} PROVE PlacesInv'
    <2>1. CASE queue_ # <<>>
      <3>1. Head(queue_) # NoTask
        BY <1>a, <2>1, PoolAssumption DEF Task, NoTask
      <3>2. \A x \in Thread : /\ state'[x] = IF x = t THEN "handle" ELSE state[x]
                              /\ task'[x] = IF x = t THEN Head(queue_) ELSE task[x]
        BY <1>a, <1>c, <2>1 DEF Take, Move
      <3>3. UNCHANGED <<task_num, dispatched, running, loop_pc, threads, created>>
        BY <1>c, <2>1 DEF Take, Move
      <3>4. QED
        BY <1>a, <1>c, <3>1, <3>2, <3>3 DEF PlacesInv
    <2>2. CASE queue_ = <<>>
      BY <1>b, <1>c, <2>2 DEF Take
    <2>3. QED
      BY <2>1, <2>2
  <1>d. UNCHANGED <<task_num, dispatched, running, loop_pc, threads, created, state, task>>
            => PlacesInv'
    BY <1>a DEF PlacesInv
  <1>1. CASE NotifyOne
    BY <1>a, <1>1 DEF NotifyOne, PlacesInv
  <1>2. CASE Complete
    BY <1>a, <1>2 DEF Complete, PlacesInv
  <1>3. CASE Release
    BY <1>a, <1>3 DEF Release, PlacesInv
  <1>4. CASE NotifyAll
    BY <1>a, <1>4 DEF NotifyAll, PlacesInv
  <1>5. CASE Join
    BY <1>a, <1>5 DEF Join, PlacesInv
  <1>6. CASE Dispatch
    <2>1. PICK n \in Nat : /\ created' = created + n
                           /\ threads' = threads \cup (created + 1 .. created + n)
                           /\ state' = [t \in Thread |-> IF t \in created + 1 .. created + n
                                                         THEN "check" ELSE state[t]]
      BY <1>6, DispatchCreates
    <2>2. /\ running /\ UNCHANGED <<running, task>> /\ loop_pc' = "notify"
          /\ task_num' = task_num + 1 /\ dispatched' = dispatched + 1
      BY <1>6 DEF Dispatch
    <2>3. threads' \subseteq 1 .. created' /\ task_num' <= dispatched'
      BY <1>a, <2>1, <2>2 DEF PlacesInv
    <2>4. ASSUME NEW t \in Thread
          PROVE  /\ t > created' => state'[t] = "none"
                 /\ task'[t] # NoTask <=> state'[t] = "handle"
                 /\ state'[t] \in {"timedout", "idle", "closing"} => t \notin Core
      BY <1>a, <2>1, <2>2 DEF PlacesInv, Thread
    <2>5. QED
      BY <2>2, <2>3, <2>4 DEF PlacesInv
  <1>7. CASE Shutdown
    BY <1>a, <1>7 DEF Shutdown, PlacesInv
  <1>8. ASSUME NEW k \in Task, Cancel(k) PROVE PlacesInv'
    BY <1>d, <1>8 DEF Cancel
  <1>9. ASSUME NEW t \in Thread, CheckRunning(t) PROVE PlacesInv'
    BY <1>b, <1>9 DEF CheckRunning
  <1>10. ASSUME NEW t \in Thread, Lock(t) PROVE PlacesInv'
    BY <1>b, <1>c, <1>10 DEF Lock
  <1>11. ASSUME NEW t \in Thread, Block(t) PROVE PlacesInv'
    BY <1>b, <1>11 DEF Block
  <1>12. ASSUME NEW t \in Thread, IdleTimeout(t) PROVE PlacesInv'
    BY <1>b, <1>12 DEF IdleTimeout
  <1>13. ASSUME NEW t \in Thread, Wake(t) PROVE PlacesInv'
    BY <1>a, <1>b, <1>c, <1>13 DEF Wake, PlacesInv
  <1>14. ASSUME NEW t \in Thread, TestClosing(t) PROVE PlacesInv'
    BY <1>a, <1>b, <1>14 DEF TestClosing, PlacesInv
  <1>15. ASSUME NEW t \in Thread, Close(t) PROVE PlacesInv'
    BY <1>b, <1>15 DEF Close
  <1>16. ASSUME NEW t \in Thread, Handle(t) PROVE PlacesInv'
    <2>1. \A x \in Thread : /\ state'[x] = IF x = t THEN "check" ELSE state[x]
                            /\ task'[x] = IF x = t THEN NoTask ELSE task[x]
      BY <1>a, <1>16 DEF Handle, Move
    <2>2. UNCHANGED <<task_num, dispatched, running, loop_pc, threads, created>>
      BY <1>16 DEF Handle, Move
    <2>3. state[t] = "handle"
      BY <1>16 DEF Handle
    <2>4. QED
      BY <1>a, <2>1, <2>2, <2>3 DEF PlacesInv
  <1>17. CASE UNCHANGED aioVars
    BY <1>d, <1>17 DEF aioVars
  <1>18. QED
    BY <1>1, <1>2, <1>3, <1>4, <1>5, <1>6, <1>7, <1>8, <1>9, <1>10, <1>11, <1>12, <1>13,
       <1>14, <1>15, <1>16, <1>17 DEF PoolNext, LoopStep, ThreadStep

\* A thread that has exited stays where it is.
LEMMA ExitedStays ==
    ASSUME AioInv, [PoolNext]_aioVars, NEW x \in Thread, state[x] = "exited"
    PROVE  state'[x] = "exited"
  <1>a. state \in [Thread -> {"none", "check", "lock", "evaluated", "waiting", "woken",
                              "timedout", "idle", "closing", "handle", "exited"}]
    BY DEF AioInv, BaseTypeOK
  <1>b. ASSUME NEW t \in Thread, NEW s, Move(t, s), state[t] # "exited"
        PROVE  state'[x] = "exited"
    BY <1>a, <1>b DEF Move
  <1>1. CASE NotifyOne
    BY <1>a, <1>1 DEF NotifyOne
  <1>2. CASE NotifyAll
    BY <1>a, <1>2 DEF NotifyAll
  <1>3. CASE Complete \/ Release \/ Join \/ Shutdown \/ UNCHANGED aioVars
    BY <1>3 DEF Complete, Release, Join, Shutdown, aioVars
  <1>4. CASE Dispatch
    <2>1. PICK n \in Nat : state' = [t \in Thread |-> IF t \in created + 1 .. created + n
                                                      THEN "check" ELSE state[t]]
      BY <1>4, DispatchCreates
    <2>2. created \in Nat /\ x <= created
      <3>1. created \in Nat /\ PlacesInv
        BY PoolAssumption DEF AioInv, BaseTypeOK
      <3>2. QED
        BY <3>1 DEF PlacesInv, Thread
    <2>3. QED
      BY <2>1, <2>2
  <1>5. ASSUME NEW k \in Task, Cancel(k) PROVE state'[x] = "exited"
    BY <1>5 DEF Cancel
  <1>6. ASSUME NEW t \in Thread, ThreadStep(t) \/ IdleTimeout(t) \/ Handle(t)
        PROVE  state'[x] = "exited"
    BY <1>b, <1>6 DEF ThreadStep, CheckRunning, Lock, Take, Block, Wake, TestClosing, Close,
                      IdleTimeout, Handle
  <1>7. QED
    BY <1>1, <1>2, <1>3, <1>4, <1>5, <1>6 DEF PoolNext, LoopStep

\* A release is written once, and read once.
LEMMA LeaversStep == AioInv /\ [PoolNext]_aioVars => LeaversInv'
  <1> SUFFICES ASSUME AioInv, [PoolNext]_aioVars PROVE LeaversInv'
    OBVIOUS
  <1>a. LeaversInv /\ PlacesInv /\ BaseTypeOK
    BY DEF AioInv
  <1>b. pipe \in Seq(Message) /\ Len(pipe) \in Nat
    BY <1>a DEF BaseTypeOK
  <1>c. \A x \in Thread : state[x] = "exited" => state'[x] = "exited"
    BY ExitedStays
  <1>d. ASSUME UNCHANGED pipe PROVE LeaversInv'
    BY <1>a, <1>c, <1>d DEF LeaversInv
  <1>e. ASSUME pipe # <<>>, pipe' = Tail(pipe) PROVE LeaversInv'
    <2>1. /\ Len(Tail(pipe)) = Len(pipe) - 1
          /\ \A i \in 1 .. Len(pipe) - 1 : pipe'[i] = pipe[i + 1]
      BY <1>b, <1>e
    <2>2. \A i \in SentIn(pipe', "release") : /\ i \in Nat /\ i + 1 \in SentIn(pipe, "release")
                                              /\ pipe'[i] = pipe[i + 1]
      BY <1>b, <1>e, <2>1 DEF SentIn
    <2>3. QED
      BY <1>a, <1>c, <2>2 DEF LeaversInv
  <1>f. ASSUME NEW m \in Message, pipe' = Append(pipe, m),
               m[1] = "release" => /\ m[2] \in Thread \ Core /\ state'[m[2]] = "exited"
                                   /\ state[m[2]] # "exited"
        PROVE  LeaversInv'
    <2>1. /\ \A i \in SentIn(pipe, "release") : pipe'[i] = pipe[i]
          /\ pipe'[Len(pipe) + 1] = m
      BY <1>b, <1>f DEF SentIn
    <2>2. CASE m[1] = "release"
      <3>1. SentIn(pipe', "release") = SentIn(pipe, "release") \cup {Len(pipe) + 1}
        BY <1>b, <1>f, <2>2, SentAppend
      <3>2. ASSUME NEW i \in SentIn(pipe, "release")
            PROVE  /\ pipe'[i][2] \in Thread \ Core /\ state'[pipe'[i][2]] = "exited"
                   /\ pipe'[i][2] # m[2] /\ pipe'[i] = pipe[i]
        <4>1. pipe'[i] = pipe[i]
          BY <2>1
        <4>2. pipe[i][2] \in Thread \ Core /\ state[pipe[i][2]] = "exited"
          BY <1>a DEF LeaversInv
        <4>3. state'[pipe[i][2]] = "exited" /\ pipe[i][2] # m[2]
          BY <1>c, <1>f, <2>2, <4>2
        <4>4. QED
          BY <4>1, <4>2, <4>3
      <3>3. \A i \in SentIn(pipe', "release") :
              pipe'[i][2] \in Thread \ Core /\ state'[pipe'[i][2]] = "exited"
        BY <1>f, <2>1, <2>2, <3>1, <3>2
      <3>4. \A i, j \in SentIn(pipe', "release") : pipe'[i][2] = pipe'[j][2] => i = j
        BY <1>a, <2>1, <3>1, <3>2 DEF LeaversInv
      <3>5. QED
        BY <3>3, <3>4 DEF LeaversInv
    <2>3. CASE m[1] # "release"
      <3>1. SentIn(pipe', "release") = SentIn(pipe, "release")
        BY <1>b, <1>f, <2>3, SentAppend
      <3>2. QED
        BY <1>a, <1>c, <2>1, <3>1 DEF LeaversInv
    <2>4. QED
      BY <2>2, <2>3
  <1>1. CASE NotifyOne \/ NotifyAll \/ Join \/ Dispatch \/ Shutdown \/ UNCHANGED aioVars
    BY <1>d, <1>1 DEF NotifyOne, NotifyAll, Join, Dispatch, Shutdown, aioVars
  <1>2. CASE Complete \/ Release
    BY <1>e, <1>2 DEF Complete, Release
  <1>3. ASSUME NEW k \in Task, Cancel(k) PROVE LeaversInv'
    BY <1>d, <1>3 DEF Cancel
  <1>4. ASSUME NEW t \in Thread,
               CheckRunning(t) \/ Lock(t) \/ Block(t) \/ IdleTimeout(t) \/ Wake(t) \/ TestClosing(t)
        PROVE  LeaversInv'
    BY <1>d, <1>4 DEF CheckRunning, Lock, Take, Block, IdleTimeout, Wake, TestClosing
  <1>5. ASSUME NEW t \in Thread, Close(t) PROVE LeaversInv'
    <2>1. <<"release", t>> \in Message /\ pipe' = Append(pipe, <<"release", t>>)
      BY <1>5 DEF Close, Message
    <2>2. t \notin Core /\ state[t] # "exited" /\ state'[t] = "exited"
      BY <1>a, <1>5 DEF Close, Move, PlacesInv, BaseTypeOK
    <2>3. QED
      BY <1>f, <2>1, <2>2
  <1>6. ASSUME NEW t \in Thread, Handle(t) PROVE LeaversInv'
    <2>1. <<"task", task[t]>> \in Message /\ pipe' = Append(pipe, <<"task", task[t]>>)
      <3>1. task[t] \in Task
        BY <1>a, <1>6 DEF Handle, PlacesInv, BaseTypeOK
      <3>2. QED
        BY <1>6, <3>1 DEF Handle, Message
    <2>2. QED
      BY <1>f, <2>1
  <1>7. QED
    BY <1>1, <1>2, <1>3, <1>4, <1>5, <1>6 DEF PoolNext, LoopStep, ThreadStep

\* The pool keeps within its limit and keeps its core threads.
LEMMA CoreStep == AioInv /\ [PoolNext]_aioVars => CoreInv'
  <1> SUFFICES ASSUME AioInv, [PoolNext]_aioVars PROVE CoreInv'
    OBVIOUS
  <1>a. CoreInv /\ PlacesInv /\ BaseTypeOK /\ LeaversInv
    BY DEF AioInv
  <1>b. \A t \in Core : t \in Thread
    BY PoolAssumption DEF Core, Thread
  <1>c. ASSUME NEW t \in Thread, NEW s, Move(t, s), running => s # "exited" \/ t \notin Core
        PROVE  CoreInv'
    BY <1>a, <1>b, <1>c DEF CoreInv, Move, BaseTypeOK
  <1>1. CASE NotifyOne
    BY <1>a, <1>b, <1>1 DEF NotifyOne, CoreInv, BaseTypeOK
  <1>2. CASE NotifyAll
    BY <1>a, <1>b, <1>2 DEF NotifyAll, CoreInv, BaseTypeOK
  <1>3. CASE Complete \/ Shutdown \/ UNCHANGED aioVars
    BY <1>a, <1>3 DEF Complete, Shutdown, aioVars, CoreInv
  <1>4. CASE Release
    <2>1. 1 \in SentIn(pipe, "release") /\ Head(pipe) = pipe[1]
      BY <1>a, <1>4 DEF Release, SentIn, BaseTypeOK
    <2>2. Head(pipe)[2] \notin Core
      BY <1>a, <2>1 DEF LeaversInv
    <2>3. Cardinality(threads') <= Cardinality(threads) /\ Cardinality(threads') \in Nat
          /\ Cardinality(threads) \in Nat
      BY <1>a, <1>4, PartIsSmaller, ThreadSets DEF Release, BaseTypeOK
    <2>4. QED
      BY <1>a, <1>4, <2>2, <2>3, PoolAssumption DEF Release, CoreInv
  <1>5. CASE Join
    <2>1. Cardinality(threads') = 0
      BY <1>5, FS_EmptySet DEF Join
    <2>2. ~running'
      BY <1>a, <1>5 DEF Join, PlacesInv
    <2>3. QED
      BY <2>1, <2>2, PoolAssumption DEF CoreInv
  <1>6. CASE Dispatch
    <2>1. PICK n \in Nat : /\ Cardinality(threads') <= worker_num
                           /\ threads' = threads \cup (created + 1 .. created + n)
                           /\ state' = [t \in Thread |-> IF t \in created + 1 .. created + n
                                                         THEN "check" ELSE state[t]]
      BY <1>6, DispatchCreates
    <2>2. running' = running
      BY <1>6 DEF Dispatch
    <2>3. QED
      BY <1>a, <1>b, <2>1, <2>2 DEF CoreInv
  <1>7. ASSUME NEW k \in Task, Cancel(k) PROVE CoreInv'
    BY <1>a, <1>7 DEF Cancel, CoreInv
  <1>8. ASSUME NEW t \in Thread, Close(t) PROVE CoreInv'
    BY <1>a, <1>c, <1>8 DEF Close, PlacesInv
  <1>9. ASSUME NEW t \in Thread, CheckRunning(t) \/ Lock(t) \/ Block(t) \/ IdleTimeout(t)
                                   \/ Wake(t) \/ TestClosing(t) \/ Handle(t)
        PROVE  CoreInv'
    BY <1>c, <1>9 DEF CheckRunning, Lock, Take, Block, IdleTimeout, Wake, TestClosing, Handle
  <1>10. QED
    BY <1>1, <1>2, <1>3, <1>4, <1>5, <1>6, <1>7, <1>8, <1>9 DEF PoolNext, LoopStep, ThreadStep

\* While the task that was pushed has not been told of, the queue shrinks with
\* the threads that are available.
LEMMA GrowsStep == AioInv /\ [PoolNext]_aioVars => PoolGrows'
  <1> SUFFICES ASSUME AioInv, [PoolNext]_aioVars PROVE PoolGrows'
    OBVIOUS
  <1>a. PoolGrows /\ PlacesInv /\ BaseTypeOK
    BY DEF AioInv
  <1>b. /\ Avail \subseteq Thread /\ Avail' \subseteq Thread /\ Len(queue_) \in Nat
        /\ Cardinality(Avail) \in Nat /\ Cardinality(Avail') \in Nat
    <2>1. Avail \subseteq Thread /\ Avail' \subseteq Thread
      BY DEF Avail
    <2>2. QED
      BY <1>a, <2>1, ThreadSets DEF BaseTypeOK
  <1>c. PoolGrows <=> (loop_pc = "notify" /\ Cardinality(threads) < worker_num
                         => Len(queue_) <= Cardinality(Avail))
    BY DEF PoolGrows, Avail
  <1>d. PoolGrows' <=> (loop_pc' = "notify" /\ Cardinality(threads') < worker_num
                         => Len(queue_') <= Cardinality(Avail'))
    BY DEF PoolGrows, Avail
  <1>e. ASSUME UNCHANGED <<threads, queue_, loop_pc>>,
               loop_pc = "notify" /\ queue_ # <<>> => Avail \subseteq Avail'
        PROVE  PoolGrows'
    <2>1. queue_ = <<>> => Len(queue_) = 0
      OBVIOUS
    <2>2. Avail \subseteq Avail' => Cardinality(Avail) <= Cardinality(Avail')
      BY <1>b, PartIsSmaller
    <2>3. QED
      BY <1>a, <1>b, <1>c, <1>d, <1>e, <2>1, <2>2
  <1>f. ASSUME NEW t \in Thread, NEW s, Move(t, s), UNCHANGED queue_,
               loop_pc = "notify" /\ queue_ # <<>> /\ Available(t) =>
                    s \in {"check", "lock", "evaluated", "waiting", "woken", "timedout"}
        PROVE  PoolGrows'
    <2>1. \A x \in Thread : state'[x] = IF x = t THEN s ELSE state[x]
      BY <1>a, <1>f DEF Move, BaseTypeOK
    <2>2. loop_pc = "notify" /\ queue_ # <<>> => Avail \subseteq Avail'
      BY <1>f, <2>1 DEF Avail, Available
    <2>3. QED
      BY <1>e, <1>f, <2>2 DEF Move
  <1>g. ASSUME NEW t \in Thread, Take(t), Available(t) PROVE PoolGrows'
    <2>1. CASE queue_ # <<>>
      <3>1. Len(queue_') = Len(queue_) - 1
        BY <1>a, <1>g, <2>1 DEF Take, BaseTypeOK
      <3>2. \A x \in Thread : state'[x] = IF x = t THEN "handle" ELSE state[x]
        BY <1>a, <1>g, <2>1 DEF Take, Move, BaseTypeOK
      <3>3. t \in Avail /\ Avail' = Avail \ {t}
        BY <1>g, <3>2 DEF Avail, Available
      <3>4. Cardinality(Avail') = Cardinality(Avail) - 1
        BY <1>b, <3>3, OneLess
      <3>5. UNCHANGED <<threads, loop_pc>>
        BY <1>g, <2>1 DEF Take, Move
      <3>6. QED
        BY <1>a, <1>b, <1>c, <1>d, <3>1, <3>4, <3>5
    <2>2. CASE queue_ = <<>>
      BY <1>f, <1>g, <2>2 DEF Take
    <2>3. QED
      BY <2>1, <2>2
  <1>1. CASE loop_pc' # "notify"
    BY <1>1, <1>d
  <1>2. CASE Dispatch
    <2>1. PICK n \in Nat :
             LET new == created + 1 .. created + n
             IN  /\ new \subseteq Thread
                 /\ state' = [t \in Thread |-> IF t \in new THEN "check" ELSE state[t]]
                 /\ Cardinality(Waiting \cup new) = Cardinality(Waiting) + n
                 /\ Cardinality(threads') < worker_num =>
                        Len(queue_') <= Cardinality(Waiting) + n
      BY <1>2, DispatchCreates
    <2> DEFINE new == created + 1 .. created + n
    <2>2. Waiting \cup new \subseteq Avail'
      BY <2>1 DEF Waiting, Avail, Available
    <2>3. Cardinality(Waiting \cup new) <= Cardinality(Avail')
      BY <1>b, <2>2, PartIsSmaller
    <2>4. Cardinality(Waiting) \in Nat /\ Len(queue_') \in Nat
      BY <1>a, <1>2, ThreadSets DEF Waiting, Dispatch, BaseTypeOK
    <2>5. QED
      BY <1>b, <1>d, <2>1, <2>3, <2>4
  <1>3. CASE Complete \/ Release \/ NotifyOne \/ NotifyAll \/ Join \/ Shutdown
    BY <1>1, <1>3 DEF Complete, Release, NotifyOne, NotifyAll, Join, Shutdown
  <1>4. ASSUME NEW k \in Task, Cancel(k) PROVE PoolGrows'
    BY <1>1, <1>4 DEF Cancel
  <1>5. ASSUME NEW t \in Thread, CheckRunning(t) PROVE PoolGrows'
    BY <1>a, <1>f, <1>5 DEF CheckRunning, PlacesInv
  <1>6. ASSUME NEW t \in Thread, Lock(t) PROVE PoolGrows'
    BY <1>f, <1>g, <1>6 DEF Lock, Available
  <1>7. ASSUME NEW t \in Thread, Block(t) \/ IdleTimeout(t) PROVE PoolGrows'
    BY <1>f, <1>7 DEF Block, IdleTimeout
  <1>8. ASSUME NEW t \in Thread, Wake(t) PROVE PoolGrows'
    BY <1>f, <1>g, <1>8 DEF Wake, NothingToDo, Available
  <1>9. ASSUME NEW t \in Thread, TestClosing(t) \/ Close(t) \/ Handle(t) PROVE PoolGrows'
    BY <1>f, <1>9 DEF TestClosing, Close, Handle, Available
  <1>10. CASE UNCHANGED aioVars
    BY <1>e, <1>10 DEF aioVars, Avail, Available
  <1>11. QED
    BY <1>2, <1>3, <1>4, <1>5, <1>6, <1>7, <1>8, <1>9, <1>10 DEF PoolNext, LoopStep, ThreadStep

-----------------------------------------------------------------------------
\* For any number of threads and tasks: task_num and n_closing count exactly what
\* is under way, the pool keeps within worker_num and keeps its core threads, and
\* dispatch() leaves no task without a thread below the limit
\* (async_thread.cc:135-182, 305-360, 406-437).
THEOREM ThreadPoolIsExact == PoolSpec => []PoolIsExact
  <1>1. AioInv /\ [PoolNext]_aioVars => AioInv'
    BY BaseTypeStep, CountStep, CoreStep, PlacesStep, LeaversStep, GrowsStep DEF AioInv
  <1>2. QED
    BY AioInvInit, <1>1, AioInvIsExact, PTL DEF PoolSpec
=============================================================================
