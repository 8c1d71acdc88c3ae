------------------------- MODULE SharedMemory_proofs -------------------------
(***************************************************************************)
(* Two structures in memory that processes share: the lock of a table row  *)
(* excludes, for any set of processes, and the ring buffer never           *)
(* overwrites a block in use, for any size and any order of frees.         *)
(***************************************************************************)
EXTENDS RowLock, RingBuffer, FiniteSetTheorems, TLAPS

(***************************************************************************)
(* The lock of a row.                                                      *)
(***************************************************************************)
\* Nobody is late unless two seconds have passed for somebody.
NobodyLate == ~overdue => late = {}

RowLockInv == RowExclusive /\ NobodyLate

\* A process that is dead or a wait that is overdue stays so.
LEMMA CalmBefore ==
    ASSUME RowLockTypeOK, RowLockNext, Calm'
    PROVE  Calm
<1>1. PICK p \in Proc :
          \/ EnterLock(p) \/ Acquire(p) \/ ClearRoot(p) \/ Unlock(p)
          \/ TwoSeconds(p) \/ Die(p) \/ Reuse(p)
  BY Zenon DEF RowLockNext
<1>2. ~overdue
  BY Zenon, <1>1 DEF RowLockTypeOK, Calm, EnterLock, Acquire, CompareAndSet, ProbeHolder, LookAtTime,
              StorePid, ClearRoot, Unlock, TwoSeconds, Die, Reuse
<1>3. \A q \in Proc : at[q] = "dead" => at'[q] = "dead"
  BY Zenon, <1>1 DEF RowLockTypeOK, EnterLock, Acquire, CompareAndSet, ProbeHolder, LookAtTime,
              StorePid, ClearRoot, Unlock, TwoSeconds, Die, Reuse, Goto, ForceLock
<1> QED BY Zenon, <1>2, <1>3 DEF Calm

\* The invariant holds at the start: the memory of the table is zero.
LEMMA RowLockInitial == RowLockInit => RowLockInv
<1> SUFFICES ASSUME RowLockInit PROVE RowLockInv
  BY Zenon
<1>1. RowLockTypeOK
  BY Zenon DEF RowLockInit, RowLockTypeOK, Places
<1>2. \A p \in Proc : ~Holds(p)
  BY Zenon DEF RowLockInit, Holds
<1> QED BY <1>1, <1>2 DEF RowLockInit, RowLockInv, RowExclusive, NobodyLate

\* Types are preserved by every step of lock(), unlock() and the environment.
LEMMA RowLockTypes ==
    ASSUME RowLockTypeOK, RowLockNext
    PROVE  RowLockTypeOK'
<1>1. PICK p \in Proc :
          \/ EnterLock(p) \/ Acquire(p) \/ ClearRoot(p) \/ Unlock(p)
          \/ TwoSeconds(p) \/ Die(p) \/ Reuse(p)
  BY Zenon DEF RowLockNext
<1>2. \A place \in Places : Goto(p, place) => at' \in [Proc -> Places]
  BY Zenon DEF Goto, RowLockTypeOK
<1>3. {"out", "try", "probe", "time", "won", "in", "dead"} = Places
  BY Zenon DEF Places
<1>4. CASE EnterLock(p) \/ StorePid(p) \/ ClearRoot(p) \/ Unlock(p)
  BY Zenon, <1>1, <1>2, <1>3, <1>4 DEF RowLockTypeOK, EnterLock, StorePid, ClearRoot, Unlock
<1>5. CASE CompareAndSet(p) \/ ProbeHolder(p) \/ LookAtTime(p)
  BY Zenon, <1>1, <1>2, <1>3, <1>5 DEF RowLockTypeOK, CompareAndSet, ProbeHolder, LookAtTime, ForceLock
<1>6. CASE TwoSeconds(p) \/ Die(p) \/ Reuse(p)
  BY Zenon, <1>1, <1>2, <1>3, <1>6 DEF RowLockTypeOK, TwoSeconds, Die, Reuse
<1> QED BY Zenon, <1>1, <1>4, <1>5, <1>6 DEF Acquire

\* One step, whoever takes it, preserves the invariant.
LEMMA RowLockStep ==
    ASSUME RowLockInv, RowLockNext
    PROVE  RowLockInv'
<1>1. RowLockTypeOK /\ RowLockTypeOK'
  BY Zenon, RowLockTypes DEF RowLockInv, RowExclusive
<1>2. PICK p \in Proc :
          \/ EnterLock(p) \/ Acquire(p) \/ ClearRoot(p) \/ Unlock(p)
          \/ TwoSeconds(p) \/ Die(p) \/ Reuse(p)
  BY Zenon DEF RowLockNext
<1>3. NobodyLate'
  BY Zenon, <1>1, <1>2 DEF RowLockInv, NobodyLate, RowLockTypeOK, EnterLock, Acquire, CompareAndSet,
              ProbeHolder, LookAtTime, StorePid, ClearRoot, Unlock, TwoSeconds, Die, Reuse
<1>4. SUFFICES ASSUME Calm'
               PROVE  /\ \A q, r \in Proc : Holds(q)' /\ Holds(r)' => q = r
                      /\ (lock_' = 1 <=> \E q \in Proc : Holds(q)')
  BY Zenon, <1>1, <1>3 DEF RowLockInv, RowExclusive
<1>5. Calm
  BY Zenon, <1>1, <1>4, CalmBefore
<1>6. /\ \A q, r \in Proc : Holds(q) /\ Holds(r) => q = r
      /\ (lock_ = 1 <=> \E q \in Proc : Holds(q))
      /\ late = {}
      /\ \A q \in Proc : at[q] # "dead" /\ at'[q] # "dead"
  BY Zenon, <1>4, <1>5 DEF RowLockInv, RowExclusive, NobodyLate, Calm
<1>7. ~Gone(lock_pid)
  BY Zenon, <1>6 DEF Gone
<1>8. CASE CompareAndSet(p) /\ lock_ = 0
  <2>1. lock_' = 1 /\ at' = [at EXCEPT ![p] = "won"]
    BY <1>8 DEF CompareAndSet, Goto
  <2>2. \A q \in Proc : Holds(q)' <=> q = p
    BY <1>1, <1>6, <1>8, <2>1 DEF Holds, RowLockTypeOK
  <2> QED BY Zenon, <2>1, <2>2
<1>9. CASE Unlock(p)
  <2>1. lock_' = 0 /\ at' = [at EXCEPT ![p] = "out"] /\ Holds(p)
    BY Zenon, <1>9 DEF Unlock, Goto, Holds
  <2>2. \A q \in Proc : ~Holds(q)'
    BY Zenon, <1>1, <1>6, <2>1 DEF Holds, RowLockTypeOK
  <2> QED BY <2>1, <2>2
<1>10. CASE \/ EnterLock(p) \/ (CompareAndSet(p) /\ lock_ = 1) \/ ProbeHolder(p) \/ LookAtTime(p)
            \/ StorePid(p) \/ ClearRoot(p) \/ TwoSeconds(p) \/ Reuse(p)
  <2>1. lock_' = lock_
    BY Zenon, <1>6, <1>7, <1>10 DEF EnterLock, CompareAndSet, ProbeHolder, LookAtTime, StorePid,
          ClearRoot, TwoSeconds, Reuse
  <2>2. \A q \in Proc : Holds(q)' <=> Holds(q)
    BY <1>1, <1>6, <1>7, <1>10 DEF EnterLock, CompareAndSet, ProbeHolder, LookAtTime, StorePid,
          ClearRoot, TwoSeconds, Reuse, Goto, Holds, RowLockTypeOK
  <2> QED BY Zenon, <1>6, <2>1, <2>2
<1>11. ~Die(p)
  BY Zenon, <1>1, <1>6 DEF Die, Goto, RowLockTypeOK
<1>12. CompareAndSet(p) => lock_ = 0 \/ lock_ = 1
  BY Zenon, <1>1 DEF RowLockTypeOK
<1> QED
  BY Zenon, <1>2, <1>8, <1>9, <1>10, <1>11, <1>12 DEF Acquire

\* While every process lives and no wait has lasted two seconds, one process at
\* a time is at a row, for any number of processes and any order of their steps
\* (TableRow::lock, unlock and clear).
THEOREM RowLockExcludes == RowLockSpec => []RowExclusive
<1>1. RowLockInv /\ UNCHANGED rowLockVars => RowLockInv'
  BY DEF RowLockInv, RowExclusive, NobodyLate, RowLockTypeOK, Calm, Holds, rowLockVars
<1>2. RowLockInv /\ [RowLockNext]_rowLockVars => RowLockInv'
  BY Zenon, <1>1, RowLockStep
<1>3. RowLockInv => RowExclusive
  BY Zenon DEF RowLockInv
<1> QED BY RowLockInitial, <1>2, <1>3, PTL DEF RowLockSpec

-----------------------------------------------------------------------------
(***************************************************************************)
(* The ring buffer.                                                        *)
(***************************************************************************)
Unit == [item : Offset, lock : {0, 1}, length : 0 .. ring_size]

EndOf(its, units, k) == its[k] + units[its[k]].length + ItemHeader

\* The ring after its last unit.
Around(offset) == IF offset = ring_size THEN 0 ELSE offset

\* An item lies where it may: from the collector on, or before the place of the
\* next block once that has gone around.
Lies(st, al, co, its, units, k) ==
    /\ units[its[k]].item = its[k] /\ EndOf(its, units, k) <= ring_size
    /\ \/ co <= its[k] /\ (st = 0 => EndOf(its, units, k) <= al)
       \/ st = 1 /\ EndOf(its, units, k) <= al

\* Of two items the later one lies behind the other, or has gone around.
Apart(st, al, co, its, units, j, k) ==
    \/ EndOf(its, units, j) <= its[k]
    \/ st = 1 /\ co <= its[j] /\ EndOf(its, units, k) <= al

\* The items follow each other without a gap, from the collector to the place of
\* the next block, and do not overlap.
Tiles(st, al, co, its, units) ==
    /\ Len(its) = 0 => st = 0 /\ co = al
    /\ Len(its) # 0 => co = its[1] /\ al = Around(EndOf(its, units, Len(its)))
    /\ st = 1 => al <= co
    /\ \A k \in 1 .. Len(its) : Lies(st, al, co, its, units, k)
    /\ \A k \in 1 .. Len(its) - 1 : its[k + 1] = Around(EndOf(its, units, k))
    /\ \A j, k \in 1 .. Len(its) : j < k => Apart(st, al, co, its, units, j, k)

-----------------------------------------------------------------------------
\* The header of an item.
LEMMA ItemFields ==
    ASSUME NEW offset, NEW locked, NEW length
    PROVE  /\ item(offset, locked, length).item = offset
           /\ item(offset, locked, length).lock = locked
           /\ item(offset, locked, length).length = length
  BY Zenon DEF item

\* An item is at least its header.
LEMMA EndIsBehind ==
    ASSUME NEW its \in Seq(Offset), NEW units \in [Offset -> Unit], NEW k \in 1 .. Len(its)
    PROVE  /\ its[k] \in Offset /\ its[k] \in Nat /\ units[its[k]].length \in Nat
           /\ EndOf(its, units, k) \in Nat /\ its[k] < EndOf(its, units, k)
  <1>1. its[k] \in Offset
    OBVIOUS
  <1>2. units[its[k]] \in Unit
    BY Zenon, <1>1
  <1>3. units[its[k]].length \in Nat
    BY <1>2, RingAssumption DEF Unit
  <1>4. its[k] \in Nat
    BY <1>1, RingAssumption DEF Offset
  <1>5. QED
    BY <1>1, <1>3, <1>4 DEF EndOf, ItemHeader

\* An item at an offset is made, and nothing outside it changes.
Makes(units, units2, al, length) ==
    /\ units2[al].item = al /\ units2[al].length = length
    /\ \A a \in Offset \ (al .. al + length) : units2[a] = units[a]

\* The place of the next block moves to the end of the item: in the ring, to its
\* end and so to its start, or up to the collector.
Advances(st, co, e, st2, al2) ==
    \/ st = 0 /\ e < ring_size /\ st2 = 0 /\ al2 = e
    \/ st = 0 /\ e = ring_size /\ st2 = 1 /\ al2 = 0
    \/ st = 1 /\ e <= co /\ st2 = 1 /\ al2 = e

\* alloc() appends an item: a block where there is room, or what is left of the
\* ring when a block does not fit there.
LEMMA ItemAppended ==
    ASSUME NEW its \in Seq(Offset), NEW units \in [Offset -> Unit], NEW units2 \in [Offset -> Unit],
           NEW st \in {0, 1}, NEW al \in Offset, NEW co \in Offset, Tiles(st, al, co, its, units),
           NEW length \in 0 .. ring_size, NEW e, e = al + length + ItemHeader,
           Makes(units, units2, al, length), NEW st2, NEW al2, Advances(st, co, e, st2, al2)
    PROVE  /\ Tiles(st2, al2, co, Append(its, al), units2)
           /\ \A k \in 1 .. Len(its) : EndOf(its, units, k) <= al \/ e <= its[k]
           /\ \A k \in 1 .. Len(its) : units2[its[k]] = units[its[k]]
  <1> DEFINE n == Len(its)
             its2 == Append(its, al)
  <1>1. /\ n \in Nat /\ Len(its2) = n + 1 /\ its2 \in Seq(Offset) /\ its2[n + 1] = al
        /\ \A k \in 1 .. n : its2[k] = its[k]
    OBVIOUS
  <1>2. /\ al \in Nat /\ co \in Nat /\ e \in Nat /\ length \in Nat /\ ring_size \in Nat
        /\ al < e /\ co < ring_size /\ al < ring_size /\ e - 1 = al + length
    BY RingAssumption DEF Offset, ItemHeader
  <1>ends. ASSUME NEW k \in 1 .. n PROVE EndOf(its, units, k) \in Nat
    BY Zenon, EndIsBehind
  <1>made. /\ units2[al].item = al /\ units2[al].length = length
           /\ \A a \in Offset \ (al .. e - 1) : units2[a] = units[a]
    BY Zenon, <1>2 DEF Makes
  <1> USE <1>made DEF Advances
  <1>3. ASSUME NEW k \in 1 .. n
        PROVE  EndOf(its, units, k) <= al \/ e <= its[k]
    <2>1. Lies(st, al, co, its, units, k)
      BY Zenon DEF Tiles
    <2>2. /\ its[k] \in Nat /\ EndOf(its, units, k) \in Nat /\ its[k] < EndOf(its, units, k)
      BY Zenon, EndIsBehind
    <2>3. QED
      BY <1>2, <2>1, <2>2 DEF Lies
  <1>4. ASSUME NEW k \in 1 .. n
        PROVE  units2[its[k]] = units[its[k]]
    <2>1. /\ its[k] \in Nat /\ EndOf(its, units, k) \in Nat /\ its[k] < EndOf(its, units, k)
          /\ its[k] \in Offset
      BY Zenon, EndIsBehind
    <2>2. EndOf(its, units, k) <= al \/ e <= its[k]
      BY Zenon, <1>3
    <2>3. its[k] < al \/ its[k] > e - 1
      BY <1>2, <2>1, <2>2
    <2>4. its[k] \in Offset \ (al .. e - 1)
      BY SMTT(30), <1>2, <2>1, <2>3
    <2>5. QED
      BY Zenon, <2>4
  <1>5. ASSUME NEW k \in 1 .. n
        PROVE  /\ k \in 1 .. n + 1 /\ its2[k] = its[k] /\ its[k] \in Nat
               /\ EndOf(its2, units2, k) = EndOf(its, units, k) /\ units2[its2[k]].item = units[its[k]].item
               /\ EndOf(its, units, k) \in Nat /\ its[k] < EndOf(its, units, k)
    <2>1. its2[k] = its[k] /\ units2[its[k]] = units[its[k]]
      BY Zenon, <1>1, <1>4
    <2>2. EndOf(its2, units2, k) = EndOf(its, units, k)
      BY Zenon, <2>1 DEF EndOf
    <2>3. QED
      BY <1>1, <2>1, <2>2, EndIsBehind
  <1>6. EndOf(its2, units2, n + 1) = e /\ units2[its2[n + 1]].item = al
    BY Zenon, <1>1 DEF EndOf
  <1> HIDE DEF n, its2
  <1>7. \A k \in 1 .. n : Lies(st, al, co, its, units, k)
    BY Zenon DEF Tiles, n
  <1>8. ASSUME NEW k \in 1 .. n + 1 PROVE Lies(st2, al2, co, its2, units2, k)
    <2>1. CASE k \in 1 .. n
      <3>1. Lies(st, al, co, its, units, k)
        BY Zenon, <1>7, <2>1
      <3>2. QED
        BY SMTT(30), <1>2, <1>5, <2>1, <3>1 DEF Lies
    <2>2. CASE k = n + 1
      <3>1. n # 0 => co <= al \/ st = 1
        <4>1. ASSUME n # 0, st # 1 PROVE co <= al
          <5>1. 1 \in 1 .. n /\ co = its[1]
            BY <1>1, <4>1 DEF Tiles, n
          <5>2. Lies(st, al, co, its, units, 1)
            BY Zenon, <1>7, <5>1
          <5>3. QED
            BY <1>2, <1>5, <4>1, <5>1, <5>2 DEF Lies
        <4>2. QED
          BY Zenon, <4>1
      <3>2. n = 0 => co = al
        BY Zenon DEF Tiles, n
      <3>3. QED
        BY <1>1, <1>2, <1>6, <2>2, <3>1, <3>2 DEF Lies
    <2>3. QED
      BY <1>1, <2>1, <2>2
  <1>9. ASSUME NEW k \in 1 .. n PROVE its2[k + 1] = Around(EndOf(its2, units2, k))
    <2>1. CASE k = n
      BY <1>1, <1>5, <2>1 DEF Tiles, n
    <2>2. CASE k # n
      <3>1. k \in 1 .. n - 1 /\ k + 1 \in 1 .. n
        BY <1>1, <2>2
      <3>2. its[k + 1] = Around(EndOf(its, units, k))
        BY Zenon, <3>1 DEF Tiles, n
      <3>3. QED
        BY Zenon, <1>5, <3>1, <3>2
    <2>3. QED
      BY Zenon, <2>1, <2>2
  <1>10. ASSUME NEW j \in 1 .. n + 1, NEW k \in 1 .. n + 1, j < k
         PROVE  Apart(st2, al2, co, its2, units2, j, k)
    <2>1. j \in 1 .. n
      BY <1>1, <1>10
    <2>2. Lies(st, al, co, its, units, j)
      BY Zenon, <1>7, <2>1
    <2>3. CASE k \in 1 .. n
      <3>1. Apart(st, al, co, its, units, j, k)
        BY Zenon, <1>10, <2>1, <2>3 DEF Tiles, n
      <3>2. QED
        <4>1. /\ its2[j] = its[j] /\ its2[k] = its[k] /\ its[j] \in Nat
              /\ EndOf(its2, units2, j) = EndOf(its, units, j) /\ EndOf(its2, units2, k) = EndOf(its, units, k)
          BY Zenon, <1>5, <2>1, <2>3
        <4>2. EndOf(its, units, j) \in Nat /\ EndOf(its, units, k) \in Nat
          BY Zenon, <2>1, <2>3, <1>ends
        <4>3. QED
          BY <1>2, <3>1, <4>1, <4>2 DEF Apart
    <2>4. CASE k = n + 1
      <3>1. EndOf(its, units, j) <= al \/ (st = 1 /\ co <= its[j])
        BY Zenon, <1>2, <2>2 DEF Lies
      <3>2. QED
        BY SMTT(30), <1>1, <1>2, <1>5, <1>6, <2>1, <2>4, <3>1 DEF Apart
    <2>5. QED
      BY <1>1, <2>3, <2>4
  <1>11. st2 = 1 => al2 <= co
    BY <1>2
  <1>12. co = its2[1]
    <2>1. CASE n = 0
      BY <1>1, <2>1 DEF Tiles, n
    <2>2. CASE n # 0
      <3>1. 1 \in 1 .. n
        BY <1>1, <2>2
      <3>2. QED
        BY Zenon, <1>5, <2>2, <3>1 DEF Tiles, n
    <2>3. QED
      BY Zenon, <2>1, <2>2
  <1>13. al2 = Around(EndOf(its2, units2, n + 1))
    BY <1>2, <1>6 DEF Around
  <1>14. Tiles(st2, al2, co, its2, units2)
    BY <1>1, <1>8, <1>9, <1>10, <1>11, <1>12, <1>13 DEF Tiles
  <1>15. QED
    BY Zenon, <1>3, <1>4, <1>14 DEF n, its2

\* collect() takes the first item.
LEMMA ItemCollected ==
    ASSUME NEW its \in Seq(Offset), NEW units \in [Offset -> Unit], its # <<>>,
           NEW st \in {0, 1}, NEW al \in Offset, NEW co \in Offset, Tiles(st, al, co, its, units),
           NEW e, e = EndOf(its, units, 1), NEW st2, NEW co2,
           st2 = (IF e + ItemHeader > ring_size THEN 0 ELSE st),
           co2 = (IF e + ItemHeader > ring_size THEN 0 ELSE e)
    PROVE  Tiles(st2, al, co2, Tail(its), units) /\ co2 \in Offset
  <1> DEFINE n == Len(its)
             rest == Tail(its)
  <1>1. /\ n \in Nat \ {0} /\ rest \in Seq(Offset) /\ Len(rest) = n - 1 /\ co = its[1]
        /\ \A k \in 1 .. n - 1 : rest[k] = its[k + 1]
        /\ al = Around(EndOf(its, units, n)) /\ (st = 1 => al <= co)
    BY DEF Tiles
  <1>2. /\ al \in Nat /\ co \in Nat /\ ring_size \in Nat /\ al < ring_size /\ co < ring_size
        /\ ring_size > 2
    BY RingAssumption DEF Offset
  <1>3. \A k \in 1 .. n : /\ Lies(st, al, co, its, units, k)
                          /\ k < n => its[k + 1] = Around(EndOf(its, units, k))
    BY <1>1 DEF Tiles
  <1>4. \A k \in 1 .. n : /\ its[k] \in Nat /\ its[k] < ring_size
                          /\ EndOf(its, units, k) \in Nat /\ its[k] < EndOf(its, units, k)
    <2> TAKE k \in 1 .. n
    <2>1. /\ its[k] \in Offset /\ its[k] \in Nat
          /\ EndOf(its, units, k) \in Nat /\ its[k] < EndOf(its, units, k)
      BY Zenon, EndIsBehind
    <2>2. QED
      BY <1>2, <2>1 DEF Offset
  <1>5. \A j, k \in 1 .. n : j < k => Apart(st, al, co, its, units, j, k)
    BY Zenon DEF Tiles
  <1>6. \A k \in 1 .. n - 1 : /\ k + 1 \in 1 .. n /\ rest[k] = its[k + 1]
                              /\ EndOf(rest, units, k) = EndOf(its, units, k + 1)
    BY <1>1 DEF EndOf
  <1> HIDE DEF n, rest
  <1>7. 1 \in 1 .. n /\ e \in Nat /\ co < e /\ e <= ring_size
    <2>1. 1 \in 1 .. n
      BY <1>1
    <2>2. QED
      BY Zenon, <1>1, <1>3, <1>4, <2>1 DEF Lies
  <1>8. \/ e = ring_size /\ st2 = 0 /\ co2 = 0
        \/ e < ring_size /\ st2 = st /\ co2 = e
    BY <1>2, <1>7 DEF ItemHeader
  <1>9. e = ring_size => st = 1
    BY <1>2, <1>3, <1>7 DEF Lies
  <1>10. ASSUME NEW q \in 1 .. n, q # 1
         PROVE  \/ e < ring_size /\ e <= its[q]
                \/ st = 1 /\ EndOf(its, units, q) <= al
    <2>1. Apart(st, al, co, its, units, 1, q)
      BY <1>1, <1>5, <1>7, <1>10
    <2>2. QED
      BY <1>2, <1>4, <1>7, <2>1 DEF Apart
  <1>11. ASSUME NEW k \in 1 .. n - 1 PROVE Lies(st2, al, co2, rest, units, k)
    <2> DEFINE q == k + 1
    <2>1. /\ q \in 1 .. n /\ q # 1 /\ rest[k] = its[q]
          /\ EndOf(rest, units, k) = EndOf(its, units, q)
      BY <1>1, <1>6
    <2> HIDE DEF q
    <2>2. Lies(st, al, co, its, units, q)
      BY Zenon, <1>3, <2>1
    <2>3. QED
      BY <1>2, <1>4, <1>8, <1>9, <1>10, <2>1, <2>2 DEF Lies
  <1>12. ASSUME NEW j \in 1 .. n - 1, NEW k \in 1 .. n - 1, j < k
         PROVE  Apart(st2, al, co2, rest, units, j, k)
    <2> DEFINE p == j + 1
               q == k + 1
    <2>1. /\ p \in 1 .. n /\ p # 1 /\ rest[j] = its[p] /\ EndOf(rest, units, j) = EndOf(its, units, p)
          /\ q \in 1 .. n /\ q # 1 /\ rest[k] = its[q] /\ EndOf(rest, units, k) = EndOf(its, units, q)
          /\ p < q
      BY <1>1, <1>6, <1>12
    <2> HIDE DEF p, q
    <2>2. Apart(st, al, co, its, units, p, q)
      BY Zenon, <1>5, <2>1
    <2>3. CASE EndOf(its, units, p) <= its[q]
      BY Zenon, <2>1, <2>3 DEF Apart
    <2>4. CASE st = 1 /\ co <= its[p] /\ EndOf(its, units, q) <= al
      <3>1. (e < ring_size /\ e <= its[p]) \/ EndOf(its, units, p) <= al
        BY Zenon, <1>10, <2>1
      <3>2. its[p] \in Nat /\ EndOf(its, units, p) \in Nat /\ its[p] < EndOf(its, units, p)
        BY Zenon, <1>4, <2>1
      <3>3. e < ring_size /\ e <= its[p]
        BY <1>1, <1>2, <2>4, <3>1, <3>2
      <3>4. st2 = 1 /\ co2 <= rest[j] /\ EndOf(rest, units, k) <= al
        BY <1>2, <1>8, <2>1, <2>4, <3>3
      <3>5. QED
        BY Zenon, <3>4 DEF Apart
    <2>5. QED
      BY Zenon, <2>2, <2>3, <2>4 DEF Apart
  <1>13. ASSUME NEW k \in 1 .. n - 2 PROVE rest[k + 1] = Around(EndOf(rest, units, k))
    <2>1. k \in 1 .. n - 1 /\ k + 1 \in 1 .. n - 1 /\ k + 1 \in 1 .. n /\ k + 1 < n
      BY <1>1
    <2>2. QED
      BY Zenon, <1>3, <1>6, <2>1
  <1>14. st2 = 1 => al <= co2
    BY <1>1, <1>2, <1>7, <1>8
  <1>15. n = 1 => st2 = 0 /\ co2 = al
    BY <1>1, <1>2, <1>7, <1>8, <1>9 DEF Around
  <1>16. n # 1 => co2 = rest[1] /\ al = Around(EndOf(rest, units, n - 1))
    <2>1. ASSUME n # 1 PROVE co2 = rest[1]
      <3>1. 1 \in 1 .. n - 1 /\ 1 < n /\ 1 + 1 = 2
        BY <1>1, <2>1
      <3>2. rest[1] = its[2] /\ its[2] = Around(e)
        BY Zenon, <1>3, <1>6, <1>7, <3>1
      <3>3. QED
        BY <1>2, <1>7, <1>8, <3>2 DEF Around
    <2>2. ASSUME n # 1 PROVE al = Around(EndOf(rest, units, n - 1))
      <3>1. n - 1 \in 1 .. n - 1 /\ (n - 1) + 1 = n
        BY <1>1, <2>2
      <3>2. QED
        BY Zenon, <1>1, <1>6, <3>1
    <2>3. QED
      BY Zenon, <2>1, <2>2
  <1>17. Tiles(st2, al, co2, rest, units)
    <2>1. Len(rest) = n - 1 /\ n - 1 \in Nat
      BY <1>1 DEF n, rest
    <2>2. QED
      BY <1>1, <1>11, <1>12, <1>13, <1>14, <1>15, <1>16, <2>1 DEF Tiles
  <1>18. co2 \in Offset
    BY <1>2, <1>7, <1>8 DEF Offset
  <1>19. QED
    BY Zenon, <1>17, <1>18 DEF rest

\* The locks have nothing to do with where the items are.
LEMMA ItemUnlocked ==
    ASSUME NEW its \in Seq(Offset), NEW units \in [Offset -> Unit], NEW units2 \in [Offset -> Unit],
           NEW st, NEW al, NEW co, Tiles(st, al, co, its, units),
           \A a \in Offset : units2[a].item = units[a].item /\ units2[a].length = units[a].length
    PROVE  Tiles(st, al, co, its, units2)
  <1>1. \A k \in 1 .. Len(its) : /\ EndOf(its, units2, k) = EndOf(its, units, k)
                                 /\ units2[its[k]].item = units[its[k]].item
    BY DEF EndOf
  <1>2. Len(its) \in Nat
    OBVIOUS
  <1>3. \A k \in 1 .. Len(its) : Lies(st, al, co, its, units2, k)
    BY Zenon, <1>1 DEF Tiles, Lies
  <1>4. \A j, k \in 1 .. Len(its) : j < k => Apart(st, al, co, its, units2, j, k)
    BY Zenon, <1>1 DEF Tiles, Apart
  <1>5. \A k \in 1 .. Len(its) - 1 : its[k + 1] = Around(EndOf(its, units2, k))
    BY <1>1, <1>2 DEF Tiles
  <1>6. Len(its) # 0 => co = its[1] /\ al = Around(EndOf(its, units2, Len(its)))
    BY <1>1, <1>2 DEF Tiles
  <1>7. QED
    BY Zenon, <1>3, <1>4, <1>5, <1>6 DEF Tiles

\* No offset is that of two items.
LEMMA ItemsDiffer ==
    ASSUME NEW its \in Seq(Offset), NEW units \in [Offset -> Unit], NEW st \in {0, 1},
           NEW al \in Offset, NEW co \in Offset, Tiles(st, al, co, its, units)
    PROVE  \A j, k \in 1 .. Len(its) : its[j] = its[k] => j = k
  <1>1. Len(its) \in Nat /\ al \in Nat /\ co \in Nat /\ (st = 1 => al <= co)
    BY RingAssumption DEF Offset, Tiles
  <1>2. ASSUME NEW j \in 1 .. Len(its), NEW k \in 1 .. Len(its), j < k PROVE its[j] # its[k]
    <2>1. Apart(st, al, co, its, units, j, k)
      BY Zenon, <1>2 DEF Tiles
    <2>2. /\ its[j] \in Nat /\ EndOf(its, units, j) \in Nat /\ its[j] < EndOf(its, units, j)
          /\ its[k] \in Nat /\ EndOf(its, units, k) \in Nat /\ its[k] < EndOf(its, units, k)
      BY Zenon, EndIsBehind
    <2>3. QED
      BY <1>1, <2>1, <2>2 DEF Apart
  <1>3. QED
    BY <1>1, <1>2

-----------------------------------------------------------------------------
(* The blocks in use.                                                      *)

BlocksIn(blocks, its, units) ==
    \A block \in blocks :
        /\ \E k \in 1 .. Len(its) : its[k] = block[1]
        /\ block[1] + block[2] < ring_size
        /\ units[block[1]] = item(block[1], 1, block[2])
        /\ \A a \in block[1] .. block[1] + block[2] : units[a].item = block[1]

\* An item that is appended spares the blocks in use.
LEMMA BlocksSpared ==
    ASSUME NEW its \in Seq(Offset), NEW units \in [Offset -> Unit], NEW units2 \in [Offset -> Unit],
           NEW blocks \in SUBSET (Offset \X (1 .. ring_size)), BlocksIn(blocks, its, units),
           NEW al \in Offset, NEW length \in Nat, Makes(units, units2, al, length),
           NEW e, e = al + length + ItemHeader,
           \A k \in 1 .. Len(its) : EndOf(its, units, k) <= al \/ e <= its[k]
    PROVE  BlocksIn(blocks, Append(its, al), units2)
  <1> SUFFICES ASSUME NEW block \in blocks
               PROVE  /\ \E k \in 1 .. Len(Append(its, al)) : Append(its, al)[k] = block[1]
                      /\ block[1] + block[2] < ring_size
                      /\ units2[block[1]] = item(block[1], 1, block[2])
                      /\ \A a \in block[1] .. block[1] + block[2] : units2[a].item = block[1]
    BY Zenon DEF BlocksIn
  <1> DEFINE b == block[1]
             l == block[2]
  <1>1. /\ b \in Offset /\ b \in Nat /\ l \in Nat /\ ring_size \in Nat /\ al \in Nat
        /\ e \in Nat /\ e - 1 = al + length
    BY RingAssumption DEF Offset, ItemHeader
  <1> HIDE DEF b, l
  <1>2. /\ \E k \in 1 .. Len(its) : its[k] = b
        /\ b + l < ring_size /\ units[b] = item(b, 1, l)
        /\ \A a \in b .. b + l : units[a].item = b
    BY Zenon DEF BlocksIn, b, l
  <1>3. PICK k \in 1 .. Len(its) : its[k] = b
    BY Zenon, <1>2
  <1>4. EndOf(its, units, k) = b + l + 1
    BY <1>2, <1>3 DEF EndOf, item, ItemHeader
  <1>5. \A a \in b .. b + l : a \in Offset \ (al .. e - 1)
    <2> SUFFICES ASSUME NEW a \in b .. b + l PROVE a \in Offset /\ ~(a \in al .. e - 1)
      BY Zenon
    <2>1. b + l + 1 <= al \/ e <= b
      BY Zenon, <1>3, <1>4
    <2>2. a \in Nat /\ b <= a /\ a <= b + l
      BY <1>1
    <2>3. a \in Offset
      BY <1>1, <1>2, <2>2 DEF Offset
    <2>4. ~(a \in al .. e - 1)
      BY <1>1, <2>1, <2>2
    <2>5. QED
      BY Zenon, <2>3, <2>4
  <1>6. \A a \in b .. b + l : units2[a] = units[a]
    <2>1. \A a \in Offset \ (al .. e - 1) : units2[a] = units[a]
      BY Zenon, <1>1 DEF Makes
    <2>2. QED
      BY Zenon, <1>5, <2>1
  <1>7. b \in b .. b + l
    BY <1>1
  <1>8. \E j \in 1 .. Len(Append(its, al)) : Append(its, al)[j] = b
    <2>1. k \in 1 .. Len(Append(its, al)) /\ Append(its, al)[k] = its[k]
      OBVIOUS
    <2>2. QED
      BY Zenon, <1>3, <2>1
  <1>9. QED
    BY <1>2, <1>6, <1>7, <1>8 DEF b, l

\* The block that alloc() returns.
LEMMA BlockAdded ==
    ASSUME NEW its \in Seq(Offset), NEW units \in [Offset -> Unit], NEW blocks,
           NEW al \in Offset, BlocksIn(blocks, Append(its, al), units),
           NEW length \in 1 .. ring_size, al + length < ring_size, units[al] = item(al, 1, length),
           \A a \in al .. al + length : units[a].item = al
    PROVE  BlocksIn(blocks \cup {<<al, length>>}, Append(its, al), units)
  <1>1. Len(its) + 1 \in 1 .. Len(Append(its, al)) /\ Append(its, al)[Len(its) + 1] = al
    OBVIOUS
  <1>2. \E k \in 1 .. Len(Append(its, al)) : Append(its, al)[k] = al
    BY Zenon, <1>1
  <1>3. ASSUME NEW block \in blocks \cup {<<al, length>>}, block \notin blocks
        PROVE  block[1] = al /\ block[2] = length
    BY <1>3
  <1>4. QED
    BY Zenon, <1>2, <1>3 DEF BlocksIn

-----------------------------------------------------------------------------
(* The items that are free.                                                *)

FreeIn(its, units) == {k \in 1 .. Len(its) : units[its[k]].lock = 0}

\* As many as the numbers up to n.
LEMMA UpTo ==
    ASSUME NEW n \in Nat
    PROVE  IsFiniteSet(1 .. n) /\ Cardinality(1 .. n) = n
  BY FS_Interval

\* They are finitely many.
LEMMA FreeFinite ==
    ASSUME NEW its \in Seq(Offset), NEW units
    PROVE  /\ IsFiniteSet(FreeIn(its, units)) /\ Cardinality(FreeIn(its, units)) \in Nat
           /\ Cardinality(FreeIn(its, units)) <= Len(its)
  <1>1. Len(its) \in Nat
    OBVIOUS
  <1>2. IsFiniteSet(1 .. Len(its)) /\ Cardinality(1 .. Len(its)) = Len(its)
    BY Zenon, <1>1, UpTo
  <1>3. FreeIn(its, units) \in SUBSET (1 .. Len(its))
    BY Zenon DEF FreeIn
  <1>4. QED
    BY Zenon, <1>2, <1>3, FS_Subset, FS_CardinalityType

\* A free item more, or a block in use more.
LEMMA FreeAppended ==
    ASSUME NEW its \in Seq(Offset), NEW units \in [Offset -> Unit], NEW units2 \in [Offset -> Unit],
           NEW al \in Offset,
           \A k \in 1 .. Len(its) : units2[its[k]] = units[its[k]]
    PROVE  /\ units2[al].lock = 0 => Cardinality(FreeIn(Append(its, al), units2))
                                     = Cardinality(FreeIn(its, units)) + 1
           /\ units2[al].lock = 1 => FreeIn(Append(its, al), units2) = FreeIn(its, units)
  <1>1. /\ Len(its) \in Nat /\ Len(Append(its, al)) = Len(its) + 1
        /\ Append(its, al)[Len(its) + 1] = al
        /\ \A k \in 1 .. Len(its) : Append(its, al)[k] = its[k]
    OBVIOUS
  <1>2. units2[al].lock = 0 =>
            FreeIn(Append(its, al), units2) = FreeIn(its, units) \cup {Len(its) + 1}
    BY <1>1 DEF FreeIn
  <1>3. units2[al].lock = 1 => FreeIn(Append(its, al), units2) = FreeIn(its, units)
    BY <1>1 DEF FreeIn
  <1>4. Len(its) + 1 \notin FreeIn(its, units)
    BY <1>1 DEF FreeIn
  <1>5. QED
    BY ZenonT(30), <1>2, <1>3, <1>4, FreeFinite, FS_AddElement

\* A free item less.
LEMMA FreeCollected ==
    ASSUME NEW its \in Seq(Offset), NEW units, its # <<>>, units[its[1]].lock = 0
    PROVE  Cardinality(FreeIn(Tail(its), units)) = Cardinality(FreeIn(its, units)) - 1
  <1> DEFINE S == FreeIn(its, units)
             T == FreeIn(Tail(its), units)
             f == [k \in T |-> k + 1]
  <1>1. /\ Len(its) \in Nat \ {0} /\ Tail(its) \in Seq(Offset) /\ Len(Tail(its)) = Len(its) - 1
        /\ \A k \in 1 .. Len(its) - 1 : Tail(its)[k] = its[k + 1]
    OBVIOUS
  <1>2. /\ \A k \in T : k \in Nat /\ k + 1 \in S \ {1}
        /\ \A k \in S \ {1} : k - 1 \in T /\ k \in Nat
        /\ 1 \in S
    BY <1>1 DEF FreeIn
  <1>3. IsFiniteSet(S) /\ IsFiniteSet(T) /\ Cardinality(S) \in Nat
    BY Zenon, <1>1, FreeFinite
  <1> HIDE DEF S, T
  <1>4. f \in Bijection(T, S \ {1})
    <2>1. f \in [T -> S \ {1}]
      BY Zenon, <1>2
    <2>2. \A j, k \in T : f[j] = f[k] => j = k
      BY <1>2
    <2>3. \A k \in S \ {1} : \E j \in T : f[j] = k
      <3> TAKE k \in S \ {1}
      <3>1. k - 1 \in T /\ f[k - 1] = k
        BY <1>2
      <3>2. QED
        BY Zenon, <3>1
    <2>4. QED
      BY Zenon, <2>1, <2>2, <2>3 DEF Bijection, Injection, Surjection, IsInjective
  <1>5. Cardinality(S \ {1}) = Cardinality(T)
    BY Zenon, <1>3, <1>4, FS_Bijection DEF ExistsBijection
  <1>6. Cardinality(S \ {1}) = Cardinality(S) - 1
    BY Zenon, <1>2, <1>3, FS_RemoveElement
  <1>7. QED
    BY Zenon, <1>5, <1>6 DEF S, T

\* A block in use becomes free.
LEMMA FreeUnlocked ==
    ASSUME NEW its \in Seq(Offset), NEW units \in [Offset -> Unit], NEW units2 \in [Offset -> Unit],
           NEW k \in 1 .. Len(its),
           \A j \in 1 .. Len(its) : its[j] = its[k] => j = k,
           units[its[k]].lock = 1, units2[its[k]].lock = 0,
           \A a \in Offset : a # its[k] => units2[a] = units[a]
    PROVE  Cardinality(FreeIn(its, units2)) = Cardinality(FreeIn(its, units)) + 1
  <1>1. \A j \in 1 .. Len(its) : j # k => units2[its[j]] = units[its[j]]
    OBVIOUS
  <1>2. FreeIn(its, units2) = FreeIn(its, units) \cup {k} /\ k \notin FreeIn(its, units)
    BY <1>1 DEF FreeIn
  <1>3. IsFiniteSet(FreeIn(its, units))
    BY Zenon, FreeFinite
  <1>4. Cardinality(FreeIn(its, units) \cup {k}) = Cardinality(FreeIn(its, units)) + 1
    <2> DEFINE S == FreeIn(its, units)
    <2>1. IsFiniteSet(S) /\ k \notin S
      BY Zenon, <1>2, <1>3
    <2> HIDE DEF S
    <2>2. Cardinality(S \cup {k}) = Cardinality(S) + 1
      BY Zenon, <2>1, FS_AddElement
    <2>3. QED
      BY Zenon, <2>2 DEF S
  <1>5. QED
    BY Zenon, <1>2, <1>4

\* There are no more items than units.
LEMMA ItemsBounded ==
    ASSUME NEW its \in Seq(Offset), \A j, k \in 1 .. Len(its) : its[j] = its[k] => j = k
    PROVE  Len(its) <= ring_size
  <1> DEFINE f == [k \in 1 .. Len(its) |-> its[k]]
  <1>1. Len(its) \in Nat
    OBVIOUS
  <1>2. f \in Injection(1 .. Len(its), Offset)
    BY DEF Injection, IsInjective
  <1>3. IsFiniteSet(Offset) /\ Cardinality(Offset) = ring_size
    <2>1. ring_size - 1 \in Int /\ 0 \in Int /\ ~(0 > ring_size - 1)
      BY RingAssumption DEF ItemHeader
    <2>2. IsFiniteSet(Offset) /\ Cardinality(Offset) = (ring_size - 1) - 0 + 1
      BY Zenon, <2>1, FS_Interval DEF Offset
    <2>3. QED
      BY <2>2, RingAssumption
  <1>4. Cardinality(1 .. Len(its)) = Len(its)
    BY Zenon, <1>1, UpTo
  <1>5. Cardinality(1 .. Len(its)) <= Cardinality(Offset)
    <2> HIDE DEF f
    <2>1. QED
      BY Zenon, <1>2, <1>3, FS_Injection
  <1>6. QED
    BY Zenon, <1>3, <1>4, <1>5

-----------------------------------------------------------------------------
(***************************************************************************)
(* The invariant: the ring is tiled by its items, every block in use is    *)
(* one of them and as alloc() wrote it, and the items that are free are    *)
(* the ones that free_count counts and the ones whose free() is under way. *)
(***************************************************************************)
RingBase ==
    /\ status \in {0, 1} /\ alloc_offset \in Offset /\ collect_offset \in Offset
    /\ free_count \in Nat /\ i \in 0 .. ring_size /\ freeing \in Nat
    /\ memory \in [Offset -> Unit]
    /\ pc \in {"idle", "collect", "take"} /\ want \in 0 .. ring_size
    /\ pc # "idle" => want >= 1
    /\ used \in SUBSET (Offset \X (1 .. ring_size)) /\ items \in Seq(Offset)

FreeAreCounted == Cardinality(FreeIn(items, memory)) = free_count + freeing

RingInv ==
    /\ RingBase
    /\ Tiles(status, alloc_offset, collect_offset, items, memory)
    /\ BlocksIn(used, items, memory)
    /\ FreeAreCounted

\* What RingInv bounds.
LEMMA RingBounds ==
    ASSUME RingInv
    PROVE  free_count \in 0 .. ring_size /\ freeing \in 0 .. ring_size
  <1>1. \A j, k \in 1 .. Len(items) : items[j] = items[k] => j = k
    BY ItemsDiffer DEF RingInv, RingBase
  <1>2. items \in Seq(Offset) /\ Len(items) \in Nat
    BY DEF RingInv, RingBase
  <1>3. Len(items) <= ring_size
    BY Zenon, <1>1, <1>2, ItemsBounded
  <1>4. Cardinality(FreeIn(items, memory)) <= Len(items)
    BY Zenon, <1>2, FreeFinite
  <1>5. free_count + freeing <= Len(items) /\ free_count \in Nat /\ freeing \in Nat
    BY Zenon, <1>4 DEF RingInv, RingBase, FreeAreCounted
  <1>6. QED
    BY <1>2, <1>3, <1>5, RingAssumption

\* RingInv is what RingIsSound says, and more.
LEMMA RingInvIsSound ==
    ASSUME RingInv
    PROVE  RingIsSound
  <1>1. RingTypeOK
    BY Zenon, RingBounds DEF RingInv, RingBase, RingTypeOK, Unit
  <1>2. BlocksIntact
    BY Zenon DEF RingInv, BlocksIn, BlocksIntact
  <1>3. ASSUME items # <<>>
        PROVE  collect_offset = Head(items) /\ memory[collect_offset].item = collect_offset
    <2>1. Len(items) # 0 /\ Head(items) = items[1] /\ 1 \in 1 .. Len(items)
      BY <1>3 DEF RingInv, RingBase
    <2>2. collect_offset = items[1]
      BY Zenon, <2>1 DEF RingInv, Tiles
    <2>3. memory[items[1]].item = items[1]
      BY Zenon, <2>1 DEF RingInv, Tiles, Lies
    <2>4. QED
      BY Zenon, <2>1, <2>2, <2>3
  <1>4. free_count = Cardinality({k \in 1 .. Len(items) : memory[items[k]].lock = 0}) - freeing
    <2>1. Cardinality(FreeIn(items, memory)) = free_count + freeing
      BY Zenon DEF RingInv, FreeAreCounted
    <2>2. free_count \in Nat /\ freeing \in Nat
      BY Zenon DEF RingInv, RingBase
    <2>3. free_count = Cardinality(FreeIn(items, memory)) - freeing
      BY <2>1, <2>2
    <2>4. QED
      BY Zenon, <2>3 DEF FreeIn
  <1>5. QED
    BY Zenon, <1>1, <1>2, <1>3, <1>4 DEF RingIsSound, CollectsItems

\* The ring starts without an item.
LEMMA RingInvInit ==
    ASSUME RingInit
    PROVE  RingInv
  <1>1. RingBase
    BY RingAssumption DEF RingInit, RingBase, Offset, Unit, item, ItemHeader
  <1>2. Tiles(status, alloc_offset, collect_offset, items, memory)
    BY DEF RingInit, Tiles
  <1>3. BlocksIn(used, items, memory)
    BY Zenon DEF RingInit, BlocksIn
  <1>4. FreeIn(items, memory) = {}
    BY DEF RingInit, FreeIn
  <1>5. Cardinality(FreeIn(items, memory)) = 0
    BY <1>4, FS_EmptySet, Zenon
  <1>6. FreeAreCounted
    BY <1>5 DEF RingInit, FreeAreCounted
  <1>7. QED
    BY Zenon, <1>1, <1>2, <1>3, <1>6 DEF RingInv

\* alloc() begins, and the process that asks.
LEMMA AskStep ==
    ASSUME RingInv,
           \/ Begin \/ AskNoMore \/ (\E length \in 1 .. ring_size : Request(length))
           \/ UNCHANGED ringVars
    PROVE  RingInv'
  <1>1. UNCHANGED <<status, alloc_offset, collect_offset, free_count, memory, freeing, used, items>>
    BY Zenon DEF Begin, AskNoMore, Request, ringVars
  <1>2. /\ i' \in 0 .. ring_size /\ pc' \in {"idle", "collect", "take"}
        /\ want' \in 0 .. ring_size /\ (pc' # "idle" => want' >= 1)
    BY RingAssumption DEF Begin, AskNoMore, Request, ringVars, RingInv, RingBase, ItemHeader
  <1>3. RingBase'
    BY Zenon, <1>1, <1>2 DEF RingInv, RingBase
  <1>4. QED
    BY Zenon, <1>1, <1>3 DEF RingInv, FreeAreCounted

\* free() counts the block that it has unlocked.
LEMMA FreeCountStep ==
    ASSUME RingInv, FreeCount
    PROVE  RingInv'
  <1>1. free_count' \in Nat /\ freeing' \in Nat /\ free_count' + freeing' = free_count + freeing
    BY DEF RingInv, RingBase, FreeCount
  <1>2. RingBase'
    BY Zenon, <1>1 DEF RingInv, RingBase, FreeCount
  <1>3. FreeAreCounted'
    BY Zenon, <1>1 DEF RingInv, FreeAreCounted, FreeCount
  <1>4. QED
    BY Zenon, <1>2, <1>3 DEF RingInv, FreeCount

\* collect() takes the first item, which is free, or ends.
LEMMA CollectStep ==
    ASSUME RingInv, collect
    PROVE  RingInv'
  <1> DEFINE e == collect_offset + memory[collect_offset].length + ItemHeader
  <1>1. UNCHANGED <<alloc_offset, memory, want, freeing, used>>
    BY Zenon DEF collect
  <1>2. CASE ~Collectable
    <2>1. /\ UNCHANGED <<status, collect_offset, free_count, items>> /\ i' = 0
          /\ pc' = "take" /\ pc = "collect"
      BY Zenon, <1>2 DEF collect
    <2>2. RingBase'
      BY <1>1, <2>1, RingAssumption DEF RingInv, RingBase
    <2>3. QED
      BY Zenon, <1>1, <2>1, <2>2 DEF RingInv, FreeAreCounted
  <1>3. CASE Collectable
    <2>1. /\ collect_offset' = (IF e + ItemHeader > ring_size THEN 0 ELSE e)
          /\ status' = (IF e + ItemHeader > ring_size THEN 0 ELSE status)
          /\ free_count' = free_count - 1 /\ i' = i + 1 /\ items' = Tail(items) /\ pc' = pc
      BY Zenon, <1>3 DEF collect, AtEnd
    <2>2. /\ memory \in [Offset -> Unit] /\ items \in Seq(Offset) /\ status \in {0, 1}
          /\ alloc_offset \in Offset /\ collect_offset \in Offset
          /\ Tiles(status, alloc_offset, collect_offset, items, memory)
          /\ free_count \in Nat /\ freeing \in Nat /\ i \in Nat
          /\ BlocksIn(used, items, memory)
      BY RingAssumption DEF RingInv, RingBase
    <2>3. i < free_count /\ memory[collect_offset].lock = 0
      BY Zenon, <1>3 DEF Collectable
    <2>4. items # <<>>
      <3>1. free_count + freeing <= Len(items)
        BY Zenon, <2>2, FreeFinite DEF RingInv, FreeAreCounted
      <3>2. Len(items) # 0
        BY <2>2, <2>3, <3>1
      <3>3. QED
        BY <3>2
    <2>5. collect_offset = items[1]
      BY <2>2, <2>4 DEF Tiles
    <2>6. e = EndOf(items, memory, 1)
      BY Zenon, <2>5 DEF EndOf
    <2> HIDE DEF e
    <2>7. Tiles(status', alloc_offset, collect_offset', Tail(items), memory) /\ collect_offset' \in Offset
      BY Zenon, <2>1, <2>2, <2>4, <2>6, ItemCollected
    <2>8. BlocksIn(used, Tail(items), memory)
      <3> SUFFICES ASSUME NEW block \in used
                   PROVE  \E k \in 1 .. Len(Tail(items)) : Tail(items)[k] = block[1]
        BY Zenon, <2>2 DEF BlocksIn
      <3>1. PICK k \in 1 .. Len(items) : items[k] = block[1]
        BY Zenon, <2>2 DEF BlocksIn
      <3>2. memory[block[1]].lock = 1
        <4>1. memory[block[1]] = item(block[1], 1, block[2])
          BY Zenon, <2>2 DEF BlocksIn
        <4>2. QED
          BY <4>1 DEF item
      <3>3. k # 1
        BY <2>3, <2>5, <3>1, <3>2
      <3>4. k - 1 \in 1 .. Len(Tail(items)) /\ Tail(items)[k - 1] = items[k]
        BY <2>2, <2>4, <3>3
      <3>5. QED
        BY Zenon, <3>1, <3>4
    <2>9. Cardinality(FreeIn(Tail(items), memory)) = Cardinality(FreeIn(items, memory)) - 1
      BY Zenon, <2>2, <2>3, <2>4, <2>5, FreeCollected
    <2>10. RingBase'
      <3>1. status' \in {0, 1}
        BY Zenon, <2>1, <2>2
      <3>2. i' \in 0 .. ring_size /\ free_count' \in Nat
        BY <2>1, <2>2, <2>3, RingBounds, RingAssumption
      <3>3. items' \in Seq(Offset)
        BY <2>1, <2>2, <2>4
      <3>4. QED
        BY <1>1, <2>1, <2>7, <3>1, <3>2, <3>3 DEF RingInv, RingBase
    <2>11. FreeAreCounted'
      BY <1>1, <2>1, <2>2, <2>9 DEF RingInv, FreeAreCounted
    <2>12. QED
      BY <1>1, <2>1, <2>7, <2>8, <2>10, <2>11 DEF RingInv
  <1>4. QED
    BY Zenon, <1>2, <1>3

\* free() unlocks a block.
LEMMA FreeLockStep ==
    ASSUME RingInv, NEW b \in Offset, FreeLock(b)
    PROVE  RingInv'
  <1>1. PICK block \in used : b = block[1] /\ used' = used \ {block}
    BY Zenon DEF FreeLock
  <1>2. /\ memory' = [memory EXCEPT ![b].lock = 0] /\ freeing' = freeing + 1
        /\ UNCHANGED <<status, alloc_offset, collect_offset, free_count, pc, want, i, items>>
    BY Zenon DEF FreeLock
  <1>3. /\ memory \in [Offset -> Unit] /\ items \in Seq(Offset) /\ status \in {0, 1}
        /\ alloc_offset \in Offset /\ collect_offset \in Offset
        /\ Tiles(status, alloc_offset, collect_offset, items, memory)
        /\ free_count \in Nat /\ freeing \in Nat /\ BlocksIn(used, items, memory)
        /\ used \in SUBSET (Offset \X (1 .. ring_size))
    BY Zenon DEF RingInv, RingBase
  <1>4. /\ \A a \in Offset : a # b => memory'[a] = memory[a]
        /\ memory'[b] = [memory[b] EXCEPT !.lock = 0]
    BY Zenon, <1>2, <1>3
  <1>5. /\ memory[b] \in Unit /\ memory'[b] \in Unit /\ memory'[b].lock = 0
        /\ memory'[b].item = memory[b].item /\ memory'[b].length = memory[b].length
    BY <1>3, <1>4 DEF Unit
  <1>6. memory' \in [Offset -> Unit]
    BY Zenon, <1>2, <1>3, <1>5
  <1>7. \A a \in Offset : memory'[a].item = memory[a].item /\ memory'[a].length = memory[a].length
    BY Zenon, <1>4, <1>5
  <1>8. Tiles(status, alloc_offset, collect_offset, items, memory')
    BY Zenon, <1>3, <1>6, <1>7, ItemUnlocked
  <1>9. BlocksIn(used', items, memory')
    <2> SUFFICES ASSUME NEW other \in used, other # block
                 PROVE  /\ \E k \in 1 .. Len(items) : items[k] = other[1]
                        /\ other[1] + other[2] < ring_size
                        /\ memory'[other[1]] = item(other[1], 1, other[2])
                        /\ \A a \in other[1] .. other[1] + other[2] : memory'[a].item = other[1]
      BY Zenon, <1>1 DEF BlocksIn
    <2>1. /\ \E k \in 1 .. Len(items) : items[k] = other[1]
          /\ other[1] + other[2] < ring_size
          /\ memory[other[1]] = item(other[1], 1, other[2])
          /\ \A a \in other[1] .. other[1] + other[2] : memory[a].item = other[1]
      BY Zenon, <1>3 DEF BlocksIn
    <2>2. other[1] # b
      <3>1. memory[b] = item(b, 1, block[2])
        BY Zenon, <1>1, <1>3 DEF BlocksIn
      <3>2. other[1] = b => other[2] = block[2]
        BY <2>1, <3>1, ItemFields
      <3>3. other = <<other[1], other[2]>> /\ block = <<b, block[2]>>
        <4>1. \A x \in Offset \X (1 .. ring_size) : x = <<x[1], x[2]>>
          OBVIOUS
        <4>2. other \in Offset \X (1 .. ring_size) /\ block \in Offset \X (1 .. ring_size)
          BY Zenon, <1>1, <1>3
        <4>3. other = <<other[1], other[2]>>
          BY Zenon, <4>1, <4>2
        <4>4. block = <<block[1], block[2]>>
          BY Zenon, <4>1, <4>2
        <4>5. QED
          BY Zenon, <1>1, <4>3, <4>4
      <3>4. QED
        BY Zenon, <3>2, <3>3
    <2>3. other[1] \in Offset /\ other[1] \in Nat /\ other[2] \in Nat
      BY <1>3, RingAssumption DEF Offset
    <2>4. \A a \in other[1] .. other[1] + other[2] : a \in Offset
      BY <2>1, <2>3, RingAssumption DEF Offset
    <2>5. QED
      BY <1>4, <1>7, <2>1, <2>2, <2>3, <2>4
  <1>10. Cardinality(FreeIn(items, memory')) = Cardinality(FreeIn(items, memory)) + 1
    <2>1. PICK k \in 1 .. Len(items) : items[k] = b
      BY Zenon, <1>1, <1>3 DEF BlocksIn
    <2>2. \A j \in 1 .. Len(items) : items[j] = items[k] => j = k
      BY <1>3, ItemsDiffer
    <2>3. memory[b].lock = 1
      BY Zenon DEF FreeLock
    <2>4. QED
      <3>1. /\ memory[items[k]].lock = 1 /\ memory'[items[k]].lock = 0
            /\ \A a \in Offset : a # items[k] => memory'[a] = memory[a]
        BY Zenon, <1>4, <1>5, <2>1, <2>3
      <3>2. QED
        BY ZenonT(30), <1>3, <1>6, <2>2, <3>1, FreeUnlocked
  <1>11. RingBase'
    BY <1>1, <1>2, <1>3, <1>6 DEF RingInv, RingBase
  <1>12. FreeAreCounted'
    BY <1>2, <1>3, <1>10 DEF RingInv, FreeAreCounted
  <1>13. QED
    BY Zenon, <1>2, <1>8, <1>9, <1>11, <1>12 DEF RingInv

\* What alloc() writes for a block: its header, and the data are the caller's.
Writes(units, units2, start, length) ==
    units2 = [a \in Offset |-> IF a = start THEN item(start, 1, length)
                             ELSE IF a \in start + 1 .. start + length THEN item(start, 0, 0)
                             ELSE units[a]]

Fits(st, start, co, length) ==
    \/ st = 0 /\ start + length + ItemHeader < ring_size
    \/ st = 1 /\ start + length + ItemHeader <= co

Takes(st, start, co, its, units, blocks, length, units2) ==
    /\ its \in Seq(Offset) /\ units \in [Offset -> Unit] /\ st \in {0, 1}
    /\ start \in Offset /\ co \in Offset /\ Tiles(st, start, co, its, units)
    /\ blocks \in SUBSET (Offset \X (1 .. ring_size)) /\ BlocksIn(blocks, its, units)
    /\ length \in 1 .. ring_size
    /\ Fits(st, start, co, length) /\ Writes(units, units2, start, length)

Taken(st, start, co, its, units, blocks, length, units2) ==
    /\ units2 \in [Offset -> Unit] /\ start + length + ItemHeader \in Offset
    /\ Tiles(st, start + length + ItemHeader, co, Append(its, start), units2)
    /\ BlocksIn(blocks \cup {<<start, length>>}, Append(its, start), units2)
    /\ FreeIn(Append(its, start), units2) = FreeIn(its, units)

\* The part of alloc() that takes a block: it fits between the place of the next
\* block and the end of the ring, or the collector.
LEMMA BlockTaken ==
    ASSUME NEW st, NEW start, NEW co, NEW its, NEW units, NEW blocks, NEW length, NEW units2,
           Takes(st, start, co, its, units, blocks, length, units2)
    PROVE  Taken(st, start, co, its, units, blocks, length, units2)
  <1> SUFFICES ASSUME its \in Seq(Offset), units \in [Offset -> Unit], st \in {0, 1},
                      start \in Offset, co \in Offset, Tiles(st, start, co, its, units),
                      blocks \in SUBSET (Offset \X (1 .. ring_size)), BlocksIn(blocks, its, units),
                      length \in 1 .. ring_size,
                      Fits(st, start, co, length), Writes(units, units2, start, length)
               PROVE  /\ units2 \in [Offset -> Unit] /\ start + length + ItemHeader \in Offset
                      /\ Tiles(st, start + length + ItemHeader, co, Append(its, start), units2)
                      /\ BlocksIn(blocks \cup {<<start, length>>}, Append(its, start), units2)
                      /\ FreeIn(Append(its, start), units2) = FreeIn(its, units)
    BY Zenon DEF Takes, Taken
  <1> DEFINE e == start + length + ItemHeader
  <1>1. /\ start \in Nat /\ co \in Nat /\ co < ring_size /\ ring_size \in Nat /\ length \in Nat
        /\ length \in 1 .. ring_size /\ length \in 0 .. ring_size /\ ItemHeader = 1 /\ 0 \in 0 .. ring_size
    BY RingAssumption DEF Offset, ItemHeader
  <1>2. /\ e \in Nat /\ e < ring_size /\ e \in Offset /\ e - 1 = start + length
        /\ Advances(st, co, e, st, e)
    BY <1>1 DEF Offset, Advances, Fits
  <1>end. e = start + length + ItemHeader
    BY Zenon
  <1> HIDE DEF e
  <1>3. item(start, 1, length) \in Unit /\ item(start, 0, 0) \in Unit
    BY Zenon, <1>1 DEF item, Unit
  <1>4. units2 \in [Offset -> Unit]
    BY Zenon, <1>3 DEF Writes
  <1>5. units2[start] = item(start, 1, length)
    BY Zenon DEF Writes
  <1>6. units2[start].item = start /\ units2[start].length = length /\ units2[start].lock = 1
    <2>1. /\ item(start, 1, length).item = start /\ item(start, 1, length).length = length
          /\ item(start, 1, length).lock = 1
      BY ItemFields
    <2>2. QED
      BY Zenon, <1>5, <2>1
  <1>7. Makes(units, units2, start, length)
    <2> SUFFICES ASSUME NEW a \in Offset, ~(a \in start .. start + length) PROVE units2[a] = units[a]
      BY Zenon, <1>6 DEF Makes
    <2>1. a \in Nat /\ a # start /\ ~(a \in start + 1 .. start + length)
      BY <1>1, RingAssumption DEF Offset
    <2>2. QED
      BY Zenon, <2>1 DEF Writes
  <1>8. \A a \in start .. start + length : units2[a].item = start
    <2> SUFFICES ASSUME NEW a \in start .. start + length PROVE units2[a].item = start
      BY Zenon
    <2>1. a \in Offset /\ (a = start \/ a \in start + 1 .. start + length)
      BY <1>1, <1>2 DEF Offset
    <2>2. units2[a] = item(start, 1, length) \/ units2[a] = item(start, 0, 0)
      BY Zenon, <2>1 DEF Writes
    <2>3. item(start, 1, length).item = start /\ item(start, 0, 0).item = start
      BY ItemFields
    <2>4. QED
      BY Zenon, <2>2, <2>3
  <1>9. /\ Tiles(st, e, co, Append(its, start), units2)
        /\ \A k \in 1 .. Len(its) : EndOf(its, units, k) <= start \/ e <= its[k]
        /\ \A k \in 1 .. Len(its) : units2[its[k]] = units[its[k]]
    <2>1. length \in 0 .. ring_size /\ Advances(st, co, e, st, e)
      BY Zenon, <1>1, <1>2
    <2>2. QED
      BY SMTT(30), <1>4, <1>7, <1>end, <2>1, ItemAppended
  <1>10. BlocksIn(blocks, Append(its, start), units2)
    BY Zenon, <1>1, <1>4, <1>7, <1>9, <1>end, BlocksSpared
  <1>11. BlocksIn(blocks \cup {<<start, length>>}, Append(its, start), units2)
    <2>1. start + length < ring_size
      BY <1>1, <1>2
    <2>2. QED
      BY <1>1, <1>4, <1>5, <1>8, <1>10, <2>1, BlockAdded
  <1>12. FreeIn(Append(its, start), units2) = FreeIn(its, units)
    BY ZenonT(30), <1>4, <1>6, <1>9, FreeAppended
  <1>13. QED
    BY Zenon, <1>2, <1>4, <1>9, <1>11, <1>12 DEF e

WithRest == [memory EXCEPT ![alloc_offset] = skip]

\* The part of alloc() that skips what is left of the ring.
LEMMA RestSkipped ==
    ASSUME RingInv, Skips, NEW units2, units2 = WithRest
    PROVE  /\ units2 \in [Offset -> Unit] /\ Append(items, alloc_offset) \in Seq(Offset)
           /\ Tiles(1, 0, collect_offset, Append(items, alloc_offset), units2)
           /\ BlocksIn(used, Append(items, alloc_offset), units2)
           /\ Cardinality(FreeIn(Append(items, alloc_offset), units2))
                = Cardinality(FreeIn(items, memory)) + 1
  <1> DEFINE length == ring_size - alloc_offset - ItemHeader
  <1>1. /\ memory \in [Offset -> Unit] /\ items \in Seq(Offset) /\ status = 0
        /\ alloc_offset \in Offset /\ collect_offset \in Offset
        /\ Tiles(0, alloc_offset, collect_offset, items, memory)
        /\ used \in SUBSET (Offset \X (1 .. ring_size)) /\ BlocksIn(used, items, memory)
    BY Zenon DEF RingInv, RingBase, Skips
  <1>2. /\ alloc_offset \in Nat /\ ring_size \in Nat /\ length \in 0 .. ring_size
        /\ ring_size = alloc_offset + length + ItemHeader /\ length \in Nat
        /\ Advances(0, collect_offset, ring_size, 1, 0)
    BY <1>1, RingAssumption DEF Offset, ItemHeader, Advances
  <1>3. skip = item(alloc_offset, 0, length)
    BY Zenon DEF skip
  <1> HIDE DEF length
  <1>4. skip \in Unit
    BY Zenon, <1>1, <1>2, <1>3 DEF item, Unit
  <1>5. units2 \in [Offset -> Unit] /\ units2[alloc_offset] = skip
    BY Zenon, <1>1, <1>4 DEF WithRest
  <1>6. /\ units2[alloc_offset].item = alloc_offset /\ units2[alloc_offset].length = length
        /\ units2[alloc_offset].lock = 0
    BY <1>3, <1>5, ItemFields
  <1>7. Makes(memory, units2, alloc_offset, length)
    <2>1. \A a \in Offset : a # alloc_offset => units2[a] = memory[a]
      BY Zenon, <1>1 DEF WithRest
    <2>2. alloc_offset \in alloc_offset .. alloc_offset + length
      BY <1>2
    <2>3. QED
      BY Zenon, <1>6, <2>1, <2>2 DEF Makes
  <1>8. /\ Tiles(1, 0, collect_offset, Append(items, alloc_offset), units2)
        /\ \A k \in 1 .. Len(items) : EndOf(items, memory, k) <= alloc_offset \/ ring_size <= items[k]
        /\ \A k \in 1 .. Len(items) : units2[items[k]] = memory[items[k]]
    BY ZenonT(30), <1>1, <1>2, <1>5, <1>7, ItemAppended
  <1>9. BlocksIn(used, Append(items, alloc_offset), units2)
    BY ZenonT(30), <1>1, <1>2, <1>5, <1>7, <1>8, BlocksSpared
  <1>10. Cardinality(FreeIn(Append(items, alloc_offset), units2))
           = Cardinality(FreeIn(items, memory)) + 1
    BY <1>1, <1>5, <1>6, <1>8, FreeAppended
  <1>11. Append(items, alloc_offset) \in Seq(Offset)
    BY <1>1
  <1>12. QED
    BY Zenon, <1>5, <1>8, <1>9, <1>10, <1>11

\* alloc() ends: what it leaves alone, and what it has to show.
LEMMA TakeEnds ==
    ASSUME RingBase, pc' = "idle", UNCHANGED <<collect_offset, i, freeing>>,
           status' \in {0, 1}, alloc_offset' \in Offset, free_count' \in Nat,
           memory' \in [Offset -> Unit], want' \in 0 .. ring_size,
           used' \in SUBSET (Offset \X (1 .. ring_size)), items' \in Seq(Offset)
    PROVE  RingBase'
  BY Zenon DEF RingBase

\* alloc() takes a block, after the rest of the ring if it does not fit there, or
\* finds no room.
LEMMA TakeStep ==
    ASSUME RingInv, Take
    PROVE  RingInv'
  <1>1. /\ memory \in [Offset -> Unit] /\ items \in Seq(Offset) /\ status \in {0, 1}
        /\ alloc_offset \in Offset /\ collect_offset \in Offset
        /\ Tiles(status, alloc_offset, collect_offset, items, memory)
        /\ free_count \in Nat /\ freeing \in Nat /\ BlocksIn(used, items, memory)
        /\ used \in SUBSET (Offset \X (1 .. ring_size))
    BY Zenon DEF RingInv, RingBase
  <1>2. want \in 1 .. ring_size
    BY DEF RingInv, RingBase, Take, ItemHeader
  <1>3. pc' = "idle" /\ UNCHANGED <<collect_offset, i, freeing>>
    BY Zenon DEF Take
  <1>4. /\ alloc_offset \in Nat /\ collect_offset \in Nat /\ ring_size \in Nat /\ want \in Nat
        /\ collect_offset < ring_size /\ 0 \in Offset /\ ItemHeader = 1 /\ ring_size < Width
        /\ want \in 1 .. ring_size /\ 0 \in 0 .. ring_size
    BY <1>1, <1>2, RingAssumption DEF Offset, ItemHeader
  <1>5. Cardinality(FreeIn(items, memory)) = free_count + freeing
    BY Zenon DEF RingInv, FreeAreCounted
  <1>6. CASE ~Skips /\ capacity < want + ItemHeader
    <2>1. UNCHANGED <<status, alloc_offset, memory, items, want, used>> /\ free_count' = free_count
      BY <1>1, <1>6 DEF Take, Skipped
    <2>2. RingBase'
      BY Zenon, <1>3, <2>1 DEF RingInv, RingBase
    <2>3. QED
      BY Zenon, <1>3, <2>1, <2>2 DEF RingInv, FreeAreCounted
  <1>7. CASE ~Skips /\ ~(capacity < want + ItemHeader)
    <2>1. /\ status' = status /\ free_count' = free_count /\ want' = 0
          /\ alloc_offset' = alloc_offset + want + ItemHeader
          /\ Writes(memory, memory', alloc_offset, want)
          /\ items' = Append(items, alloc_offset) /\ used' = used \cup {<<alloc_offset, want>>}
      BY <1>1, <1>7 DEF Take, Skipped, Writes
    <2>2. Fits(status, alloc_offset, collect_offset, want)
      <3>1. CASE status = 0
        BY <1>4, <1>7, <3>1 DEF Skips, Fits
      <3>2. CASE status = 1
        <4>1. capacity = (collect_offset - alloc_offset) % Width
          BY <1>7, <3>2 DEF capacity
        <4>2. alloc_offset <= collect_offset
          BY <1>1, <3>2 DEF Tiles
        <4>3. (collect_offset - alloc_offset) % Width = collect_offset - alloc_offset
          BY <1>4, <4>2 DEF Width
        <4>4. QED
          BY <1>4, <1>7, <3>2, <4>1, <4>2, <4>3 DEF Fits
      <3>3. QED
        BY Zenon, <1>1, <3>1, <3>2
    <2>3. /\ memory' \in [Offset -> Unit] /\ alloc_offset' \in Offset
          /\ Tiles(status, alloc_offset', collect_offset, items', memory')
          /\ BlocksIn(used', items', memory') /\ FreeIn(items', memory') = FreeIn(items, memory)
      <3>1. Takes(status, alloc_offset, collect_offset, items, memory, used, want, memory')
        BY <1>1, <1>2, <2>1, <2>2 DEF Takes
      <3>2. Taken(status, alloc_offset, collect_offset, items, memory, used, want, memory')
        BY <3>1, BlockTaken
      <3>3. QED
        BY <2>1, <3>2 DEF Taken
    <2>4. items' \in Seq(Offset) /\ used' \in SUBSET (Offset \X (1 .. ring_size))
      BY <1>1, <1>4, <2>1
    <2>5. RingBase'
      <3>1. status' \in {0, 1} /\ free_count' \in Nat /\ want' \in 0 .. ring_size
        BY <1>1, <1>4, <2>1
      <3>2. QED
        BY <1>3, <2>3, <2>4, <3>1, TakeEnds DEF RingInv
    <2>6. FreeAreCounted'
      BY <1>3, <1>5, <2>1, <2>3 DEF FreeAreCounted
    <2>7. QED
      BY <1>3, <2>1, <2>3, <2>5, <2>6 DEF RingInv
  <1>8. CASE Skips
    <2> DEFINE units1 == WithRest
               its1 == Append(items, alloc_offset)
    <2>1. /\ units1 \in [Offset -> Unit] /\ its1 \in Seq(Offset)
          /\ Tiles(1, 0, collect_offset, its1, units1) /\ BlocksIn(used, its1, units1)
          /\ Cardinality(FreeIn(its1, units1)) = Cardinality(FreeIn(items, memory)) + 1
      BY <1>8, RestSkipped
    <2>2. status' = 1 /\ free_count' = free_count + 1
      BY <1>8 DEF Take, Skipped
    <2>3. CASE capacity < want + ItemHeader
      <3>1. /\ UNCHANGED <<want, used>> /\ alloc_offset' = 0 /\ memory' = units1 /\ items' = its1
        BY <1>8, <2>3 DEF Take, WithRest
      <3> HIDE DEF units1, its1
      <3>2. RingBase'
        <4>1. status' \in {0, 1} /\ free_count' \in Nat
          BY <1>1, <2>2
        <4>2. want' \in 0 .. ring_size
          BY <3>1 DEF RingInv, RingBase
        <4>3. /\ alloc_offset' \in Offset /\ memory' \in [Offset -> Unit] /\ items' \in Seq(Offset)
              /\ used' \in SUBSET (Offset \X (1 .. ring_size))
          BY <1>1, <1>4, <2>1, <3>1
        <4>4. QED
          BY <1>3, <4>1, <4>2, <4>3, TakeEnds DEF RingInv
      <3>3. FreeAreCounted'
        <4>1. Cardinality(FreeIn(items', memory')) = (free_count + freeing) + 1
          BY <1>5, <2>1, <3>1
        <4>2. (free_count + freeing) + 1 = free_count' + freeing'
          BY <1>1, <1>3, <2>2
        <4>3. QED
          BY <4>1, <4>2 DEF FreeAreCounted
      <3>4. QED
        BY <1>3, <2>1, <2>2, <3>1, <3>2, <3>3 DEF RingInv
    <2>4. CASE ~(capacity < want + ItemHeader)
      <3>1. /\ want' = 0 /\ alloc_offset' = 0 + want + ItemHeader
            /\ Writes(units1, memory', 0, want)
            /\ items' = Append(its1, 0) /\ used' = used \cup {<<0, want>>}
        BY <1>8, <2>4 DEF Take, WithRest, Writes
      <3>2. Fits(1, 0, collect_offset, want)
        BY <1>4, <1>8, <2>4 DEF capacity, Fits
      <3> HIDE DEF units1, its1
      <3>3. /\ memory' \in [Offset -> Unit] /\ 0 + want + ItemHeader \in Offset
            /\ Tiles(1, 0 + want + ItemHeader, collect_offset, items', memory')
            /\ BlocksIn(used', items', memory') /\ FreeIn(items', memory') = FreeIn(its1, units1)
        <4>1. Takes(1, 0, collect_offset, its1, units1, used, want, memory')
          BY <1>1, <1>2, <1>4, <2>1, <3>1, <3>2 DEF Takes
        <4>2. Taken(1, 0, collect_offset, its1, units1, used, want, memory')
          BY <4>1, BlockTaken
        <4>3. QED
          BY <3>1, <4>2 DEF Taken
      <3>4. items' \in Seq(Offset) /\ used' \in SUBSET (Offset \X (1 .. ring_size))
        BY <1>1, <1>4, <2>1, <3>1
      <3>5. RingBase'
        <4>1. status' \in {0, 1} /\ free_count' \in Nat
          BY <1>1, <2>2
        <4>2. want' \in 0 .. ring_size /\ alloc_offset' \in Offset
          BY SMTT(30), <1>4, <3>1, <3>3
        <4>3. QED
          BY <1>3, <3>3, <3>4, <4>1, <4>2, TakeEnds DEF RingInv
      <3>6. FreeAreCounted'
        <4>1. Cardinality(FreeIn(items', memory')) = (free_count + freeing) + 1
          BY <1>5, <2>1, <3>3
        <4>2. (free_count + freeing) + 1 = free_count' + freeing'
          BY <1>1, <1>3, <2>2
        <4>3. QED
          BY <4>1, <4>2 DEF FreeAreCounted
      <3>7. QED
        BY SMTT(30), <1>3, <2>2, <3>1, <3>3, <3>5, <3>6 DEF RingInv
    <2>5. QED
      BY <2>3, <2>4
  <1>9. QED
    BY <1>6, <1>7, <1>8

\* Every step keeps RingInv.
LEMMA RingStep ==
    ASSUME RingInv, [RingNext]_ringVars
    PROVE  RingInv'
  <1>1. CASE Begin \/ AskNoMore
    BY <1>1, AskStep
  <1>2. CASE \E length \in 1 .. ring_size : Request(length)
    BY <1>2, AskStep
  <1>3. CASE UNCHANGED ringVars
    BY <1>3, AskStep
  <1>4. CASE collect
    BY <1>4, CollectStep
  <1>5. CASE Take
    BY <1>5, TakeStep
  <1>6. CASE FreeCount
    BY <1>6, FreeCountStep
  <1>7. CASE \E b \in Offset : FreeLock(b)
    BY <1>7, FreeLockStep
  <1>8. QED
    BY <1>1, <1>2, <1>3, <1>4, <1>5, <1>6, <1>7 DEF RingNext, Allocate

\* For a ring of any size, blocks of any length and whatever the order in which
\* the processes free and count them: nobody's block is overwritten, collect()
\* only ever reads headers, in their order, and free_count is exact
\* (memory/ring_buffer.cc).
THEOREM RingStaysSound == RingSpec => []RingIsSound
  <1>1. RingInit => RingInv
    BY RingInvInit
  <1>2. RingInv /\ [RingNext]_ringVars => RingInv'
    BY RingStep
  <1>3. RingInv => RingIsSound
    BY RingInvIsSound
  <1>4. QED
    BY <1>1, <1>2, <1>3, PTL DEF RingSpec
=============================================================================
