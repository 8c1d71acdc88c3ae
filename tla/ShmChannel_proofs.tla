------------------------- MODULE ShmChannel_proofs -------------------------
(***************************************************************************)
(* The channel in shared memory implements a bounded queue of slices, for  *)
(* any size and any slices, wherever it wraps around.  The argument sees   *)
(* it as a stream: off[k] is where the k-th slice begins if nothing ever   *)
(* wraps around, and the slices v and w are the ones at which the head and *)
(* the tail last began at address 0.                                       *)
(***************************************************************************)
EXTENDS ShmChannel, TLAPS

Place(off, v, w, k) == IF k < w THEN off[k] - off[v] ELSE off[k] - off[w]

Stream(off) ==
    /\ Len(off) = Len(pushed) + 1
    /\ \A k \in 1 .. Len(pushed) : off[k + 1] = off[k] + Header + pushed[k].length
    /\ \A j, k \in 1 .. Len(off) : j <= k => off[k] - off[j] >= Header * (k - j)

\* Where head and tail are; they are on the same round, or the tail is one ahead.
Ends(off, v, w) ==
    /\ v \in 1 .. Len(popped) + 1 /\ w \in v .. Len(pushed) + 1
    /\ head = off[Len(popped) + 1] - off[v] /\ tail = off[Len(pushed) + 1] - off[w]
    /\ bytes = off[Len(pushed) + 1] - off[Len(popped) + 1] - Header * num
    /\ tail_tag = head_tag => v = w
    /\ tail_tag # head_tag =>
          /\ Len(popped) + 1 < w /\ off[w] - off[v] >= size /\ tail <= head
          /\ \A k \in Len(popped) + 1 .. w - 1 : off[k] - off[v] < size

\* The slices that are inside are whole.
Contents(off, v, w) ==
    \A k \in Len(popped) + 1 .. Len(pushed) :
        \A b \in 0 .. Header + pushed[k].length - 1 :
            mem[Place(off, v, w, k) + b] = <<pushed[k], b>>

ShmBase ==
    /\ head \in 0 .. size - 1 /\ tail \in 0 .. size - 1
    /\ head_tag \in {0, 1} /\ tail_tag \in {0, 1}
    /\ mem \in [Address -> (Slice \cup {Unwritten}) \X (0 .. Header + maxlen - 1)]
    /\ pushed \in Seq(Slice) /\ popped \in Seq(Slice)
    /\ Len(popped) <= Len(pushed) /\ Len(pushed) <= MaxPush
    /\ num = Len(pushed) - Len(popped)

Layout(off, v, w) == Stream(off) /\ Ends(off, v, w) /\ Contents(off, v, w)

ShmInv == ShmBase /\ \E off \in Seq(Nat), v, w \in Nat : Layout(off, v, w)

-----------------------------------------------------------------------------
\* The headers of so many slices.
LEMMA HeadersAreRoom ==
    ASSUME NEW n \in Nat
    PROVE  Header * n \in Nat
  BY DEF Header

\* What the layout says of the lengths, and of the slices inside.
LEMMA StreamFacts ==
    ASSUME ShmBase, NEW off \in Seq(Nat), NEW v \in Nat, NEW w \in Nat, Stream(off), Ends(off, v, w)
    PROVE  /\ Len(pushed) \in Nat /\ Len(popped) \in Nat
           /\ \A k \in 1 .. Len(pushed) + 1 : off[k] \in Nat
           /\ \A k \in 1 .. Len(pushed) : pushed[k] \in Slice /\ pushed[k].length \in 0 .. maxlen
           /\ \A j, k \in 1 .. Len(pushed) + 1 : j <= k => off[j] <= off[k]
           /\ size \in Nat /\ maxlen \in Nat /\ head \in Nat /\ tail \in Nat /\ num \in Nat
           /\ v \in 1 .. Len(pushed) + 1 /\ w \in 1 .. Len(pushed) + 1
  <1>1. Len(pushed) \in Nat /\ Len(popped) \in Nat /\ Len(off) \in Nat
    BY DEF ShmBase
  <1>2. \A k \in 1 .. Len(pushed) + 1 : off[k] \in Nat
    BY DEF Stream
  <1>3. \A k \in 1 .. Len(pushed) : pushed[k] \in Slice
    BY DEF ShmBase
  <1>4. \A k \in 1 .. Len(pushed) : pushed[k].length \in 0 .. maxlen
    BY <1>3 DEF Slice
  <1>5. \A j, k \in 1 .. Len(pushed) + 1 : j <= k => off[j] <= off[k]
    <2> SUFFICES ASSUME NEW j \in 1 .. Len(pushed) + 1, NEW k \in 1 .. Len(pushed) + 1, j <= k
                 PROVE  off[j] <= off[k]
      OBVIOUS
    <2>1. off[k] - off[j] >= Header * (k - j)
      BY DEF Stream
    <2>2. off[j] \in Nat /\ off[k] \in Nat /\ j \in Nat /\ k \in Nat
      BY <1>1, <1>2
    <2>3. k - j \in Nat
      BY <2>2
    <2>4. Header * (k - j) \in Nat
      BY <2>3, HeadersAreRoom
    <2>5. QED
      BY <2>1, <2>2, <2>4
  <1>6. size \in Nat /\ maxlen \in Nat
    BY ChannelAssumption
  <1>7. head \in Nat /\ tail \in Nat /\ num \in Nat
    BY <1>1, <1>6 DEF ShmBase
  <1>8. v \in 1 .. Len(pushed) + 1 /\ w \in 1 .. Len(pushed) + 1
    BY <1>1 DEF Ends, ShmBase
  <1>9. QED
    BY <1>1, <1>2, <1>3, <1>4, <1>5, <1>6, <1>7, <1>8

\* head and tail, when they are on the same round.
LEMMA HeadNotBehind ==
    ASSUME ShmBase, NEW off \in Seq(Nat), NEW v \in Nat, NEW w \in Nat, Layout(off, v, w)
    PROVE  /\ tail_tag = head_tag => head <= tail
           /\ num = 0 => tail_tag = head_tag /\ head = tail /\ bytes = 0
           /\ bytes \in Nat
  <1> DEFINE n == Len(pushed)
             m == Len(popped)
             a == off[m + 1]
             z == off[n + 1]
             ov == off[v]
             ow == off[w]
  <1>1. Stream(off) /\ Ends(off, v, w)
    BY DEF Layout
  <1>2. /\ n \in Nat /\ m \in Nat /\ m <= n /\ num = n - m
        /\ m + 1 \in 1 .. n + 1 /\ n + 1 \in 1 .. n + 1
        /\ v \in 1 .. n + 1 /\ w \in 1 .. n + 1
    BY <1>1, StreamFacts DEF ShmBase
  <1>3. \A k \in 1 .. n + 1 : off[k] \in Nat
    BY <1>1, StreamFacts
  <1>4. a \in Nat /\ z \in Nat /\ ov \in Nat /\ ow \in Nat
    BY <1>2, <1>3
  <1>5. z - a >= Header * (n - m)
    <2>1. n + 1 = Len(off) /\ m + 1 <= n + 1 /\ (n + 1) - (m + 1) = n - m
      BY <1>1, <1>2 DEF Stream
    <2>2. \A j, k \in 1 .. n + 1 : j <= k => off[k] - off[j] >= Header * (k - j)
      BY <1>1, <2>1 DEF Stream
    <2>3. off[n + 1] - off[m + 1] >= Header * ((n + 1) - (m + 1))
      BY <1>2, <2>1, <2>2
    <2>4. QED
      BY <2>1, <2>3
  <1>6. /\ head = a - ov /\ tail = z - ow /\ bytes = z - a - Header * num
        /\ (tail_tag = head_tag => ov = ow) /\ (tail_tag # head_tag => m + 1 < w)
    BY <1>1 DEF Ends
  <1>7. n = m => a = z
    OBVIOUS
  <1> HIDE DEF n, m, a, z, ov, ow
  <1>8. bytes \in Nat
    BY <1>2, <1>4, <1>5, <1>6 DEF Header
  <1>9. tail_tag = head_tag => head <= tail
    <2>1. a <= z
      BY <1>2, <1>4, <1>5 DEF Header
    <2>2. QED
      BY <1>4, <1>6, <2>1
  <1>10. ASSUME num = 0 PROVE tail_tag = head_tag /\ head = tail /\ bytes = 0
    <2>1. n = m /\ a = z
      BY <1>2, <1>7, <1>10
    <2>2. tail_tag = head_tag
      BY <1>2, <1>6, <2>1
    <2>3. QED
      BY <1>4, <1>6, <1>10, <2>1, <2>2 DEF Header
  <1>11. QED
    BY <1>8, <1>9, <1>10

\* The room for slices: each has its header.
Room == (size + Header - 1) \div Header

NumFits == num <= Room

\* There are never more slices inside than headers fit.
LEMMA NumBounded ==
    ASSUME ShmInv
    PROVE  NumFits
  <1> SUFFICES num <= Room
    BY DEF NumFits
  <1>1. PICK off \in Seq(Nat), v \in Nat, w \in Nat : Layout(off, v, w)
    BY DEF ShmInv
  <1> DEFINE n == Len(pushed)
             m == Len(popped)
             a == off[m + 1]
             z == off[n + 1]
             ov == off[v]
             ow == off[w]
  <1>2. ShmBase /\ Stream(off) /\ Ends(off, v, w)
    BY <1>1 DEF Layout, ShmInv
  <1>3. /\ n \in Nat /\ m \in Nat /\ m <= n /\ num = n - m /\ num \in Nat
        /\ m + 1 \in 1 .. n + 1 /\ n + 1 \in 1 .. n + 1 /\ size \in Nat /\ size > 0
        /\ v \in 1 .. n + 1 /\ w \in 1 .. n + 1 /\ head \in Nat /\ tail \in Nat /\ tail < size
    BY <1>2, StreamFacts, ChannelAssumption DEF ShmBase
  <1>4. \A k \in 1 .. n + 1 : off[k] \in Nat
    BY <1>2, StreamFacts
  <1>5. a \in Nat /\ z \in Nat /\ ov \in Nat /\ ow \in Nat
    BY <1>3, <1>4
  <1>6. \A j, k \in 1 .. n + 1 : j <= k => off[k] - off[j] >= Header * (k - j)
    BY <1>2, <1>3 DEF Stream
  <1>7. head = a - ov /\ tail = z - ow /\ (tail_tag = head_tag => ov = ow)
    BY <1>2 DEF Ends
  <1>8. ASSUME num # 0 PROVE Header * (num - 1) <= size - 1
    <2>1. CASE tail_tag = head_tag
      <3>1. n \in 1 .. n + 1 /\ m + 1 <= n /\ n <= n + 1
        BY <1>3, <1>8
      <3>2. off[n] \in Nat /\ off[n] - a >= Header * (n - (m + 1)) /\ z - off[n] >= Header * ((n + 1) - n)
        <4>1. off[n] \in Nat
          BY <1>4, <3>1
        <4>2. off[n] - off[m + 1] >= Header * (n - (m + 1))
          BY <1>3, <1>6, <3>1
        <4>3. off[n + 1] - off[n] >= Header * ((n + 1) - n)
          BY <1>3, <1>6, <3>1
        <4>4. QED
          BY <4>1, <4>2, <4>3
      <3> DEFINE on == off[n]
      <3>3. on \in Nat /\ on - a >= Header * (n - (m + 1)) /\ z - on >= Header * ((n + 1) - n)
        BY <3>2
      <3> HIDE DEF n, m, a, z, ov, ow, on
      <3>4. QED
        BY <1>3, <1>5, <1>7, <2>1, <3>3 DEF Header
    <2>2. CASE tail_tag # head_tag
      <3>1. /\ m + 1 < w /\ tail <= head
            /\ \A k \in m + 1 .. w - 1 : off[k] - off[v] < size
        BY <1>2, <2>2 DEF Ends
      <3>2. w - 1 \in m + 1 .. w - 1 /\ w - 1 \in 1 .. n + 1 /\ m + 1 <= w - 1 /\ w <= n + 1
        BY <1>3, <3>1
      <3>3. /\ off[w - 1] \in Nat /\ off[w - 1] - ov < size
            /\ off[w - 1] - a >= Header * ((w - 1) - (m + 1)) /\ z - ow >= Header * ((n + 1) - w)
        BY <1>3, <1>4, <1>6, <3>1, <3>2
      <3> DEFINE op == off[w - 1]
      <3>4. /\ op \in Nat /\ op - ov < size
            /\ op - a >= Header * ((w - 1) - (m + 1)) /\ z - ow >= Header * ((n + 1) - w)
        BY <3>3
      <3> HIDE DEF n, m, a, z, ov, ow, op
      <3>5. QED
        BY <1>3, <1>5, <1>7, <3>1, <3>4 DEF Header
    <2>3. QED
      BY <2>1, <2>2
  <1> HIDE DEF n, m, a, z, ov, ow
  <1>9. CASE num = 0
    BY <1>3, <1>9 DEF Room, Header
  <1>10. CASE num # 0
    <2>1. 4 * (num - 1) <= size - 1
      BY <1>8, <1>10 DEF Header
    <2>2. num <= (size + 3) \div 4
      BY <1>3, <2>1
    <2>3. size + Header - 1 = size + 3 /\ Header = 4
      BY <1>3 DEF Header
    <2>4. QED
      BY <2>2, <2>3 DEF Room
  <1>11. QED
    BY <1>9, <1>10

\* ShmInv is what AcceptsWhatFits says, and more.
LEMMA ShmInvIsSound ==
    ASSUME ShmInv
    PROVE  AcceptsWhatFits
  <1>1. PICK off \in Seq(Nat), v \in Nat, w \in Nat : Layout(off, v, w)
    BY DEF ShmInv
  <1>2. ShmBase
    BY DEF ShmInv
  <1>3. /\ bytes \in Nat /\ (num = 0 => tail_tag = head_tag /\ head = tail /\ bytes = 0)
    BY <1>1, <1>2, HeadNotBehind
  <1>4. size \in Nat \ {0} /\ maxlen \in Nat /\ MaxPush \in Nat
    BY ChannelAssumption
  <1>5. /\ head \in Nat /\ head < size /\ tail \in Nat /\ tail < size
    BY <1>2, <1>4 DEF ShmBase
  <1>6. ShmTypeOK
    <2>1. head \in Address /\ tail \in Address
      BY <1>4, <1>5 DEF Address, Top, Header
    <2>2. num \in 0 .. MaxPush
      BY <1>2, <1>4 DEF ShmBase
    <2>3. popped \in Seq(Slice \cup {Unwritten})
      BY <1>2 DEF ShmBase
    <2>4. QED
      BY <1>2, <1>3, <2>1, <2>2, <2>3 DEF ShmBase, ShmTypeOK
  <1>7. ASSUME NEW length \in 0 .. maxlen
        PROVE  tail + Header + length <= Top
    BY <1>4, <1>5 DEF Top, Header
  <1>8. ASSUME NEW length \in 0 .. maxlen, empty
        PROVE  Accepts(length)
    <2>1. num = 0 /\ head = tail /\ tail_tag = head_tag /\ bytes = 0
      BY <1>3, <1>8 DEF empty
    <2>2. bytes + Header * num # size
      BY <1>4, <2>1 DEF Header
    <2>3. ~full
      BY <2>1, <2>2 DEF full
    <2>4. ~(tail < head) /\ length <= maxlen
      BY <1>4, <1>5, <2>1
    <2>5. QED
      BY <2>3, <2>4 DEF Accepts
  <1>9. QED
    BY <1>6, <1>7, <1>8 DEF AcceptsWhatFits

\* The channel starts empty.
LEMMA ShmInvInit ==
    ASSUME ShmInit
    PROVE  ShmInv
  <1>1. ShmBase
    <2>1. Unwritten \in Slice \cup {Unwritten} /\ 0 \in 0 .. Header + maxlen - 1 /\ 0 \in 0 .. size - 1
      BY ChannelAssumption DEF Header
    <2>2. mem \in [Address -> (Slice \cup {Unwritten}) \X (0 .. Header + maxlen - 1)]
      BY <2>1 DEF ShmInit
    <2>3. QED
      BY <2>1, <2>2, ChannelAssumption DEF ShmInit, ShmBase
  <1> DEFINE off == <<0>>
  <1>2. off \in Seq(Nat) /\ Len(off) = 1 /\ off[1] = 0
    OBVIOUS
  <1>3. pushed = <<>> /\ popped = <<>> /\ Len(pushed) = 0 /\ Len(popped) = 0
    BY DEF ShmInit
  <1> HIDE DEF off
  <1>4. Stream(off)
    BY <1>2, <1>3 DEF Stream, Header
  <1>5. Ends(off, 1, 1)
    BY <1>2, <1>3 DEF Ends, ShmInit, Header
  <1>6. Contents(off, 1, 1)
    BY <1>3 DEF Contents
  <1>7. QED
    BY <1>1, <1>2, <1>4, <1>5, <1>6 DEF ShmInv, Layout

-----------------------------------------------------------------------------
Grows(off, off2, slice) ==
    /\ pushed' = Append(pushed, slice)
    /\ off2 = Append(off, off[Len(pushed) + 1] + Header + slice.length)

Grown(off, off2, slice) ==
    /\ off2 \in Seq(Nat) /\ Stream(off2)'
    /\ Len(pushed') = Len(pushed) + 1 /\ pushed'[Len(pushed) + 1] = slice
    /\ \A k \in 1 .. Len(pushed) : pushed'[k] = pushed[k]
    /\ \A k \in 1 .. Len(pushed) + 1 : off2[k] = off[k]
    /\ off2[Len(pushed) + 2] = off[Len(pushed) + 1] + Header + slice.length

\* push(): the stream grows by a slice.
LEMMA StreamGrows ==
    ASSUME ShmBase, NEW off \in Seq(Nat), Stream(off), NEW slice \in Slice, NEW off2,
           Grows(off, off2, slice)
    PROVE  Grown(off, off2, slice)
  <1> DEFINE n == Len(pushed)
             last == off[n + 1] + Header + slice.length
  <1>1. n \in Nat /\ Len(off) = n + 1 /\ pushed \in Seq(Slice)
    BY DEF ShmBase, Stream
  <1>2. /\ Len(pushed') = n + 1 /\ pushed'[n + 1] = slice
        /\ \A k \in 1 .. n : pushed'[k] = pushed[k]
    BY <1>1 DEF Grows
  <1>3. off[n + 1] \in Nat /\ slice.length \in Nat /\ last \in Nat
    BY <1>1, ChannelAssumption DEF Slice, Header
  <1>4. /\ off2 \in Seq(Nat) /\ Len(off2) = n + 2 /\ off2[n + 2] = last
        /\ \A k \in 1 .. n + 1 : off2[k] = off[k] /\ off[k] \in Nat
    BY <1>1, <1>3 DEF Grows
  <1>5. last - off[n + 1] >= 4
    BY <1>3 DEF Header
  <1> HIDE DEF last
  <1>6. \A k \in 1 .. n + 1 : off2[k + 1] = off2[k] + Header + pushed'[k].length
    <2> TAKE k \in 1 .. n + 1
    <2>1. CASE k \in 1 .. n
      <3>1. off[k + 1] = off[k] + Header + pushed[k].length
        BY <2>1 DEF Stream
      <3>2. k + 1 \in 1 .. n + 1 /\ k \in 1 .. n + 1
        BY <1>1, <2>1
      <3>3. QED
        BY <1>2, <1>4, <2>1, <3>1, <3>2
    <2>2. CASE k = n + 1
      <3>1. off2[k + 1] = last /\ off2[k] = off[n + 1] /\ pushed'[k] = slice
        BY <1>1, <1>2, <1>4, <2>2
      <3>2. QED
        BY <3>1 DEF last
    <2>3. QED
      BY <1>1, <2>1, <2>2
  <1>7. ASSUME NEW j \in 1 .. n + 2, NEW k \in 1 .. n + 2, j <= k
        PROVE  off2[k] - off2[j] >= Header * (k - j)
    <2>1. \A i1, i2 \in 1 .. n + 1 : i1 <= i2 => off[i2] - off[i1] >= Header * (i2 - i1)
      BY <1>1 DEF Stream
    <2>2. CASE k \in 1 .. n + 1
      <3>1. j \in 1 .. n + 1
        BY <1>1, <1>7, <2>2
      <3>2. QED
        BY <1>4, <1>7, <2>1, <2>2, <3>1
    <2>3. CASE k = n + 2 /\ j \in 1 .. n + 1
      <3>1. n + 1 \in 1 .. n + 1 /\ j <= n + 1
        BY <1>1, <2>3
      <3>2. off[n + 1] - off[j] >= Header * ((n + 1) - j) /\ off[j] \in Nat
        BY <1>4, <2>1, <2>3, <3>1
      <3>3. off2[k] = last /\ off2[j] = off[j]
        BY <1>4, <2>3
      <3> DEFINE oj == off[j]
                 on == off[n + 1]
      <3>4. /\ on - oj >= Header * ((n + 1) - j) /\ oj \in Nat /\ on \in Nat /\ last - on >= 4
            /\ off2[k] = last /\ off2[j] = oj
        BY <1>3, <1>5, <3>2, <3>3
      <3> HIDE DEF oj, on
      <3>5. QED
        BY <1>1, <1>3, <2>3, <3>4 DEF Header
    <2>4. CASE k = n + 2 /\ j = n + 2
      BY <1>1, <1>3, <1>4, <2>4 DEF Header
    <2>5. QED
      BY <1>1, <2>2, <2>3, <2>4
  <1>8. Stream(off2)'
    <2>1. n + 2 = Len(pushed') + 1
      BY <1>1, <1>2
    <2>2. QED
      BY <1>1, <1>2, <1>4, <1>6, <1>7, <2>1 DEF Stream
  <1>9. QED
    BY <1>2, <1>4, <1>8 DEF last, Grown

\* The slices inside are not where the next one goes.
LEMMA SlicesSpared ==
    ASSUME ShmBase, NEW off \in Seq(Nat), NEW v \in Nat, NEW w \in Nat, Layout(off, v, w),
           NEW next \in Nat, tail_tag # head_tag => next <= head,
           NEW k \in Len(popped) + 1 .. Len(pushed)
    PROVE  /\ Place(off, v, w, k) \in 0 .. size - 1 /\ pushed[k].length \in 0 .. maxlen
           /\ \/ Place(off, v, w, k) + Header + pushed[k].length <= tail
              \/ next <= Place(off, v, w, k)
  <1> DEFINE n == Len(pushed)
             m == Len(popped)
             l == pushed[k].length
  <1>1. ShmBase /\ Stream(off) /\ Ends(off, v, w)
    BY DEF Layout
  <1>2. /\ n \in Nat /\ m \in Nat /\ m <= n /\ k \in 1 .. n /\ k \in 1 .. n + 1 /\ k + 1 \in 1 .. n + 1
        /\ m + 1 \in 1 .. n + 1 /\ n + 1 \in 1 .. n + 1 /\ k + 1 <= n + 1 /\ m + 1 <= k
        /\ v \in 1 .. n + 1 /\ w \in 1 .. n + 1 /\ v <= m + 1 /\ size \in Nat /\ maxlen \in Nat
        /\ head \in Nat /\ tail \in Nat /\ tail < size
    <2>1. /\ n \in Nat /\ m \in Nat /\ size \in Nat /\ maxlen \in Nat /\ head \in Nat /\ tail \in Nat
          /\ v \in 1 .. n + 1 /\ w \in 1 .. n + 1
      BY <1>1, StreamFacts
    <2>2. m <= n /\ tail < size /\ v <= m + 1
      BY <2>1 DEF ShmBase, Ends, Layout
    <2> HIDE DEF l
    <2>3. QED
      BY <2>1, <2>2
  <1>3. l \in 0 .. maxlen /\ l \in Nat /\ off[k + 1] = off[k] + Header + l
    <2>1. \A j \in 1 .. n : pushed[j].length \in 0 .. maxlen
      BY <1>1, StreamFacts
    <2>2. \A j \in 1 .. n : off[j + 1] = off[j] + Header + pushed[j].length
      BY <1>1 DEF Stream
    <2>3. QED
      BY <1>2, <2>1, <2>2
  <1>4. \A j \in 1 .. n + 1 : off[j] \in Nat
    BY <1>1, StreamFacts
  <1>5. \A i1, i2 \in 1 .. n + 1 : i1 <= i2 => off[i1] <= off[i2]
    BY <1>1, StreamFacts
  <1>6. head = off[m + 1] - off[v] /\ tail = off[n + 1] - off[w]
    BY <1>1 DEF Ends
  <1>7. CASE ~(k < w)
    <2>1. Place(off, v, w, k) = off[k] - off[w] /\ w <= k
      BY <1>2, <1>7 DEF Place
    <2>2. off[w] <= off[k] /\ off[k + 1] <= off[n + 1]
      BY <1>2, <1>5, <2>1
    <2>3. off[w] \in Nat /\ off[k] \in Nat /\ off[k + 1] \in Nat /\ off[n + 1] \in Nat
      BY <1>2, <1>4
    <2> DEFINE ow == off[w]
               ok == off[k]
               o1 == off[k + 1]
               on == off[n + 1]
               p == Place(off, v, w, k)
    <2>4. /\ p = ok - ow /\ ow <= ok /\ o1 <= on /\ ow \in Nat /\ ok \in Nat /\ o1 \in Nat /\ on \in Nat
          /\ tail = on - ow /\ o1 = ok + Header + l
      BY <1>3, <1>6, <2>1, <2>2, <2>3
    <2> HIDE DEF ow, ok, o1, on, p, l
    <2>5. p \in 0 .. size - 1 /\ p + Header + l <= tail
      BY <1>2, <1>3, <2>4 DEF Header
    <2>6. QED
      BY <1>3, <2>5 DEF p, l
  <1>8. CASE k < w
    <2>1. Place(off, v, w, k) = off[k] - off[v]
      BY <1>8 DEF Place
    <2>2. tail_tag # head_tag
      BY <1>1, <1>2, <1>8 DEF Ends
    <2>3. off[k] - off[v] < size
      <3>1. k \in m + 1 .. w - 1
        BY <1>2, <1>8
      <3>2. QED
        BY <1>1, <2>2, <3>1 DEF Ends
    <2>4. off[v] <= off[k] /\ off[m + 1] <= off[k]
      BY <1>2, <1>5
    <2>5. off[v] \in Nat /\ off[k] \in Nat /\ off[m + 1] \in Nat
      BY <1>2, <1>4
    <2> DEFINE ov == off[v]
               ok == off[k]
               om == off[m + 1]
               p == Place(off, v, w, k)
    <2>6. /\ p = ok - ov /\ ok - ov < size /\ ov <= ok /\ om <= ok /\ ov \in Nat /\ ok \in Nat
          /\ om \in Nat /\ head = om - ov
      BY <1>6, <2>1, <2>3, <2>4, <2>5
    <2> HIDE DEF ov, ok, om, p
    <2>7. p \in 0 .. size - 1 /\ next <= p
      BY <1>2, <2>2, <2>6
    <2>8. QED
      BY <1>3, <2>7 DEF p
  <1>9. QED
    BY <1>7, <1>8

\* push() writes a slice and nothing else, and it lies within the memory.
LEMMA SliceWritten ==
    ASSUME ShmBase, NEW length \in 0 .. maxlen, Push(length),
           NEW slice, slice = [id |-> Len(pushed) + 1, length |-> length],
           NEW next, next = tail + Header + length
    PROVE  /\ slice \in Slice /\ slice.length = length /\ next \in Nat
           /\ pushed' = Append(pushed, slice)
           /\ mem' \in [Address -> (Slice \cup {Unwritten}) \X (0 .. Header + maxlen - 1)]
           /\ \A b \in 0 .. Header + length - 1 : mem'[tail + b] = <<slice, b>>
           /\ \A a \in Address : ~(a \in tail .. next - 1) => mem'[a] = mem[a]
  <1>1. /\ tail \in Nat /\ tail < size /\ size \in Nat /\ maxlen \in Nat /\ length \in Nat
        /\ MaxPush \in Nat /\ Len(pushed) \in Nat
    BY ChannelAssumption DEF ShmBase
  <1>2. /\ Len(pushed) < MaxPush /\ pushed' = Append(pushed, slice)
        /\ mem' = [a \in Address |-> IF a \in tail .. next - 1 THEN <<slice, a - tail>> ELSE mem[a]]
    BY DEF Push
  <1>3. slice \in Slice /\ slice.length = length
    BY <1>1, <1>2 DEF Slice
  <1>4. next \in Nat /\ next - 1 = tail + Header + length - 1 /\ next <= Top
    BY <1>1 DEF Header, Top
  <1>5. \A a \in tail .. next - 1 : a \in Address /\ a - tail \in 0 .. Header + maxlen - 1
    BY <1>1, <1>4 DEF Address, Header, Top
  <1>6. \A b \in 0 .. Header + length - 1 : tail + b \in tail .. next - 1 /\ (tail + b) - tail = b
    BY <1>1, <1>4 DEF Header
  <1>7. mem \in [Address -> (Slice \cup {Unwritten}) \X (0 .. Header + maxlen - 1)]
    BY DEF ShmBase
  <1>8. mem' \in [Address -> (Slice \cup {Unwritten}) \X (0 .. Header + maxlen - 1)]
    <2> DEFINE Cell == (Slice \cup {Unwritten}) \X (0 .. Header + maxlen - 1)
    <2> SUFFICES ASSUME NEW a \in Address
                 PROVE  (IF a \in tail .. next - 1 THEN <<slice, a - tail>> ELSE mem[a]) \in Cell
      BY <1>2, Zenon
    <2>1. CASE a \in tail .. next - 1
      BY <1>3, <1>5, <2>1
    <2>2. CASE ~(a \in tail .. next - 1)
      BY <1>7, <2>2
    <2>3. QED
      BY <2>1, <2>2
  <1>9. \A b \in 0 .. Header + length - 1 : mem'[tail + b] = <<slice, b>>
    <2> TAKE b \in 0 .. Header + length - 1
    <2>1. tail + b \in tail .. next - 1 /\ (tail + b) - tail = b /\ tail + b \in Address
      BY <1>5, <1>6
    <2>2. QED
      BY <1>2, <2>1
  <1>10. \A a \in Address : ~(a \in tail .. next - 1) => mem'[a] = mem[a]
    BY <1>2
  <1>11. QED
    BY <1>2, <1>3, <1>4, <1>8, <1>9, <1>10

\* push() keeps the layout.
LEMMA PushStep ==
    ASSUME ShmInv, NEW length \in 0 .. maxlen, Push(length)
    PROVE  ShmInv'
  <1> DEFINE n == Len(pushed)
             m == Len(popped)
  <1>1. PICK off \in Seq(Nat), v \in Nat, w \in Nat : Layout(off, v, w)
    BY DEF ShmInv
  <1>2. PICK slice : slice = [id |-> Len(pushed) + 1, length |-> length]
    OBVIOUS
  <1>3. PICK next : next = tail + Header + length
    OBVIOUS
  <1>4. PICK off2 : off2 = Append(off, off[Len(pushed) + 1] + Header + slice.length)
    OBVIOUS
  <1>5. ShmBase /\ Stream(off) /\ Ends(off, v, w) /\ Contents(off, v, w)
    BY <1>1 DEF ShmInv, Layout
  <1>6. /\ slice \in Slice /\ slice.length = length /\ next \in Nat /\ pushed' = Append(pushed, slice)
        /\ mem' \in [Address -> (Slice \cup {Unwritten}) \X (0 .. Header + maxlen - 1)]
        /\ \A b \in 0 .. Header + length - 1 : mem'[tail + b] = <<slice, b>>
        /\ \A a \in Address : ~(a \in tail .. next - 1) => mem'[a] = mem[a]
    BY <1>2, <1>3, <1>5, SliceWritten
  <1>7. /\ off2 \in Seq(Nat) /\ Stream(off2)' /\ Len(pushed') = n + 1 /\ pushed'[n + 1] = slice
        /\ \A k \in 1 .. n : pushed'[k] = pushed[k]
        /\ \A k \in 1 .. n + 1 : off2[k] = off[k]
        /\ off2[n + 2] = off[n + 1] + Header + length
    <2>1. slice \in Slice /\ Grows(off, off2, slice)
      BY <1>4, <1>6 DEF Grows
    <2>2. Grown(off, off2, slice)
      BY <1>5, <2>1, StreamGrows
    <2>3. QED
      BY <1>6, <2>2 DEF Grown
  <1>8. /\ n \in Nat /\ m \in Nat /\ m <= n /\ m + 1 \in 1 .. n + 1 /\ n + 1 \in 1 .. n + 1
        /\ v \in 1 .. n + 1 /\ w \in 1 .. n + 1 /\ v <= m + 1 /\ size \in Nat /\ maxlen \in Nat
        /\ head \in Nat /\ tail \in Nat /\ tail < size /\ head < size /\ num = n - m /\ v <= w
        /\ length \in Nat /\ MaxPush \in Nat /\ n < MaxPush
    <2>1. /\ n \in Nat /\ m \in Nat /\ size \in Nat /\ maxlen \in Nat /\ head \in Nat /\ tail \in Nat
          /\ v \in 1 .. n + 1 /\ w \in 1 .. n + 1
      BY <1>5, StreamFacts
    <2>2. m <= n /\ tail < size /\ head < size /\ num = n - m /\ v <= m + 1 /\ v <= w
      <3>1. m <= n /\ tail < size /\ head < size /\ num = n - m
        BY <1>5, <2>1 DEF ShmBase
      <3>2. v \in 1 .. m + 1 /\ w \in v .. n + 1
        BY <1>5 DEF Ends
      <3> HIDE DEF n, m
      <3>3. QED
        BY <2>1, <3>1, <3>2
    <2>3. n < MaxPush /\ MaxPush \in Nat /\ length \in Nat
      BY <2>1, ChannelAssumption DEF Push
    <2>4. QED
      BY <2>1, <2>2, <2>3
  <1> DEFINE a == off[m + 1]
             z == off[n + 1]
             ov == off[v]
             ow == off[w]
  <1>9. a \in Nat /\ z \in Nat /\ ov \in Nat /\ ow \in Nat
    <2>1. \A k \in 1 .. n + 1 : off[k] \in Nat
      BY <1>5, StreamFacts
    <2>2. QED
      BY <1>8, <2>1
  <1>10. /\ head = a - ov /\ tail = z - ow /\ bytes = z - a - Header * num
         /\ (tail_tag = head_tag => v = w /\ ov = ow)
         /\ (tail_tag # head_tag => /\ m + 1 < w /\ ow - ov >= size /\ tail <= head
                                    /\ \A k \in m + 1 .. w - 1 : off[k] - off[v] < size)
    BY <1>5 DEF Ends
  <1>11. tail_tag = head_tag => head <= tail
    BY <1>1, <1>5, HeadNotBehind
  <1>12. tail_tag # head_tag => tail < head /\ next <= head /\ next < size
    <2>1. ~(head = tail /\ tail_tag # head_tag) /\ (tail < head => head - tail >= Header + length)
      BY DEF Push, Accepts, full
    <2>2. tail_tag # head_tag => tail < head
      BY <1>8, <1>10, <2>1
    <2>3. tail < head => next <= head /\ next < size
      BY <1>3, <1>8, <2>1 DEF Header
    <2>4. QED
      BY <2>2, <2>3
  <1>13. /\ UNCHANGED <<head, head_tag, popped>> /\ num' = num + 1 /\ bytes' = bytes + length
         /\ \/ /\ next < size /\ tail' = next /\ tail_tag' = tail_tag
            \/ /\ tail_tag = head_tag /\ next >= size /\ tail' = 0 /\ tail_tag' = 1 - tail_tag
    <2>1. tail_tag = head_tag => ~(tail < head)
      BY <1>8, <1>11
    <2>2. (next >= size) \in BOOLEAN /\ (~(next >= size) <=> next < size)
      BY <1>6, <1>8
    <2>3. QED
      BY <1>3, <1>12, <2>1, <2>2 DEF Push, Wraps
  <1>14. ShmBase'
    <2>1. tail' \in 0 .. size - 1 /\ tail_tag' \in {0, 1}
      <3>1. tail_tag' \in {0, 1}
        BY <1>5, <1>13 DEF ShmBase
      <3>2. tail' = 0 \/ (tail' = next /\ next < size)
        BY <1>13
      <3>3. QED
        BY <1>6, <1>8, <3>1, <3>2
    <2>2. pushed' \in Seq(Slice) /\ Len(pushed') <= MaxPush /\ Len(popped') <= Len(pushed')
      <3>1. pushed' \in Seq(Slice)
        BY <1>5, <1>6 DEF ShmBase
      <3>2. Len(pushed') = n + 1 /\ Len(popped') = m
        BY <1>7, <1>13
      <3> HIDE DEF n, m
      <3>3. QED
        BY <1>8, <3>1, <3>2
    <2>3. num' = Len(pushed') - Len(popped')
      BY <1>7, <1>8, <1>13
    <2>4. QED
      BY <1>5, <1>6, <1>13, <2>1, <2>2, <2>3 DEF ShmBase
  <1>15. PICK w2 \in Nat : \/ w2 = w /\ next < size /\ tail' = next /\ tail_tag' = tail_tag
                           \/ /\ w2 = n + 2 /\ tail_tag = head_tag /\ next >= size
                              /\ tail' = 0 /\ tail_tag' = 1 - tail_tag
    BY <1>8, <1>13
  <1>16. /\ off2[m + 1] = a /\ off2[v] = ov /\ off2[w] = ow /\ off2[n + 1] = z
         /\ off2[n + 2] = z + Header + length
    BY <1>7, <1>8
  <1>17. Ends(off2, v, w2)'
    <2>1. /\ Len(popped') = m /\ Len(pushed') + 1 = n + 2 /\ v \in 1 .. m + 1
      BY <1>7, <1>8, <1>13
    <2>2. head' = off2[m + 1] - off2[v] /\ bytes' = off2[n + 2] - off2[m + 1] - Header * num'
      <3> HIDE DEF a, z, ov, ow, n, m
      <3>1. QED
        BY <1>8, <1>9, <1>10, <1>13, <1>16 DEF Header
    <2>3. /\ w2 \in v .. n + 2 /\ tail' = off2[n + 2] - off2[w2]
      <3> HIDE DEF a, z, ov, ow, n, m
      <3>1. CASE w2 = w /\ tail' = next
        <4>1. tail' = z + Header + length - ow
          BY <1>3, <1>8, <1>9, <1>10, <3>1 DEF Header
        <4>2. QED
          BY <1>8, <1>9, <1>16, <3>1, <4>1 DEF Header
      <3>2. CASE w2 = n + 2 /\ tail' = 0
        BY <1>8, <1>9, <1>16, <3>2 DEF Header
      <3>3. QED
        BY <1>15, <3>1, <3>2
    <2>4. tail_tag' = head_tag' => v = w2
      <3>1. tail_tag \in {0, 1} /\ head_tag \in {0, 1} /\ head_tag' = head_tag
        BY <1>5, <1>13 DEF ShmBase
      <3>2. tail_tag = head_tag => v = w
        BY <1>10
      <3>3. (w2 = w /\ tail_tag' = tail_tag) \/ (tail_tag = head_tag /\ tail_tag' = 1 - tail_tag)
        BY <1>15
      <3>4. QED
        BY <3>1, <3>2, <3>3
    <2>5. ASSUME tail_tag' # head_tag'
          PROVE  /\ m + 1 < w2 /\ off2[w2] - off2[v] >= size /\ tail' <= head'
                 /\ \A k \in m + 1 .. w2 - 1 : off2[k] - off2[v] < size
      <3>1. CASE w2 = w /\ tail' = next /\ tail_tag' = tail_tag
        <4>1. tail_tag # head_tag
          BY <1>13, <2>5, <3>1
        <4>2. /\ m + 1 < w /\ ow - ov >= size /\ next <= head
              /\ \A k \in m + 1 .. w - 1 : off[k] - off[v] < size
          BY <1>10, <1>12, <4>1
        <4>3. \A k \in m + 1 .. w - 1 : off2[k] = off[k]
          BY <1>7, <1>8
        <4>4. QED
          BY <1>13, <1>16, <3>1, <4>2, <4>3
      <3>2. CASE w2 = n + 2 /\ tail_tag = head_tag /\ next >= size /\ tail' = 0
        <4>1. m + 1 < n + 2 /\ tail' <= head'
          BY <1>8, <1>13, <3>2
        <4>2. off2[w2] - off2[v] >= size
          <5> HIDE DEF a, z, ov, ow, n, m
          <5>1. QED
            BY <1>3, <1>8, <1>9, <1>10, <1>16, <3>2 DEF Header
        <4>3. ASSUME NEW k \in m + 1 .. n + 1 PROVE off2[k] - off2[v] < size
          <5>1. k \in 1 .. n + 1 /\ k <= n + 1
            BY <1>8
          <5>2. off[k] <= off[n + 1] /\ off[k] \in Nat
            BY <1>5, <1>8, <5>1, StreamFacts
          <5>3. off2[k] = off[k]
            BY <1>7, <5>1
          <5> DEFINE ok == off[k]
          <5>4. ok <= z /\ ok \in Nat /\ off2[k] = ok
            BY <5>2, <5>3
          <5> HIDE DEF a, z, ov, ow, n, m, ok
          <5>5. QED
            BY <1>8, <1>9, <1>10, <1>16, <3>2, <5>4
        <4>4. w2 - 1 = n + 1
          BY <1>8, <3>2
        <4>5. QED
          BY <3>2, <4>1, <4>2, <4>3, <4>4
      <3>3. QED
        BY <1>15, <3>1, <3>2
    <2> HIDE DEF n, m
    <2>6. QED
      BY <2>1, <2>2, <2>3, <2>4, <2>5 DEF Ends
  <1>18. Contents(off2, v, w2)'
    <2> SUFFICES ASSUME NEW k \in m + 1 .. n + 1, NEW b \in 0 .. Header + pushed'[k].length - 1
                 PROVE  mem'[Place(off2, v, w2, k) + b] = <<pushed'[k], b>>
      BY <1>7, <1>13 DEF Contents, Place
    <2>1. CASE k \in m + 1 .. n
      <3>1. k \in 1 .. n /\ k \in 1 .. n + 1 /\ k < n + 2
        BY <1>8, <2>1
      <3>2. pushed'[k] = pushed[k] /\ off2[k] = off[k]
        BY <1>7, <3>1
      <3> DEFINE p == Place(off, v, w, k)
                 l == pushed[k].length
      <3>3. Place(off2, v, w2, k) = p
        <4>1. CASE w2 = w
          BY <1>16, <3>2, <4>1 DEF Place
        <4>2. CASE w2 = n + 2 /\ tail_tag = head_tag
          <5>1. v = w /\ ~(k < w)
            BY <1>8, <1>10, <2>1, <4>2
          <5>2. QED
            BY <1>16, <3>1, <3>2, <4>2, <5>1 DEF Place
        <4>3. QED
          BY <1>15, <4>1, <4>2
      <3>4. /\ p \in 0 .. size - 1 /\ l \in 0 .. maxlen /\ (p + Header + l <= tail \/ next <= p)
        BY <1>1, <1>5, <1>6, <1>12, <2>1, SlicesSpared
      <3>5. b \in 0 .. Header + l - 1 /\ mem[p + b] = <<pushed[k], b>>
        BY <1>5, <2>1, <3>2 DEF Contents
      <3> HIDE DEF p, l
      <3>6. p + b \in Address /\ ~(p + b \in tail .. next - 1)
        <4>1. p \in Nat /\ l \in Nat /\ b \in Nat /\ b < Header + l /\ p < size /\ l <= maxlen
          BY <1>8, <3>4, <3>5 DEF Header
        <4>2. p + b \in Address
          BY <1>8, <4>1 DEF Address, Top, Header
        <4>3. ~(p + b \in tail .. next - 1)
          BY <1>6, <1>8, <3>4, <4>1 DEF Header
        <4>4. QED
          BY <4>2, <4>3
      <3>7. mem'[p + b] = mem[p + b]
        BY <1>6, <3>6
      <3>8. QED
        BY <3>2, <3>3, <3>5, <3>7
    <2>2. CASE k = n + 1
      <3>1. pushed'[k] = slice /\ b \in 0 .. Header + length - 1
        BY <1>6, <1>7, <2>2
      <3>2. Place(off2, v, w2, k) = tail
        <4>1. off2[k] = z /\ k \in Nat
          BY <1>8, <1>16, <2>2
        <4>2. CASE w2 = w
          <5>1. ~(k < w)
            BY <1>8, <2>2
          <5>2. Place(off2, v, w2, k) = z - ow
            BY <1>16, <4>1, <4>2, <5>1 DEF Place
          <5>3. QED
            BY <1>10, <5>2
        <4>3. CASE w2 = n + 2 /\ tail_tag = head_tag
          <5>1. k < w2
            BY <1>8, <2>2, <4>3
          <5>2. Place(off2, v, w2, k) = z - ov
            BY <1>16, <4>1, <5>1 DEF Place
          <5>3. QED
            BY <1>10, <4>3, <5>2
        <4>4. QED
          BY <1>15, <4>2, <4>3
      <3>3. QED
        BY <1>6, <3>1, <3>2
    <2> HIDE DEF n, m
    <2>3. k \in m + 1 .. n \/ k = n + 1
      BY <1>8
    <2>4. QED
      BY <2>1, <2>2, <2>3
  <1>19. Layout(off2, v, w2)'
    BY <1>7, <1>17, <1>18 DEF Layout
  <1>20. QED
    BY <1>7, <1>14, <1>19 DEF ShmInv

\* What pop() finds at the head is the slice that was pushed first.
LEMMA FirstIsFound ==
    ASSUME ShmBase, NEW off \in Seq(Nat), NEW v \in Nat, NEW w \in Nat, Layout(off, v, w), num # 0
    PROVE  /\ Len(popped) < Len(pushed) /\ pushed[Len(popped) + 1] \in Slice
           /\ mem[head][1] = pushed[Len(popped) + 1]
           /\ Found = pushed[Len(popped) + 1]
  <1> DEFINE n == Len(pushed)
             m == Len(popped)
             s == pushed[m + 1]
  <1>1. Stream(off) /\ Ends(off, v, w) /\ Contents(off, v, w)
    BY DEF Layout
  <1>2. /\ n \in Nat /\ m \in Nat /\ head \in Nat
        /\ \A k \in 1 .. n : pushed[k] \in Slice /\ pushed[k].length \in 0 .. maxlen
    BY <1>1, StreamFacts
  <1>3. m < n
    <2>1. num = n - m /\ m <= n
      BY DEF ShmBase
    <2> HIDE DEF n, m
    <2>2. QED
      BY <1>2, <2>1
  <1>4. s \in Slice /\ s.length \in Nat /\ m + 1 \in m + 1 .. n
    <2>1. m + 1 \in 1 .. n /\ m + 1 \in m + 1 .. n
      BY <1>2, <1>3
    <2>2. s \in Slice /\ s.length \in 0 .. maxlen
      BY <1>2, <2>1
    <2>3. QED
      BY <2>1, <2>2, ChannelAssumption
  <1>5. Place(off, v, w, m + 1) = head
    <2>1. head = off[m + 1] - off[v] /\ (tail_tag = head_tag => v = w) /\ (tail_tag # head_tag => m + 1 < w)
      BY <1>1 DEF Ends
    <2>2. QED
      BY <2>1 DEF Place
  <1>6. \A b \in 0 .. Header + s.length - 1 : mem[head + b] = <<s, b>>
    BY <1>1, <1>4, <1>5 DEF Contents
  <1> HIDE DEF s
  <1>7. mem[head] = <<s, 0>>
    <2>1. 0 \in 0 .. Header + s.length - 1 /\ head + 0 = head
      BY <1>2, <1>4 DEF Header
    <2>2. mem[head + 0] = <<s, 0>>
      BY <1>6, <2>1
    <2>3. QED
      BY <2>1, <2>2
  <1>8. mem[head][1] = s
    BY <1>7
  <1>9. Found = s
    BY <1>6, <1>8 DEF Found
  <1>10. QED
    BY <1>3, <1>4, <1>8, <1>9 DEF s

\* pop() keeps the layout.
LEMMA PopStep ==
    ASSUME ShmInv, NEW buffer_length \in 0 .. maxlen, Pop(buffer_length)
    PROVE  /\ ShmInv' /\ Len(popped) < Len(pushed)
           /\ popped' = Append(popped, pushed[Len(popped) + 1]) /\ pushed' = pushed
  <1> DEFINE n == Len(pushed)
             m == Len(popped)
             s == pushed[m + 1]
             l == s.length
  <1>1. PICK off \in Seq(Nat), v \in Nat, w \in Nat : Layout(off, v, w)
    BY DEF ShmInv
  <1>2. ShmBase /\ Stream(off) /\ Ends(off, v, w) /\ Contents(off, v, w) /\ num # 0
    BY <1>1 DEF ShmInv, Layout, Pop, empty
  <1>3. m < n /\ s \in Slice /\ mem[head][1] = s /\ Found = s
    BY <1>1, <1>2, FirstIsFound
  <1>4. PICK next : next = head + Header + l
    OBVIOUS
  <1>5. /\ head' = (IF next >= size THEN 0 ELSE next)
        /\ head_tag' = (IF next >= size THEN 1 - head_tag ELSE head_tag)
        /\ num' = num - 1 /\ bytes' = bytes - l /\ popped' = Append(popped, s)
        /\ UNCHANGED <<tail, tail_tag, mem, pushed>>
    BY <1>3, <1>4 DEF Pop, Wraps
  <1>6. /\ n \in Nat /\ m \in Nat /\ size \in Nat /\ head \in Nat /\ tail \in Nat /\ num \in Nat
        /\ v \in 1 .. n + 1 /\ w \in 1 .. n + 1
        /\ \A k \in 1 .. n + 1 : off[k] \in Nat
        /\ \A j, k \in 1 .. n + 1 : j <= k => off[j] <= off[k]
    BY <1>2, StreamFacts
  <1>7. /\ tail < size /\ head < size /\ num = n - m
    BY <1>2, <1>6 DEF ShmBase
  <1>8. /\ v \in 1 .. m + 1 /\ w \in v .. n + 1
    BY <1>2 DEF Ends
  <1>9. l \in Nat
    BY <1>3, ChannelAssumption DEF Slice
  <1>10. off[m + 2] = off[m + 1] + Header + l
    <2>1. m + 1 \in 1 .. n /\ (m + 1) + 1 = m + 2
      BY <1>3, <1>6
    <2>2. off[(m + 1) + 1] = off[m + 1] + Header + pushed[m + 1].length
      BY <1>2, <2>1 DEF Stream
    <2>3. QED
      BY <2>1, <2>2
  <1> DEFINE a == off[m + 1]
             a2 == off[m + 2]
             z == off[n + 1]
             ov == off[v]
             ow == off[w]
  <1>11. /\ a \in Nat /\ a2 \in Nat /\ z \in Nat /\ ov \in Nat /\ ow \in Nat /\ a2 <= z
         /\ a2 = a + Header + l
    <2>1. m + 1 \in 1 .. n + 1 /\ m + 2 \in 1 .. n + 1 /\ n + 1 \in 1 .. n + 1 /\ m + 2 <= n + 1
      BY <1>3, <1>6
    <2>2. QED
      BY <1>6, <1>10, <2>1
  <1>12. /\ head = a - ov /\ tail = z - ow /\ bytes = z - a - Header * num
         /\ (tail_tag = head_tag => v = w /\ ov = ow)
         /\ (tail_tag # head_tag => /\ m + 1 < w /\ ow - ov >= size /\ tail <= head
                                    /\ \A k \in m + 1 .. w - 1 : off[k] - off[v] < size)
    BY <1>2 DEF Ends
  <1>13. (m + 2 = w => a2 = ow) /\ (m + 2 < w => m + 2 \in m + 1 .. w - 1)
    BY <1>6
  <1>14. tail_tag # head_tag /\ m + 2 < w => a2 - ov < size
    BY <1>12, <1>13
  <1> HIDE DEF n, m, a, a2, z, ov, ow, s, l
  <1>15. next \in Nat /\ next = a2 - ov /\ head <= next
    BY <1>4, <1>6, <1>9, <1>11, <1>12 DEF Header
  <1>16. PICK v2 \in Nat :
           \/ /\ v2 = v /\ next < size /\ head' = next /\ head_tag' = head_tag
              /\ tail_tag # head_tag => m + 2 < w
           \/ /\ v2 = w /\ w = m + 2 /\ tail_tag # head_tag /\ head' = 0 /\ head_tag' = 1 - head_tag
    <2>1. CASE tail_tag = head_tag
      <3>1. next < size /\ ~(next >= size)
        BY <1>6, <1>7, <1>11, <1>12, <1>15, <2>1
      <3>2. QED
        BY <1>5, <2>1, <3>1
    <2>2. CASE tail_tag # head_tag /\ m + 2 < w
      <3>1. next < size /\ ~(next >= size)
        BY <1>6, <1>14, <1>15, <2>2
      <3>2. QED
        BY <1>5, <2>2, <3>1
    <2>3. CASE tail_tag # head_tag /\ ~(m + 2 < w)
      <3>1. w = m + 2
        BY <1>6, <1>12, <2>3
      <3>2. next >= size
        BY <1>12, <1>13, <1>15, <2>3, <3>1
      <3>3. QED
        BY <1>5, <2>3, <3>1, <3>2
    <2>4. QED
      BY <2>1, <2>2, <2>3
  <1>17. Len(popped') = m + 1 /\ pushed' = pushed /\ Len(pushed') = n
    BY <1>2, <1>5 DEF ShmBase, n, m
  <1>18. ShmBase'
    <2>1. head' \in 0 .. size - 1
      BY <1>6, <1>7, <1>15, <1>16
    <2>2. head_tag' \in {0, 1}
      BY <1>2, <1>16 DEF ShmBase
    <2>3. popped' \in Seq(Slice)
      BY <1>2, <1>3, <1>5 DEF ShmBase
    <2>4. Len(popped') <= Len(pushed') /\ num' = Len(pushed') - Len(popped')
      <3>1. num' = num - 1 /\ num = n - m /\ m < n /\ m \in Nat /\ n \in Nat
        BY <1>3, <1>5, <1>6, <1>7
      <3>2. Len(popped') = m + 1 /\ Len(pushed') = n
        BY <1>17
      <3> HIDE DEF n, m
      <3>3. QED
        BY <3>1, <3>2
    <2>5. /\ tail' \in 0 .. size - 1 /\ tail_tag' \in {0, 1} /\ pushed' \in Seq(Slice)
          /\ mem' \in [Address -> (Slice \cup {Unwritten}) \X (0 .. Header + maxlen - 1)]
          /\ Len(pushed') <= MaxPush
      BY <1>2, <1>5 DEF ShmBase
    <2>6. QED
      BY <2>1, <2>2, <2>3, <2>4, <2>5 DEF ShmBase
  <1>19. Ends(off, v2, w)'
    <2>1. (m + 1) + 1 = m + 2
      BY <1>6
    <2>2. /\ v2 \in 1 .. m + 2 /\ w \in v2 .. n + 1
      BY <1>6, <1>8, <1>16
    <2>3. head' = a2 - off[v2]
      <3>1. CASE v2 = v /\ head' = next
        BY <1>15, <3>1 DEF ov
      <3>2. CASE v2 = w /\ w = m + 2 /\ head' = 0
        <4>1. off[v2] = a2
          BY <3>2 DEF a2
        <4>2. QED
          BY <1>11, <3>2, <4>1
      <3>3. QED
        BY <1>16, <3>1, <3>2
    <2>4. tail' = z - ow /\ bytes' = z - a2 - Header * num'
      BY <1>5, <1>6, <1>9, <1>11, <1>12 DEF Header
    <2>5. tail_tag' = head_tag' => v2 = w
      <3>1. tail_tag \in {0, 1} /\ head_tag \in {0, 1} /\ tail_tag' = tail_tag
        BY <1>2, <1>5 DEF ShmBase
      <3>2. QED
        BY <1>12, <1>16, <3>1
    <2>6. ASSUME tail_tag' # head_tag'
          PROVE  /\ m + 2 < w /\ off[w] - off[v2] >= size /\ tail' <= head'
                 /\ \A k \in m + 2 .. w - 1 : off[k] - off[v2] < size
      <3>1. tail_tag \in {0, 1} /\ head_tag \in {0, 1} /\ tail_tag' = tail_tag /\ tail' = tail
        BY <1>2, <1>5 DEF ShmBase
      <3>2. v2 = v /\ head' = next /\ tail_tag # head_tag /\ m + 2 < w
        BY <1>16, <2>6, <3>1
      <3>3. /\ ow - ov >= size /\ tail <= head /\ \A k \in m + 1 .. w - 1 : off[k] - off[v] < size
        BY <1>12, <3>2
      <3>4. tail' <= head'
        BY <1>6, <1>15, <3>1, <3>2, <3>3
      <3>5. \A k \in m + 2 .. w - 1 : k \in m + 1 .. w - 1
        BY <1>6
      <3>6. QED
        BY <3>2, <3>3, <3>4, <3>5 DEF ow, ov
    <2>7. QED
      BY <1>17, <2>1, <2>2, <2>3, <2>4, <2>5, <2>6 DEF Ends, z, ow, a2
  <1>20. Contents(off, v2, w)'
    <2> SUFFICES ASSUME NEW k \in m + 2 .. n, NEW b \in 0 .. Header + pushed[k].length - 1
                 PROVE  mem[Place(off, v2, w, k) + b] = <<pushed[k], b>>
      <3>1. (m + 1) + 1 = m + 2 /\ mem' = mem
        BY <1>5, <1>6
      <3>2. QED
        BY <1>17, <3>1 DEF Contents, Place
    <2>1. k \in m + 1 .. n
      BY <1>6
    <2>2. Place(off, v2, w, k) = Place(off, v, w, k)
      <3>1. v2 = v \/ ~(k < w)
        BY <1>6, <1>16
      <3>2. QED
        BY <3>1 DEF Place
    <2>3. mem[Place(off, v, w, k) + b] = <<pushed[k], b>>
      BY <1>2, <2>1 DEF Contents, m, n
    <2>4. QED
      BY <2>2, <2>3
  <1>21. Stream(off)'
    BY <1>2, <1>17 DEF Stream
  <1>22. ShmInv'
    BY <1>18, <1>19, <1>20, <1>21 DEF ShmInv, Layout
  <1>23. QED
    BY <1>3, <1>5, <1>22 DEF m, n, s

\* Every step keeps ShmInv.
LEMMA ShmStep ==
    ASSUME ShmInv, [ShmNext]_shmVars
    PROVE  ShmInv'
  <1>1. CASE \E length \in 0 .. maxlen : Push(length)
    BY <1>1, PushStep
  <1>2. CASE \E length \in 0 .. maxlen : Pop(length)
    BY <1>2, PopStep
  <1>3. CASE UNCHANGED shmVars
    <2>1. UNCHANGED <<head, tail, head_tag, tail_tag, num, bytes, mem, pushed, popped>>
      BY <1>3 DEF shmVars
    <2>2. PICK off \in Seq(Nat), v \in Nat, w \in Nat : Layout(off, v, w)
      BY DEF ShmInv
    <2>3. Stream(off)' /\ Ends(off, v, w)'
      BY <2>1, <2>2 DEF Layout, Stream, Ends
    <2>4. Contents(off, v, w)'
      BY <2>1, <2>2 DEF Layout, Contents, Place
    <2>5. ShmBase'
      BY <2>1 DEF ShmInv, ShmBase
    <2>6. QED
      BY <2>3, <2>4, <2>5 DEF ShmInv, Layout
  <1>4. QED
    BY <1>1, <1>2, <1>3 DEF ShmNext

\* Every step of the channel is one of the bounded queue, or none.
LEMMA ShmRefines ==
    ASSUME ShmInv, NumFits', [ShmNext]_shmVars
    PROVE  [Fifo!FifoNext]_(Fifo!fifoVars)
  <1>1. ASSUME NEW length \in 0 .. maxlen, Push(length)
        PROVE  Fifo!PutSome
    <2>1. PICK slice : slice = [id |-> Len(pushed) + 1, length |-> length]
      OBVIOUS
    <2>2. slice \in Slice /\ pushed' = Append(pushed, slice)
      BY <1>1, <2>1, SliceWritten DEF ShmInv
    <2>3. num' <= Room
      BY DEF NumFits, Room
    <2>4. /\ pushed \in Seq(Slice) /\ popped \in Seq(Slice) /\ num = Len(pushed) - Len(popped)
          /\ num' = num + 1 /\ popped' = popped
      BY <1>1 DEF ShmInv, ShmBase, Push
    <2>5. Room \in Nat
      BY ChannelAssumption DEF Room, Header
    <2>6. Len(pushed) < Len(popped) + Room
      BY <2>3, <2>4, <2>5
    <2>7. pushed' # pushed
      BY <2>2, <2>4
    <2>8. QED
      BY <2>2, <2>4, <2>6, <2>7 DEF Fifo!PutSome, Fifo!Put, Room
  <1>2. ASSUME NEW length \in 0 .. maxlen, Pop(length)
        PROVE  Fifo!Take
    BY <1>2, PopStep DEF Fifo!Take
  <1>3. CASE UNCHANGED shmVars
    BY <1>3 DEF shmVars, Fifo!fifoVars
  <1>4. QED
    BY <1>1, <1>2, <1>3 DEF ShmNext, Fifo!FifoNext

\* For a ring of any size and slices of any length up to maxlen, wherever they wrap
\* around: pop() returns the slices that push() took, whole, in order and each once,
\* no slice leaves the memory that make() asked for, and the channel, once empty,
\* takes any slice (core/channel.cc).
THEOREM ShmChannelIsFifo == ShmSpec => ShmIsFifo
  <1>1. ShmInit => ShmInv
    BY ShmInvInit
  <1>2. ShmInv /\ [ShmNext]_shmVars => ShmInv'
    BY ShmStep
  <1>3. ShmInv => AcceptsWhatFits
    BY ShmInvIsSound
  <1>4. ShmInit => Fifo!FifoInit
    BY DEF ShmInit, Fifo!FifoInit
  <1>5. ShmInv => NumFits
    BY NumBounded
  <1>6. ShmInv /\ NumFits' /\ [ShmNext]_shmVars => [Fifo!FifoNext]_(Fifo!fifoVars)
    BY ShmRefines
  <1>7. QED
    BY <1>1, <1>2, <1>3, <1>4, <1>5, <1>6, PTL DEF ShmSpec, ShmIsFifo, Fifo!FifoSpec
=============================================================================
