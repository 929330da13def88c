------------------------- MODULE RingBufferProofs --------------------------
(***************************************************************************)
(* The ring buffer for every capacity and every write: its fields keep     *)
(* their ranges, its heads agree, and it is the FIFO of ByteQueue.         *)
(*                                                                         *)
(* The inductive invariant is RingOK of rb: where a write goes is decided  *)
(* by the write head and where a read starts by the read head, so that the *)
(* bytes held form a queue only while the two agree with the count.        *)
(***************************************************************************)
EXTENDS RingBuffer, SequenceTheorems, TLAPS

\* A ring with consistent heads.
Ring == [buff : [Index -> Byte], readhead : Index, writehead : Index, used : 0 .. Capacity]
RingOK(b) == b \in Ring /\ b.writehead = (b.readhead + b.used) % Capacity

\* What a ring holds; an index that has passed the end at most once, wrapped; and
\* the cell of the k-th byte held.
Contents(b) == peek_ringbuff(b, b.used)
Wrap(a) == IF a < Capacity THEN a ELSE a - Capacity
Slot(b, k) == Wrap(b.readhead + (k - 1))

RingInv == RingOK(rb) /\ ret \in 0 .. Capacity /\ got \in Seq(Byte)
-----------------------------------------------------------------------------
(* Heads move forward by at most the capacity.                             *)

\* A head that has not reached the end of the array stays where it is.
LEMMA ModSmall ==
  ASSUME NEW n \in Nat \ {0}, NEW a \in Nat, a < n
  PROVE  a % n = a
OBVIOUS

\* A head that has passed the end once wraps to the start.
LEMMA ModWrap ==
  ASSUME NEW n \in Nat \ {0}, NEW a \in Nat, n <= a, a < n + n
  PROVE  a % n = a - n
OBVIOUS

\* A head that moves by no more than the capacity stays in the array.
LEMMA Move ==
  ASSUME NEW h \in Nat, h < Capacity, NEW n \in Nat, n <= Capacity
  PROVE  (h + n) % Capacity = Wrap(h + n) /\ Wrap(h + n) \in Index
<1> DEFINE a == h + n
<1>1. Capacity \in Nat \ {0}
  BY CapacityAssumption
<1>2. a \in Nat /\ a < Capacity + Capacity
  BY <1>1
<1> HIDE DEF a
<1>3. a % Capacity = Wrap(a)
  <2>1. CASE a < Capacity
    BY <1>1, <1>2, <2>1, ModSmall DEF Wrap
  <2>2. CASE Capacity <= a
    <3>1. ~ (a < Capacity)
      BY <1>1, <1>2, <2>2
    <3> QED BY <1>1, <1>2, <2>2, <3>1, ModWrap DEF Wrap
  <2> QED BY <1>1, <1>2, <2>1, <2>2
<1>4. Wrap(a) \in Index
  BY <1>1, <1>2 DEF Wrap, Index
<1> QED BY <1>3, <1>4 DEF a

\* The fields of a ring, and its write head without the remainder.
LEMMA Heads ==
  ASSUME NEW b, RingOK(b)
  PROVE  /\ Capacity \in Nat /\ Capacity >= 1
         /\ b.readhead \in Nat /\ b.readhead < Capacity
         /\ b.used \in Nat /\ b.used <= Capacity
         /\ b.buff \in [Index -> Byte]
         /\ b.writehead = Wrap(b.readhead + b.used)
         /\ b.writehead \in Nat /\ b.writehead < Capacity
<1>1. Capacity \in Nat \ {0}
  BY CapacityAssumption
<1>2. /\ b.readhead \in Nat /\ b.readhead < Capacity
      /\ b.used \in Nat /\ b.used <= Capacity /\ b.buff \in [Index -> Byte]
      /\ b.writehead \in Nat /\ b.writehead < Capacity
  BY <1>1 DEF RingOK, Ring, Index
<1>3. (b.readhead + b.used) % Capacity = Wrap(b.readhead + b.used)
  BY <1>2, Move
<1> QED BY <1>1, <1>2, <1>3 DEF RingOK

\* Two moves of at most the capacity together are one move.
LEMMA MoveTwice ==
  ASSUME NEW h \in Nat, h < Capacity, NEW m \in Nat, NEW n \in Nat, m + n <= Capacity
  PROVE  Wrap(Wrap(h + m) + n) = Wrap(h + (m + n))
BY CapacityAssumption DEF Wrap

\* The cells of a write, f of them before the end of the array, are not cells of
\* the u bytes held.
LEMMA KeptCell ==
  ASSUME NEW r \in Nat, NEW u \in Nat, NEW w \in Nat, NEW n \in Nat, NEW f \in Nat,
         r < Capacity, u + n <= Capacity, w = Wrap(r + u), f <= n, f <= Capacity - w,
         f < n => f = Capacity - w,
         NEW k \in Nat, 1 <= k, k <= u, NEW i \in Nat, i = Wrap(r + (k - 1))
  PROVE  ~ (w <= i /\ i < w + f) /\ ~ (i < n - f)
BY CapacityAssumption DEF Wrap
-----------------------------------------------------------------------------
(* The three functions.                                                    *)

\* peek_ringbuff copies the oldest bytes out, in order, in one piece or two.
LEMMA Peek ==
  ASSUME NEW b, RingOK(b), NEW m \in Nat
  PROVE  /\ peek_ringbuff(b, m) \in Seq(Byte)
         /\ Len(peek_ringbuff(b, m)) = AtMost(m, b.used)
         /\ \A k \in 1 .. AtMost(m, b.used) :
              Slot(b, k) \in Index /\ peek_ringbuff(b, m)[k] = b.buff[Slot(b, k)]
<1> DEFINE len == AtMost(m, b.used)
           first == AtMost(Capacity - b.readhead, len)
           p == peek_ringbuff(b, m)
<1>1. /\ Capacity \in Nat /\ Capacity >= 1
      /\ b.readhead \in Nat /\ b.readhead < Capacity
      /\ b.used \in Nat /\ b.used <= Capacity /\ b.buff \in [Index -> Byte]
  BY Heads
<1>2. len \in Nat /\ len <= b.used
  BY <1>1 DEF AtMost
<1>3. p = [k \in 1 .. len |->
             IF k <= first THEN b.buff[b.readhead + (k - 1)] ELSE b.buff[(k - first) - 1]]
  BY DEF peek_ringbuff
<1> HIDE DEF p
<1>4. ASSUME NEW k \in 1 .. len
      PROVE  Slot(b, k) \in Index /\ p[k] = b.buff[Slot(b, k)] /\ p[k] \in Byte
  <2>1. k \in Nat /\ 1 <= k /\ k <= len
    BY <1>2
  <2>2. Slot(b, k) \in Index
    BY <1>1, <1>2, <2>1 DEF Slot, Wrap, Index
  <2>3. CASE b.readhead + (k - 1) < Capacity
    <3>1. k <= first
      BY <1>1, <1>2, <2>1, <2>3 DEF AtMost
    <3> QED BY <1>1, <1>3, <2>2, <2>3, <3>1 DEF Slot, Wrap
  <2>4. CASE ~ (b.readhead + (k - 1) < Capacity)
    <3>1. first = Capacity - b.readhead /\ ~ (k <= first)
      BY <1>1, <1>2, <2>1, <2>4 DEF AtMost
    <3>2. (k - first) - 1 = (b.readhead + (k - 1)) - Capacity
      BY <1>1, <2>1, <3>1
    <3> QED BY <1>1, <1>3, <2>2, <2>4, <3>1, <3>2 DEF Slot, Wrap
  <2> QED BY <2>2, <2>3, <2>4
<1>5. p \in Seq(Byte) /\ Len(p) = len
  <2>1. p \in [1 .. len -> Byte]
    BY <1>3, <1>4
  <2> HIDE DEF len
  <2> QED BY <1>2, <2>1
<1> QED BY <1>4, <1>5 DEF p

\* What a consistent ring holds: used bytes, the k-th in cell Slot(b, k).
LEMMA Holds ==
  ASSUME NEW b, RingOK(b)
  PROVE  /\ Contents(b) \in Seq(Byte) /\ Len(Contents(b)) = b.used
         /\ \A k \in 1 .. b.used :
              Slot(b, k) \in Index /\ Contents(b)[k] = b.buff[Slot(b, k)]
<1>1. b.used \in Nat
  BY Heads
<1>2. AtMost(b.used, b.used) = b.used
  BY <1>1 DEF AtMost
<1> QED BY <1>1, <1>2, Peek DEF Contents

\* A write that fits appends its bytes: both memcpy calls hit free cells only.
LEMMA WriteAppends ==
  ASSUME NEW b, RingOK(b), NEW src \in Seq(Byte), Fits(b, src)
  PROVE  /\ RingOK(write_ringbuff(b, src))
         /\ Contents(write_ringbuff(b, src)) = Contents(b) \o src
<1> DEFINE c == write_ringbuff(b, src)
           n == Len(src)
           first == AtMost(Capacity - b.writehead, n)
<1>1. /\ Capacity \in Nat /\ Capacity >= 1
      /\ b.readhead \in Nat /\ b.readhead < Capacity
      /\ b.used \in Nat /\ b.used <= Capacity /\ b.buff \in [Index -> Byte]
      /\ b.writehead = Wrap(b.readhead + b.used)
  BY Heads
<1>2. b.writehead \in Nat /\ b.writehead < Capacity
  BY Heads
<1>3. n \in Nat /\ n <= Capacity - b.used /\ b.used + n <= Capacity
  <2>1. n \in Nat
    OBVIOUS
  <2> QED BY <1>1, <2>1 DEF Fits
<1>4. /\ c.buff = CopyIn(b, src) /\ c.readhead = b.readhead
      /\ c.writehead = (b.writehead + n) % Capacity /\ c.used = b.used + n
      /\ c = [buff |-> c.buff, readhead |-> c.readhead, writehead |-> c.writehead,
              used |-> c.used]
  BY DEF write_ringbuff
<1> HIDE DEF c
<1>5. \A k \in 1 .. n : src[k] \in Byte
  BY <1>3
<1> HIDE DEF n
<1>6. first \in Nat /\ first <= n /\ first <= Capacity - b.writehead
      /\ (first < n => first = Capacity - b.writehead)
  BY <1>1, <1>2, <1>3 DEF AtMost
<1>7. c.buff = [i \in Index |->
                  IF b.writehead <= i /\ i < b.writehead + first
                  THEN src[(i - b.writehead) + 1]
                  ELSE IF i < n - first THEN src[(first + i) + 1] ELSE b.buff[i]]
  BY <1>4 DEF CopyIn, n
<1> HIDE DEF first
<1>8. RingOK(c)
  <2>1. c.buff \in [Index -> Byte]
    <3>1. ASSUME NEW i \in Index
          PROVE  c.buff[i] \in Byte
      <4>1. i \in Nat /\ i < Capacity
        BY <1>1 DEF Index
      <4>2. CASE b.writehead <= i /\ i < b.writehead + first
        <5>1. (i - b.writehead) + 1 \in 1 .. n
          BY <1>2, <1>3, <1>6, <4>1, <4>2
        <5> QED BY <1>5, <1>7, <4>2, <5>1
      <4>3. CASE ~ (b.writehead <= i /\ i < b.writehead + first) /\ i < n - first
        <5>1. (first + i) + 1 \in 1 .. n
          BY <1>3, <1>6, <4>1, <4>3
        <5> QED BY <1>5, <1>7, <4>3, <5>1
      <4>4. CASE ~ (b.writehead <= i /\ i < b.writehead + first) /\ ~ (i < n - first)
        BY <1>1, <1>7, <4>4
      <4> QED BY <4>2, <4>3, <4>4
    <3> QED BY <1>7, <3>1
  <2>2. /\ c.readhead \in Index /\ c.used \in 0 .. Capacity
    BY <1>1, <1>3, <1>4 DEF Index
  <2>3. c.writehead \in Index
    <3>1. n <= Capacity
      BY <1>1, <1>3
    <3>2. (b.writehead + n) % Capacity \in Index
      BY <1>2, <1>3, <3>1, Move
    <3> QED BY <1>4, <3>2
  <2>4. c.writehead = (c.readhead + c.used) % Capacity
    <3>1. n <= Capacity /\ b.used + n \in Nat
      BY <1>1, <1>3
    <3>2. c.writehead = Wrap(b.writehead + n)
      BY <1>2, <1>3, <1>4, <3>1, Move
    <3>3. (b.readhead + (b.used + n)) % Capacity = Wrap(b.readhead + (b.used + n))
      BY <1>1, <1>3, <3>1, Move
    <3>4. Wrap(Wrap(b.readhead + b.used) + n) = Wrap(b.readhead + (b.used + n))
      BY <1>1, <1>3, MoveTwice
    <3> QED BY <1>1, <1>4, <3>2, <3>3, <3>4
  <2>5. c \in Ring
    BY <1>4, <2>1, <2>2, <2>3 DEF Ring
  <2> QED BY <2>4, <2>5 DEF RingOK
<1>9. /\ Contents(c) \in Seq(Byte) /\ Len(Contents(c)) = b.used + n
      /\ \A k \in 1 .. b.used + n :
           Slot(c, k) \in Index /\ Contents(c)[k] = c.buff[Slot(c, k)]
  BY <1>4, <1>8, Holds
<1>10. /\ Contents(b) \in Seq(Byte) /\ Len(Contents(b)) = b.used
       /\ \A k \in 1 .. b.used : Contents(b)[k] = b.buff[Slot(b, k)]
  BY Holds
<1>11. /\ Contents(b) \o src \in Seq(Byte) /\ Len(Contents(b) \o src) = b.used + n
       /\ \A k \in 1 .. b.used + n :
            (Contents(b) \o src)[k] = IF k <= b.used THEN Contents(b)[k] ELSE src[k - b.used]
  <2>1. /\ Contents(b) \o src \in Seq(Byte)
        /\ Len(Contents(b) \o src) = Len(Contents(b)) + Len(src)
        /\ \A k \in 1 .. Len(Contents(b)) + Len(src) :
             (Contents(b) \o src)[k] =
               IF k <= Len(Contents(b)) THEN Contents(b)[k] ELSE src[k - Len(Contents(b))]
    BY <1>10, ConcatProperties, Zenon
  <2> QED BY <1>10, <2>1 DEF n
<1>12. ASSUME NEW k \in 1 .. b.used + n
       PROVE  Contents(c)[k] = (Contents(b) \o src)[k]
  <2>1. k \in Nat /\ 1 <= k /\ k <= b.used + n
    BY <1>1, <1>3
  <2>2. Slot(c, k) = Slot(b, k) /\ Slot(b, k) \in Index
    BY <1>4, <1>9 DEF Slot, Wrap
  <2>3. Slot(b, k) \in Nat /\ Slot(b, k) = Wrap(b.readhead + (k - 1))
    BY <1>1, <2>2 DEF Slot, Index
  <2>4. CASE k <= b.used
    <3>1. /\ ~ (b.writehead <= Slot(b, k) /\ Slot(b, k) < b.writehead + first)
          /\ ~ (Slot(b, k) < n - first)
      BY <1>1, <1>2, <1>3, <1>6, <2>1, <2>3, <2>4, KeptCell
    <3>2. c.buff[Slot(b, k)] = b.buff[Slot(b, k)]
      BY <1>7, <2>2, <3>1
    <3>3. k \in 1 .. b.used
      BY <1>1, <2>1, <2>4
    <3> QED BY <1>9, <1>10, <1>11, <2>2, <2>4, <3>2, <3>3
  <2>5. CASE ~ (k <= b.used)
    <3>1. /\ b.writehead <= Slot(b, k) /\ Slot(b, k) < b.writehead + first =>
               (Slot(b, k) - b.writehead) + 1 = k - b.used
          /\ ~ (b.writehead <= Slot(b, k) /\ Slot(b, k) < b.writehead + first) =>
               Slot(b, k) < n - first /\ (first + Slot(b, k)) + 1 = k - b.used
      <4>1. b.used < k
        BY <1>1, <2>1, <2>5
      <4>2. /\ b.readhead \in Nat /\ b.used \in Nat /\ b.writehead \in Nat /\ n \in Nat
            /\ first \in Nat /\ k \in Nat /\ Slot(b, k) \in Nat
        BY <1>1, <1>2, <1>3, <1>6, <2>1, <2>3
      <4>3. /\ b.readhead < Capacity /\ b.used + n <= Capacity
            /\ b.writehead = Wrap(b.readhead + b.used) /\ first <= n
            /\ first <= Capacity - b.writehead /\ (first < n => first = Capacity - b.writehead)
            /\ k <= b.used + n /\ Slot(b, k) = Wrap(b.readhead + (k - 1))
        BY <1>1, <1>3, <1>6, <2>1, <2>3
      <4> DEFINE i == Slot(b, k)
                 r == b.readhead
                 u == b.used
                 w == b.writehead
      <4>4. /\ r \in Nat /\ u \in Nat /\ w \in Nat /\ i \in Nat /\ r < Capacity
            /\ u + n <= Capacity /\ w = Wrap(r + u) /\ first <= n /\ first <= Capacity - w
            /\ (first < n => first = Capacity - w) /\ u < k /\ k <= u + n
            /\ i = Wrap(r + (k - 1))
        BY <4>1, <4>2, <4>3
      <4> HIDE DEF i, r, u, w
      <4>5. /\ w <= i /\ i < w + first => (i - w) + 1 = k - u
            /\ ~ (w <= i /\ i < w + first) => i < n - first /\ (first + i) + 1 = k - u
        BY <4>2, <4>4, CapacityAssumption DEF Wrap
      <4> QED BY <4>5 DEF i, r, u, w
    <3>2. c.buff[Slot(b, k)] = src[k - b.used]
      BY <1>7, <2>2, <3>1
    <3> QED BY <1>9, <1>11, <2>2, <2>5, <3>2
  <2> QED BY <2>4, <2>5
<1>13. Contents(c) = Contents(b) \o src
  BY <1>9, <1>11, <1>12, SeqEqual
<1> QED BY <1>8, <1>13 DEF c

\* consume_ringbuff drops the oldest bytes and keeps the others in order.
LEMMA ConsumeDrops ==
  ASSUME NEW b, RingOK(b), NEW n \in Nat, n <= b.used
  PROVE  /\ RingOK(consume_ringbuff(b, n))
         /\ consume_ringbuff(b, n).used = b.used - n
         /\ Contents(consume_ringbuff(b, n)) = SubSeq(Contents(b), n + 1, b.used)
<1> DEFINE c == consume_ringbuff(b, n)
           s == SubSeq(Contents(b), n + 1, b.used)
<1>1. /\ Capacity \in Nat /\ Capacity >= 1
      /\ b.readhead \in Nat /\ b.readhead < Capacity
      /\ b.used \in Nat /\ b.used <= Capacity /\ b.buff \in [Index -> Byte]
      /\ b.writehead = Wrap(b.readhead + b.used)
  BY Heads
<1>2. AtMost(n, b.used) = n
  BY <1>1 DEF AtMost
<1>3. c = [b EXCEPT !.readhead = (b.readhead + n) % Capacity, !.used = b.used - n]
  BY <1>2 DEF consume_ringbuff
<1>4. /\ c.buff = b.buff /\ c.readhead = (b.readhead + n) % Capacity
      /\ c.writehead = b.writehead /\ c.used = b.used - n
  BY <1>3 DEF RingOK, Ring
<1>5. /\ (b.readhead + n) % Capacity \in Index
      /\ c.readhead = Wrap(b.readhead + n)
  <2>1. n <= Capacity
    BY <1>1
  <2> QED BY <1>1, <1>4, <2>1, Move
<1>6. b.used - n \in 0 .. Capacity /\ b.used - n \in Nat
  BY <1>1
<1>7. RingOK(c)
  <2>1. c \in Ring
    BY <1>3, <1>5, <1>6 DEF RingOK, Ring
  <2>2. c.readhead \in Nat /\ c.readhead < Capacity
    BY <1>1, <1>4, <1>5 DEF Index
  <2>3. (c.readhead + c.used) % Capacity = Wrap(c.readhead + c.used)
    <3>1. c.used \in Nat /\ c.used <= Capacity
      BY <1>1, <1>4, <1>6
    <3> QED BY <2>2, <3>1, Move
  <2>4. Wrap(Wrap(b.readhead + n) + (b.used - n)) = Wrap(b.readhead + b.used)
    <3>1. n + (b.used - n) = b.used
      BY <1>1
    <3> QED BY <1>1, <1>6, <3>1, MoveTwice
  <2>5. c.writehead = (c.readhead + c.used) % Capacity
    BY <1>1, <1>4, <1>5, <2>3, <2>4
  <2> QED BY <2>1, <2>5 DEF RingOK
<1> HIDE DEF c
<1>8. /\ Contents(c) \in Seq(Byte) /\ Len(Contents(c)) = b.used - n
      /\ \A k \in 1 .. b.used - n : Contents(c)[k] = b.buff[Slot(c, k)]
  BY <1>4, <1>7, Holds
<1>9. /\ Contents(b) \in Seq(Byte) /\ Len(Contents(b)) = b.used
      /\ \A k \in 1 .. b.used : Contents(b)[k] = b.buff[Slot(b, k)] /\ Contents(b)[k] \in Byte
  <2>1. Contents(b) \in Seq(Byte) /\ Len(Contents(b)) = b.used
    BY Holds
  <2>2. \A k \in 1 .. b.used : Contents(b)[k] = b.buff[Slot(b, k)]
    BY Holds
  <2>3. \A k \in 1 .. b.used : Contents(b)[k] \in Byte
    BY <2>1, ElementOfSeq
  <2> QED BY <2>1, <2>2, <2>3
<1>10. s \in Seq(Byte) /\ Len(s) = b.used - n
       /\ \A k \in 1 .. b.used - n : s[k] = Contents(b)[k + n]
  <2>1. n + 1 \in Int /\ b.used \in Int
    BY <1>1
  <2>2. \A i \in n + 1 .. b.used : Contents(b)[i] \in Byte
    BY <1>1, <1>9
  <2>3. /\ s \in Seq(Byte)
        /\ Len(s) = IF n + 1 <= b.used THEN b.used - (n + 1) + 1 ELSE 0
        /\ \A i \in 1 .. b.used - (n + 1) + 1 : s[i] = Contents(b)[(n + 1) + i - 1]
    BY <2>1, <2>2, SubSeqProperties
  <2> HIDE DEF s
  <2>4. Len(s) = b.used - n
    BY <1>1, <2>3
  <2>5. ASSUME NEW k \in 1 .. b.used - n
        PROVE  s[k] = Contents(b)[k + n]
    <3>1. k \in 1 .. b.used - (n + 1) + 1 /\ (n + 1) + k - 1 = k + n
      BY <1>1
    <3> QED BY <2>3, <3>1
  <2> QED BY <2>3, <2>4, <2>5
<1> HIDE DEF s
<1>11. ASSUME NEW k \in 1 .. b.used - n
       PROVE  Contents(c)[k] = s[k]
  <2>1. k \in Nat /\ 1 <= k /\ k <= b.used - n /\ k + n \in 1 .. b.used
    BY <1>1, <1>6
  <2>2. Slot(c, k) = Slot(b, k + n)
    <3> DEFINE j == k - 1
    <3>1. j \in Nat /\ n + j <= Capacity /\ n + j = (k + n) - 1
      BY <1>1, <2>1
    <3>2. Wrap(Wrap(b.readhead + n) + j) = Wrap(b.readhead + (n + j))
      <4> HIDE DEF j
      <4> QED BY <1>1, <3>1, MoveTwice
    <3> QED BY <1>1, <1>5, <3>1, <3>2 DEF Slot
  <2> QED BY <1>8, <1>9, <1>10, <2>1, <2>2
<1>12. Contents(c) = s
  BY <1>8, <1>10, <1>11, SeqEqual
<1> QED BY <1>4, <1>7, <1>12 DEF c, s
-----------------------------------------------------------------------------
(* The invariant and the refinement, action by action.                     *)

\* The first bytes of what is copied out are the first bytes held.
LEMMA Prefix ==
  ASSUME NEW b, RingOK(b), NEW m \in Nat, NEW n \in Nat, n <= m, n <= b.used
  PROVE  /\ SubSeq(peek_ringbuff(b, m), 1, n) \in Seq(Byte)
         /\ SubSeq(peek_ringbuff(b, m), 1, n) = SubSeq(Contents(b), 1, n)
<1> DEFINE p == peek_ringbuff(b, m)
           q == Contents(b)
<1>1. b.used \in Nat
  BY Heads
<1>2. \A i \in 1 .. n : i \in 1 .. AtMost(m, b.used) /\ i \in 1 .. b.used
  BY <1>1 DEF AtMost
<1>3. /\ p \in Seq(Byte) /\ Len(p) = AtMost(m, b.used)
      /\ \A i \in 1 .. AtMost(m, b.used) : p[i] = b.buff[Slot(b, i)]
  BY Peek
<1>4. q \in Seq(Byte) /\ Len(q) = b.used /\ \A i \in 1 .. b.used : q[i] = b.buff[Slot(b, i)]
  BY Holds
<1> HIDE DEF p, q
<1>5. \A i \in 1 .. n : p[i] \in Byte /\ q[i] = p[i]
  BY <1>2, <1>3, <1>4, ElementOfSeq
<1>6. /\ SubSeq(p, 1, n) \in Seq(Byte) /\ Len(SubSeq(p, 1, n)) = n
      /\ \A i \in 1 .. n : SubSeq(p, 1, n)[i] = p[i]
  BY <1>5, SubSeqProperties
<1>7. /\ SubSeq(q, 1, n) \in Seq(Byte) /\ Len(SubSeq(q, 1, n)) = n
      /\ \A i \in 1 .. n : SubSeq(q, 1, n)[i] = q[i]
  BY <1>5, SubSeqProperties
<1>8. SubSeq(p, 1, n) = SubSeq(q, 1, n)
  BY <1>5, <1>6, <1>7, SeqEqual
<1> QED BY <1>6, <1>8 DEF p, q

\* A fresh ring is consistent and holds nothing.
LEMMA InitRing ==
  ASSUME Init
  PROVE  RingInv /\ Queue!Init
<1>1. Capacity \in Nat \ {0}
  BY CapacityAssumption
<1>2. rb.readhead = 0 /\ rb.writehead = 0 /\ rb.used = 0 /\ rb \in Ring
  BY <1>1 DEF Init, Ring, Index
<1>3. 0 % Capacity = 0
  BY <1>1, ModSmall
<1>4. RingOK(rb)
  BY <1>2, <1>3 DEF RingOK
<1>5. ret = 0 /\ got = << >>
  BY DEF Init
<1>6. RingInv
  BY <1>1, <1>4, <1>5 DEF RingInv
<1>7. peek_ringbuff(rb, rb.used) \in Seq(Byte) /\ Len(peek_ringbuff(rb, rb.used)) = 0
  BY <1>2, <1>4, Holds DEF Contents
<1>8. peek_ringbuff(rb, rb.used) = << >>
  BY <1>7, EmptySeq
<1> QED BY <1>5, <1>6, <1>8 DEF Queue!Init

\* write_ringbuff is the queue's Put: all of the source or nothing.
LEMMA WriteStep ==
  ASSUME RingInv, NEW src \in Sources, Write(src)
  PROVE  RingInv' /\ Queue!Put(src)
<1>1. src \in Seq(Byte) /\ RingOK(rb) /\ Len(src) \in Nat
  BY SourcesAssumption DEF RingInv
<1>2. rb.used \in Nat /\ rb.used <= Capacity /\ Capacity \in Nat
  BY <1>1, Heads
<1>3. Contents(rb) \in Seq(Byte) /\ Len(Contents(rb)) = rb.used
  BY <1>1, Holds
<1>4. Fits(rb, src) <=> Len(Contents(rb)) + Len(src) <= Capacity
  BY <1>1, <1>2, <1>3 DEF Fits
<1>5. got' = << >> /\ << >> \in Seq(Byte)
  BY EmptySeq DEF Write
<1>6. CASE Fits(rb, src)
  <2>1. rb' = write_ringbuff(rb, src) /\ ret' = Len(src)
    BY <1>6 DEF Write
  <2>2. RingOK(rb') /\ Contents(rb') = Contents(rb) \o src
    BY <1>1, <1>6, <2>1, WriteAppends
  <2>3. Len(src) \in 0 .. Capacity
    BY <1>1, <1>2, <1>6 DEF Fits
  <2> QED BY <1>4, <1>5, <1>6, <2>1, <2>2, <2>3 DEF RingInv, Queue!Put, Contents
<1>7. CASE ~ Fits(rb, src)
  <2>1. rb' = rb /\ ret' = 0
    BY <1>7 DEF Write, write_ringbuff
  <2>2. 0 \in 0 .. Capacity
    BY <1>2
  <2> QED BY <1>1, <1>4, <1>5, <1>7, <2>1, <2>2 DEF RingInv, Queue!Put, Contents
<1> QED BY <1>6, <1>7

\* Peek, send and consume are the queue's Get.
LEMMA ReadStep ==
  ASSUME RingInv, NEW m \in 0 .. Capacity, NEW k \in 0 .. Capacity, Read(m, k)
  PROVE  RingInv' /\ Queue!Get(m, k)
<1> DEFINE n == AtMost(k, AtMost(m, rb.used))
<1>1. RingOK(rb)
  BY DEF RingInv
<1>2. rb.used \in Nat /\ rb.used <= Capacity /\ Capacity \in Nat
  BY <1>1, Heads
<1>3. m \in Nat /\ k \in Nat
  BY <1>2
<1>4. n \in Nat /\ n <= m /\ n <= rb.used
  BY <1>2, <1>3 DEF AtMost
<1>5. Len(peek_ringbuff(rb, m)) = AtMost(m, rb.used)
  BY <1>1, <1>3, Peek
<1>6. /\ got' = SubSeq(peek_ringbuff(rb, m), 1, n)
      /\ rb' = consume_ringbuff(rb, n) /\ ret' = n
  BY <1>5 DEF Read
<1>7. n = Queue!AtMost(k, Queue!AtMost(m, rb.used))
  BY DEF AtMost, Queue!AtMost
<1> HIDE DEF n
<1>8. RingOK(rb') /\ Contents(rb') = SubSeq(Contents(rb), n + 1, rb.used)
  BY <1>1, <1>4, <1>6, ConsumeDrops
<1>9. got' \in Seq(Byte) /\ got' = SubSeq(Contents(rb), 1, n)
  BY <1>1, <1>3, <1>4, <1>6, Prefix
<1>10. Len(Contents(rb)) = rb.used
  BY <1>1, Holds
<1>11. ret' \in 0 .. Capacity
  BY <1>2, <1>4, <1>6
<1> QED BY <1>6, <1>7, <1>8, <1>9, <1>10, <1>11 DEF RingInv, Queue!Get, Contents

\* Clearing the handshake's input is the queue's Clear.
LEMMA DiscardStep ==
  ASSUME RingInv, Discard
  PROVE  RingInv' /\ Queue!Clear
<1>1. RingOK(rb)
  BY DEF RingInv
<1>2. rb.used \in Nat /\ rb.used <= Capacity /\ Capacity \in Nat
  BY <1>1, Heads
<1>3. AtMost(Capacity, rb.used) = rb.used /\ AtMost(rb.used, rb.used) = rb.used
  BY <1>2 DEF AtMost
<1>4. rb' = consume_ringbuff(rb, rb.used) /\ ret' = rb.used /\ got' = << >>
  BY <1>3 DEF Discard, consume_ringbuff
<1>5. RingOK(rb') /\ Contents(rb') = SubSeq(Contents(rb), rb.used + 1, rb.used)
  BY <1>1, <1>2, <1>4, ConsumeDrops
<1>6. Contents(rb') = << >>
  BY <1>2, <1>5, SubSeqEmpty
<1>7. Len(Contents(rb)) = rb.used
  BY <1>1, Holds
<1> QED BY <1>2, <1>4, <1>5, <1>6, <1>7, EmptySeq DEF RingInv, Queue!Clear, Contents

\* Every step keeps the invariant and is a step of the queue, or none.
LEMMA Step ==
  ASSUME RingInv, [Next]_vars
  PROVE  RingInv' /\ [Queue!Next]_(Queue!vars)
<1>1. ASSUME NEW src \in Sources, Write(src)
      PROVE  RingInv' /\ Queue!Next
  BY <1>1, WriteStep DEF Queue!Next
<1>2. ASSUME NEW m \in 0 .. Capacity, NEW k \in 0 .. Capacity, Read(m, k)
      PROVE  RingInv' /\ Queue!Next
  BY <1>2, ReadStep DEF Queue!Next
<1>3. CASE Discard
  BY <1>3, DiscardStep DEF Queue!Next
<1>4. CASE UNCHANGED vars
  BY <1>4 DEF vars, RingInv, Queue!vars
<1> QED BY <1>1, <1>2, <1>3, <1>4 DEF Next
-----------------------------------------------------------------------------
(* The theorems.                                                           *)

\* The inductive invariant holds of every behaviour of a ring.
THEOREM RingInvariance == Spec => []RingInv
<1>1. Init => RingInv
  BY InitRing
<1>2. RingInv /\ [Next]_vars => RingInv'
  BY Step
<1> QED BY <1>1, <1>2, PTL DEF Spec

\* The heads of a ring stay in the array and the count within the capacity,
\* whatever is written, read or refused.
THEOREM RingTypeCorrect == Spec => []TypeOK
<1>1. RingInv => TypeOK
  BY DEF RingInv, RingOK, Ring, TypeOK
<1> QED BY <1>1, RingInvariance, PTL

\* The distance between the heads is the number of bytes held.
THEOREM HeadsAlwaysAgree == Spec => []HeadsAgree
<1>1. RingInv => HeadsAgree
  BY DEF RingInv, RingOK, HeadsAgree
<1> QED BY <1>1, RingInvariance, PTL

\* A Ringbuff of any capacity is a FIFO: write_ringbuff, peek_ringbuff and
\* consume_ringbuff lose, repeat and reorder no byte.
THEOREM RingIsQueue == Spec => IsQueue
<1>1. Init => Queue!Init
  BY InitRing
<1>2. RingInv /\ [Next]_vars => [Queue!Next]_(Queue!vars)
  BY Step
<1> QED BY <1>1, <1>2, RingInvariance, PTL DEF Spec, IsQueue, Queue!Spec
============================================================================
