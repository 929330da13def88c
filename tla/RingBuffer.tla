---------------------------- MODULE RingBuffer -----------------------------
(***************************************************************************)
(* The Ringbuff of src/src/epoll_data.c: a fixed array with a read head, a *)
(* write head and a count, both memcpy calls of a wrapping copy included.  *)
(* Every session owns two of them (client_out and server_out).             *)
(***************************************************************************)
EXTENDS Naturals, Sequences

CONSTANTS Byte, Capacity, Sources

ASSUME CapacityAssumption == Capacity \in Nat \ {0}
ASSUME SourcesAssumption == Sources \subseteq Seq(Byte)
ASSUME ByteAssumption == Byte # {}

VARIABLES
  rb,   \* the struct Ringbuff
  ret,  \* the value the last call returned
  got   \* the bytes handed to send() and then consumed by the last read

vars == <<rb, ret, got>>

Index == 0 .. Capacity - 1

AtMost(m, n) == IF m < n THEN m ELSE n
-----------------------------------------------------------------------------
(* The three functions.  srclen > free: no partial write, 0 is returned.   *)

\* Variant: one byte too many.
FitsOver(b, src) == Len(src) <= (Capacity + 1) - b.used

Fits(b, src) == Len(src) <= Capacity - b.used

\* The array after the (at most two) memcpy calls of a write that fits.
CopyIn(b, src) ==
  LET first_write == AtMost(Capacity - b.writehead, Len(src))
      second_write == Len(src) - first_write
  IN  [i \in Index |->
        IF b.writehead <= i /\ i < b.writehead + first_write
        THEN src[(i - b.writehead) + 1]
        ELSE IF i < second_write THEN src[(first_write + i) + 1] ELSE b.buff[i]]

write_ringbuff(b, src) ==
  IF Fits(b, src)
  THEN [buff |-> CopyIn(b, src),
        readhead |-> b.readhead,
        writehead |-> (b.writehead + Len(src)) % Capacity,
        used |-> b.used + Len(src)]
  ELSE b

\* Variant: the second piece starts at the second cell.
peek_ringbuffLate(b, dstlen) ==
  LET len == AtMost(dstlen, b.used)
      first_read == AtMost(Capacity - b.readhead, len)
  IN  [k \in 1 .. len |->
        IF k <= first_read THEN b.buff[b.readhead + (k - 1)]
                           ELSE b.buff[(k - first_read) % Capacity]]

\* The bytes peek_ringbuff copies out: at most dstlen, in one or two pieces.
peek_ringbuff(b, dstlen) ==
  LET len == AtMost(dstlen, b.used)
      first_read == AtMost(Capacity - b.readhead, len)
  IN  [k \in 1 .. len |->
        IF k <= first_read THEN b.buff[b.readhead + (k - 1)]
                           ELSE b.buff[(k - first_read) - 1]]

\* Variant: the head moves by what was asked for.
consume_ringbuffAsked(b, consume) ==
  [b EXCEPT !.readhead = (b.readhead + consume) % Capacity,
            !.used = b.used - AtMost(consume, b.used)]

consume_ringbuff(b, consume) ==
  LET n == AtMost(consume, b.used)
  IN  [b EXCEPT !.readhead = (b.readhead + n) % Capacity, !.used = b.used - n]
-----------------------------------------------------------------------------
\* The array comes from malloc: its first contents are whatever was there.
Init ==
  /\ rb \in [buff : [Index -> Byte], readhead : {0}, writehead : {0}, used : {0}]
  /\ ret = 0
  /\ got = << >>

Write(src) ==
  /\ rb' = write_ringbuff(rb, src)
  /\ ret' = IF Fits(rb, src) THEN Len(src) ELSE 0
  /\ got' = << >>

\* send_traffic, sendingmethod and sendingreply: peek at up to m bytes, offer
\* them to send(), which takes the first k, and consume those.
Read(m, k) ==
  LET peeked == peek_ringbuff(rb, m)
      n == AtMost(k, Len(peeked))
  IN  /\ got' = SubSeq(peeked, 1, n)
      /\ rb' = consume_ringbuff(rb, n)
      /\ ret' = n

\* init_connect, init_bind and init_udpa clear the handshake's input: they
\* consume a full capacity, whatever the buffer holds.
Discard ==
  /\ rb' = consume_ringbuff(rb, Capacity)
  /\ ret' = rb.used
  /\ got' = << >>

Next ==
  \/ \E src \in Sources : Write(src)
  \/ \E m, k \in 0 .. Capacity : Read(m, k)
  \/ Discard

Spec == Init /\ [][Next]_vars
-----------------------------------------------------------------------------
\* Every field stays in its range: no index of a memcpy leaves the array.
TypeOK ==
  /\ rb \in [buff : [Index -> Byte], readhead : Index, writehead : Index,
             used : 0 .. Capacity]
  /\ ret \in 0 .. Capacity
  /\ got \in Seq(Byte)

\* The two heads and the count, which different functions update, agree after
\* any mix of writes, reads, partial reads and refused writes: write_ringbuff
\* never moves the read head and consume_ringbuff never moves the write head,
\* yet the distance between them stays the number of bytes held.
HeadsAgree == rb.writehead = (rb.readhead + rb.used) % Capacity

\* A Ringbuff implements the FIFO of ByteQueue: what it holds, read from the
\* read head and around the end of the array, is the queue.  No byte is lost,
\* repeated or reordered by the two-piece copies of epoll_data.c.
Queue == INSTANCE ByteQueue WITH queue <- peek_ringbuff(rb, rb.used)
IsQueue == Queue!Spec
============================================================================
