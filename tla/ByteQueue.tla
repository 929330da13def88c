----------------------------- MODULE ByteQueue -----------------------------
(***************************************************************************)
(* What a Ringbuff promises to its users (docs/data_structures.md,         *)
(* "Ringbuff"): a FIFO of bytes of bounded size.  A write is taken whole   *)
(* or refused whole, and a reader gets the oldest bytes, in order, and     *)
(* removes only as many of them as it says.                                *)
(***************************************************************************)
EXTENDS Naturals, Sequences

CONSTANTS
  Byte,      \* the values a byte may have
  Capacity,  \* OUTBUFFSIZE
  Sources    \* the byte strings a caller may write

VARIABLES
  queue,     \* the bytes held, oldest first
  ret,       \* what the last call returned
  got        \* the bytes the last read removed

vars == <<queue, ret, got>>

AtMost(m, n) == IF m < n THEN m ELSE n

Init == queue = << >> /\ ret = 0 /\ got = << >>

\* All of src is accepted, or none of it.
Put(src) ==
  /\ IF Len(queue) + Len(src) <= Capacity
     THEN queue' = queue \o src /\ ret' = Len(src)
     ELSE queue' = queue /\ ret' = 0
  /\ got' = << >>

\* Look at up to m bytes, of which the first k are then removed.
Get(m, k) ==
  LET n == AtMost(k, AtMost(m, Len(queue)))
  IN  /\ got' = SubSeq(queue, 1, n)
      /\ queue' = SubSeq(queue, n + 1, Len(queue))
      /\ ret' = n

\* Everything held is dropped unread.
Clear == queue' = << >> /\ ret' = Len(queue) /\ got' = << >>

Next ==
  \/ \E src \in Sources : Put(src)
  \/ \E m, k \in 0 .. Capacity : Get(m, k)
  \/ Clear

Spec == Init /\ [][Next]_vars
============================================================================
