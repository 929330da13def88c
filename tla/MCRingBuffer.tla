--------------------------- MODULE MCRingBuffer ----------------------------
(* A small ring: every wrap-around, full, empty and refused case occurs.    *)
EXTENDS RingBuffer

CONSTANT MaxSource  \* the longest write, one more than the capacity

MCSources == UNION {[1 .. n -> Byte] : n \in 0 .. MaxSource}
============================================================================
