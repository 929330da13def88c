---------------------------- MODULE ResolverProofs --------------------------
(* No answer resumes a session that does not wait, and as long as nothing    *)
(* was dropped or misread each one that waits has its query under way: for   *)
(* any number of sessions, any names, any size of the pipes and any schedule *)
(* of the two threads.                                                       *)
(*                                                                           *)
(* A session's query is one unit, the first byte of its pointer: Once says   *)
(* that it is in at most one place, whatever becomes of the others.  That it *)
(* is not lost rests on the shape of every message in the pipe.              *)
EXTENDS Resolver, SequenceTheorems, FiniteSetTheorems, TLAPS

Ranges ==
    /\ state \in [Session -> {"WAITING_COMMAND", "ASYNC_DNS", "ANSWERED"}]
    /\ inp \in Seq(Unit) /\ outp \in Seq(Session)
    /\ pc \in {"ptr", "len", "name", "port", "lookup", "ended", "crashed"}
    /\ shared \in Session \cup {None, Wild} /\ name_len \in Nat
    /\ intact \in BOOLEAN

(* The query of s is at one place, and s waits for it.                       *)
Alone(s) ==
    /\ \A i, k \in Queued(s) : i = k
    /\ \A i, k \in Answered(s) : i = k
    /\ Queued(s) = {} \/ Answered(s) = {}
    /\ shared = s => Queued(s) = {} /\ Answered(s) = {}
    /\ Queued(s) # {} \/ shared = s \/ Answered(s) # {} => state[s] = "ASYNC_DNS"

Once == \A s \in Session : Alone(s)

(* A message of a name of n units begins at unit i, it is all there, and     *)
(* another one begins behind it or nothing.                                  *)
Whole(i, n) ==
    /\ i + PtrSize + n + 2 <= Len(inp) /\ inp[i + PtrSize].val = n
    /\ \A k \in 1..PtrSize : inp[i + k - 1] = Plain(inp[i].of, k)
    /\ \A k \in 2..PtrSize + n + 3 : inp[i + k - 1].at # 1
    /\ i + PtrSize + n + 2 = Len(inp) \/ inp[i + PtrSize + n + 3].at = 1

Framed == \A i \in 1..Len(inp) : inp[i].at = 1 => \E n \in Nat : Whole(i, n)

(* r more units of the message that is being read.                           *)
Left(r) ==
    /\ r <= Len(inp) /\ \A i \in 1..r : inp[i].at # 1
    /\ r = Len(inp) \/ inp[r + 1].at = 1

InStep ==
    /\ pc \in {"ptr", "len", "name", "port", "lookup"}
    /\ IF pc = "ptr" THEN shared = None ELSE shared \in Session
    /\ pc \in {"ptr", "lookup"} => Left(0)
    /\ pc = "len" => \E n \in Nat : Left(n + 3) /\ inp[1].val = n
    /\ pc = "name" => Left(name_len + 2)
    /\ pc = "port" => Left(2)

(* The query of a session that waits is somewhere.                           *)
Somewhere(s) == Queued(s) # {} \/ shared = s \/ Answered(s) # {}
Tracked == \A s \in Session : state[s] = "ASYNC_DNS" => Somewhere(s)

QueryInv == Ranges /\ Once /\ (intact => Framed /\ InStep /\ Tracked)
-----------------------------------------------------------------------------
LEMMA Sizes ==
    /\ PtrSize \in Nat /\ PtrSize >= 1 /\ GapAt = PtrSize + 1
    /\ Unset \notin Nat /\ None \notin Session /\ Wild \notin Session
    /\ Lens \subseteq Nat /\ Gaps \subseteq Nat /\ Byte \subseteq Nat
BY ResolverAssumption DEF GapAt

LEMMA PlainUnit ==
    ASSUME NEW s \in Session, NEW i \in Nat
    PROVE  /\ Plain(s, i) \in Unit
           /\ Plain(s, i).of = s /\ Plain(s, i).at = i /\ Plain(s, i).val = Unset
BY DEF Plain, Unit

(* The units of a message know their place, and the pointer comes first.     *)
Spelled(m, s, n, g) ==
    /\ m \in Seq(Unit) /\ Len(m) = PtrSize + n + 3
    /\ \A k \in 1..PtrSize : m[k] = Plain(s, k)
    /\ \A k \in 1..PtrSize + n + 3 : m[k].at = k
    /\ m[PtrSize + 1].val = g

LEMMA MessageUnits ==
    ASSUME NEW s \in Session, NEW n \in Nat, NEW g \in Nat
    PROVE  Spelled(Message(s, n, g), s, n, g)
<1> DEFINE u(i) == [of |-> s, at |-> i,
                    val |-> IF i = GapAt THEN g ELSE IF i = LenAt THEN n ELSE Unset]
           size == PtrSize + n + 3
<1>1. size \in Nat /\ PtrSize \in 0..size /\ PtrSize + 1 \in 1..size
    BY Sizes
<1>2. Message(s, n, g) = [i \in 1..size |-> u(i)]
    BY DEF Message, Plain
<1>3. \A i \in Nat : u(i) \in Unit
    BY DEF Unit
<1>4. \A k \in 1..PtrSize : u(k) = Plain(s, k)
    BY Sizes DEF Plain, LenAt
<1>5. /\ \A k \in 1..size : u(k).at = k
      /\ u(PtrSize + 1).val = g
    BY Sizes
<1> HIDE DEF u, size
<1>6. Message(s, n, g) \in Seq(Unit) /\ Len(Message(s, n, g)) = size
    BY <1>1, <1>2, <1>3, IsASeq
<1>7. \A k \in 1..size : Message(s, n, g)[k] = u(k)
    BY <1>2
<1>8. \A k \in 1..PtrSize : k \in 1..size
    BY <1>1, Sizes
<1> QED BY <1>1, <1>4, <1>5, <1>6, <1>7, <1>8 DEF size, Spelled

(* A read takes the first units and leaves the others.                       *)
Taking(S, q, n, k) ==
    /\ k = IF n <= Len(q) THEN n ELSE Len(q)
    /\ Len(ReadOf(q, n)) = k /\ \A i \in 1..k : ReadOf(q, n)[i] = q[i]
    /\ RestOf(q, n) \in Seq(S) /\ Len(RestOf(q, n)) = Len(q) - k
    /\ \A i \in 1..Len(q) - k : RestOf(q, n)[i] = q[i + k]

LEMMA Portion ==
    ASSUME NEW S, NEW q \in Seq(S), NEW n \in Nat
    PROVE  \E k \in 0..Len(q) : Taking(S, q, n, k)
<1> PICK l \in Nat : l = Len(q)
    OBVIOUS
<1> PICK k \in Nat : k = IF n <= l THEN n ELSE l
    OBVIOUS
<1>1. k <= l /\ k \in 0..l
    OBVIOUS
<1>2. ReadOf(q, n) = SubSeq(q, 1, k)
    BY DEF ReadOf
<1>3. \A i \in 1..l : q[i] \in S
    OBVIOUS
<1>4. Len(SubSeq(q, 1, k)) = k /\ \A i \in 1..k : SubSeq(q, 1, k)[i] = q[i]
    <2>1. \A i \in 1..k : q[i] \in S
        BY <1>1, <1>3
    <2> QED BY <2>1, SubSeqProperties
<1>5. RestOf(q, n) = SubSeq(q, k + 1, l)
    BY <1>2, <1>4 DEF RestOf
<1> DEFINE rest == SubSeq(q, k + 1, l)
<1>6. /\ rest \in Seq(S) /\ Len(rest) = IF k + 1 <= l THEN l - (k + 1) + 1 ELSE 0
      /\ \A i \in 1..l - (k + 1) + 1 : rest[i] = q[k + 1 + i - 1]
    <2> DEFINE m == k + 1
    <2>1. m \in Nat /\ m >= 1 /\ \A i \in m..l : q[i] \in S
        BY <1>3
    <2> HIDE DEF m
    <2>2. /\ SubSeq(q, m, l) \in Seq(S)
          /\ Len(SubSeq(q, m, l)) = IF m <= l THEN l - m + 1 ELSE 0
          /\ \A i \in 1..l - m + 1 : SubSeq(q, m, l)[i] = q[m + i - 1]
        BY <2>1, SubSeqProperties
    <2> QED BY <2>2 DEF m
<1> HIDE DEF rest
<1>7. Len(rest) = l - k
    <2>1. CASE k + 1 <= l
        <3>1. l - (k + 1) + 1 = l - k
            OBVIOUS
        <3> QED BY <1>6, <2>1, <3>1
    <2>2. CASE ~ (k + 1 <= l)
        <3>1. l - k = 0
            BY <1>1, <2>2
        <3> QED BY <1>6, <2>2, <3>1
    <2> QED BY <2>1, <2>2
<1>8. ASSUME NEW i \in 1..l - k
      PROVE  rest[i] = q[i + k]
    <2>1. i \in 1..l - (k + 1) + 1 /\ k + 1 + i - 1 = i + k
        BY <1>1
    <2> QED BY <1>6, <2>1
<1> QED BY <1>1, <1>2, <1>4, <1>5, <1>6, <1>7, <1>8 DEF rest, Taking

Consumed(k) ==
    /\ inp' \in Seq(Unit) /\ Len(inp') = Len(inp) - k
    /\ \A i \in 1..Len(inp) - k : inp'[i] = inp[i + k]

(* What a read leaves are units that were there before, in their order.      *)
LEMMA QueuedLater ==
    ASSUME Ranges, NEW k \in 0..Len(inp), Consumed(k), NEW s \in Session
    PROVE  /\ \A j \in Queued(s)' : j \in Nat /\ j >= 1 /\ j + k \in Queued(s)
           /\ \A j \in Queued(s) : j > k => j - k \in Queued(s)'
<1>1. Len(inp) \in Nat /\ DOMAIN inp = 1..Len(inp) /\ DOMAIN inp' = 1..Len(inp) - k
    BY DEF Ranges, Consumed
<1>2. ASSUME NEW j \in Queued(s)'
      PROVE  j \in Nat /\ j >= 1 /\ j + k \in Queued(s)
    <2>1. j \in 1..Len(inp) - k /\ inp'[j] = Plain(s, 1)
        BY <1>1 DEF Queued
    <2>2. j + k \in 1..Len(inp) /\ inp[j + k] = Plain(s, 1)
        BY <1>1, <2>1 DEF Consumed
    <2> QED BY <1>1, <2>1, <2>2 DEF Queued
<1>3. ASSUME NEW j \in Queued(s), j > k
      PROVE  j - k \in Queued(s)'
    <2>1. j \in 1..Len(inp) /\ inp[j] = Plain(s, 1)
        BY <1>1 DEF Queued
    <2>2. j - k \in 1..Len(inp) - k /\ (j - k) + k = j
        BY <1>1, <1>3, <2>1
    <2>3. inp'[j - k] = Plain(s, 1)
        BY <2>1, <2>2 DEF Consumed
    <2> QED BY <1>1, <2>2, <2>3 DEF Queued
<1> QED BY <1>2, <1>3

(* Reading anything but a pointer makes no query.                            *)
LEMMA OnceRead ==
    ASSUME Ranges, Once, NEW k \in 0..Len(inp), Consumed(k), UNCHANGED <<state, outp>>,
           shared' = shared \/ shared' \notin Session
    PROVE  Once'
<1> SUFFICES ASSUME NEW s \in Session
             PROVE  Alone(s)'
    BY DEF Once
<1>1. Alone(s)
    BY DEF Once
<1>2. Answered(s)' = Answered(s) /\ state' = state
    BY DEF Answered
<1>3. ASSUME NEW i \in Queued(s)', NEW j \in Queued(s)'
      PROVE  i = j
    <2>1. i \in Nat /\ j \in Nat /\ i + k \in Queued(s) /\ j + k \in Queued(s)
        BY QueuedLater
    <2>2. i + k = j + k
        BY <1>1, <2>1 DEF Alone
    <2> QED BY <2>1, <2>2
<1>4. Queued(s)' # {} => Queued(s) # {}
    BY QueuedLater
<1>5. shared' = s => shared = s
    OBVIOUS
<1> QED BY <1>1, <1>2, <1>3, <1>4, <1>5 DEF Alone

(* The places of a message that starts at i + k of l units, once the first   *)
(* k are gone.                                                               *)
LEMMA PlacesLater ==
    ASSUME NEW l \in Nat, NEW k \in Nat, NEW i \in Nat, NEW p \in Nat, NEW n \in Nat,
           i >= 1, p >= 1, i + k + p + n + 2 <= l
    PROVE  /\ i + p + n + 2 <= l - k
           /\ i + p \in 1..l - k /\ (i + p) + k = i + k + p
           /\ \A m \in 1..p + n + 3 :
                i + m - 1 \in 1..l - k /\ (i + m - 1) + k = i + k + m - 1
           /\ i + k + p + n + 2 # l =>
                /\ i + p + n + 3 \in 1..l - k
                /\ (i + p + n + 3) + k = i + k + p + n + 3
           /\ i + k + p + n + 2 = l => i + p + n + 2 = l - k
<1>1. i + p + n + 2 <= l - k
    OBVIOUS
<1>2. ASSUME NEW m \in 1..p + n + 3
      PROVE  i + m - 1 \in 1..l - k /\ (i + m - 1) + k = i + k + m - 1
    BY <1>1
<1>3. ASSUME i + k + p + n + 2 # l
      PROVE  i + p + n + 3 \in 1..l - k /\ (i + p + n + 3) + k = i + k + p + n + 3
    BY <1>3
<1>4. i + p \in 1..l - k /\ (i + p) + k = i + k + p
    BY <1>1
<1>5. i + k + p + n + 2 = l => i + p + n + 2 = l - k
    OBVIOUS
<1> QED BY <1>1, <1>2, <1>3, <1>4, <1>5

(* The messages behind what was read keep their shape.                       *)
LEMMA FramedRead ==
    ASSUME Ranges, Framed, NEW k \in 0..Len(inp), Consumed(k)
    PROVE  Framed'
<1> PICK l \in Nat : l = Len(inp)
    BY DEF Ranges
<1>1. Len(inp') = l - k /\ \A i \in 1..l - k : inp'[i] = inp[i + k]
    BY DEF Consumed
<1> SUFFICES ASSUME NEW i \in 1..l - k, inp'[i].at = 1
             PROVE  \E n \in Nat : Whole(i, n)'
    BY <1>1 DEF Framed
<1>2. i + k \in 1..Len(inp) /\ inp[i + k].at = 1
    BY <1>1
<1> PICK n \in Nat : Whole(i + k, n)
    BY <1>2 DEF Framed
<1>3. /\ i + k + PtrSize + n + 2 <= l /\ inp[i + k + PtrSize].val = n
      /\ \A m \in 1..PtrSize : inp[i + k + m - 1] = Plain(inp[i + k].of, m)
      /\ \A m \in 2..PtrSize + n + 3 : inp[i + k + m - 1].at # 1
      /\ i + k + PtrSize + n + 2 = l \/ inp[i + k + PtrSize + n + 3].at = 1
    BY DEF Whole
<1>8. /\ i + PtrSize + n + 2 <= l - k
      /\ i + PtrSize \in 1..l - k /\ (i + PtrSize) + k = i + k + PtrSize
      /\ \A m \in 1..PtrSize + n + 3 :
            i + m - 1 \in 1..l - k /\ (i + m - 1) + k = i + k + m - 1
      /\ i + k + PtrSize + n + 2 # l =>
            /\ i + PtrSize + n + 3 \in 1..l - k
            /\ (i + PtrSize + n + 3) + k = i + k + PtrSize + n + 3
      /\ i + k + PtrSize + n + 2 = l => i + PtrSize + n + 2 = l - k
    <2>1. i \in Nat /\ i >= 1 /\ k \in Nat
        OBVIOUS
    <2> PICK p \in Nat : p = PtrSize
        BY Sizes
    <2>2. p >= 1 /\ i + k + p + n + 2 <= l
        BY <1>3, Sizes
    <2> QED BY <2>1, <2>2, PlacesLater
<1>4. i + PtrSize + n + 2 <= l - k /\ inp'[i + PtrSize].val = n
    BY <1>1, <1>3, <1>8
<1>5. ASSUME NEW m \in 1..PtrSize
      PROVE  inp'[i + m - 1] = Plain(inp'[i].of, m)
    <2>1. m \in 1..PtrSize + n + 3
        BY Sizes
    <2> QED BY <1>1, <1>3, <1>8, <2>1
<1>6. ASSUME NEW m \in 2..PtrSize + n + 3
      PROVE  inp'[i + m - 1].at # 1
    <2>1. m \in 1..PtrSize + n + 3
        OBVIOUS
    <2> QED BY <1>1, <1>3, <1>8, <2>1
<1>7. i + PtrSize + n + 2 = l - k \/ inp'[i + PtrSize + n + 3].at = 1
    <2>1. CASE i + k + PtrSize + n + 2 = l
        BY <1>8, <2>1
    <2>2. CASE i + k + PtrSize + n + 2 # l
        BY <1>1, <1>3, <1>8, <2>2
    <2> QED BY <2>1, <2>2
<1> QED BY <1>1, <1>4, <1>5, <1>6, <1>7 DEF Whole

LEMMA LeftRead ==
    ASSUME Ranges, NEW r \in Nat, Left(r), NEW k \in 0..r, Consumed(k)
    PROVE  Left(r - k)'
<1> PICK l \in Nat : l = Len(inp)
    BY DEF Ranges
<1>1. Len(inp') = l - k /\ \A i \in 1..l - k : inp'[i] = inp[i + k]
    BY DEF Consumed
<1>2. r <= l /\ (\A i \in 1..r : inp[i].at # 1) /\ (r = l \/ inp[r + 1].at = 1)
    BY DEF Left
<1>3. ASSUME NEW i \in 1..r - k
      PROVE  inp'[i].at # 1
    <2>1. i \in 1..l - k /\ i + k \in 1..r
        BY <1>2
    <2> QED BY <1>1, <1>2, <2>1
<1>4. r - k = l - k \/ inp'[(r - k) + 1].at = 1
    <2>1. CASE r = l
        BY <2>1
    <2>2. CASE r # l
        <3>1. (r - k) + 1 \in 1..l - k /\ ((r - k) + 1) + k = r + 1
            BY <1>2, <2>2
        <3> QED BY <1>1, <1>2, <2>2, <3>1
    <2> QED BY <2>1, <2>2
<1>5. r - k <= l - k
    BY <1>2
<1> QED BY <1>1, <1>3, <1>4, <1>5 DEF Left
-----------------------------------------------------------------------------
Appended(s, n, g) == inp' = inp \o Message(s, n, g)

(* A write puts a message behind the last.                                   *)
Behind(l, s, n, g) ==
    /\ inp' \in Seq(Unit) /\ Len(inp') = l + PtrSize + n + 3
    /\ \A i \in 1..l : inp'[i] = inp[i]
    /\ \A k \in 1..PtrSize : inp'[l + k] = Plain(s, k)
    /\ \A k \in 1..PtrSize + n + 3 : inp'[l + k].at = k
    /\ inp'[l + PtrSize + 1].val = g

LEMMA UnitsWritten ==
    ASSUME Ranges, NEW s \in Session, NEW n \in Nat, NEW g \in Nat, Appended(s, n, g),
           NEW l \in Nat, l = Len(inp)
    PROVE  Behind(l, s, n, g)
<1> DEFINE m == Message(s, n, g)
           size == PtrSize + n + 3
<1>1. /\ m \in Seq(Unit) /\ Len(m) = size /\ size \in Nat /\ size >= PtrSize + 1
      /\ \A k \in 1..PtrSize : m[k] = Plain(s, k)
      /\ \A k \in 1..size : m[k].at = k
      /\ m[PtrSize + 1].val = g
    <2>1. Spelled(m, s, n, g)
        BY MessageUnits
    <2>2. size \in Nat /\ size >= PtrSize + 1
        BY Sizes
    <2> QED BY <2>1, <2>2 DEF Spelled
<1>2. l + size = l + PtrSize + n + 3 /\ l + (PtrSize + 1) = l + PtrSize + 1
    BY Sizes
<1>3. \A k \in 1..PtrSize : k \in 1..size
    BY <1>1, Sizes
<1>4. PtrSize + 1 \in 1..size
    BY <1>1, Sizes
<1> HIDE DEF m, size
<1>5. /\ inp \o m \in Seq(Unit) /\ Len(inp \o m) = l + size
      /\ \A i \in 1..l + size : (inp \o m)[i] = IF i <= l THEN inp[i] ELSE m[i - l]
    <2>1. /\ inp \o m \in Seq(Unit) /\ Len(inp \o m) = Len(inp) + Len(m)
          /\ \A i \in 1..Len(inp) + Len(m) :
                (inp \o m)[i] = IF i <= Len(inp) THEN inp[i] ELSE m[i - Len(inp)]
        BY <1>1, ConcatProperties DEF Ranges
    <2> QED BY <1>1, <2>1
<1>6. inp' = inp \o m
    BY DEF Appended, m
<1>7. \A i \in 1..l : inp'[i] = inp[i]
    <2>1. \A i \in 1..l : i \in 1..l + size /\ i <= l
        BY <1>1
    <2> QED BY <1>5, <1>6, <2>1
<1>8. \A k \in 1..size : inp'[l + k] = m[k]
    <2>1. \A k \in 1..size : l + k \in 1..l + size /\ ~ (l + k <= l) /\ (l + k) - l = k
        BY <1>1
    <2> QED BY <1>5, <1>6, <2>1
<1>9. inp'[l + (PtrSize + 1)].val = g
    BY <1>1, <1>4, <1>8
<1>10. /\ \A k \in 1..PtrSize : inp'[l + k] = Plain(s, k)
       /\ \A k \in 1..size : inp'[l + k].at = k
    BY <1>1, <1>3, <1>8
<1> QED BY <1>2, <1>5, <1>6, <1>7, <1>9, <1>10 DEF size, Behind

(* It makes one query, of its session.                                       *)
LEMMA QueuedWritten ==
    ASSUME Ranges, NEW s \in Session, NEW n \in Nat, NEW g \in Nat, Appended(s, n, g),
           NEW t \in Session
    PROVE  /\ Queued(t) \subseteq Queued(t)'
           /\ t # s => Queued(t)' = Queued(t)
           /\ Queued(s)' = Queued(s) \cup {Len(inp) + 1}
<1> PICK l \in Nat : l = Len(inp)
    BY DEF Ranges
<1> PICK size \in Nat : size = PtrSize + n + 3
    BY Sizes
<1>1. /\ inp' \in Seq(Unit) /\ Len(inp') = l + size
      /\ \A i \in 1..l : inp'[i] = inp[i]
      /\ inp'[l + 1] = Plain(s, 1)
      /\ \A k \in 1..size : inp'[l + k].at = k
    <2>1. l + PtrSize + n + 3 = l + size /\ 1 \in 1..PtrSize
        BY Sizes
    <2>2. Behind(l, s, n, g)
        BY UnitsWritten
    <2> QED BY <2>1, <2>2 DEF Behind
<1>2. DOMAIN inp = 1..l /\ DOMAIN inp' = 1..l + size /\ size >= 4
    <2>1. size >= 4
        BY Sizes
    <2> QED BY <1>1, <2>1 DEF Ranges
<1>3. ASSUME NEW r \in Session, NEW i \in Queued(r)', i \notin Queued(r)
      PROVE  r = s /\ i = l + 1
    <2>1. i \in 1..l + size /\ inp'[i] = Plain(r, 1)
        BY <1>2 DEF Queued
    <2>2. ~ (i <= l)
        BY <1>1, <1>2, <1>3, <2>1 DEF Queued
    <2>3. i - l \in 1..size /\ l + (i - l) = i
        BY <2>1, <2>2
    <2>4. i - l = 1
        <3>1. inp'[l + (i - l)].at = i - l
            BY <1>1, <2>3
        <3>2. inp'[i].at = 1
            BY <2>1, PlainUnit
        <3> QED BY <2>3, <3>1, <3>2
    <2>5. i = l + 1
        BY <2>1, <2>4
    <2>6. Plain(r, 1) = Plain(s, 1)
        BY <1>1, <2>1, <2>5
    <2> QED BY <2>5, <2>6, PlainUnit
<1>4. ASSUME NEW r \in Session
      PROVE  Queued(r) \subseteq Queued(r)'
    <2>1. ASSUME NEW i \in Queued(r)
          PROVE  i \in Queued(r)'
        <3>1. i \in 1..l /\ inp[i] = Plain(r, 1)
            BY <1>2 DEF Queued
        <3>2. i \in 1..l + size /\ inp'[i] = Plain(r, 1)
            BY <1>1, <3>1
        <3> QED BY <1>2, <3>2 DEF Queued
    <2> QED BY <2>1
<1>5. l + 1 \in Queued(s)'
    <2>1. l + 1 \in 1..l + size
        BY <1>2
    <2> QED BY <1>1, <1>2, <2>1 DEF Queued
<1> QED BY <1>3, <1>4, <1>5

(* What was framed stays so, whatever follows it.                            *)
LEMMA FramedWritten ==
    ASSUME Ranges, Framed, NEW s \in Session, NEW n \in Nat, Appended(s, n, n)
    PROVE  /\ Framed'
           /\ \A r \in Nat : Left(r) => Left(r)'
<1> PICK l \in Nat : l = Len(inp)
    BY DEF Ranges
<1> PICK size \in Nat : size = PtrSize + n + 3
    BY Sizes
<1>1. /\ Len(inp') = l + size
      /\ \A i \in 1..l : inp'[i] = inp[i]
      /\ \A k \in 1..PtrSize : inp'[l + k] = Plain(s, k)
      /\ \A k \in 1..size : inp'[l + k].at = k
      /\ inp'[l + 1 + PtrSize].val = n
    <2>1. l + PtrSize + n + 3 = l + size /\ l + PtrSize + 1 = l + 1 + PtrSize
        BY Sizes
    <2>2. Behind(l, s, n, n)
        BY UnitsWritten
    <2> QED BY <2>1, <2>2 DEF Behind
<1>2. size >= 4
    BY Sizes
<1>3. inp'[l + 1].at = 1 /\ l + 1 <= l + size
    <2>1. 1 \in 1..size
        BY <1>2
    <2> QED BY <1>1, <1>2, <2>1
<1>4. ASSUME NEW r \in Nat, Left(r)
      PROVE  Left(r)'
    <2>1. r <= l /\ (\A i \in 1..r : inp[i].at # 1) /\ (r = l \/ inp[r + 1].at = 1)
        BY <1>4 DEF Left
    <2>2. \A i \in 1..r : inp'[i].at # 1
        <3>1. \A i \in 1..r : i \in 1..l
            BY <2>1
        <3> QED BY <1>1, <2>1, <3>1
    <2>3. inp'[r + 1].at = 1
        <3>1. CASE r = l
            BY <1>3, <3>1
        <3>2. CASE r # l
            <4>1. r + 1 \in 1..l
                BY <2>1, <3>2
            <4> QED BY <1>1, <2>1, <3>2, <4>1
        <3> QED BY <3>1, <3>2
    <2>4. r <= l + size
        BY <2>1
    <2> QED BY <1>1, <2>2, <2>3, <2>4 DEF Left
<1>5. ASSUME NEW i \in 1..l, inp'[i].at = 1
      PROVE  \E q \in Nat : Whole(i, q)'
    <2>1. inp[i].at = 1 /\ i \in 1..Len(inp) /\ inp'[i] = inp[i]
        BY <1>1, <1>5
    <2> PICK q \in Nat : Whole(i, q)
        BY <2>1 DEF Framed
    <2>2. /\ i + PtrSize + q + 2 <= l /\ inp[i + PtrSize].val = q
          /\ \A k \in 1..PtrSize : inp[i + k - 1] = Plain(inp[i].of, k)
          /\ \A k \in 2..PtrSize + q + 3 : inp[i + k - 1].at # 1
          /\ i + PtrSize + q + 2 = l \/ inp[i + PtrSize + q + 3].at = 1
        BY DEF Whole
    <2>3. inp'[i + PtrSize].val = q
        <3>1. i + PtrSize \in 1..l
            BY <2>2, Sizes
        <3> QED BY <1>1, <2>2, <3>1
    <2>4. ASSUME NEW k \in 1..PtrSize
          PROVE  inp'[i + k - 1] = Plain(inp'[i].of, k)
        <3>1. i + k - 1 \in 1..l
            <4>1. i + PtrSize + q + 2 <= l /\ PtrSize \in Nat
                BY <2>2, Sizes
            <4> QED BY <4>1
        <3> QED BY <1>1, <2>1, <2>2, <3>1
    <2>5. ASSUME NEW k \in 2..PtrSize + q + 3
          PROVE  inp'[i + k - 1].at # 1
        <3>1. i + k - 1 \in 1..l
            <4>1. i + PtrSize + q + 2 <= l /\ PtrSize \in Nat
                BY <2>2, Sizes
            <4> QED BY <4>1
        <3> QED BY <1>1, <2>2, <3>1
    <2>6. inp'[i + PtrSize + q + 3].at = 1
        <3>1. CASE i + PtrSize + q + 2 = l
            <4>1. i + PtrSize + q + 3 = l + 1
                BY <3>1, Sizes
            <4> QED BY <1>3, <4>1
        <3>2. CASE i + PtrSize + q + 2 # l
            <4>1. i + PtrSize + q + 3 \in 1..l
                BY <2>2, <3>2, Sizes
            <4> QED BY <1>1, <2>2, <3>2, <4>1
        <3> QED BY <3>1, <3>2
    <2>7. i + PtrSize + q + 2 <= Len(inp')
        BY <1>1, <2>2, Sizes
    <2> QED BY <2>3, <2>4, <2>5, <2>6, <2>7 DEF Whole
<1>6. ASSUME NEW i \in l + 1..l + size, inp'[i].at = 1
      PROVE  Whole(i, n)'
    <2>1. i = l + 1
        <3>1. i - l \in 1..size /\ l + (i - l) = i
            OBVIOUS
        <3>2. i - l = 1
            BY <1>1, <1>6, <3>1
        <3> QED BY <3>2
    <2>2. inp'[i] = Plain(s, 1) /\ inp'[i].of = s
        <3>1. 1 \in 1..PtrSize
            BY Sizes
        <3> QED BY <1>1, <2>1, <3>1, PlainUnit
    <2>3. ASSUME NEW k \in 1..PtrSize
          PROVE  inp'[i + k - 1] = Plain(inp'[i].of, k)
        <3>1. i + k - 1 = l + k
            BY <2>1, Sizes
        <3> QED BY <1>1, <2>2, <3>1
    <2>4. ASSUME NEW k \in 2..PtrSize + n + 3
          PROVE  inp'[i + k - 1].at # 1
        <3>1. i + k - 1 = l + k /\ k \in 1..size /\ k # 1
            BY <2>1, Sizes
        <3> QED BY <1>1, <3>1
    <2>5. i + PtrSize + n + 2 = Len(inp') /\ i + PtrSize + n + 2 <= Len(inp')
        BY <1>1, <2>1, Sizes
    <2>6. inp'[i + PtrSize].val = n
        BY <1>1, <2>1
    <2> QED BY <2>3, <2>4, <2>5, <2>6 DEF Whole
<1>7. Framed'
    <2>1. ASSUME NEW i \in 1..l + size, inp'[i].at = 1
          PROVE  \E q \in Nat : Whole(i, q)'
        <3>1. i \in 1..l \/ i \in l + 1..l + size
            OBVIOUS
        <3> QED BY <1>5, <1>6, <2>1, <3>1
    <2> QED BY <1>1, <2>1 DEF Framed
<1> QED BY <1>4, <1>7
-----------------------------------------------------------------------------
(* Both pipes are empty and nobody waits when init_resolver has returned.     *)
THEOREM InitQueryInv == Init => QueryInv
<1> SUFFICES ASSUME Init PROVE QueryInv
    OBVIOUS
<1>1. <<>> \in Seq(Unit) /\ <<>> \in Seq(Session) /\ Len(<<>>) = 0 /\ DOMAIN <<>> = {}
    OBVIOUS
<1>2. inp = <<>> /\ outp = <<>> /\ shared = None /\ pc = "ptr" /\ name_len = 0 /\ intact = TRUE
      /\ state = [s \in Session |-> "WAITING_COMMAND"]
    BY DEF Init
<1>3. Ranges
    BY <1>1, <1>2 DEF Ranges
<1>4. \A s \in Session : Queued(s) = {} /\ Answered(s) = {} /\ shared # s
    BY <1>1, <1>2, Sizes DEF Queued, Answered
<1>5. Once
    BY <1>4 DEF Once, Alone
<1>6. Framed /\ InStep /\ Tracked
    BY <1>1, <1>2 DEF Framed, InStep, Left, Tracked
<1> QED BY <1>3, <1>5, <1>6 DEF QueryInv

LEMMA ResolveKeeps ==
    ASSUME QueryInv, NEW s \in Session, resolve(s)
    PROVE  QueryInv'
<1> PICK n \in Lens, g \in Gaps :
          /\ inp' = Written(inp, Message(s, n, g), RequestCap)
          /\ intact' = (intact /\ g = n /\ Fits(inp, Message(s, n, g), RequestCap))
    BY DEF resolve
<1>1. /\ n \in Nat /\ g \in Nat /\ state[s] = "WAITING_COMMAND"
      /\ state' = [state EXCEPT ![s] = "ASYNC_DNS"]
      /\ UNCHANGED <<outp, pc, shared, name_len>>
      /\ Ranges /\ Once /\ (intact => Framed /\ InStep /\ Tracked)
    BY Sizes DEF resolve, thread, QueryInv
<1>2. /\ \A t \in Session : t # s => state'[t] = state[t]
      /\ state'[s] = "ASYNC_DNS"
      /\ state' \in [Session -> {"WAITING_COMMAND", "ASYNC_DNS", "ANSWERED"}]
    BY <1>1 DEF Ranges
<1>3. \A t \in Session : Answered(t)' = Answered(t)
    BY <1>1 DEF Answered
<1>4. Queued(s) = {} /\ Answered(s) = {} /\ shared # s
    BY <1>1 DEF Once, Alone
<1>5. CASE ~ Fits(inp, Message(s, n, g), RequestCap)
    <2>1. inp' = inp /\ intact' = FALSE
        BY <1>5 DEF Written
    <2>2. \A t \in Session : Queued(t)' = Queued(t)
        BY <2>1 DEF Queued
    <2>3. Once'
        BY <1>1, <1>2, <1>3, <1>4, <2>2 DEF Once, Alone
    <2>4. Ranges'
        BY <1>1, <1>2, <2>1 DEF Ranges
    <2> QED BY <2>1, <2>3, <2>4 DEF QueryInv
<1>6. CASE Fits(inp, Message(s, n, g), RequestCap)
    <2>1. Appended(s, n, g)
        BY <1>6 DEF Written, Appended
    <2>2. /\ \A t \in Session : t # s => Queued(t)' = Queued(t)
          /\ Queued(s)' = {Len(inp) + 1}
        BY <1>1, <1>4, <2>1, QueuedWritten
    <2>3. ASSUME NEW t \in Session
          PROVE  Alone(t)'
        <3>1. CASE t = s
            <4>1. \A i, k \in Queued(t)' : i = k
                BY <2>2, <3>1
            <4>2. Answered(t)' = {} /\ shared' # t /\ state'[t] = "ASYNC_DNS"
                BY <1>1, <1>2, <1>3, <1>4, <3>1
            <4> QED BY <4>1, <4>2 DEF Alone
        <3>2. CASE t # s
            BY <1>1, <1>2, <1>3, <2>2, <3>2 DEF Once, Alone
        <3> QED BY <3>1, <3>2
    <2>4. PICK l \in Nat : l = Len(inp)
        BY <1>1 DEF Ranges
    <2>5. Behind(l, s, n, g)
        BY <1>1, <2>1, <2>4, UnitsWritten
    <2>6. Ranges'
        BY <1>1, <1>2, <2>5 DEF Ranges, Behind
    <2>7. ASSUME intact'
          PROVE  Framed' /\ InStep' /\ Tracked'
        <3>1. intact /\ g = n
            BY <2>7
        <3>2. Framed' /\ \A r \in Nat : Left(r) => Left(r)'
            BY <1>1, <2>1, <3>1, FramedWritten
        <3>3. Tracked'
            <4>1. ASSUME NEW t \in Session, state'[t] = "ASYNC_DNS"
                  PROVE  Somewhere(t)'
                <5>1. CASE t = s
                    BY <2>2, <5>1 DEF Somewhere
                <5>2. CASE t # s
                    BY <1>1, <1>2, <1>3, <2>2, <3>1, <4>1, <5>2 DEF Tracked, Somewhere
                <5> QED BY <5>1, <5>2
            <4> QED BY <4>1 DEF Tracked
        <3>4. ASSUME pc = "len"
              PROVE  \E q \in Nat : Left(q + 3)' /\ inp'[1].val = q
            <4> PICK q \in Nat : Left(q + 3) /\ inp[1].val = q
                BY <1>1, <3>1, <3>4 DEF InStep
            <4>1. 1 \in 1..l
                BY <2>4 DEF Left
            <4>2. inp'[1] = inp[1]
                BY <2>5, <4>1 DEF Behind
            <4>3. Left(q + 3)'
                BY <3>2
            <4> QED BY <4>2, <4>3
        <3>5. /\ pc \in {"ptr", "lookup"} => Left(0)'
              /\ pc = "name" => Left(name_len + 2)'
              /\ pc = "port" => Left(2)'
            <4>1. name_len + 2 \in Nat
                BY <1>1 DEF Ranges
            <4> QED BY <1>1, <3>1, <3>2, <4>1 DEF InStep
        <3>6. InStep'
            <4>1. /\ pc' \in {"ptr", "len", "name", "port", "lookup"}
                  /\ IF pc' = "ptr" THEN shared' = None ELSE shared' \in Session
                BY <1>1, <3>1 DEF InStep
            <4>2. pc' = pc /\ name_len' = name_len
                BY <1>1
            <4>3. /\ pc' \in {"ptr", "lookup"} => Left(0)'
                  /\ pc' = "name" => Left(name_len + 2)'
                  /\ pc' = "port" => Left(2)'
                  /\ pc' = "len" => \E q \in Nat : Left(q + 3)' /\ inp'[1].val = q
                BY <3>4, <3>5, <4>2
            <4> QED BY <4>1, <4>2, <4>3 DEF InStep
        <3> QED BY <3>2, <3>3, <3>6
    <2> QED BY <2>3, <2>6, <2>7 DEF QueryInv, Once
<1> QED BY <1>5, <1>6

(* The pipe to the thread and the thread stay as they are.                   *)
LEMMA MainKeeps ==
    ASSUME QueryInv, UNCHANGED <<inp, pc, shared, name_len, intact>>, Once', Tracked => Tracked',
           state' \in [Session -> {"WAITING_COMMAND", "ASYNC_DNS", "ANSWERED"}], outp' \in Seq(Session)
    PROVE  QueryInv'
<1>1. Ranges'
    BY DEF QueryInv, Ranges
<1>2. Framed => Framed'
    BY DEF Framed, Whole
<1>3. InStep => InStep'
    BY DEF InStep, Left
<1> QED BY <1>1, <1>2, <1>3 DEF QueryInv

LEMMA ReusedKeeps ==
    ASSUME QueryInv, NEW s \in Session, Reused(s)
    PROVE  QueryInv'
<1>1. /\ state[s] = "ANSWERED" /\ state' = [state EXCEPT ![s] = "WAITING_COMMAND"]
      /\ UNCHANGED <<inp, outp, pc, shared, name_len, intact>>
      /\ Ranges /\ Once /\ (intact => Tracked)
    BY DEF Reused, thread, QueryInv
<1>2. /\ \A t \in Session : t # s => state'[t] = state[t]
      /\ state'[s] = "WAITING_COMMAND" /\ outp' \in Seq(Session)
      /\ state' \in [Session -> {"WAITING_COMMAND", "ASYNC_DNS", "ANSWERED"}]
    BY <1>1 DEF Ranges
<1>3. \A t \in Session : Answered(t)' = Answered(t) /\ Queued(t)' = Queued(t) /\ shared' = shared
    BY <1>1 DEF Answered, Queued
<1>4. Once'
    <2>1. ASSUME NEW t \in Session
          PROVE  Alone(t)'
        <3>1. CASE t = s
            BY <1>1, <1>2, <1>3, <3>1 DEF Once, Alone
        <3>2. CASE t # s
            BY <1>1, <1>2, <1>3, <3>2 DEF Once, Alone
        <3> QED BY <3>1, <3>2
    <2> QED BY <2>1 DEF Once
<1>5. Tracked => Tracked'
    BY <1>2, <1>3 DEF Tracked, Somewhere
<1> QED BY <1>1, <1>2, <1>4, <1>5, MainKeeps

LEMMA RetKeeps ==
    ASSUME QueryInv, resolve_ret
    PROVE  QueryInv'
<1>1. /\ outp # <<>> /\ outp' = Tail(outp) /\ state' = [state EXCEPT ![Head(outp)] = "ANSWERED"]
      /\ UNCHANGED <<inp, pc, shared, name_len, intact>>
      /\ Ranges /\ Once /\ (intact => Tracked)
    BY DEF resolve_ret, thread, QueryInv
<1> PICK s \in Session : s = Head(outp) /\ s = outp[1]
    BY <1>1 DEF Ranges
<1> PICK l \in Nat : l = Len(outp) /\ l >= 1
    BY <1>1 DEF Ranges
<1>2. /\ outp' \in Seq(Session) /\ Len(outp') = l - 1 /\ \A i \in 1..l - 1 : outp'[i] = outp[i + 1]
    BY <1>1, HeadTailProperties DEF Ranges
<1>3. /\ \A t \in Session : t # s => state'[t] = state[t]
      /\ state' \in [Session -> {"WAITING_COMMAND", "ASYNC_DNS", "ANSWERED"}]
    BY <1>1 DEF Ranges
<1>4. DOMAIN outp = 1..l /\ DOMAIN outp' = 1..l - 1
    BY <1>1, <1>2 DEF Ranges
<1>5. \A t \in Session : Queued(t)' = Queued(t) /\ shared' = shared
    BY <1>1 DEF Queued
<1>6. \A t \in Session, i \in Nat : i \in Answered(t)' => i + 1 \in Answered(t) /\ i >= 1
    <2> SUFFICES ASSUME NEW t \in Session, NEW i \in Nat, i \in Answered(t)'
                 PROVE  i + 1 \in Answered(t) /\ i >= 1
        OBVIOUS
    <2>1. i \in 1..l - 1 /\ outp'[i] = t
        BY <1>4 DEF Answered
    <2>2. i + 1 \in 1..l /\ outp[i + 1] = t
        BY <1>2, <2>1
    <2> QED BY <1>4, <2>1, <2>2 DEF Answered
<1>7. \A t \in Session : \A i \in Answered(t)' : i \in Nat
    BY <1>4 DEF Answered
<1>8. 1 \in Answered(s)
    BY <1>4 DEF Answered
<1>9. Answered(s)' = {}
    <2> SUFFICES ASSUME NEW i \in Answered(s)' PROVE FALSE
        OBVIOUS
    <2>1. i \in Nat /\ i + 1 \in Answered(s) /\ i >= 1
        BY <1>6, <1>7
    <2>2. i + 1 = 1
        BY <1>1, <1>8, <2>1 DEF Once, Alone
    <2> QED BY <2>1, <2>2
<1>10. ASSUME NEW t \in Session
       PROVE  Alone(t)'
    <2>1. Alone(t)
        BY <1>1 DEF Once
    <2>2. CASE t = s
        BY <1>5, <1>8, <1>9, <2>1, <2>2 DEF Alone
    <2>3. CASE t # s
        <3>1. ASSUME NEW i \in Answered(t)', NEW k \in Answered(t)'
              PROVE  i = k
            <4>1. i \in Nat /\ k \in Nat /\ i + 1 \in Answered(t) /\ k + 1 \in Answered(t)
                BY <1>6, <1>7
            <4>2. i + 1 = k + 1
                BY <2>1, <4>1 DEF Alone
            <4> QED BY <4>1, <4>2
        <3>2. Answered(t)' # {} => Answered(t) # {}
            BY <1>6, <1>7
        <3> QED BY <1>3, <1>5, <2>1, <2>3, <3>1, <3>2 DEF Alone
    <2> QED BY <2>2, <2>3
<1>11. ASSUME NEW t \in Session, t # s, Answered(t) # {}
       PROVE  Answered(t)' # {}
    <2> PICK i \in Answered(t) : TRUE
        BY <1>11
    <2>1. i \in 1..l /\ outp[i] = t /\ i # 1
        BY <1>4, <1>11 DEF Answered
    <2>2. i - 1 \in 1..l - 1 /\ (i - 1) + 1 = i
        BY <2>1
    <2>3. outp'[i - 1] = t
        BY <1>2, <2>1, <2>2
    <2> QED BY <1>4, <2>2, <2>3 DEF Answered
<1>12. Tracked => Tracked'
    <2> SUFFICES ASSUME Tracked, NEW t \in Session, state'[t] = "ASYNC_DNS"
                 PROVE  Somewhere(t)'
        BY DEF Tracked
    <2>1. t # s
        BY <1>1 DEF Ranges
    <2> QED BY <1>3, <1>5, <1>11, <2>1 DEF Tracked, Somewhere
<1> QED BY <1>1, <1>2, <1>3, <1>10, <1>12, MainKeeps DEF Once
-----------------------------------------------------------------------------
(* The reads of the thread.                                                  *)
LEMMA Reading ==
    ASSUME Ranges, NEW n \in Nat, inp' = RestOf(inp, n)
    PROVE  \E k \in 0..Len(inp) :
              /\ k = (IF n <= Len(inp) THEN n ELSE Len(inp)) /\ Consumed(k)
              /\ Len(ReadOf(inp, n)) = k /\ \A i \in 1..k : ReadOf(inp, n)[i] = inp[i]
<1> PICK k \in 0..Len(inp) : Taking(Unit, inp, n, k)
    <2>1. inp \in Seq(Unit)
        BY DEF Ranges
    <2> QED BY <2>1, Portion
<1>1. Consumed(k)
    BY DEF Consumed, Taking
<1> QED BY <1>1 DEF Taking

(* No query is lost that was not read.                                       *)
LEMMA TrackedRead ==
    ASSUME Ranges, NEW k \in 0..Len(inp), Consumed(k), NEW t \in Session,
           \A i \in 1..k : inp[i] # Plain(t, 1), UNCHANGED <<state, outp>>,
           shared = t => shared' = t, state[t] = "ASYNC_DNS" => Somewhere(t)
    PROVE  state'[t] = "ASYNC_DNS" => Somewhere(t)'
<1>1. Answered(t)' = Answered(t)
    BY DEF Answered
<1>2. ASSUME NEW j \in Queued(t)
      PROVE  Queued(t)' # {}
    <2>1. j \in 1..Len(inp) /\ inp[j] = Plain(t, 1) /\ Len(inp) \in Nat
        BY DEF Queued, Ranges
    <2>2. j > k
        BY <2>1
    <2> QED BY <2>2, QueuedLater
<1> QED BY <1>1, <1>2 DEF Somewhere

(* A read inside of a message finds the units that belong to it.             *)
LEMMA InsideKeeps ==
    ASSUME Ranges, Framed, Tracked, NEW r \in Nat, Left(r), NEW k \in 0..r, Consumed(k),
           UNCHANGED <<state, outp, shared>>
    PROVE  Framed' /\ Tracked' /\ Left(r - k)'
<1>1. Len(inp) \in Nat /\ r <= Len(inp) /\ k \in 0..Len(inp) /\ \A i \in 1..r : inp[i].at # 1
    BY DEF Ranges, Left
<1>2. \A t \in Session, i \in 1..k : inp[i] # Plain(t, 1)
    <2>1. \A i \in 1..k : i \in 1..r
        BY <1>1
    <2> QED BY <1>1, <2>1, PlainUnit
<1>3. Tracked'
    BY <1>1, <1>2, TrackedRead DEF Tracked
<1> QED BY <1>1, <1>3, FramedRead, LeftRead

(* A message that begins the pipe: its pointer is read as one.               *)
LEMMA PointerRead ==
    ASSUME Ranges, Framed, Tracked, Left(0), inp # <<>>, NEW s \in Session, s = inp[1].of,
           shared = None, UNCHANGED <<state, outp>>, shared' = s, Consumed(PtrSize)
    PROVE  /\ Framed' /\ Tracked'
           /\ \E n \in Nat : Left(n + 3)' /\ inp'[1].val = n
<1> PICK l \in Nat : l = Len(inp)
    BY DEF Ranges
<1>1. l >= 1 /\ inp[1].at = 1
    BY DEF Left, Ranges
<1> PICK n \in Nat : Whole(1, n)
    BY <1>1 DEF Framed
<1>2. /\ 1 + PtrSize + n + 2 <= l /\ inp[1 + PtrSize].val = n
      /\ \A k \in 1..PtrSize : inp[1 + k - 1] = Plain(s, k)
      /\ \A k \in 2..PtrSize + n + 3 : inp[1 + k - 1].at # 1
      /\ 1 + PtrSize + n + 2 = l \/ inp[1 + PtrSize + n + 3].at = 1
    BY DEF Whole
<1>3. PtrSize \in 0..l /\ Len(inp') = l - PtrSize /\ \A i \in 1..l - PtrSize : inp'[i] = inp[i + PtrSize]
    BY <1>2, Sizes DEF Consumed
<1>4. \A k \in 2..PtrSize + n + 3 : inp[k].at # 1
    <2>1. \A k \in 2..PtrSize + n + 3 : 1 + k - 1 = k
        BY Sizes
    <2> QED BY <1>2, <2>1
<1>5. Framed'
    BY <1>3, FramedRead
<1>6. Tracked'
    <2> SUFFICES ASSUME NEW t \in Session PROVE state'[t] = "ASYNC_DNS" => Somewhere(t)'
        BY DEF Tracked
    <2>1. CASE t = s
        BY <2>1 DEF Somewhere
    <2>2. CASE t # s
        <3>1. ASSUME NEW i \in 1..PtrSize
              PROVE  inp[i] # Plain(t, 1)
            <4>1. 1 + i - 1 = i
                BY Sizes
            <4>2. inp[i] = Plain(s, i)
                BY <1>2, <4>1
            <4>3. inp[i].of = s
                BY <4>2, PlainUnit, Sizes
            <4> QED BY <2>2, <4>3, PlainUnit
        <3>2. shared # t
            BY Sizes
        <3>3. state[t] = "ASYNC_DNS" => Somewhere(t)
            BY DEF Tracked
        <3> QED BY <1>3, <3>1, <3>2, <3>3, TrackedRead
    <2> QED BY <2>1, <2>2
<1>7. inp'[1].val = n
    <2>1. 1 \in 1..l - PtrSize
        BY <1>2, Sizes
    <2> QED BY <1>2, <1>3, <2>1
<1>8. Left(n + 3)'
    <2>1. n + 3 <= l - PtrSize
        BY <1>2, Sizes
    <2>2. ASSUME NEW i \in 1..n + 3
          PROVE  inp'[i].at # 1
        <3>1. i \in 1..l - PtrSize /\ i + PtrSize \in 2..PtrSize + n + 3
            BY <2>1, Sizes
        <3> QED BY <1>3, <1>4, <3>1
    <2>3. n + 3 = l - PtrSize \/ inp'[(n + 3) + 1].at = 1
        <3>1. CASE 1 + PtrSize + n + 2 = l
            BY <3>1, Sizes
        <3>2. CASE 1 + PtrSize + n + 2 # l
            <4>1. (n + 3) + 1 \in 1..l - PtrSize /\ ((n + 3) + 1) + PtrSize = 1 + PtrSize + n + 3
                BY <1>2, <3>2, Sizes
            <4> QED BY <1>2, <1>3, <3>2, <4>1
        <3> QED BY <3>1, <3>2
    <2> QED BY <1>3, <2>1, <2>2, <2>3 DEF Left
<1> QED BY <1>5, <1>6, <1>7, <1>8

LEMMA ReadPointerKeeps ==
    ASSUME QueryInv, ReadPointer
    PROVE  QueryInv'
<1> DEFINE got == ReadOf(inp, PtrSize)
<1>1. /\ Ranges /\ Once /\ (intact => Framed /\ InStep /\ Tracked)
      /\ pc = "ptr" /\ inp # <<>> /\ inp' = RestOf(inp, PtrSize)
      /\ UNCHANGED <<state, outp, intact>>
    BY DEF QueryInv, ReadPointer, main
<1>2. PICK k \in 0..Len(inp) :
          /\ k = (IF PtrSize <= Len(inp) THEN PtrSize ELSE Len(inp)) /\ Consumed(k)
          /\ Len(got) = k /\ \A i \in 1..k : got[i] = inp[i]
    BY <1>1, Sizes, Reading
<1>3. \/ Len(got) < PtrSize /\ GiveUp
      \/ /\ \E s \in Session : got = Pointer(s) /\ shared' = s
         /\ pc' = "len" /\ name_len' = name_len
      \/ /\ Len(got) = PtrSize /\ got \notin {Pointer(s) : s \in Session}
         /\ (pc' = "len" /\ shared' = Wild) \/ (pc' = "ended" /\ shared' = None)
         /\ name_len' = name_len
    BY DEF ReadPointer
<1> HIDE DEF got
<1>4. inp' \in Seq(Unit) /\ Len(inp) \in Nat /\ Len(inp) >= 1
    BY <1>1, <1>2 DEF Consumed, Ranges
<1>5. ASSUME intact
      PROVE  \E s \in Session : s = inp[1].of /\ k = PtrSize /\ Len(got) = PtrSize /\ got = Pointer(s)
    <2>1. inp[1].at = 1
        BY <1>1, <1>4, <1>5 DEF InStep, Left
    <2> PICK n \in Nat : Whole(1, n)
        BY <1>1, <1>4, <1>5, <2>1 DEF Framed
    <2> PICK s \in Session : s = inp[1].of
        <3>1. inp[1] \in Unit
            BY <1>1, <1>4 DEF Ranges
        <3> QED BY <3>1 DEF Unit
    <2>2. /\ 1 + PtrSize + n + 2 <= Len(inp)
          /\ \A i \in 1..PtrSize : inp[1 + i - 1] = Plain(s, i)
        BY DEF Whole
    <2>3. k = PtrSize
        BY <1>2, <1>4, <2>2, Sizes
    <2>4. \A i \in 1..PtrSize : got[i] = Plain(s, i)
        <3>1. \A i \in 1..PtrSize : 1 + i - 1 = i
            BY Sizes
        <3> QED BY <1>2, <2>2, <2>3, <3>1
    <2>5. got = Pointer(s)
        <3>1. Pointer(s) \in Seq(Unit) /\ Len(Pointer(s)) = PtrSize
              /\ \A i \in 1..PtrSize : Pointer(s)[i] = Plain(s, i)
            <4>1. \A i \in 1..PtrSize : Plain(s, i) \in Unit
                BY PlainUnit, Sizes
            <4> QED BY <4>1, Sizes, IsASeq DEF Pointer
        <3>2. got \in Seq(Unit)
            <4>1. \A i \in 1..PtrSize : inp[i] \in Unit
                BY <1>1, <1>2, <2>3 DEF Ranges
            <4>2. got = SubSeq(inp, 1, PtrSize)
                BY <1>2, <2>3, <1>4, Sizes DEF got, ReadOf
            <4> QED BY <4>1, <4>2, Sizes, SubSeqProperties
        <3> QED BY <1>2, <2>3, <2>4, <3>1, <3>2, SeqEqual
    <2> QED BY <1>2, <2>3, <2>5
<1>6. CASE Len(got) < PtrSize /\ GiveUp
    <2>1. shared' = None /\ name_len' = 0 /\ pc' = "ptr" /\ shared' \notin Session
        BY <1>6, Sizes DEF GiveUp, Fresh
    <2>2. Once'
        BY <1>1, <1>2, <2>1, OnceRead
    <2>3. ~ intact
        BY <1>5, <1>6, Sizes
    <2>4. Ranges'
        BY <1>1, <1>4, <2>1 DEF Ranges
    <2> QED BY <1>1, <2>2, <2>3, <2>4 DEF QueryInv
<1>7. CASE /\ Len(got) = PtrSize /\ got \notin {Pointer(s) : s \in Session}
           /\ (pc' = "len" /\ shared' = Wild) \/ (pc' = "ended" /\ shared' = None)
           /\ name_len' = name_len
    <2>1. shared' \in {None, Wild} /\ shared' \notin Session
        BY <1>7, Sizes
    <2>2. Once'
        BY <1>1, <1>2, <2>1, OnceRead
    <2>3. ~ intact
        BY <1>5, <1>7
    <2>4. Ranges'
        BY <1>1, <1>4, <1>7, <2>1 DEF Ranges
    <2> QED BY <1>1, <2>2, <2>3, <2>4 DEF QueryInv
<1>8. ASSUME NEW s \in Session, got = Pointer(s), shared' = s, pc' = "len", name_len' = name_len
      PROVE  QueryInv'
    <2>1. Len(got) = PtrSize /\ k = PtrSize /\ inp[1] = Plain(s, 1)
        <3>1. Len(got) = PtrSize /\ \A i \in 1..PtrSize : got[i] = Plain(s, i)
            BY <1>8, Sizes DEF Pointer
        <3>2. 1 \in 1..PtrSize
            BY Sizes
        <3> QED BY <1>2, <3>1, <3>2
    <2>2. 1 \in Queued(s)
        BY <1>4, <2>1 DEF Queued
    <2>3. ASSUME NEW t \in Session
          PROVE  Alone(t)'
        <3>1. Alone(t) /\ Answered(t)' = Answered(t)
            BY <1>1 DEF Once, Answered
        <3>2. CASE t = s
            <4>1. Queued(t)' = {}
                <5> SUFFICES ASSUME NEW j \in Queued(t)' PROVE FALSE
                    OBVIOUS
                <5>1. j \in Nat /\ j >= 1 /\ j + k \in Queued(t)
                    BY <1>1, <1>2, QueuedLater
                <5>2. j + k = 1
                    BY <2>2, <3>1, <3>2, <5>1 DEF Alone
                <5> QED BY <2>1, <5>1, <5>2, Sizes
            <4> QED BY <1>1, <2>2, <3>1, <3>2, <4>1 DEF Alone
        <3>3. CASE t # s
            <4>1. ASSUME NEW i \in Queued(t)', NEW j \in Queued(t)'
                  PROVE  i = j
                <5>1. i \in Nat /\ j \in Nat /\ i + k \in Queued(t) /\ j + k \in Queued(t)
                    BY <1>1, <1>2, QueuedLater
                <5>2. i + k = j + k
                    BY <3>1, <5>1 DEF Alone
                <5> QED BY <5>1, <5>2
            <4>2. Queued(t)' # {} => Queued(t) # {}
                BY <1>1, <1>2, QueuedLater
            <4>3. shared' # t /\ state' = state
                BY <1>1, <1>8, <3>3
            <4> QED BY <3>1, <4>1, <4>2, <4>3 DEF Alone
        <3> QED BY <3>2, <3>3
    <2>4. Ranges'
        BY <1>1, <1>4, <1>8 DEF Ranges
    <2>5. ASSUME intact
          PROVE  Framed' /\ Tracked' /\ InStep'
        <3>1. s = inp[1].of
            BY <2>1, PlainUnit
        <3>2. Left(0) /\ shared = None
            BY <1>1, <2>5 DEF InStep
        <3>3. /\ Framed' /\ Tracked'
              /\ \E n \in Nat : Left(n + 3)' /\ inp'[1].val = n
            BY <1>1, <1>2, <1>8, <2>1, <2>5, <3>1, <3>2, PointerRead
        <3>4. InStep'
            BY <1>8, <3>3 DEF InStep
        <3> QED BY <3>3, <3>4
    <2> QED BY <1>1, <2>3, <2>4, <2>5 DEF QueryInv, Once
<1> QED BY <1>3, <1>6, <1>7, <1>8

(* A read inside of a message: of the length, the name or the port.          *)
LEMMA InsideInv ==
    ASSUME QueryInv, NEW k \in 0..Len(inp), Consumed(k), UNCHANGED <<state, outp, intact>>,
           shared' = shared \/ shared' \notin Session, shared' \in Session \cup {None, Wild},
           name_len' \in Nat, pc' \in {"ptr", "name", "port", "lookup"},
           intact => /\ shared' = shared /\ pc # "ptr" /\ pc' # "ptr"
                     /\ \E r \in Nat : /\ Left(r) /\ k <= r
                                       /\ pc' = "name" => r - k = name_len' + 2
                                       /\ pc' = "port" => r - k = 2
                                       /\ pc' = "lookup" => r - k = 0
    PROVE  QueryInv'
<1>1. Ranges /\ Once /\ (intact => Framed /\ InStep /\ Tracked)
    BY DEF QueryInv
<1>2. Once'
    BY <1>1, OnceRead
<1>3. Ranges'
    BY <1>1 DEF Ranges, Consumed
<1>4. ASSUME intact
      PROVE  Framed' /\ Tracked' /\ InStep'
    <2> PICK r \in Nat : /\ Left(r) /\ k <= r
                         /\ pc' = "name" => r - k = name_len' + 2
                         /\ pc' = "port" => r - k = 2
                         /\ pc' = "lookup" => r - k = 0
        BY <1>4
    <2>1. k \in 0..r /\ shared' = shared /\ pc # "ptr" /\ pc' # "ptr"
        BY <1>4
    <2>2. Framed' /\ Tracked' /\ Left(r - k)'
        BY <1>1, <1>4, <2>1, InsideKeeps
    <2> PICK q : q = r - k
        OBVIOUS
    <2>3. Left(q)' /\ (pc' = "name" => q = name_len' + 2) /\ (pc' = "port" => q = 2)
          /\ (pc' = "lookup" => q = 0)
        BY <2>2
    <2>4. shared' \in Session
        BY <1>1, <1>4, <2>1 DEF InStep
    <2>5. /\ pc' \in {"ptr", "lookup"} => Left(0)'
          /\ pc' = "name" => Left(name_len + 2)'
          /\ pc' = "port" => Left(2)'
        BY <2>1, <2>3 DEF Left
    <2>6. InStep'
        BY <2>1, <2>4, <2>5 DEF InStep
    <2> QED BY <2>2, <2>6
<1> QED BY <1>2, <1>3, <1>4 DEF QueryInv

LEMMA ReadLengthKeeps ==
    ASSUME QueryInv, ReadLength
    PROVE  QueryInv'
<1>1. /\ Ranges /\ (intact => InStep) /\ pc = "len" /\ inp' = RestOf(inp, 1)
      /\ UNCHANGED <<state, outp, intact>>
    BY DEF QueryInv, ReadLength, main
<1> PICK k \in 0..Len(inp) : k = (IF 1 <= Len(inp) THEN 1 ELSE Len(inp)) /\ Consumed(k)
    BY <1>1, Reading
<1> PICK l \in Nat : l = Len(inp)
    BY <1>1 DEF Ranges
<1>2. ASSUME intact
      PROVE  \E n \in Nat : Left(n + 3) /\ inp[1].val = n /\ k = 1 /\ inp # <<>>
    <2> PICK n \in Nat : Left(n + 3) /\ inp[1].val = n
        BY <1>1, <1>2 DEF InStep
    <2>1. l >= 1 /\ k = 1
        BY DEF Left
    <2> QED BY <2>1
<1>3. CASE inp = <<>> /\ GiveUp
    <2>1. shared' = None /\ shared' \notin Session /\ name_len' = 0 /\ pc' = "ptr"
        BY <1>3, Sizes DEF GiveUp, Fresh
    <2>2. ~ intact
        BY <1>2, <1>3
    <2> QED BY <1>1, <2>1, <2>2, InsideInv
<1>4. CASE /\ inp # <<>> /\ name_len' \in Values(Head(inp))
           /\ pc' = "name" /\ UNCHANGED <<shared, name, port>>
    <2>1. Head(inp) = inp[1] /\ inp[1] \in Unit
        BY <1>1, <1>4 DEF Ranges
    <2>2. name_len' \in Nat /\ (inp[1].val \in Nat => name_len' = inp[1].val)
        BY <1>4, <2>1, Sizes DEF Values, Unit
    <2>3. shared' \in Session \cup {None, Wild}
        BY <1>1, <1>4 DEF Ranges
    <2>4. ASSUME intact
          PROVE  \E r \in Nat : /\ Left(r) /\ k <= r
                                /\ pc' = "name" => r - k = name_len' + 2
                                /\ pc' = "port" => r - k = 2
                                /\ pc' = "lookup" => r - k = 0
        <3> PICK n \in Nat : Left(n + 3) /\ inp[1].val = n /\ k = 1
            BY <1>2, <2>4
        <3>1. name_len' = n /\ n + 3 \in Nat /\ k <= n + 3 /\ (n + 3) - k = n + 2
            <4>1. name_len' = n
                BY <2>2
            <4>2. n + 3 \in Nat /\ 1 <= n + 3 /\ (n + 3) - 1 = n + 2
                OBVIOUS
            <4> QED BY <4>1, <4>2
        <3> QED BY <1>4, <3>1
    <2> QED BY <1>1, <1>4, <2>2, <2>3, <2>4, InsideInv
<1> QED BY <1>3, <1>4 DEF ReadLength

LEMMA ReadNameKeeps ==
    ASSUME QueryInv, ReadName
    PROVE  QueryInv'
<1>1. /\ Ranges /\ (intact => InStep) /\ pc = "name" /\ inp' = RestOf(inp, name_len)
      /\ UNCHANGED <<state, outp, intact>> /\ name_len \in Nat
    BY DEF QueryInv, ReadName, main, Ranges
<1> PICK k \in 0..Len(inp) :
        /\ k = (IF name_len <= Len(inp) THEN name_len ELSE Len(inp)) /\ Consumed(k)
        /\ Len(ReadOf(inp, name_len)) = k
    BY <1>1, Reading
<1> PICK l \in Nat : l = Len(inp)
    BY <1>1 DEF Ranges
<1>2. ASSUME intact
      PROVE  Left(name_len + 2) /\ k = name_len
    BY <1>1, <1>2 DEF InStep, Left
<1>3. CASE Len(ReadOf(inp, name_len)) # name_len /\ GiveUp
    <2>1. shared' = None /\ shared' \notin Session /\ name_len' = 0 /\ pc' = "ptr"
        BY <1>3, Sizes DEF GiveUp, Fresh
    <2>2. ~ intact
        BY <1>2, <1>3
    <2> QED BY <1>1, <2>1, <2>2, InsideInv
<1>4. CASE pc' = "port" /\ UNCHANGED <<shared, name_len>>
    <2>1. shared' \in Session \cup {None, Wild} /\ name_len' \in Nat
        BY <1>1, <1>4 DEF Ranges
    <2>2. ASSUME intact
          PROVE  \E r \in Nat : /\ Left(r) /\ k <= r
                                /\ pc' = "name" => r - k = name_len' + 2
                                /\ pc' = "port" => r - k = 2
                                /\ pc' = "lookup" => r - k = 0
        <3>1. name_len + 2 \in Nat /\ k <= name_len + 2 /\ (name_len + 2) - k = 2
            BY <1>1, <1>2, <2>2
        <3> QED BY <1>2, <1>4, <2>2, <3>1
    <2> QED BY <1>1, <1>4, <2>1, <2>2, InsideInv
<1> QED BY <1>3, <1>4 DEF ReadName

LEMMA ReadPortKeeps ==
    ASSUME QueryInv, ReadPort
    PROVE  QueryInv'
<1>1. /\ Ranges /\ (intact => InStep) /\ pc = "port" /\ inp' = RestOf(inp, 2)
      /\ UNCHANGED <<state, outp, intact>>
    BY DEF QueryInv, ReadPort, main
<1> PICK k \in 0..Len(inp) :
        /\ k = (IF 2 <= Len(inp) THEN 2 ELSE Len(inp)) /\ Consumed(k)
        /\ Len(ReadOf(inp, 2)) = k
    BY <1>1, Reading
<1> PICK l \in Nat : l = Len(inp)
    BY <1>1 DEF Ranges
<1>2. ASSUME intact
      PROVE  Left(2) /\ k = 2
    BY <1>1, <1>2 DEF InStep, Left
<1>3. CASE Len(ReadOf(inp, 2)) # 2 /\ GiveUp
    <2>1. shared' = None /\ shared' \notin Session /\ name_len' = 0 /\ pc' = "ptr"
        BY <1>3, Sizes DEF GiveUp, Fresh
    <2>2. ~ intact
        BY <1>2, <1>3
    <2> QED BY <1>1, <2>1, <2>2, InsideInv
<1>4. CASE pc' = "lookup" /\ UNCHANGED <<shared, name_len>>
    <2>1. shared' \in Session \cup {None, Wild} /\ name_len' \in Nat
        BY <1>1, <1>4 DEF Ranges
    <2>2. ASSUME intact
          PROVE  \E r \in Nat : /\ Left(r) /\ k <= r
                                /\ pc' = "name" => r - k = name_len' + 2
                                /\ pc' = "port" => r - k = 2
                                /\ pc' = "lookup" => r - k = 0
        BY <1>2, <1>4, <2>2
    <2> QED BY <1>1, <1>4, <2>1, <2>2, InsideInv
<1> QED BY <1>3, <1>4 DEF ReadPort

LEMMA LookupKeeps ==
    ASSUME QueryInv, Lookup
    PROVE  QueryInv'
<1>1. /\ Ranges /\ Once /\ (intact => Framed /\ InStep /\ Tracked)
      /\ pc = "lookup" /\ UNCHANGED <<state, inp>>
    BY DEF QueryInv, Lookup
<1>2. \A t \in Session : Queued(t)' = Queued(t)
    BY <1>1 DEF Queued
<1>3. CASE shared = Wild /\ pc' = "crashed" /\ UNCHANGED <<outp, shared, name_len, intact>>
    <2>1. Ranges'
        BY <1>1, <1>3 DEF Ranges
    <2>2. Once'
        BY <1>1, <1>2, <1>3 DEF Once, Alone, Answered
    <2>3. ~ intact
        BY <1>1, <1>3, Sizes DEF InStep
    <2> QED BY <1>3, <2>1, <2>2, <2>3 DEF QueryInv
<1>4. CASE /\ shared \in Session
           /\ outp' = Written(outp, <<shared>>, AnswerCap)
           /\ intact' = (intact /\ Fits(outp, <<shared>>, AnswerCap))
           /\ pc' = "ptr" /\ Fresh
    <2> PICK s \in Session : s = shared
        BY <1>4
    <2> PICK l \in Nat : l = Len(outp)
        BY <1>1 DEF Ranges
    <2>1. shared' = None /\ shared' \notin Session /\ name_len' = 0 /\ intact' \in BOOLEAN
          /\ Alone(s) /\ Queued(s) = {} /\ Answered(s) = {} /\ state[s] = "ASYNC_DNS"
        BY <1>1, <1>4, Sizes DEF Fresh, Once, Alone
    <2>2. CASE ~ Fits(outp, <<shared>>, AnswerCap)
        <3>1. outp' = outp /\ intact' = FALSE
            BY <1>4, <2>2 DEF Written
        <3>2. Ranges'
            BY <1>1, <1>4, <2>1, <3>1 DEF Ranges
        <3>3. Once'
            BY <1>1, <1>2, <2>1, <3>1 DEF Once, Alone, Answered
        <3> QED BY <3>1, <3>2, <3>3 DEF QueryInv
    <2>3. CASE Fits(outp, <<shared>>, AnswerCap)
        <3>1. outp' = outp \o <<s>>
            BY <1>4, <2>3 DEF Written
        <3>2. /\ outp' \in Seq(Session) /\ Len(outp') = l + 1 /\ outp'[l + 1] = s
              /\ \A i \in 1..l : outp'[i] = outp[i]
            <4>1. outp \in Seq(Session) /\ <<s>> \in Seq(Session) /\ Len(<<s>>) = 1 /\ <<s>>[1] = s
                BY <1>1 DEF Ranges
            <4>2. \A i \in 1..l + 1 : outp'[i] = IF i <= l THEN outp[i] ELSE <<s>>[i - l]
                BY <3>1, <4>1, ConcatProperties
            <4>3. outp' \in Seq(Session) /\ Len(outp') = l + 1
                BY <3>1, <4>1, ConcatProperties
            <4>4. outp'[l + 1] = s
                <5>1. l + 1 \in 1..l + 1 /\ ~ (l + 1 <= l) /\ (l + 1) - l = 1
                    OBVIOUS
                <5> QED BY <4>1, <4>2, <5>1
            <4>5. \A i \in 1..l : outp'[i] = outp[i]
                BY <4>2
            <4> QED BY <4>3, <4>4, <4>5
        <3>3. DOMAIN outp = 1..l /\ DOMAIN outp' = 1..l + 1
            BY <1>1, <3>2 DEF Ranges
        <3>4. \A t \in Session : t # s => Answered(t)' = Answered(t)
            BY <3>2, <3>3 DEF Answered
        <3>5. Answered(s)' = {l + 1}
            BY <2>1, <3>2, <3>3 DEF Answered
        <3>6. ASSUME NEW t \in Session
              PROVE  Alone(t)'
            <4>1. CASE t = s
                <5>1. Queued(t)' = {} /\ shared' # t /\ state'[t] = "ASYNC_DNS"
                    BY <1>1, <1>2, <2>1, <4>1
                <5>2. \A i, k \in Answered(t)' : i = k
                    BY <3>5, <4>1
                <5> QED BY <5>1, <5>2 DEF Alone
            <4>2. CASE t # s
                BY <1>1, <1>2, <2>1, <3>4, <4>2 DEF Once, Alone
            <4> QED BY <4>1, <4>2
        <3>7. Ranges'
            BY <1>1, <1>4, <2>1, <3>2 DEF Ranges
        <3>8. ASSUME intact'
              PROVE  Framed' /\ InStep' /\ Tracked'
            <4>1. intact
                BY <1>4, <3>8
            <4>2. Framed' /\ Left(0)'
                BY <1>1, <4>1 DEF Framed, Whole, InStep, Left
            <4>3. InStep'
                BY <1>4, <2>1, <4>2 DEF InStep
            <4>4. ASSUME NEW t \in Session, state'[t] = "ASYNC_DNS"
                  PROVE  Somewhere(t)'
                <5>1. CASE t = s
                    BY <3>5, <5>1 DEF Somewhere
                <5>2. CASE t # s
                    BY <1>1, <1>2, <3>4, <4>1, <4>4, <5>2 DEF Tracked, Somewhere
                <5> QED BY <5>1, <5>2
            <4> QED BY <4>2, <4>3, <4>4 DEF Tracked
        <3> QED BY <3>6, <3>7, <3>8 DEF QueryInv, Once
    <2> QED BY <2>2, <2>3
<1> QED BY <1>3, <1>4 DEF Lookup
-----------------------------------------------------------------------------
(* No step of the main thread or of resolver_th breaks QueryInv.             *)
THEOREM NextQueryInv == QueryInv /\ [Next]_vars => QueryInv'
<1> SUFFICES ASSUME QueryInv, [Next]_vars PROVE QueryInv'
    OBVIOUS
<1>1. ASSUME NEW s \in Session, resolve(s) PROVE QueryInv'
    BY <1>1, ResolveKeeps
<1>2. ASSUME NEW s \in Session, Reused(s) PROVE QueryInv'
    BY <1>2, ReusedKeeps
<1>3. CASE resolve_ret
    BY <1>3, RetKeeps
<1>4. CASE ReadPointer
    BY <1>4, ReadPointerKeeps
<1>5. CASE ReadLength
    BY <1>5, ReadLengthKeeps
<1>6. CASE ReadName
    BY <1>6, ReadNameKeeps
<1>7. CASE ReadPort
    BY <1>7, ReadPortKeeps
<1>8. CASE Lookup
    BY <1>8, LookupKeeps
<1>9. CASE UNCHANGED vars
    <2>1. UNCHANGED <<state, inp, outp, pc, shared, name_len, intact>>
        BY <1>9 DEF vars
    <2>2. Once' /\ (Tracked => Tracked')
        BY <2>1 DEF QueryInv, Once, Alone, Tracked, Somewhere, Queued, Answered
    <2>3. /\ state' \in [Session -> {"WAITING_COMMAND", "ASYNC_DNS", "ANSWERED"}]
          /\ outp' \in Seq(Session)
        BY <2>1 DEF QueryInv, Ranges
    <2> QED BY <2>1, <2>2, <2>3, MainKeeps
<1> QED BY <1>1, <1>2, <1>3, <1>4, <1>5, <1>6, <1>7, <1>8, <1>9 DEF Next, resolver_th

LEMMA QueryInvAlways == Spec => []QueryInv
BY InitQueryInv, NextQueryInv, PTL DEF Spec

(* How many places hold a query.                                             *)
LEMMA Counts ==
    ASSUME QueryInv, NEW s \in Session
    PROVE  /\ Cardinality(Queued(s)) = (IF Queued(s) = {} THEN 0 ELSE 1)
           /\ Cardinality(Answered(s)) = (IF Answered(s) = {} THEN 0 ELSE 1)
           /\ Cardinality(Taken(s)) = (IF shared = s THEN 1 ELSE 0)
<1>1. /\ \A i, k \in Queued(s) : i = k
      /\ \A i, k \in Answered(s) : i = k
    BY DEF QueryInv, Once, Alone
<1>2. \A x : Cardinality({x}) = 1
    BY FS_Singleton
<1>3. Cardinality({}) = 0
    BY FS_EmptySet
<1>4. ASSUME NEW S, \A i, k \in S : i = k
      PROVE  Cardinality(S) = (IF S = {} THEN 0 ELSE 1)
    <2>1. CASE S = {}
        BY <1>3, <2>1
    <2>2. CASE S # {}
        <3> PICK x \in S : TRUE
            BY <2>2
        <3>1. S = {x}
            BY <1>4
        <3> QED BY <1>2, <2>2, <3>1
    <2> QED BY <2>1, <2>2
<1>5. Taken(s) = IF shared = s THEN {s} ELSE {}
    BY DEF Taken
<1>6. Cardinality(Taken(s)) = (IF shared = s THEN 1 ELSE 0)
    BY <1>2, <1>3, <1>5
<1> QED BY <1>1, <1>4, <1>6

(* resolve_ret (resolver.c:25) resumes the session whose pointer it reads:  *)
(* there is never another answer for it, nor one for a session, or for the   *)
(* next owner of its memory, that does not wait.                             *)
THEOREM OneOutstandingAlways == Spec => []OneOutstanding
<1>1. QueryInv => OneOutstanding
    <2> SUFFICES ASSUME QueryInv, NEW s \in Session
                 PROVE  Outstanding(s) <= IF state[s] = "ASYNC_DNS" THEN 1 ELSE 0
        BY DEF OneOutstanding
    <2>1. Alone(s)
        BY DEF QueryInv, Once
    <2> QED BY <2>1, Counts DEF Outstanding, Alone
<1> QED BY <1>1, QueryInvAlways, PTL

(* STATE_ASYNC_DNS of waitingcommand: as long as no write found a pipe full  *)
(* and the byte that resolve leaves unset was the length, the query of a     *)
(* session that waits is in a pipe or with the thread.                       *)
THEOREM QueryUnderWayAlways == Spec => []QueryUnderWay
<1>1. QueryInv => QueryUnderWay
    <2> SUFFICES ASSUME QueryInv, intact, NEW s \in Session, state[s] = "ASYNC_DNS"
                 PROVE  Outstanding(s) > 0
        BY DEF QueryUnderWay
    <2>1. Queued(s) # {} \/ shared = s \/ Answered(s) # {}
        BY DEF QueryInv, Tracked, Somewhere
    <2> QED BY <2>1, Counts DEF Outstanding
<1> QED BY <1>1, QueryInvAlways, PTL
=============================================================================
