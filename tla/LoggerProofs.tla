---------------------------- MODULE LoggerProofs ----------------------------
(* What logger_th writes is what was accepted, for every code, every size of *)
(* the pipe and every interleaving of the two threads.                       *)
(*                                                                           *)
(* Framed is not inductive: that the thread finds a type where it reads one  *)
(* rests on every message of the pipe, not only on the next.  Cut says where *)
(* each accepted message that is not yet written begins in what the thread   *)
(* has read and the pipe holds.                                              *)
EXTENDS Logger, SequenceTheorems, TLAPS

(* What has been read of the message under way, and what waits in the pipe.  *)
Size == Len(entry) + Len(pipe)
UnitAt(k) == IF k <= Len(entry) THEN entry[k] ELSE pipe[k - Len(entry)]

Next1 == Len(files) + 1
End == Len(accepted) + 1

(* Message i begins behind unit at[i]; behind the last there is nothing, or  *)
(* the byte of the join.                                                     *)
Cut(at) ==
    /\ at \in [Nat -> Nat] /\ at[Next1] = 0
    /\ \A i, k \in Next1..End : i <= k => at[i] <= at[k]
    /\ \A i \in Next1..Len(accepted) :
          /\ at[i + 1] = at[i] + Len(accepted[i])
          /\ \A j \in 1..Len(accepted[i]) : UnitAt(at[i] + j) = accepted[i][j]
    /\ \/ Size = at[End]
       \/ Size = at[End] + 1 /\ main # "running" /\ UnitAt(Size) = "LOG_SIG_JOIN"

(* The ranges: TypeOK without Framed.                                        *)
Ranges ==
    /\ main \in {"running", "joining", "joined"}
    /\ pipe \in Seq(Unit) /\ Len(pipe) <= LogCap
    /\ pc \in {"start", "poll", "type", "code", "client", "server", "ended"}
    /\ opened \in BOOLEAN /\ (opened => pc # "start") /\ (main = "joined" => pc = "ended")
    /\ files \in Seq(Messages) /\ logged \in Seq(Messages) /\ accepted \in Seq(Messages)
    /\ entry \in Seq(Unit) /\ Len(entry) <= 3

(* What has been read by the time the thread is at a field.                  *)
ReadSoFar ==
    /\ pc \in {"start", "poll", "type", "ended"} => entry = <<>>
    /\ pc = "code" => Len(entry) = 1 /\ entry[1] \in Kind
    /\ pc = "client" => Len(entry) = 2 /\ entry[1] = "LOG_ACCESS"
    /\ pc = "server" => Len(entry) = 3 /\ entry[1] = "LOG_ACCESS"

Prefix == Len(files) <= Len(accepted) /\ \A i \in 1..Len(files) : files[i] = accepted[i]

(* The thread ends without its files, or after the last message.             *)
Ended ==
    /\ ~ opened => pc \in {"start", "ended"}
    /\ pc = "ended" /\ opened => main # "running" /\ Len(files) = Len(accepted)

LogInv ==
    /\ Ranges /\ ReadSoFar /\ Prefix /\ Ended
    /\ pc = "start" \/ opened => \E at : Cut(at)
-----------------------------------------------------------------------------
(* A message is a type, a code and, of an access entry, two addresses.       *)
LEMMA MessageShape ==
    ASSUME NEW m \in Messages
    PROVE  /\ m \in Seq(Unit)
           /\ m[1] \in Kind /\ m[2] \in Code
           /\ m[1] = "LOG_ERROR" => Len(m) = 2
           /\ m[1] = "LOG_ACCESS" => Len(m) = 4 /\ m[3] = "client" /\ m[4] = "server"
<1>1. ASSUME NEW c \in Code, m = <<"LOG_ERROR", c>>
      PROVE  /\ m \in Seq(Unit) /\ m[1] = "LOG_ERROR" /\ m[2] = c /\ Len(m) = 2
    BY <1>1 DEF Unit, Kind
<1>2. ASSUME NEW c \in Code, m = <<"LOG_ACCESS", c, "client", "server">>
      PROVE  /\ m \in Seq(Unit) /\ m[1] = "LOG_ACCESS" /\ m[2] = c /\ Len(m) = 4
             /\ m[3] = "client" /\ m[4] = "server"
    BY <1>2 DEF Unit, Kind
<1> QED BY <1>1, <1>2 DEF Messages, Kind

(* The lengths that occur.                                                   *)
LEMMA Lengths ==
    ASSUME LogInv
    PROVE  /\ Len(pipe) \in Nat /\ Len(entry) \in Nat /\ Len(files) \in Nat
           /\ Len(accepted) \in Nat /\ Len(logged) \in Nat /\ LogCap \in Nat
           /\ Size \in Nat /\ Next1 \in Nat /\ End \in Nat /\ Next1 <= End
           /\ Next1 = Len(files) + 1 /\ End = Len(accepted) + 1
BY LoggerAssumption DEF LogInv, Ranges, Prefix, Size, Next1, End

(* A read of one field takes the first unit of a pipe that has one.          *)
LEMMA FieldRead ==
    ASSUME LogInv, Reads
    PROVE  \/ pipe = <<>> /\ pipe' = pipe /\ Field = <<>>
           \/ /\ pipe # <<>> /\ Len(pipe) >= 1 /\ Field = <<Head(pipe)>> /\ Len(Field) = 1
              /\ Field \in Seq(Unit) /\ Field[1] = pipe[1]
              /\ pipe' \in Seq(Unit) /\ Len(pipe') = Len(pipe) - 1
              /\ \A k \in 1..Len(pipe') : pipe'[k] = pipe[k + 1]
<1>1. pipe \in Seq(Unit) /\ Len(pipe) \in Nat
    BY Lengths DEF LogInv, Ranges
<1>2. CASE pipe = <<>>
    <2>1. Len(pipe) = 0
        BY <1>2
    <2>2. Field = SubSeq(pipe, 1, 0)
        BY <2>1 DEF Field, ReadOf
    <2>3. Field = <<>>
        BY <1>1, <2>2
    <2>4. pipe' = SubSeq(pipe, Len(ReadOf(pipe, 1)) + 1, Len(pipe)) /\ Len(ReadOf(pipe, 1)) = 0
        BY <2>3 DEF Reads, RestOf, Field
    <2>5. pipe' = <<>>
        BY <1>1, <2>1, <2>4
    <2> QED BY <1>2, <2>3, <2>5
<1>3. CASE pipe # <<>>
    <2>1. Len(pipe) >= 1
        BY <1>1, <1>3
    <2>2. Field = SubSeq(pipe, 1, 1)
        BY <1>1, <2>1 DEF Field, ReadOf
    <2>3. Field \in Seq(Unit) /\ Len(Field) = 1 /\ Field[1] = pipe[1]
        BY <1>1, <2>1, <2>2
    <2>4. Field = <<Head(pipe)>>
        BY <1>1, <2>1, <2>3
    <2>5. pipe' = SubSeq(pipe, 2, Len(pipe))
        <3>1. pipe' = SubSeq(pipe, Len(Field) + 1, Len(pipe))
            BY DEF Reads, RestOf, Field
        <3> QED BY <2>3, <3>1
    <2>6. /\ pipe' \in Seq(Unit) /\ Len(pipe') = Len(pipe) - 1
          /\ \A k \in 1..Len(pipe') : pipe'[k] = pipe[k + 1]
        <3> DEFINE rest == SubSeq(pipe, 2, Len(pipe))
        <3>1. /\ rest \in Seq(Unit) /\ Len(rest) = Len(pipe) - 1
              /\ \A k \in 1..Len(rest) : rest[k] = pipe[k + 1]
            <4>1. \A i \in 2..Len(pipe) : pipe[i] \in Unit
                BY <1>1
            <4>2. /\ rest \in Seq(Unit)
                  /\ Len(rest) = IF 2 <= Len(pipe) THEN Len(pipe) - 2 + 1 ELSE 0
                  /\ \A i \in 1..Len(pipe) - 2 + 1 : rest[i] = pipe[2 + i - 1]
                BY <1>1, <4>1, SubSeqProperties
            <4> HIDE DEF rest
            <4>3. Len(rest) = Len(pipe) - 1
                <5>1. Len(rest) = IF 2 <= Len(pipe) THEN Len(pipe) - 2 + 1 ELSE 0
                    BY <4>2
                <5> DEFINE n == Len(pipe)
                           m == Len(rest)
                <5>2. n \in Nat /\ n >= 1 /\ m = IF 2 <= n THEN n - 2 + 1 ELSE 0
                    BY <1>1, <2>1, <5>1
                <5> HIDE DEF n, m
                <5>3. m = n - 1
                    BY <5>2
                <5> QED BY <5>3 DEF n, m
            <4>4. ASSUME NEW k \in 1..Len(rest)
                  PROVE  rest[k] = pipe[k + 1]
                <5>1. k \in 1..Len(pipe) - 2 + 1 /\ 2 + k - 1 = k + 1
                    BY <1>1, <4>3
                <5> QED BY <4>2, <5>1
            <4> QED BY <4>2, <4>3, <4>4
        <3>2. pipe' = rest
            BY <2>5
        <3> HIDE DEF rest
        <3> QED BY <3>1, <3>2
    <2> QED BY <1>3, <2>1, <2>3, <2>4, <2>6
<1> QED BY <1>2, <1>3

(* The message under way: as long as the thread has read a type, it is the   *)
(* first that is not yet written, and the rest of it is there.               *)
LEMMA UnderWay ==
    ASSUME LogInv, NEW at, Cut(at), Size >= 1, UnitAt(1) \in Kind
    PROVE  /\ Next1 \in Next1..Len(accepted) /\ accepted[Next1] \in Messages
           /\ Len(accepted[Next1]) \in Nat /\ at[Next1 + 1] = Len(accepted[Next1])
           /\ Len(accepted[Next1]) <= Size
           /\ \A j \in 1..Len(accepted[Next1]) : UnitAt(j) = accepted[Next1][j]
<1>1. Len(files) < Len(accepted)
    <2> SUFFICES ASSUME Len(files) = Len(accepted) PROVE FALSE
        BY Lengths DEF LogInv, Prefix
    <2>1. at[End] = 0
        BY Lengths DEF Cut, Next1, End
    <2>2. Size = at[End] \/ (Size = at[End] + 1 /\ UnitAt(Size) = "LOG_SIG_JOIN")
        BY DEF Cut
    <2>3. Size = 1
        BY <2>1, <2>2, Lengths
    <2>4. UnitAt(1) = "LOG_SIG_JOIN"
        BY <2>1, <2>2, <2>3
    <2> QED BY <2>4 DEF Kind
<1>2. Next1 \in Next1..Len(accepted) /\ Next1 + 1 \in Next1..End /\ End \in Next1..End
    BY <1>1, Lengths
<1>3. accepted[Next1] \in Messages
    BY <1>2, Lengths DEF LogInv, Ranges
<1>4. Len(accepted[Next1]) \in Nat
    BY <1>3, MessageShape
<1>5. /\ at[Next1] = 0 /\ at[Next1 + 1] = at[Next1] + Len(accepted[Next1])
      /\ \A j \in 1..Len(accepted[Next1]) : UnitAt(at[Next1] + j) = accepted[Next1][j]
    BY <1>2 DEF Cut
<1>6. at[Next1 + 1] <= at[End] /\ at[End] \in Nat /\ at[End] <= Size
    <2>1. at[Next1 + 1] <= at[End] /\ at[End] \in Nat
        <3>1. \A i, k \in Next1..End : i <= k => at[i] <= at[k]
            BY DEF Cut
        <3>2. Next1 + 1 <= End
            BY <1>2, Lengths
        <3>3. at[Next1 + 1] <= at[End]
            BY <1>2, <3>1, <3>2
        <3>4. at[End] \in Nat
            BY Lengths DEF Cut
        <3> QED BY <3>3, <3>4
    <2>2. Size = at[End] \/ Size = at[End] + 1
        BY DEF Cut
    <2> QED BY <2>1, <2>2
<1> QED BY <1>2, <1>3, <1>4, <1>5, <1>6, Lengths
-----------------------------------------------------------------------------
(* Every unit of a message that is not yet written is there.                 *)
LEMMA Within ==
    ASSUME LogInv, NEW at, Cut(at), NEW i \in Next1..Len(accepted),
           NEW j \in 1..Len(accepted[i])
    PROVE  /\ i \in Nat /\ at[i] \in Nat /\ at[i + 1] \in Nat /\ at[End] \in Nat
           /\ i + 1 \in Next1..End /\ i \in Next1..End
           /\ accepted[i] \in Messages /\ j \in Nat /\ Len(accepted[i]) \in Nat
           /\ at[i] + j \in 1..at[End] /\ at[End] <= Size /\ at[i] + j \in 1..Size
<1>1. i \in Nat /\ i + 1 \in Next1..End /\ i \in Next1..End /\ End \in Next1..End
    BY Lengths
<1>2. at[i] \in Nat /\ at[i + 1] \in Nat /\ at[End] \in Nat
    BY <1>1, Lengths DEF Cut
<1>3. accepted[i] \in Messages
    BY <1>1, Lengths DEF LogInv, Ranges
<1>4. Len(accepted[i]) \in Nat /\ j \in Nat /\ j >= 1 /\ j <= Len(accepted[i])
    BY <1>3, MessageShape
<1>5. at[i + 1] = at[i] + Len(accepted[i])
    BY DEF Cut
<1>6. at[i + 1] <= at[End]
    <2>1. \A m, k \in Next1..End : m <= k => at[m] <= at[k]
        BY DEF Cut
    <2>2. i + 1 <= End
        BY <1>1, Lengths
    <2> QED BY <1>1, <2>1, <2>2
<1>7. Size = at[End] \/ Size = at[End] + 1
    BY DEF Cut
<1>8. at[i] + j \in 1..at[End]
    BY <1>2, <1>4, <1>5, <1>6
<1>9. at[End] <= Size
    BY <1>2, <1>7
<1>10. at[i] + j \in 1..Size
    <2>1. \A u \in 1..at[End] : u \in 1..Size
        BY <1>2, <1>9, Lengths
    <2> QED BY <1>8, <2>1
<1> QED BY <1>1, <1>2, <1>3, <1>4, <1>8, <1>9, <1>10

(* Reading a field and keeping it moves nothing.                             *)
LEMMA CutKept ==
    ASSUME LogInv, NEW at, Cut(at), UNCHANGED <<files, accepted>>,
           main' = main \/ main' # "running",
           Size' = Size, \A k \in 1..Size : UnitAt(k)' = UnitAt(k)
    PROVE  Cut(at)'
<1>1. Next1' = Next1 /\ End' = End /\ Len(accepted') = Len(accepted)
    BY DEF Next1, End
<1>2. /\ at \in [Nat -> Nat] /\ at[Next1] = 0
      /\ \A i, k \in Next1..End : i <= k => at[i] <= at[k]
    BY DEF Cut
<1>3. ASSUME NEW i \in Next1..Len(accepted)
      PROVE  /\ at[i + 1] = at[i] + Len(accepted[i])
             /\ \A j \in 1..Len(accepted[i]) : UnitAt(at[i] + j)' = accepted[i][j]
    <2>1. ASSUME NEW j \in 1..Len(accepted[i])
          PROVE  UnitAt(at[i] + j)' = accepted[i][j]
        <3>1. at[i] + j \in 1..Size
            BY Within
        <3>2. UnitAt(at[i] + j) = accepted[i][j]
            BY DEF Cut
        <3> QED BY <3>1, <3>2
    <2>2. at[i + 1] = at[i] + Len(accepted[i])
        BY DEF Cut
    <2> QED BY <2>1, <2>2
<1>4. \/ Size = at[End]
      \/ Size = at[End] + 1 /\ main' # "running" /\ UnitAt(Size)' = "LOG_SIG_JOIN"
    <2>1. CASE Size = at[End]
        BY <2>1
    <2>2. CASE Size = at[End] + 1 /\ main # "running" /\ UnitAt(Size) = "LOG_SIG_JOIN"
        <3>1. Size \in 1..Size
            <4>1. at[End] \in Nat
                BY <1>2, Lengths
            <4> QED BY <2>2, <4>1, Lengths
        <3>2. UnitAt(Size)' = "LOG_SIG_JOIN"
            BY <2>2, <3>1
        <3> QED BY <2>2, <3>2
    <2> QED BY <2>1, <2>2 DEF Cut
<1>5. \/ Size' = at[End]
      \/ Size' = at[End] + 1 /\ main' # "running" /\ UnitAt(Size)' = "LOG_SIG_JOIN"
    BY <1>4
<1> QED BY <1>1, <1>2, <1>3, <1>5 DEF Cut

(* Another message begins where the last one ends.                           *)
LEMMA CutLonger ==
    ASSUME LogInv, NEW at, Cut(at), main = "running", main' = main, files' = files,
           NEW e \in Messages, accepted' = Append(accepted, e),
           NEW n \in Nat, n = Size, Size' = n + Len(e),
           \A k \in 1..n : UnitAt(k)' = UnitAt(k),
           \A j \in 1..Len(e) : UnitAt(n + j)' = e[j]
    PROVE  \E b : Cut(b)'
<1> PICK last \in Nat : last = End
    BY Lengths
<1> PICK first \in Nat : first = Next1
    BY Lengths
<1> DEFINE b == [i \in Nat |-> IF i = last + 1 THEN n + Len(e) ELSE at[i]]
<1>1. /\ at \in [Nat -> Nat] /\ at[first] = 0 /\ at[last] = n
      /\ \A i, k \in first..last : i <= k => at[i] <= at[k]
      /\ first <= last
    BY Lengths DEF Cut
<1>2. Len(e) \in Nat
    BY MessageShape
<1>3. /\ Next1' = first /\ Len(accepted) = last - 1 /\ Len(accepted') = last /\ End' = last + 1
      /\ \A i \in 1..last - 1 : accepted'[i] = accepted[i]
      /\ accepted'[last] = e
    <2>1. accepted \in Seq(Messages) /\ Len(accepted) = last - 1
        BY Lengths DEF LogInv, Ranges
    <2>2. /\ Len(accepted') = Len(accepted) + 1
          /\ \A i \in 1..Len(accepted) : accepted'[i] = accepted[i]
          /\ accepted'[Len(accepted) + 1] = e
        BY <2>1, AppendProperties
    <2>3. Len(accepted') = last /\ End' = last + 1
        BY <2>1, <2>2 DEF End
    <2> QED BY <2>1, <2>2, <2>3 DEF Next1
<1>4. first \in Nat /\ first >= 1
    BY Lengths
<1>5. b \in [Nat -> Nat]
    <2>1. n + Len(e) \in Nat
        BY <1>2
    <2>2. \A i \in Nat : at[i] \in Nat
        BY <1>1
    <2> QED BY <2>1, <2>2
<1>6. b[last + 1] = n + Len(e) /\ \A i \in Nat : i <= last => b[i] = at[i]
    OBVIOUS
<1> HIDE DEF b
<1>7. b[first] = 0
    BY <1>1, <1>6
<1>8. ASSUME NEW i \in first..last + 1, NEW k \in first..last + 1, i <= k
      PROVE  b[i] <= b[k]
    <2>1. CASE k <= last
        <3>1. i \in first..last /\ k \in first..last /\ i \in Nat /\ k \in Nat
            BY <1>8, <2>1
        <3>2. at[i] <= at[k]
            BY <1>1, <1>8, <3>1
        <3> QED BY <1>6, <1>8, <2>1, <3>1, <3>2
    <2>2. CASE k = last + 1
        <3>1. CASE i = last + 1
            BY <1>2, <1>6, <2>2, <3>1
        <3>2. CASE i \in first..last
            <4>1. at[i] <= at[last]
                BY <1>1, <3>2
            <4>2. b[i] = at[i] /\ at[i] \in Nat
                <5>1. i \in Nat /\ i <= last
                    BY <3>2
                <5> QED BY <1>1, <1>6, <5>1
            <4>3. b[k] = n + Len(e)
                BY <1>6, <2>2
            <4> PICK x \in Nat : x = at[i]
                BY <4>2
            <4>4. x <= n
                BY <1>1, <4>1
            <4>5. x <= n + Len(e)
                BY <1>2, <4>4
            <4> QED BY <4>2, <4>3, <4>5
        <3> QED BY <3>1, <3>2
    <2> QED BY <2>1, <2>2
<1>9. ASSUME NEW i \in first..last
      PROVE  /\ b[i + 1] = b[i] + Len(accepted'[i])
             /\ \A j \in 1..Len(accepted'[i]) : UnitAt(b[i] + j)' = accepted'[i][j]
    <2>1. CASE i < last
        <3>1. i \in Next1..Len(accepted) /\ i \in 1..last - 1 /\ i \in Nat
            BY <1>3, <1>4, <2>1
        <3>2. accepted'[i] = accepted[i]
            BY <1>3, <3>1
        <3>3. b[i] = at[i] /\ b[i + 1] = at[i + 1]
            BY <1>6, <2>1, <3>1
        <3>4. ASSUME NEW j \in 1..Len(accepted[i])
              PROVE  UnitAt(at[i] + j)' = accepted[i][j]
            <4>1. at[i] + j \in 1..n
                BY <3>1, Within
            <4>2. UnitAt(at[i] + j) = accepted[i][j]
                BY <3>1 DEF Cut
            <4> QED BY <4>1, <4>2
        <3>5. at[i + 1] = at[i] + Len(accepted[i])
            BY <3>1 DEF Cut
        <3> QED BY <3>2, <3>3, <3>4, <3>5
    <2>2. CASE i = last
        <3>1. b[i] = n /\ b[i + 1] = n + Len(e)
            <4>1. b[last] = at[last]
                BY <1>6
            <4> QED BY <1>1, <1>6, <2>2, <4>1
        <3>2. accepted'[i] = e
            BY <1>3, <2>2
        <3> QED BY <3>1, <3>2
    <2>3. i < last \/ i = last
        OBVIOUS
    <2> QED BY <2>1, <2>2, <2>3
<1>10. Size' = b[last + 1]
    BY <1>6
<1>11. Cut(b)'
    BY <1>3, <1>5, <1>7, <1>8, <1>9, <1>10 DEF Cut
<1> QED BY <1>11

(* A unit behind the first n, seen from the n-th.                            *)
LEMMA Shifted ==
    ASSUME NEW a \in Nat, NEW j \in Nat, NEW n \in Nat, NEW m \in Nat,
           a >= n, j >= 1, a + j <= m + n
    PROVE  /\ (a - n) + j \in 1..m /\ ((a - n) + j) + n = a + j
           /\ a + j = m + n => m = (a - n) + j
OBVIOUS

(* The first message has been written.                                       *)
LEMMA CutShorter ==
    ASSUME LogInv, NEW at, NEW n \in Nat, NEW m \in Nat
    PROVE  /\ Cut(at) /\ UNCHANGED <<main, accepted>>
           /\ Next1 \in Next1..Len(accepted) /\ Len(files') = Len(files) + 1
           /\ n = at[Next1 + 1] /\ Size = m + n /\ Size' = m
           /\ \A k \in 1..m : UnitAt(k)' = UnitAt(k + n)
           => \E b : Cut(b)'
<1>0. SUFFICES ASSUME Cut(at), UNCHANGED <<main, accepted>>,
                      Next1 \in Next1..Len(accepted), Len(files') = Len(files) + 1,
                      n = at[Next1 + 1], Size = m + n, Size' = m,
                      \A k \in 1..m : UnitAt(k)' = UnitAt(k + n)
               PROVE  \E b : Cut(b)'
    OBVIOUS
<1> PICK last \in Nat : last = End
    BY Lengths
<1> PICK first \in Nat : first = Next1
    BY Lengths
<1> DEFINE b == [i \in Nat |-> IF at[i] >= n THEN at[i] - n ELSE 0]
<1>1. /\ at \in [Nat -> Nat] /\ at[first] = 0 /\ at[first + 1] = n
      /\ \A i, k \in first..last : i <= k => at[i] <= at[k]
    BY <1>0 DEF Cut
<1>2. /\ Next1' = first + 1 /\ End' = last /\ first + 1 <= last /\ Len(accepted) = last - 1
      /\ Len(accepted') = Len(accepted) /\ first + 1 \in first..last /\ first >= 1
    <2>1. Len(accepted) \in Nat /\ Len(files) \in Nat
        BY Lengths
    <2> QED BY <1>0, <2>1 DEF Next1, End
<1>3. b \in [Nat -> Nat]
    <2>1. \A i \in Nat : at[i] \in Nat
        BY <1>1
    <2> QED BY <2>1
<1>4. \A i \in Nat : b[i] = IF at[i] >= n THEN at[i] - n ELSE 0
    OBVIOUS
<1> HIDE DEF b
<1>5. ASSUME NEW i \in first + 1..last
      PROVE  i \in Nat /\ i \in first..last /\ at[i] \in Nat /\ at[i] >= n /\ b[i] = at[i] - n
    <2>1. i \in Nat /\ i \in first..last /\ first + 1 <= i
        OBVIOUS
    <2>2. at[first + 1] <= at[i]
        BY <1>1, <1>2, <2>1
    <2>3. at[i] \in Nat /\ at[i] >= n
        BY <1>1, <2>1, <2>2
    <2> QED BY <1>4, <2>1, <2>3
<1>6. b[first + 1] = 0
    <2>1. first + 1 \in first + 1..last
        BY <1>2
    <2>2. b[first + 1] = at[first + 1] - n
        BY <1>5, <2>1
    <2> QED BY <1>1, <2>2
<1>7. ASSUME NEW i \in first + 1..last, NEW k \in first + 1..last, i <= k
      PROVE  b[i] <= b[k]
    <2>1. at[i] \in Nat /\ b[i] = at[i] - n /\ at[k] \in Nat /\ b[k] = at[k] - n
        BY <1>5
    <2>2. at[i] <= at[k]
        BY <1>1, <1>5, <1>7
    <2> QED BY <2>1, <2>2
<1>8. ASSUME NEW i \in first + 1..last - 1
      PROVE  /\ b[i + 1] = b[i] + Len(accepted[i])
             /\ \A j \in 1..Len(accepted[i]) : UnitAt(b[i] + j)' = accepted[i][j]
    <2>1. i \in Next1..Len(accepted) /\ i \in first + 1..last /\ i + 1 \in first + 1..last /\ i \in Nat
        BY <1>2
    <2>2. b[i] = at[i] - n /\ at[i] >= n /\ at[i] \in Nat
        BY <1>5, <2>1
    <2>3. b[i + 1] = at[i + 1] - n
        BY <1>5, <2>1
    <2>4. at[i + 1] = at[i] + Len(accepted[i])
        BY <1>0, <2>1 DEF Cut
    <2>5. Len(accepted[i]) \in Nat
        <3>1. i \in 1..Len(accepted)
            BY <1>2, <2>1
        <3>2. accepted[i] \in Messages
            BY <3>1 DEF LogInv, Ranges
        <3> QED BY <3>2, MessageShape
    <2>6. ASSUME NEW j \in 1..Len(accepted[i])
          PROVE  UnitAt(b[i] + j)' = accepted[i][j]
        <3>1. at[i] + j \in 1..m + n
            BY <1>0, <2>1, Within
        <3>2. UnitAt(at[i] + j) = accepted[i][j]
            BY <1>0, <2>1 DEF Cut
        <3>3. b[i] + j \in 1..m /\ (b[i] + j) + n = at[i] + j
            <4> PICK a \in Nat : a = at[i]
                BY <2>2
            <4>1. b[i] = a - n /\ a >= n /\ a + j \in 1..m + n /\ j \in Nat /\ j >= 1
                BY <2>2, <2>5, <3>1
            <4>2. a + j <= m + n
                BY <4>1
            <4>3. a >= n /\ j \in Nat /\ j >= 1
                BY <4>1
            <4>4. PICK c \in Nat : a = c + n
                <5>1. a - n \in Nat /\ a = (a - n) + n
                    BY <4>3
                <5> QED BY <5>1
            <4>5. b[i] = c /\ (c + j) + n = a + j
                BY <4>1, <4>3, <4>4
            <4>6. c + j <= m
                BY <4>2, <4>3, <4>4
            <4>7. c + j \in 1..m
                BY <4>3, <4>6
            <4> QED BY <4>4, <4>5, <4>7
        <3>4. UnitAt(b[i] + j)' = UnitAt((b[i] + j) + n)
            BY <1>0, <3>3
        <3> QED BY <3>2, <3>3, <3>4
    <2>7. b[i + 1] = b[i] + Len(accepted[i])
        BY <2>2, <2>3, <2>4, <2>5
    <2> QED BY <2>6, <2>7
<1>9. b[last] = at[last] - n /\ at[last] >= n /\ at[last] \in Nat
    <2>1. last \in first + 1..last
        BY <1>2
    <2> QED BY <1>5, <2>1
<1>10. \/ m = b[last]
       \/ m = b[last] + 1 /\ main # "running" /\ UnitAt(m)' = "LOG_SIG_JOIN"
    <2>1. CASE Size = at[last]
        BY <1>0, <1>9, <2>1
    <2>2. CASE Size = at[last] + 1 /\ main # "running" /\ UnitAt(Size) = "LOG_SIG_JOIN"
        <3>1. m \in 1..m /\ m = b[last] + 1
            <4> PICK a \in Nat : a = at[last]
                BY <1>9
            <4>1. b[last] = a - n /\ a >= n /\ m + n = a + 1
                BY <1>0, <1>9, <2>2
            <4>2. 1 \in Nat /\ 1 >= 1 /\ a + 1 = m + n /\ a + 1 <= m + n
                BY <4>1
            <4>3. (a - n) + 1 \in 1..m /\ m = (a - n) + 1
                BY <4>1, <4>2, Shifted
            <4> QED BY <4>1, <4>3
        <3>2. UnitAt(m)' = UnitAt(m + n)
            BY <1>0, <3>1
        <3> QED BY <1>0, <2>2, <3>1, <3>2
    <2> QED BY <1>0, <2>1, <2>2 DEF Cut
<1>11. \/ Size' = b[last]
       \/ Size' = b[last] + 1 /\ main' # "running" /\ UnitAt(Size)' = "LOG_SIG_JOIN"
    BY <1>0, <1>10
<1>12. b[Next1'] = 0 /\ \A i, k \in Next1'..End' : i <= k => b[i] <= b[k]
    BY <1>2, <1>6, <1>7
<1>13. \A i \in Next1'..Len(accepted') :
          /\ b[i + 1] = b[i] + Len(accepted'[i])
          /\ \A j \in 1..Len(accepted'[i]) : UnitAt(b[i] + j)' = accepted'[i][j]
    <2>1. accepted' = accepted /\ Next1' = first + 1 /\ Len(accepted') = last - 1
        BY <1>0, <1>2
    <2> QED BY <1>8, <2>1
<1>14. b[End'] = b[last]
    BY <1>2
<1>15. Cut(b)'
    BY <1>3, <1>11, <1>12, <1>13, <1>14 DEF Cut
<1> QED BY <1>15
-----------------------------------------------------------------------------
(* What a write and a read do to the units.                                  *)
LEMMA Longer ==
    ASSUME LogInv, NEW e \in Seq(Unit), entry' = entry, pipe' = pipe \o e
    PROVE  /\ Size' = Size + Len(e) /\ pipe' \in Seq(Unit) /\ Len(pipe') = Len(pipe) + Len(e)
           /\ \A k \in 1..Size : UnitAt(k)' = UnitAt(k)
           /\ \A j \in 1..Len(e), k \in Nat : k = Size + j => UnitAt(k)' = e[j]
<1>1. pipe \in Seq(Unit) /\ Len(pipe) \in Nat /\ Len(entry) \in Nat /\ Len(e) \in Nat
    BY Lengths DEF LogInv, Ranges
<1>2. /\ pipe' \in Seq(Unit) /\ Len(pipe') = Len(pipe) + Len(e)
      /\ \A i \in 1..Len(pipe) + Len(e) :
            pipe'[i] = IF i <= Len(pipe) THEN pipe[i] ELSE e[i - Len(pipe)]
    BY <1>1, ConcatProperties
<1>3. Size' = Size + Len(e)
    BY <1>1, <1>2 DEF Size
<1>4. ASSUME NEW k \in 1..Size
      PROVE  UnitAt(k)' = UnitAt(k)
    <2>1. CASE k <= Len(entry)
        BY <2>1 DEF UnitAt
    <2>2. CASE ~ (k <= Len(entry))
        <3>1. k - Len(entry) \in 1..Len(pipe) + Len(e) /\ k - Len(entry) <= Len(pipe)
            BY <1>1, <2>2 DEF Size
        <3>2. pipe'[k - Len(entry)] = pipe[k - Len(entry)]
            BY <1>2, <3>1
        <3> QED BY <2>2, <3>2 DEF UnitAt
    <2> QED BY <2>1, <2>2
<1>5. ASSUME NEW j \in 1..Len(e), NEW k \in Nat, k = Size + j
      PROVE  UnitAt(k)' = e[j]
    <2>1. ~ (k <= Len(entry)) /\ k - Len(entry) = Len(pipe) + j /\ j >= 1 /\ j <= Len(e) /\ j \in Nat
        BY <1>1, <1>5 DEF Size
    <2>2. UnitAt(k)' = pipe'[Len(pipe) + j]
        BY <2>1 DEF UnitAt
    <2>3. /\ Len(pipe) + j \in 1..Len(pipe) + Len(e) /\ ~ (Len(pipe) + j <= Len(pipe))
          /\ (Len(pipe) + j) - Len(pipe) = j
        BY <1>1, <2>1
    <2>4. pipe'[Len(pipe) + j] = e[j]
        BY <1>2, <2>3
    <2> QED BY <2>2, <2>4
<1> QED BY <1>2, <1>3, <1>4, <1>5

LEMMA Kept ==
    ASSUME LogInv, Reads, pipe # <<>>, entry' = entry \o Field
    PROVE  /\ Size' = Size /\ \A k \in 1..Size : UnitAt(k)' = UnitAt(k)
           /\ entry' \in Seq(Unit) /\ Len(entry') = Len(entry) + 1
           /\ \A k \in 1..Len(entry) : entry'[k] = entry[k]
<1>1. /\ entry \in Seq(Unit) /\ Len(entry) \in Nat /\ Len(pipe) \in Nat
      /\ Len(pipe) >= 1 /\ Field \in Seq(Unit) /\ Len(Field) = 1 /\ Field[1] = pipe[1]
      /\ Len(pipe') = Len(pipe) - 1 /\ \A k \in 1..Len(pipe') : pipe'[k] = pipe[k + 1]
    BY FieldRead, Lengths DEF LogInv, Ranges
<1>2. /\ entry' \in Seq(Unit) /\ Len(entry') = Len(entry) + 1
      /\ \A i \in 1..Len(entry) + 1 :
            entry'[i] = IF i <= Len(entry) THEN entry[i] ELSE Field[i - Len(entry)]
    <2> DEFINE f == Field
    <2>1. entry \in Seq(Unit) /\ f \in Seq(Unit) /\ Len(f) = 1 /\ entry' = entry \o f
        BY <1>1
    <2> HIDE DEF f
    <2>2. /\ entry \o f \in Seq(Unit) /\ Len(entry \o f) = Len(entry) + Len(f)
          /\ \A i \in 1..Len(entry) + Len(f) :
                (entry \o f)[i] = IF i <= Len(entry) THEN entry[i] ELSE f[i - Len(entry)]
        BY <2>1, ConcatProperties, Zenon
    <2> QED BY <2>1, <2>2 DEF f
<1>3. Size' = Size
    BY <1>1, <1>2 DEF Size
<1>4. \A k \in 1..Len(entry) : entry'[k] = entry[k]
    BY <1>1, <1>2
<1>5. ASSUME NEW k \in 1..Size
      PROVE  UnitAt(k)' = UnitAt(k)
    <2>1. CASE k <= Len(entry)
        <3>1. k <= Len(entry') /\ k \in 1..Len(entry)
            BY <1>1, <1>2, <2>1
        <3> QED BY <1>4, <2>1, <3>1 DEF UnitAt
    <2>2. CASE k = Len(entry) + 1
        <3>1. k <= Len(entry') /\ ~ (k <= Len(entry)) /\ k - Len(entry) = 1 /\ k \in 1..Len(entry) + 1
            BY <1>1, <1>2, <2>2
        <3>2. entry'[k] = Field[1]
            BY <1>2, <3>1
        <3> QED BY <1>1, <3>1, <3>2 DEF UnitAt
    <2>3. CASE k > Len(entry) + 1
        <3>1. ~ (k <= Len(entry')) /\ ~ (k <= Len(entry))
            BY <1>1, <1>2, <2>3
        <3>2. k - Len(entry') \in 1..Len(pipe') /\ (k - Len(entry')) + 1 = k - Len(entry)
            BY <1>1, <1>2, <2>3 DEF Size
        <3>3. pipe'[k - Len(entry')] = pipe[k - Len(entry)]
            BY <1>1, <3>2
        <3> QED BY <3>1, <3>3 DEF UnitAt
    <2> QED BY <1>1, <2>1, <2>2, <2>3
<1> QED BY <1>2, <1>3, <1>4, <1>5

LEMMA TakenOut ==
    ASSUME LogInv, Reads, pipe # <<>>, entry' = <<>>, NEW n \in Nat, n = Len(entry) + 1
    PROVE  /\ Len(pipe') \in Nat /\ Size = Len(pipe') + n /\ Size' = Len(pipe')
           /\ \A k \in 1..Len(pipe') : UnitAt(k)' = UnitAt(k + n)
<1>1. /\ Len(entry) \in Nat /\ Len(pipe) \in Nat /\ Len(pipe) >= 1
      /\ Len(pipe') = Len(pipe) - 1 /\ \A k \in 1..Len(pipe') : pipe'[k] = pipe[k + 1]
    BY FieldRead, Lengths DEF LogInv, Ranges
<1>2. Len(entry') = 0
    OBVIOUS
<1>3. Len(pipe') \in Nat /\ Size = Len(pipe') + n /\ Size' = Len(pipe')
    BY <1>1, <1>2 DEF Size
<1>4. ASSUME NEW k \in 1..Len(pipe')
      PROVE  UnitAt(k)' = UnitAt(k + n)
    <2>1. ~ (k <= Len(entry')) /\ k - Len(entry') = k /\ ~ (k + n <= Len(entry))
          /\ (k + n) - Len(entry) = k + 1
        BY <1>1, <1>2, <1>3
    <2>2. pipe'[k] = pipe[k + 1]
        BY <1>1
    <2> QED BY <2>1, <2>2 DEF UnitAt
<1> QED BY <1>3, <1>4
-----------------------------------------------------------------------------
(* At a type the thread finds one, or the byte of the join after the last    *)
(* message.                                                                  *)
LEMMA AtType ==
    ASSUME LogInv, pc \in {"poll", "type"}, pipe # <<>>
    PROVE  \/ Head(pipe) \in Kind
           \/ Head(pipe) = "LOG_SIG_JOIN" /\ main # "running" /\ Len(files) = Len(accepted)
<1>1. PICK at : Cut(at)
    BY DEF LogInv, Ended
<1>2. /\ entry = <<>> /\ Len(entry) = 0 /\ Len(pipe) \in Nat /\ Len(pipe) >= 1 /\ Size = Len(pipe)
      /\ Head(pipe) = pipe[1]
    BY Lengths DEF LogInv, ReadSoFar, Ranges, Size
<1>3. UnitAt(1) = Head(pipe)
    BY <1>2 DEF UnitAt
<1>4. CASE Len(files) < Len(accepted)
    <2>1. Next1 \in Next1..Len(accepted) /\ Next1 \in 1..Len(accepted)
        BY <1>4, Lengths
    <2>2. accepted[Next1] \in Messages
        BY <2>1 DEF LogInv, Ranges
    <2>3. Len(accepted[Next1]) >= 1 /\ Len(accepted[Next1]) \in Nat /\ accepted[Next1][1] \in Kind
        BY <2>2, MessageShape DEF Kind
    <2>4. UnitAt(at[Next1] + 1) = accepted[Next1][1] /\ at[Next1] = 0
        <3>1. 1 \in 1..Len(accepted[Next1])
            BY <2>3
        <3>2. \A j \in 1..Len(accepted[Next1]) : UnitAt(at[Next1] + j) = accepted[Next1][j]
            BY <1>1, <2>1 DEF Cut
        <3>3. at[Next1] = 0
            BY <1>1 DEF Cut
        <3> QED BY <3>1, <3>2, <3>3
    <2> QED BY <1>3, <2>3, <2>4
<1>5. CASE Len(files) = Len(accepted)
    <2>1. at[End] = 0
        BY <1>1, <1>5 DEF Cut, Next1, End
    <2>2. Size = 1 /\ main # "running" /\ UnitAt(Size) = "LOG_SIG_JOIN"
        BY <1>1, <1>2, <2>1 DEF Cut
    <2> QED BY <1>3, <1>5, <2>2
<1> QED BY <1>4, <1>5, Lengths DEF LogInv, Prefix

(* Inside of a message the next field is there, and the last completes it.   *)
LEMMA AtField ==
    ASSUME LogInv, pc \in {"code", "client", "server"}, NEW at, Cut(at)
    PROVE  /\ pipe # <<>> /\ Len(entry) \in 1..3
           /\ pc = "code" => Head(pipe) \in Code
           /\ pc \in {"client", "server"} => Head(pipe) = pc
           /\ Next1 \in Next1..Len(accepted) /\ Len(files) < Len(accepted)
           /\ accepted[Next1] \in Messages /\ at[Next1 + 1] = Len(accepted[Next1])
           /\ \A k \in 1..Len(entry) : entry[k] = accepted[Next1][k]
           /\ Head(pipe) = accepted[Next1][Len(entry) + 1]
           /\ pc = "server" \/ (pc = "code" /\ entry[1] = "LOG_ERROR")
                 => Len(accepted[Next1]) = Len(entry) + 1
<1>1. /\ Len(pipe) \in Nat /\ Len(entry) \in Nat /\ Len(entry) \in 1..3 /\ entry[1] \in Kind
      /\ pipe \in Seq(Unit)
    BY Lengths DEF LogInv, ReadSoFar, Ranges, Kind
<1>2. Size >= 1 /\ UnitAt(1) \in Kind
    BY <1>1 DEF Size, UnitAt
<1> DEFINE a == accepted[Next1]
<1>3. /\ Next1 \in Next1..Len(accepted) /\ a \in Messages /\ Len(a) \in Nat
      /\ at[Next1 + 1] = Len(a) /\ Len(a) <= Size /\ \A j \in 1..Len(a) : UnitAt(j) = a[j]
    BY <1>2, UnderWay
<1>4. Len(files) < Len(accepted)
    BY <1>3, Lengths
<1> HIDE DEF a
<1>5. UnitAt(1) = entry[1]
    BY <1>1 DEF UnitAt
<1>6. entry[1] = a[1]
    <2>1. 1 \in 1..Len(a)
        BY <1>3, MessageShape DEF Kind
    <2> QED BY <1>3, <1>5, <2>1
<1>7. Len(entry) < Len(a)
    BY <1>1, <1>3, <1>6, MessageShape DEF LogInv, ReadSoFar, Ranges, Kind
<1>8. Len(pipe) >= 1
    BY <1>1, <1>3, <1>7 DEF Size
<1>9. \A k \in 1..Len(entry) : entry[k] = a[k]
    <2>1. ASSUME NEW k \in 1..Len(entry)
          PROVE  entry[k] = a[k]
        <3>1. k \in 1..Len(a) /\ k <= Len(entry)
            BY <1>1, <1>3, <1>7
        <3>2. UnitAt(k) = entry[k]
            BY <3>1 DEF UnitAt
        <3> QED BY <1>3, <3>1, <3>2
    <2> QED BY <2>1
<1>10. Head(pipe) = a[Len(entry) + 1]
    <2>1. /\ Len(entry) + 1 \in 1..Len(a) /\ ~ (Len(entry) + 1 <= Len(entry))
          /\ (Len(entry) + 1) - Len(entry) = 1
        BY <1>1, <1>3, <1>7
    <2>2. UnitAt(Len(entry) + 1) = pipe[1]
        BY <2>1 DEF UnitAt
    <2>3. Head(pipe) = pipe[1]
        BY <1>1, <1>8
    <2> QED BY <1>3, <2>1, <2>2, <2>3
<1>11. /\ pc = "code" => Len(entry) = 1
       /\ pc = "client" => Len(entry) = 2 /\ entry[1] = "LOG_ACCESS"
       /\ pc = "server" => Len(entry) = 3 /\ entry[1] = "LOG_ACCESS"
    BY DEF LogInv, ReadSoFar
<1>12. /\ pc = "code" => Head(pipe) \in Code
       /\ pc \in {"client", "server"} => Head(pipe) = pc
       /\ pc = "server" \/ (pc = "code" /\ entry[1] = "LOG_ERROR") => Len(a) = Len(entry) + 1
    <2>1. /\ a[1] \in Kind /\ a[2] \in Code
          /\ a[1] = "LOG_ERROR" => Len(a) = 2
          /\ a[1] = "LOG_ACCESS" => Len(a) = 4 /\ a[3] = "client" /\ a[4] = "server"
        BY <1>3, MessageShape
    <2>2. CASE pc = "code"
        <3>1. Len(entry) + 1 = 2
            <4>1. Len(entry) = 1
                BY <1>11, <2>2, Zenon
            <4> QED BY <4>1
        <3>2. Head(pipe) = a[2]
            BY <1>10, <3>1
        <3> QED BY <1>6, <2>1, <2>2, <3>1, <3>2
    <2>3. CASE pc = "client"
        <3>1. Len(entry) + 1 = 3
            <4>1. Len(entry) = 2
                BY <1>11, <2>3, Zenon
            <4> QED BY <4>1
        <3>2. Head(pipe) = a[3] /\ a[1] = "LOG_ACCESS"
            BY <1>6, <1>10, <1>11, <2>3, <3>1
        <3> QED BY <2>1, <2>3, <3>2
    <2>4. CASE pc = "server"
        <3>1. Len(entry) + 1 = 4
            <4>1. Len(entry) = 3
                BY <1>11, <2>4, Zenon
            <4> QED BY <4>1
        <3>2. Head(pipe) = a[4] /\ a[1] = "LOG_ACCESS"
            BY <1>6, <1>10, <1>11, <2>4, <3>1
        <3> QED BY <2>1, <2>4, <3>1, <3>2
    <2> QED BY <2>2, <2>3, <2>4
<1>13. pipe # <<>>
    BY <1>8
<1> QED BY <1>1, <1>3, <1>4, <1>9, <1>10, <1>12, <1>13 DEF a
-----------------------------------------------------------------------------
(* Nothing is logged when init_logger has returned; the thread may not run.   *)
THEOREM InitLogInv == Init => LogInv
<1> SUFFICES ASSUME Init PROVE LogInv
    OBVIOUS
<1>1. Ranges /\ ReadSoFar /\ Prefix /\ Ended
    <2>1. Len(<<>>) = 0 /\ <<>> \in Seq(Unit) /\ <<>> \in Seq(Messages) /\ 0 <= LogCap
        BY LoggerAssumption
    <2>2. Ranges
        <3>1. Len(pipe) <= LogCap /\ Len(entry) <= 3
            BY <2>1 DEF Init
        <3>2. /\ pipe \in Seq(Unit) /\ entry \in Seq(Unit)
              /\ files \in Seq(Messages) /\ logged \in Seq(Messages) /\ accepted \in Seq(Messages)
            BY <2>1, Zenon DEF Init
        <3>3. /\ main = "running" /\ pc = "start" /\ opened = FALSE
            BY DEF Init
        <3> QED BY <3>1, <3>2, <3>3 DEF Ranges
    <2> QED BY <2>1, <2>2 DEF Init, ReadSoFar, Prefix, Ended
<1>2. Cut([i \in Nat |-> 0])
    BY DEF Init, Cut, Next1, End, Size
<1> QED BY <1>1, <1>2 DEF LogInv

LEMMA LogKeeps ==
    ASSUME LogInv, NEW e \in Messages, log(e)
    PROVE  LogInv'
<1>1. UNCHANGED <<main, pc, opened, entry, files>> /\ main = "running" /\ logged' \in Seq(Messages)
    BY DEF LogInv, Ranges, log
<1>2. CASE ~ (Readable /\ Fits(pipe, e, LogCap))
    <2>1. UNCHANGED <<pipe, accepted>>
        BY <1>2 DEF log
    <2>2. UNCHANGED <<Size, Next1, End>> /\ \A k : UnitAt(k)' = UnitAt(k)
        BY <1>1, <2>1 DEF Size, Next1, End, UnitAt
    <2>3. ASSUME NEW at, Cut(at)
          PROVE  Cut(at)'
        BY <1>1, <2>1, <2>2, <2>3, CutKept
    <2>4. Ranges' /\ ReadSoFar' /\ Prefix' /\ Ended'
        BY <1>1, <2>1 DEF LogInv, Ranges, ReadSoFar, Prefix, Ended
    <2> QED BY <1>1, <2>3, <2>4 DEF LogInv
<1>3. CASE Readable /\ Fits(pipe, e, LogCap)
    <2>1. e \in Seq(Unit) /\ Len(e) \in Nat
        BY MessageShape
    <2>2. pipe' = pipe \o e /\ accepted' = Append(accepted, e) /\ Len(pipe) + Len(e) <= LogCap
        BY <1>3 DEF log, Written, Fits
    <2>3. /\ accepted' \in Seq(Messages) /\ Len(accepted') = Len(accepted) + 1
          /\ \A i \in 1..Len(accepted) : accepted'[i] = accepted[i]
        BY <2>2, AppendProperties DEF LogInv, Ranges
    <2>4. /\ Size' = Size + Len(e) /\ pipe' \in Seq(Unit) /\ Len(pipe') = Len(pipe) + Len(e)
          /\ \A k \in 1..Size : UnitAt(k)' = UnitAt(k)
          /\ \A j \in 1..Len(e), k \in Nat : k = Size + j => UnitAt(k)' = e[j]
        BY <1>1, <2>1, <2>2, Longer
    <2>5. ~ (pc = "ended" /\ opened) /\ (pc = "start" \/ opened)
        BY <1>1, <1>3 DEF LogInv, Ended, Readable, Ranges
    <2>6. \E b : Cut(b)'
        <3> PICK at : Cut(at)
            BY <2>5 DEF LogInv
        <3> PICK n \in Nat : n = Size
            BY Lengths
        <3>1. \A j \in 1..Len(e) : n + j \in Nat /\ n + j = Size + j
            OBVIOUS
        <3>2. \A j \in 1..Len(e) : UnitAt(n + j)' = e[j]
            BY <2>4, <3>1
        <3> QED BY <1>1, <2>2, <2>4, <3>2, CutLonger
    <2>7. Prefix'
        <3>1. Len(files) <= Len(accepted) /\ Len(files) \in Nat /\ Len(accepted) \in Nat
              /\ \A i \in 1..Len(files) : files[i] = accepted[i]
            BY Lengths DEF LogInv, Prefix
        <3>2. \A i \in 1..Len(files) : i \in 1..Len(accepted)
            BY <3>1
        <3>3. \A i \in 1..Len(files) : files[i] = accepted'[i]
            BY <2>3, <3>1, <3>2
        <3>4. Len(files) <= Len(accepted')
            BY <2>3, <3>1
        <3> QED BY <1>1, <3>3, <3>4 DEF Prefix
    <2>8. Ranges' /\ ReadSoFar' /\ Ended'
        BY <1>1, <2>2, <2>3, <2>4, <2>5 DEF LogInv, Ranges, ReadSoFar, Ended
    <2> QED BY <2>6, <2>7, <2>8 DEF LogInv
<1> QED BY <1>2, <1>3

LEMMA SigJoinKeeps ==
    ASSUME LogInv, log_sig_join
    PROVE  LogInv'
<1>1. /\ UNCHANGED <<pc, opened, entry, files, logged, accepted>>
      /\ main = "running" /\ main' = "joining"
      /\ UNCHANGED <<Next1, End>>
    BY DEF log_sig_join, Next1, End
<1>2. CASE pipe' = pipe
    <2>1. UNCHANGED Size /\ \A k : UnitAt(k)' = UnitAt(k)
        BY <1>1, <1>2 DEF Size, UnitAt
    <2>2. ASSUME NEW at, Cut(at)
          PROVE  Cut(at)'
        BY <1>1, <2>1, <2>2, CutKept
    <2>3. Ranges' /\ ReadSoFar' /\ Prefix' /\ Ended'
        BY <1>1, <1>2 DEF LogInv, Ranges, ReadSoFar, Prefix, Ended
    <2> QED BY <1>1, <2>2, <2>3 DEF LogInv
<1>3. CASE pipe' # pipe
    <2>1. pipe' = pipe \o Join /\ Len(pipe) + Len(Join) <= LogCap
        BY <1>3 DEF log_sig_join, Written, Fits
    <2>2. Join \in Seq(Unit) /\ Len(Join) = 1 /\ Join[1] = "LOG_SIG_JOIN"
        BY DEF Join, Unit
    <2>3. /\ Size' = Size + 1 /\ pipe' \in Seq(Unit) /\ Len(pipe') = Len(pipe) + 1
          /\ \A k \in 1..Size : UnitAt(k)' = UnitAt(k)
          /\ \A j \in 1..1, k \in Nat : k = Size + j => UnitAt(k)' = "LOG_SIG_JOIN"
        <3>1. /\ Size' = Size + Len(Join) /\ pipe' \in Seq(Unit) /\ Len(pipe') = Len(pipe) + Len(Join)
              /\ \A k \in 1..Size : UnitAt(k)' = UnitAt(k)
              /\ \A j \in 1..Len(Join), k \in Nat : k = Size + j => UnitAt(k)' = Join[j]
            BY <1>1, <2>1, <2>2, Longer
        <3> QED BY <2>2, <3>1
    <2>4. ASSUME NEW at, Cut(at)
          PROVE  Cut(at)'
        <3> PICK n \in Nat : n = Size + 1
            BY Lengths
        <3>1. UnitAt(n)' = "LOG_SIG_JOIN"
            BY <2>3
        <3>2. Size = at[End] /\ Size' = at[End] + 1 /\ n = Size'
            BY <1>1, <2>3, <2>4 DEF Cut
        <3>3. /\ at \in [Nat -> Nat] /\ at[Next1] = 0
              /\ \A i, k \in Next1..End : i <= k => at[i] <= at[k]
            BY <2>4 DEF Cut
        <3>4. ASSUME NEW i \in Next1..Len(accepted)
              PROVE  /\ at[i + 1] = at[i] + Len(accepted[i])
                     /\ \A j \in 1..Len(accepted[i]) : UnitAt(at[i] + j)' = accepted[i][j]
            <4>1. at[i + 1] = at[i] + Len(accepted[i])
                BY <2>4 DEF Cut
            <4>2. ASSUME NEW j \in 1..Len(accepted[i])
                  PROVE  UnitAt(at[i] + j)' = accepted[i][j]
                <5>1. at[i] + j \in 1..Size
                    BY <2>4, Within
                <5>2. UnitAt(at[i] + j) = accepted[i][j]
                    BY <2>4 DEF Cut
                <5> QED BY <2>3, <5>1, <5>2
            <4> QED BY <4>1, <4>2
        <3> QED BY <1>1, <3>1, <3>2, <3>3, <3>4 DEF Cut
    <2>5. Ranges' /\ ReadSoFar' /\ Prefix' /\ Ended'
        BY <1>1, <2>1, <2>2, <2>3 DEF LogInv, Ranges, ReadSoFar, Prefix, Ended
    <2> QED BY <1>1, <2>4, <2>5 DEF LogInv
<1> QED BY <1>2, <1>3

(* Steps that move neither the pipe nor what has been read.                  *)
LEMMA StillKeeps ==
    ASSUME LogInv, UNCHANGED <<pipe, entry, files, logged, accepted>>, Ranges', ReadSoFar', Ended',
           main' = main \/ main' # "running", (pc' = "start" \/ opened') => pc = "start" \/ opened
    PROVE  LogInv'
<1>1. UNCHANGED <<Size, Next1, End>> /\ \A k : UnitAt(k)' = UnitAt(k)
    BY DEF Size, Next1, End, UnitAt
<1>2. ASSUME NEW at, Cut(at)
      PROVE  Cut(at)'
    BY <1>1, <1>2, CutKept
<1>3. Prefix'
    BY DEF LogInv, Prefix
<1> QED BY <1>2, <1>3 DEF LogInv

LEMMA JoinKeeps ==
    ASSUME LogInv, pthread_join
    PROVE  LogInv'
<1>1. /\ main' = "joined" /\ pc = "ended"
      /\ UNCHANGED <<pipe, pc, opened, entry, files, logged, accepted>>
    BY DEF pthread_join
<1>2. Ranges' /\ ReadSoFar' /\ Ended'
    BY <1>1 DEF LogInv, Ranges, ReadSoFar, Ended
<1> QED BY <1>1, <1>2, StillKeeps

LEMMA OpenFilesKeeps ==
    ASSUME LogInv, OpenFiles
    PROVE  LogInv'
<1>1. /\ pc = "start" /\ opened' \in BOOLEAN
      /\ UNCHANGED <<main, logged, accepted, entry, files>> /\ opened = FALSE
    BY LoggerAssumption DEF LogInv, Ranges, OpenFiles, caller
<1>2. CASE opened'
    <2>1. pc' = "poll" /\ pipe' = pipe
        BY <1>2 DEF OpenFiles
    <2>2. Ranges' /\ ReadSoFar' /\ Ended'
        BY <1>1, <1>2, <2>1 DEF LogInv, Ranges, ReadSoFar, Ended
    <2> QED BY <1>1, <2>1, <2>2, StillKeeps
<1>3. CASE ~ opened'
    <2>1. pc' = "ended" /\ pipe' = <<>>
        BY <1>3 DEF OpenFiles
    <2>2. Ranges' /\ ReadSoFar' /\ Prefix' /\ Ended'
        BY <1>1, <1>3, <2>1, LoggerAssumption DEF LogInv, Ranges, ReadSoFar, Prefix, Ended
    <2> QED BY <1>3, <2>1, <2>2 DEF LogInv
<1> QED BY <1>2, <1>3

LEMMA PollKeeps ==
    ASSUME LogInv, Poll
    PROVE  LogInv'
<1>1. /\ pc = "poll" /\ pc' = "type"
      /\ UNCHANGED <<main, pipe, opened, entry, files, logged, accepted>>
    BY DEF Poll, caller
<1>2. Ranges' /\ ReadSoFar' /\ Ended'
    BY <1>1 DEF LogInv, Ranges, ReadSoFar, Ended
<1> QED BY <1>1, <1>2, StillKeeps

(* A field that is kept.                                                     *)
LEMMA FieldKeeps ==
    ASSUME LogInv, Reads, pipe # <<>>, entry' = entry \o Field, UNCHANGED <<caller, opened, files>>,
           Len(entry) <= 2, pc \in {"type", "code", "client"}, pc' \in {"code", "client", "server"},
           ReadSoFar'
    PROVE  LogInv'
<1>1. /\ UNCHANGED <<main, logged, accepted, opened, files>>
      /\ pipe' \in Seq(Unit) /\ Len(pipe') = Len(pipe) - 1 /\ Len(pipe) \in Nat /\ Len(entry) \in Nat
      /\ opened /\ main # "joined"
    BY FieldRead, Lengths DEF caller, LogInv, Ended, Ranges
<1>2. /\ Size' = Size /\ \A k \in 1..Size : UnitAt(k)' = UnitAt(k)
      /\ entry' \in Seq(Unit) /\ Len(entry') = Len(entry) + 1
    BY Kept
<1>3. ASSUME NEW at, Cut(at)
      PROVE  Cut(at)'
    BY <1>1, <1>2, <1>3, CutKept
<1>4. Prefix' /\ Ended'
    BY <1>1 DEF LogInv, Prefix, Ended
<1>5. Len(pipe') <= LogCap
    BY <1>1, LoggerAssumption DEF LogInv, Ranges
<1>6. Ranges'
    BY <1>1, <1>2, <1>5 DEF LogInv, Ranges
<1> QED BY <1>1, <1>3, <1>4, <1>6 DEF LogInv

(* A field that completes the message.                                       *)
LEMMA WrittenKeeps ==
    ASSUME LogInv, Reads, Writes(entry \o Field), UNCHANGED <<caller, opened>>,
           pc = "server" \/ (pc = "code" /\ entry[1] = "LOG_ERROR")
    PROVE  LogInv'
<1>1. /\ UNCHANGED <<main, logged, accepted, opened>> /\ opened
      /\ pc' = "type" /\ entry' = <<>> /\ Len(entry') = 0 /\ entry' \in Seq(Unit)
      /\ files' = Append(files, entry \o Field)
    BY DEF caller, LogInv, Ended, Writes
<1> PICK at : Cut(at)
    BY <1>1 DEF LogInv
<1> DEFINE a == accepted[Next1]
<1>2. /\ pipe # <<>> /\ Len(entry) \in 1..3 /\ Next1 \in Next1..Len(accepted)
      /\ Len(files) < Len(accepted) /\ a \in Messages /\ at[Next1 + 1] = Len(a)
      /\ \A k \in 1..Len(entry) : entry[k] = a[k]
      /\ Head(pipe) = a[Len(entry) + 1] /\ Len(a) = Len(entry) + 1
    BY AtField
<1> HIDE DEF a
<1>3. entry \o Field = a
    <2>1. /\ entry \in Seq(Unit) /\ a \in Seq(Unit) /\ Len(entry) \in Nat
          /\ Field \in Seq(Unit) /\ Len(Field) = 1 /\ Field[1] = a[Len(entry) + 1]
        BY <1>2, FieldRead, MessageShape, Lengths DEF LogInv, Ranges
    <2> DEFINE f == Field
    <2>2. f \in Seq(Unit) /\ Len(f) = 1 /\ f[1] = a[Len(entry) + 1]
        BY <2>1
    <2> HIDE DEF f
    <2>3. /\ entry \o f \in Seq(Unit) /\ Len(entry \o f) = Len(entry) + Len(f)
          /\ \A i \in 1..Len(entry) + Len(f) :
                (entry \o f)[i] = IF i <= Len(entry) THEN entry[i] ELSE f[i - Len(entry)]
        BY <2>1, <2>2, ConcatProperties, Zenon
    <2>4. Len(entry \o f) = Len(a)
        BY <1>2, <2>2, <2>3
    <2>5. ASSUME NEW i \in 1..Len(a)
          PROVE  (entry \o f)[i] = a[i]
        <3>1. i \in 1..Len(entry) + Len(f)
            BY <1>2, <2>2
        <3>2. CASE i <= Len(entry)
            <4>1. i \in 1..Len(entry)
                BY <1>2, <3>2
            <4> QED BY <1>2, <2>3, <3>1, <3>2, <4>1
        <3>3. CASE ~ (i <= Len(entry))
            <4>1. i = Len(entry) + 1 /\ i - Len(entry) = 1
                BY <1>2, <2>1, <3>3
            <4> QED BY <2>2, <2>3, <3>1, <3>3, <4>1
        <3> QED BY <3>2, <3>3
    <2>6. entry \o f = a
        BY <2>1, <2>3, <2>4, <2>5, SeqEqual
    <2> QED BY <2>6 DEF f
<1>4. /\ files' \in Seq(Messages) /\ Len(files') = Len(files) + 1 /\ files'[Next1] = a
      /\ \A i \in 1..Len(files) : files'[i] = files[i]
    BY <1>1, <1>2, <1>3, AppendProperties DEF LogInv, Ranges, Next1
<1>5. Prefix'
    <2>1. Len(files) \in Nat /\ Len(accepted) \in Nat /\ Next1 = Len(files) + 1
        BY Lengths
    <2>2. Len(files') <= Len(accepted')
        BY <1>1, <1>2, <1>4, <2>1
    <2>3. ASSUME NEW i \in 1..Len(files')
          PROVE  files'[i] = accepted[i]
        <3>1. CASE i \in 1..Len(files)
            BY <1>4, <3>1 DEF LogInv, Prefix
        <3>2. CASE i = Next1
            BY <1>4, <3>2 DEF a
        <3> QED BY <1>4, <2>1, <3>1, <3>2
    <2> QED BY <1>1, <2>2, <2>3 DEF Prefix
<1>6. \E b : Cut(b)'
    <2> PICK n \in Nat : n = Len(entry) + 1
        BY <1>2
    <2> PICK m \in Nat : m = Len(pipe')
        BY <1>1, <1>2, TakenOut
    <2>1. Size = m + n /\ Size' = m /\ \A k \in 1..m : UnitAt(k)' = UnitAt(k + n)
        BY <1>1, <1>2, TakenOut
    <2>2. n = at[Next1 + 1]
        BY <1>2
    <2> QED BY <1>1, <1>2, <1>4, <2>1, <2>2, CutShorter
<1>7. Ranges' /\ ReadSoFar' /\ Ended'
    <2>1. /\ pipe' \in Seq(Unit) /\ Len(pipe') = Len(pipe) - 1 /\ Len(pipe) \in Nat
        BY <1>2, FieldRead, Lengths
    <2>2. Len(pipe') <= LogCap
        BY <2>1, LoggerAssumption DEF LogInv, Ranges
    <2>3. main # "joined"
        BY DEF LogInv, Ranges
    <2> QED BY <1>1, <1>4, <2>1, <2>2, <2>3 DEF LogInv, Ranges, ReadSoFar, Ended
<1> QED BY <1>5, <1>6, <1>7 DEF LogInv

LEMMA ReadTypeKeeps ==
    ASSUME LogInv, ReadType
    PROVE  LogInv'
<1>1. /\ UNCHANGED <<main, logged, accepted, opened, files>> /\ UNCHANGED caller
      /\ pc = "type" /\ Reads /\ entry' = TypeOf(Field) /\ opened /\ main # "joined"
      /\ entry = <<>> /\ Len(entry) = 0
    BY DEF ReadType, caller, LogInv, Ended, Ranges, ReadSoFar
<1>2. CASE pipe = <<>>
    <2>1. pipe' = pipe /\ Field = <<>>
        BY <1>1, <1>2, FieldRead
    <2>2. pc' = "poll" /\ entry' = <<>>
        BY <1>1, <2>1 DEF ReadType, TypeOf
    <2>3. Ranges' /\ ReadSoFar' /\ Ended'
        BY <1>1, <2>1, <2>2 DEF LogInv, Ranges, ReadSoFar, Ended
    <2> QED BY <1>1, <2>1, <2>2, <2>3, StillKeeps
<1>3. CASE pipe # <<>>
    <2>1. /\ Field = <<Head(pipe)>> /\ Field # <<>> /\ Head(Field) = Head(pipe)
          /\ Field \in Seq(Unit) /\ Len(Field) = 1 /\ Field[1] = Head(pipe)
        BY <1>1, <1>3, FieldRead
    <2>2. CASE Head(pipe) \in Kind
        <3>1. pc' = "code" /\ entry' = Field
            BY <1>1, <2>1, <2>2 DEF ReadType, TypeOf
        <3>2. entry' = entry \o Field
            BY <1>1, <2>1, <3>1
        <3>3. ReadSoFar'
            <4>1. Len(entry') = 1 /\ entry'[1] \in Kind
                BY <2>1, <2>2, <3>1
            <4> QED BY <3>1, <4>1 DEF ReadSoFar
        <3> QED BY <1>1, <1>3, <3>1, <3>2, <3>3, FieldKeeps
    <2>3. CASE Head(pipe) = "LOG_SIG_JOIN" /\ main # "running" /\ Len(files) = Len(accepted)
        <3>1. Head(pipe) \notin Kind /\ Field = Join
            BY <2>1, <2>3 DEF Kind, Join
        <3>2. pc' = "ended" /\ entry' = <<>>
            BY <1>1, <2>1, <3>1 DEF ReadType, TypeOf
        <3>3. /\ pipe' \in Seq(Unit) /\ Len(pipe') = Len(pipe) - 1 /\ Len(pipe) \in Nat /\ Len(pipe) >= 1
            BY <1>1, <1>3, FieldRead, Lengths
        <3>4. Len(pipe') <= LogCap
            BY <3>3, LoggerAssumption DEF LogInv, Ranges
        <3>5. Ranges' /\ ReadSoFar' /\ Ended' /\ Prefix'
            BY <1>1, <2>3, <3>2, <3>3, <3>4 DEF LogInv, Ranges, ReadSoFar, Ended, Prefix
        <3>6. \E b : Cut(b)'
            <4> PICK at : Cut(at)
                BY <1>1 DEF LogInv
            <4>1. Next1 = End /\ Next1 \in Nat /\ at[End] = 0
                BY <2>3, Lengths DEF Cut
            <4>2. Size = Len(pipe) /\ (Size = 0 \/ Size = 1)
                <5>1. Size = Len(pipe)
                    BY <1>1, <3>3 DEF Size
                <5>2. Size = at[End] \/ Size = at[End] + 1
                    BY DEF Cut
                <5> QED BY <4>1, <5>1, <5>2
            <4>3. Size' = 0
                BY <3>2, <3>3, <4>2 DEF Size
            <4>4. Next1' = End' /\ End' = End /\ Next1' > Len(accepted') /\ Len(accepted') \in Nat
                BY <1>1, <2>3, Lengths DEF Next1, End
            <4> DEFINE b == [i \in Nat |-> 0]
            <4>5. b \in [Nat -> Nat] /\ \A i \in Nat : b[i] = 0
                OBVIOUS
            <4> HIDE DEF b
            <4>6. \A i \in Next1'..Len(accepted') : FALSE
                <5>1. Next1' \in Nat
                    BY <4>1, <4>4
                <5> QED BY <4>4, <5>1
            <4>7. \A i, k \in Next1'..End' : b[i] <= b[k]
                BY <4>1, <4>4, <4>5
            <4>8. Cut(b)'
                BY <4>1, <4>3, <4>4, <4>5, <4>6, <4>7 DEF Cut
            <4> QED BY <4>8
        <3> QED BY <3>5, <3>6 DEF LogInv
    <2> QED BY <1>1, <1>3, <2>2, <2>3, AtType
<1> QED BY <1>2, <1>3

LEMMA ReadCodeKeeps ==
    ASSUME LogInv, ReadCode
    PROVE  LogInv'
<1>1. pc = "code" /\ entry = <<"LOG_ERROR">> /\ Reads /\ UNCHANGED <<caller, opened>> /\ opened
    BY DEF ReadCode, LogInv, Ended
<1>2. Writes(entry \o Field)
    BY DEF ReadCode
<1>3. entry[1] = "LOG_ERROR"
    BY <1>1
<1> QED BY <1>1, <1>2, <1>3, WrittenKeeps

LEMMA ReadAccessKeeps ==
    ASSUME LogInv, ReadAccess
    PROVE  LogInv'
<1>1. /\ pc \in {"code", "client", "server"} /\ Reads /\ UNCHANGED <<caller, opened>> /\ opened
      /\ Len(entry) \in Nat /\ entry \in Seq(Unit)
    BY Lengths DEF ReadAccess, LogInv, Ended, Ranges
<1>2. pipe # <<>>
    BY <1>1, AtField DEF LogInv
<1>3. CASE pc = "server"
    <2>1. Writes(entry \o Field)
        BY <1>3 DEF ReadAccess
    <2>2. pc = "server" \/ (pc = "code" /\ entry[1] = "LOG_ERROR")
        BY <1>3
    <2> QED BY <1>1, <2>1, <2>2, WrittenKeeps, Zenon
<1>4. CASE pc \in {"code", "client"}
    <2>1. /\ entry' = entry \o Field /\ UNCHANGED files
          /\ pc' = IF pc = "code" THEN "client" ELSE "server"
        BY <1>4 DEF ReadAccess
    <2>2. Len(entry) \in 1..2 /\ entry[1] = "LOG_ACCESS"
        BY <1>1, <1>4 DEF ReadAccess, LogInv, ReadSoFar
    <2>3. Len(entry') = Len(entry) + 1 /\ entry'[1] = entry[1]
        <3>1. Len(entry') = Len(entry) + 1 /\ \A k \in 1..Len(entry) : entry'[k] = entry[k]
            BY <1>1, <1>2, <2>1, Kept
        <3> QED BY <2>2, <3>1
    <2>4. ReadSoFar'
        BY <1>4, <2>1, <2>2, <2>3 DEF LogInv, ReadSoFar
    <2> QED BY <1>1, <1>2, <1>4, <2>1, <2>2, <2>4, FieldKeeps
<1> QED BY <1>1, <1>3, <1>4
-----------------------------------------------------------------------------
(* No step of main or of logger_th breaks LogInv.                            *)
THEOREM NextLogInv == LogInv /\ [Next]_vars => LogInv'
<1> SUFFICES ASSUME LogInv, [Next]_vars PROVE LogInv'
    OBVIOUS
<1>1. ASSUME NEW e \in Messages, log(e) PROVE LogInv'
    BY <1>1, LogKeeps
<1>2. CASE log_sig_join
    BY <1>2, SigJoinKeeps
<1>3. CASE pthread_join
    BY <1>3, JoinKeeps
<1>4. CASE OpenFiles
    BY <1>4, OpenFilesKeeps
<1>5. CASE Poll
    BY <1>5, PollKeeps
<1>6. CASE ReadType
    BY <1>6, ReadTypeKeeps
<1>7. CASE ReadCode
    BY <1>7, ReadCodeKeeps
<1>8. CASE ReadAccess
    BY <1>8, ReadAccessKeeps
<1>9. CASE UNCHANGED vars
    <2>1. UNCHANGED <<main, pipe, pc, opened, entry, files, logged, accepted>>
        BY <1>9 DEF vars
    <2>2. Ranges' /\ ReadSoFar' /\ Ended'
        BY <2>1 DEF LogInv, Ranges, ReadSoFar, Ended
    <2> QED BY <2>1, <2>2, StillKeeps
<1> QED BY <1>1, <1>2, <1>3, <1>4, <1>5, <1>6, <1>7, <1>8, <1>9 DEF Next, logger_th

LEMMA LogInvAlways == Spec => []LogInv
BY InitLogInv, NextLogInv, PTL DEF Spec

(* The ranges, and Framed: the thread finds a type where it reads one, and   *)
(* inside of a message the field that it reads, so that its unchecked reads  *)
(* (logger.c:193) never come up short or take fields of another message.     *)
THEOREM TypeOKAlways == Spec => []TypeOK
<1>1. LogInv => TypeOK
    <2> SUFFICES ASSUME LogInv PROVE TypeOK
        OBVIOUS
    <2>1. pc \in {"poll", "type"} /\ pipe # <<>> => Head(pipe) \in Kind \cup {"LOG_SIG_JOIN"}
        BY AtType
    <2>2. /\ pc = "code" => pipe # <<>> /\ Head(pipe) \in Code
          /\ pc \in {"client", "server"} => pipe # <<>> /\ Head(pipe) = pc
        <3> SUFFICES ASSUME pc \in {"code", "client", "server"}
                     PROVE  /\ pc = "code" => pipe # <<>> /\ Head(pipe) \in Code
                            /\ pc \in {"client", "server"} => pipe # <<>> /\ Head(pipe) = pc
            OBVIOUS
        <3> PICK at : Cut(at)
            BY DEF LogInv, Ended
        <3> QED BY AtField
    <2> QED BY <2>1, <2>2 DEF LogInv, Ranges, Framed, TypeOK
<1> QED BY <1>1, LogInvAlways, PTL

LEMMA WrittenInOrder == ASSUME LogInv PROVE InOrder
<1>1. /\ Len(files) \in Nat /\ Len(accepted) \in Nat /\ Len(files) <= Len(accepted)
      /\ files \in Seq(Messages) /\ accepted \in Seq(Messages)
      /\ \A i \in 1..Len(files) : files[i] = accepted[i]
    BY Lengths DEF LogInv, Prefix, Ranges
<1> DEFINE s == SubSeq(accepted, 1, Len(files))
<1>2. s \in Seq(Messages) /\ Len(s) = Len(files) /\ \A i \in 1..Len(files) : s[i] = accepted[i]
    <2>1. \A i \in 1..Len(files) : accepted[i] \in Messages
        BY <1>1
    <2> QED BY <1>1, <2>1, SubSeqProperties
<1> HIDE DEF s
<1>3. files = s
    BY <1>1, <1>2, SeqEqual
<1> QED BY <1>1, <1>3 DEF s, InOrder

(* logger_th's loop: the files hold the first of what the pipe accepted, in  *)
(* the order of the calls, for every schedule of the two threads.            *)
THEOREM InOrderAlways == Spec => []InOrder
BY WrittenInOrder, LogInvAlways, PTL

(* log_sig_join and pthread_join of socksprox.c's exit: with its files open, *)
(* the thread ends only behind everything that was accepted.                 *)
THEOREM JoinedMeansWrittenAlways == Spec => []JoinedMeansWritten
<1>1. LogInv => JoinedMeansWritten
    <2> SUFFICES ASSUME LogInv, main = "joined", opened PROVE files = accepted
        BY DEF JoinedMeansWritten
    <2>1. /\ Len(files) = Len(accepted) /\ files \in Seq(Messages) /\ accepted \in Seq(Messages)
          /\ \A i \in 1..Len(files) : files[i] = accepted[i]
        BY DEF LogInv, Ranges, Ended, Prefix
    <2> QED BY <2>1, SeqEqual
<1> QED BY <1>1, LogInvAlways, PTL
=============================================================================
