--------------------------- MODULE ConfigFileProofs ---------------------------
(* The reader reads what the file says, for every file README.md describes    *)
(* and buffers of any size; and it leaves its buffers only for a key.         *)
EXTENDS ConfigFile, WellFoundedInduction, FiniteSetTheorems, SequenceTheorems, TLAPS

-----------------------------------------------------------------------------
(* A set of numbers has a least member, and a search that ends at hi finds   *)
(* the first position of T in front of it, or hi.                            *)
LEMMA Least ==
  ASSUME NEW S \in SUBSET Nat, S # {}
  PROVE  \E n \in S : \A m \in S : n <= m
<1> DEFINE R == OpToRel(<, Nat)
<1>1. IsWellFoundedOn(R, Nat)
  BY NatLessThanWellFounded
<1>2. \A x, y \in Nat : x < y => <<x, y>> \in R
  BY Zenon DEF OpToRel
<1> HIDE DEF R
<1>3. PICK n \in S : \A m \in S : ~ (<<m, n>> \in R)
  BY <1>1, WFMin
<1>4. ASSUME NEW m \in S PROVE n <= m
  <2>1. n \in Nat /\ m \in Nat /\ ~ (m < n)
    BY <1>2, <1>3, Zenon
  <2> QED BY <2>1
<1> QED BY <1>4

First(a, lo, hi, T) ==
  /\ a \in lo..hi /\ (a = hi \/ a \in T)
  /\ \A j \in lo..a - 1 : j \notin T

LEMMA FirstExists ==
  ASSUME NEW lo \in Nat, NEW hi \in Nat, lo <= hi, NEW T
  PROVE  \E a \in lo..hi : First(a, lo, hi, T)
<1> DEFINE S == {a \in lo..hi : a = hi \/ a \in T}
<1>1. S \in SUBSET Nat /\ S # {}
  <2>1. hi \in S
    OBVIOUS
  <2> QED BY <2>1
<1>2. PICK a \in S : \A b \in S : a <= b
  <2> HIDE DEF S
  <2> QED BY <1>1, Least
<1>3. a \in lo..hi /\ (a = hi \/ a \in T)
  BY <1>2
<1>4. ASSUME NEW j \in lo..a - 1, j \in T PROVE FALSE
  <2>1. j \in S
    BY <1>3, <1>4
  <2>2. a <= j
    BY <1>2, <2>1
  <2> QED BY <1>3, <2>2
<1> QED BY <1>3, <1>4 DEF First

(* Lines in their order: the first i of S are fewer for a smaller i.         *)
LEMMA CountsGrow ==
  ASSUME NEW n \in Nat, NEW S \in SUBSET (1..n), NEW i \in S, NEW j \in S, i < j
  PROVE  Cardinality(S \cap 1..i) < Cardinality(S \cap 1..j)
<1>1. IsFiniteSet(S \cap 1..j)
  <2>1. IsFiniteSet(1..j)
    BY FS_Interval
  <2> QED BY <2>1, FS_Intersection
<1>2. S \cap 1..i \subseteq S \cap 1..j
  OBVIOUS
<1>3. S \cap 1..i # S \cap 1..j
  <2>1. j \in S \cap 1..j /\ j \notin S \cap 1..i
    OBVIOUS
  <2> QED BY <2>1
<1>4. /\ Cardinality(S \cap 1..i) <= Cardinality(S \cap 1..j)
      /\ Cardinality(S \cap 1..i) = Cardinality(S \cap 1..j) => S \cap 1..i = S \cap 1..j
  BY <1>1, <1>2, FS_Subset
<1>5. Cardinality(S \cap 1..i) \in Nat /\ Cardinality(S \cap 1..j) \in Nat
  BY <1>1, <1>2, FS_Subset, FS_CardinalityType
<1> QED BY <1>3, <1>4, <1>5

LEMMA CountsDiffer ==
  ASSUME NEW n \in Nat, NEW S \in SUBSET (1..n), NEW i \in S, NEW j \in S,
         Cardinality(S \cap 1..i) = Cardinality(S \cap 1..j)
  PROVE  i = j
<1>1. i \in Nat /\ j \in Nat
  OBVIOUS
<1>2. ASSUME NEW k \in S, NEW l \in S, k < l PROVE Cardinality(S \cap 1..k) # Cardinality(S \cap 1..l)
  <2>1. IsFiniteSet(S \cap 1..k) /\ IsFiniteSet(S \cap 1..l)
    <3>1. IsFiniteSet(1..k) /\ IsFiniteSet(1..l)
      BY FS_Interval
    <3> QED BY <3>1, FS_Intersection
  <2>2. Cardinality(S \cap 1..k) < Cardinality(S \cap 1..l)
    BY <1>2, CountsGrow
  <2>3. Cardinality(S \cap 1..k) \in Nat /\ Cardinality(S \cap 1..l) \in Nat
    BY <2>1, FS_CardinalityType
  <2> QED BY <2>2, <2>3
<1> QED BY <1>1, <1>2

-----------------------------------------------------------------------------
(* What the searches of the model find.                                      *)
LEMMA PastIs ==
  ASSUME NEW buf, NEW c \in Nat, NEW S, NEW i \in c..LineSize, LineSize \in Nat,
         At(buf, i) \notin S, \A j \in c..i - 1 : At(buf, j) \in S
  PROVE  Past(buf, c, S) = i
<1> DEFINE Ok(k) == At(buf, k) \notin S /\ \A j \in c..k - 1 : At(buf, j) \in S
<1>1. ASSUME NEW k \in c..c + LineSize, Ok(k) PROVE k = i
  <2>1. CASE k < i
    <3>1. k \in c..i - 1
      BY <2>1
    <3> QED BY <1>1, <3>1
  <2>2. CASE i < k
    <3>1. i \in c..k - 1
      BY <2>2
    <3> QED BY <1>1, <3>1
  <2> QED BY <2>1, <2>2
<1>2. Ok(i) /\ i \in c..c + LineSize
  OBVIOUS
<1>3. Past(buf, c, S) = CHOOSE k \in c..c + LineSize : Ok(k)
  BY DEF Past
<1> HIDE DEF Ok
<1> QED BY <1>1, <1>2, <1>3

LEMMA StopIs ==
  ASSUME NEW buf, NEW c \in Nat, NEW size \in Nat, NEW S, NEW i \in c + 1..c + size,
         i = c + size \/ At(buf, i) \in S, \A j \in c + 1..i - 1 : At(buf, j) \notin S
  PROVE  Stop(buf, c, size, S) = i
<1> DEFINE Ok(k) == /\ k = c + size \/ At(buf, k) \in S
                    /\ \A j \in c + 1..k - 1 : At(buf, j) \notin S
<1>1. ASSUME NEW k \in c + 1..c + size, Ok(k) PROVE k = i
  <2>1. CASE k < i
    <3>1. k \in c + 1..i - 1 /\ k # c + size
      BY <2>1
    <3> QED BY <1>1, <3>1
  <2>2. CASE i < k
    <3>1. i \in c + 1..k - 1 /\ i # c + size
      BY <2>2
    <3> QED BY <1>1, <3>1
  <2> QED BY <2>1, <2>2
<1>2. Ok(i)
  OBVIOUS
<1>3. Stop(buf, c, size, S) = CHOOSE k \in c + 1..c + size : Ok(k)
  BY DEF Stop
<1> HIDE DEF Ok
<1> QED BY <1>1, <1>2, <1>3

LEMMA TakenIs ==
  ASSUME NEW f, NEW n \in 1..LineSize - 1, LineSize \in Nat, Len(f) \in Nat,
         n = LineSize - 1 \/ n = Len(f) \/ f[n] = "nl",
         n <= Len(f), \A m \in 1..n - 1 : f[m] # "nl"
  PROVE  Taken(f) = n
<1> DEFINE Ok(k) == /\ k = LineSize - 1 \/ k = Len(f) \/ f[k] = "nl"
                    /\ k <= Len(f) /\ \A m \in 1..k - 1 : f[m] # "nl"
<1>1. ASSUME NEW k \in 1..LineSize - 1, Ok(k) PROVE k = n
  <2>1. CASE k < n
    <3>1. k \in 1..n - 1 /\ k # LineSize - 1 /\ k # Len(f)
      BY <2>1
    <3> QED BY <1>1, <3>1
  <2>2. CASE n < k
    <3>1. n \in 1..k - 1 /\ n # LineSize - 1 /\ n # Len(f)
      BY <1>1, <2>2
    <3> QED BY <1>1, <3>1
  <2> QED BY <2>1, <2>2
<1>2. Ok(n)
  OBVIOUS
<1>3. Taken(f) = CHOOSE k \in 1..LineSize - 1 : Ok(k)
  BY DEF Taken
<1> HIDE DEF Ok
<1> QED BY <1>1, <1>2, <1>3

(* A string without a NUL in it is its own text.                             *)
LEMMA TextIs ==
  ASSUME NEW T, NEW s \in Seq(T), "nul" \notin T
  PROVE  Text(s) = s
<1> DEFINE Ok(k) == /\ k = Len(s) \/ s[k + 1] = "nul"
                    /\ \A m \in 1..k : s[m] # "nul"
           n == CHOOSE k \in 0..Len(s) : Ok(k)
<1>1. Len(s) \in Nat /\ \A i \in 1..Len(s) : s[i] \in T
  OBVIOUS
<1>2. ASSUME NEW k \in 0..Len(s), Ok(k) PROVE k = Len(s)
  <2>1. CASE k # Len(s)
    <3>1. k + 1 \in 1..Len(s)
      BY <1>1, <2>1
    <3> QED BY <1>1, <1>2, <2>1, <3>1
  <2> QED BY <2>1
<1>3. Ok(Len(s))
  BY <1>1
<1>4. Text(s) = SubSeq(s, 1, n)
  BY DEF Text
<1> HIDE DEF Ok
<1>5. n = Len(s)
  BY <1>1, <1>2, <1>3
<1> HIDE DEF n
<1>6. SubSeq(s, 1, Len(s)) = s
  BY <1>1
<1> QED BY <1>4, <1>5, <1>6

-----------------------------------------------------------------------------
(* Lines and words of a file.                                                *)
LEMMA LineEndFacts ==
  ASSUME NEW f, Len(f) \in Nat, NEW i \in 1..Len(f) + 1
  PROVE  /\ LineEnd(f, i) \in i..Len(f) + 1
         /\ LineEnd(f, i) = Len(f) + 1 \/ f[LineEnd(f, i)] = "nl"
         /\ \A j \in i..LineEnd(f, i) - 1 : f[j] # "nl"
<1> DEFINE Ok(e) == /\ e = Len(f) + 1 \/ f[e] = "nl"
                    /\ \A j \in i..e - 1 : f[j] # "nl"
           T == {j \in Nat : f[j] = "nl"}
<1>1. PICK a \in i..Len(f) + 1 : First(a, i, Len(f) + 1, T)
  <2> HIDE DEF T
  <2>1. i \in Nat /\ Len(f) + 1 \in Nat /\ i <= Len(f) + 1
    OBVIOUS
  <2> QED BY <2>1, FirstExists
<1>2. Ok(a)
  BY <1>1 DEF First
<1>3. LineEnd(f, i) = CHOOSE e \in i..Len(f) + 1 : Ok(e)
  BY DEF LineEnd
<1> HIDE DEF Ok
<1>4. LineEnd(f, i) \in i..Len(f) + 1 /\ Ok(LineEnd(f, i))
  BY <1>2, <1>3
<1> QED BY <1>4 DEF Ok

LEMMA SameLine ==
  ASSUME NEW f, Len(f) \in Nat, NEW i \in 1..Len(f) + 1, NEW j \in i..LineEnd(f, i)
  PROVE  LineEnd(f, j) = LineEnd(f, i)
<1> DEFINE e == LineEnd(f, i)
           d == LineEnd(f, j)
<1>1. /\ e \in i..Len(f) + 1 /\ (e = Len(f) + 1 \/ f[e] = "nl")
      /\ \A k \in i..e - 1 : f[k] # "nl"
  BY LineEndFacts
<1>2. j \in 1..Len(f) + 1
  BY <1>1
<1>3. /\ d \in j..Len(f) + 1 /\ (d = Len(f) + 1 \/ f[d] = "nl")
      /\ \A k \in j..d - 1 : f[k] # "nl"
  BY <1>2, LineEndFacts
<1>4. j \in i..e
  OBVIOUS
<1> HIDE DEF d, e
<1>5. CASE d < e
  <2>1. d \in i..e - 1 /\ d # Len(f) + 1
    BY <1>1, <1>2, <1>3, <1>4, <1>5
  <2> QED BY <1>1, <1>3, <2>1
<1>6. CASE e < d
  <2>1. e \in j..d - 1 /\ e # Len(f) + 1
    BY <1>1, <1>2, <1>3, <1>4, <1>6
  <2> QED BY <1>1, <1>3, <2>1
<1>7. CASE d = e
  BY <1>7 DEF d, e
<1> QED BY <1>1, <1>2, <1>3, <1>5, <1>6, <1>7

(* The word w of a line that ends at e, from position i on.                  *)
IsWord(w, f, i, e, S) ==
  \E b \in i..e : \E z \in b..e :
    /\ w = <<b, z>>
    /\ b = e \/ f[b] \notin Separator
    /\ \A j \in i..b - 1 : f[j] \in Separator
    /\ z = e \/ f[z] \in S
    /\ \A j \in b..z - 1 : f[j] \notin S

LEMMA WordFacts ==
  ASSUME NEW f, Len(f) \in Nat, NEW i \in 1..Len(f) + 1, NEW S
  PROVE  IsWord(Word(f, i, S), f, i, LineEnd(f, i), S)
<1> DEFINE e == LineEnd(f, i)
           OkB(b) == (b = e \/ f[b] \notin Separator) /\ \A j \in i..b - 1 : f[j] \in Separator
           b == CHOOSE x \in i..e : OkB(x)
           OkZ(z) == (z = e \/ f[z] \in S) /\ \A j \in b..z - 1 : f[j] \notin S
           z == CHOOSE x \in b..e : OkZ(x)
<1>1. e \in i..Len(f) + 1 /\ i \in Nat /\ e \in Nat /\ i <= e
  BY LineEndFacts
<1>2. Word(f, i, S) = <<b, z>>
  BY DEF Word
<1> HIDE DEF e
<1>3. b \in i..e /\ OkB(b)
  <2> DEFINE T == {j \in Nat : f[j] \notin Separator}
  <2>1. PICK a \in i..e : First(a, i, e, T)
    <3> HIDE DEF T
    <3> QED BY <1>1, FirstExists
  <2>2. OkB(a)
    BY <1>1, <2>1 DEF First
  <2> HIDE DEF OkB
  <2> QED BY <2>2
<1> HIDE DEF b
<1>4. z \in b..e /\ OkZ(z)
  <2> DEFINE T == {j \in Nat : f[j] \in S}
  <2>0. b \in Nat /\ b <= e
    BY <1>1, <1>3
  <2>1. PICK a \in b..e : First(a, b, e, T)
    <3> HIDE DEF T
    <3> QED BY <1>1, <2>0, FirstExists
  <2>2. OkZ(a)
    BY <1>1, <2>0, <2>1 DEF First
  <2> HIDE DEF OkZ
  <2> QED BY <2>2
<1> HIDE DEF z
<1> QED BY <1>2, <1>3, <1>4 DEF IsWord, e

-----------------------------------------------------------------------------
(* What the buffer holds of a line from p to e.                              *)
Text1 == Letter \cup {"sp", "eq", "cm"}
Line(buf, f, p, e) ==
  /\ p \in Nat /\ e \in Nat /\ p <= e /\ e - p + 1 < LineSize
  /\ f \in Seq(Text1 \cup {"nl"}) /\ e <= Len(f) + 1 /\ p >= 1
  /\ \A j \in p..e - 1 : f[j] \in Text1 /\ At(buf, j - p) = f[j]
  /\ At(buf, e - p) \in End

LEMMA Classes ==
  /\ "nul" \notin Text1 \cup {"nl"} /\ Text1 \cap End = {} /\ "beyond" \notin Text1 \cup End
  /\ Letter \cap Separator = {} /\ Letter \cap {"sp", "cm"} = {} /\ Letter \subseteq Text1
  /\ LineSize \in Nat /\ KeySize \in Nat
BY ConfigFileAssumption DEF ConfigFileAssumption, Text1, End, Separator

Leaves(f, p, e, S, c, a) == \* S is left at a
  /\ S \cap End = {} /\ c \in p..e /\ a \in c..e
  /\ a = e \/ f[a] \notin S
  /\ \A j \in c..a - 1 : f[j] \in S
Meets(f, p, e, S, size, c, a) == \* S is met at a
  /\ c \in p..e /\ a \in c + 1..e /\ a - c <= size
  /\ IF a = e THEN End \subseteq S ELSE f[a] \in S
  /\ \A j \in c + 1..a - 1 : f[j] \notin S
Part(p, e, c, a) == c \in p..e /\ a \in c..e
Cut(f, c, a) == SubSeq(f, c, a - 1)

LEMMA PastInLine ==
  ASSUME NEW buf, NEW f, NEW p, NEW e, Line(buf, f, p, e), NEW S, NEW c, NEW a,
         Leaves(f, p, e, S, c, a)
  PROVE  Past(buf, c - p, S) = a - p
<1>0. /\ S \cap End = {} /\ c \in p..e /\ a \in c..e
      /\ a = e \/ f[a] \notin S
      /\ \A j \in c..a - 1 : f[j] \in S
  BY DEF Leaves
<1>1. p \in Nat /\ e \in Nat /\ LineSize \in Nat /\ e - p + 1 < LineSize
  BY Classes DEF Line
<1>2. c - p \in Nat /\ a - p \in c - p..LineSize
  BY <1>0, <1>1
<1>3. At(buf, a - p) \notin S
  BY <1>0, <1>1 DEF Line
<1>4. ASSUME NEW i \in c - p..(a - p) - 1 PROVE At(buf, i) \in S
  <2>1. i + p \in c..a - 1 /\ i + p \in p..e - 1 /\ (i + p) - p = i
    BY <1>0, <1>1
  <2>2. At(buf, (i + p) - p) = f[i + p]
    BY <2>1 DEF Line
  <2> QED BY <1>0, <2>1, <2>2
<1> QED BY <1>0, <1>1, <1>2, <1>3, <1>4, PastIs

LEMMA StopInLine ==
  ASSUME NEW buf, NEW f, NEW p, NEW e, Line(buf, f, p, e), NEW S, NEW size \in Nat,
         NEW c, NEW a, Meets(f, p, e, S, size, c, a)
  PROVE  Stop(buf, c - p, size, S) = a - p
<1>0. /\ c \in p..e /\ a \in c + 1..e /\ a - c <= size
      /\ IF a = e THEN End \subseteq S ELSE f[a] \in S
      /\ \A j \in c + 1..a - 1 : f[j] \notin S
  BY DEF Meets
<1>1. p \in Nat /\ e \in Nat
  BY DEF Line
<1>2. c - p \in Nat /\ a - p \in c - p + 1..c - p + size
  BY <1>0, <1>1
<1>3. At(buf, a - p) \in S
  BY <1>0, <1>1 DEF Line
<1>4. ASSUME NEW i \in c - p + 1..(a - p) - 1 PROVE At(buf, i) \notin S
  <2>1. i + p \in c + 1..a - 1 /\ i + p \in p..e - 1 /\ (i + p) - p = i
    BY <1>0, <1>1
  <2>2. At(buf, (i + p) - p) = f[i + p]
    BY <2>1 DEF Line
  <2> QED BY <1>0, <2>1, <2>2
<1> QED BY <1>0, <1>1, <1>2, <1>3, <1>4, StopIs

LEMMA CopiedInLine ==
  ASSUME NEW buf, NEW f, NEW p, NEW e, Line(buf, f, p, e), NEW c, NEW a, Part(p, e, c, a)
  PROVE  Text(Copied(buf, c - p, a - p)) = Cut(f, c, a)
<1>0. c \in p..e /\ a \in c..e
  BY DEF Part
<1>1. p \in Nat /\ e \in Nat /\ p >= 1 /\ e <= Len(f) + 1 /\ Len(f) \in Nat
  BY DEF Line
<1>2. Copied(buf, c - p, a - p) = SubSeq(f, c, a - 1)
  <2>1. SubSeq(f, c, a - 1) = [i \in 1..(a - 1) - c + 1 |-> f[c + i - 1]]
    BY <1>0, <1>1
  <2>2. (a - p) - (c - p) = (a - 1) - c + 1
    BY <1>0, <1>1
  <2>3. ASSUME NEW i \in 1..(a - p) - (c - p) PROVE At(buf, c - p + i - 1) = f[c + i - 1]
    <3>1. c + i - 1 \in p..e - 1 /\ (c + i - 1) - p = c - p + i - 1
      BY <1>0, <1>1
    <3>2. At(buf, (c + i - 1) - p) = f[c + i - 1]
      BY <3>1 DEF Line
    <3> QED BY <3>1, <3>2
  <2> QED BY <1>0, <2>1, <2>2, <2>3 DEF Copied
<1>3. SubSeq(f, c, a - 1) \in Seq(Text1 \cup {"nl"})
  BY <1>0, <1>1 DEF Line
<1>4. Text(SubSeq(f, c, a - 1)) = SubSeq(f, c, a - 1)
  BY <1>3, TextIs, Classes
<1> QED BY <1>2, <1>4, Zenon DEF Cut

-----------------------------------------------------------------------------
(* What parse_line makes of a buffer, and of which lines README.md speaks.   *)
K(buf) == skip_whitespace(buf, 0)
KE(buf) == get_key(buf, K(buf))
V(buf) == to_value(buf, KE(buf))
VE(buf) == get_val(buf, V(buf))
Pair(buf) == <<Text(Copied(buf, K(buf), KE(buf))), Text(Copied(buf, V(buf), VE(buf)))>>
Over(buf) == \/ KeyOverrun(buf, K(buf), KE(buf))
             \/ At(buf, V(buf)) = "beyond"
             \/ ~ new_line(At(buf, V(buf))) /\ ValOverrun(VE(buf))
Skips(buf) == line_comment(At(buf, K(buf)))

Blank(f, p, e) == \A j \in p..e - 1 : f[j] = "sp"
Comment(f, p, k) == (\A j \in p..k - 1 : f[j] = "sp") /\ f[k] = "cm"
Key(f, p, k, z) ==
  /\ \A j \in p..k - 1 : f[j] = "sp"
  /\ z - k < KeySize /\ f[z] \in Separator
  /\ \A j \in k..z - 1 : f[j] \in Letter

LEMMA KeysAre ==
  ASSUME NEW s \in Keys
  PROVE  s # <<>> /\ s \in Seq(Letter)
BY ConfigFileAssumption DEF ConfigFileAssumption

(* The first word of the entry at p, from b to z.                            *)
LEMMA EntryKey ==
  ASSUME NEW buf, NEW f, NEW p, Line(buf, f, p, LineEnd(f, p))
  PROVE  \E b \in p..LineEnd(f, p) : \E z \in b..LineEnd(f, p) :
           /\ Word(f, p, Separator) = <<b, z>>
           /\ b = LineEnd(f, p) \/ f[b] \notin Separator
           /\ \A j \in p..b - 1 : f[j] \in Separator
           /\ z = LineEnd(f, p) \/ f[z] \in Separator
           /\ \A j \in b..z - 1 : f[j] \notin Separator
           /\ Entry(f, p)[1] = SubSeq(f, b, z - 1)
<1>1. Len(f) \in Nat /\ p \in 1..Len(f) + 1
  BY DEF Line
<1>2. IsWord(Word(f, p, Separator), f, p, LineEnd(f, p), Separator)
  BY <1>1, WordFacts
<1>3. Entry(f, p)[1] = SubSeq(f, Word(f, p, Separator)[1], Word(f, p, Separator)[2] - 1)
  BY DEF Entry
<1> QED BY <1>2, <1>3 DEF IsWord

LEMMA SkipInLine ==
  ASSUME NEW buf, NEW f, NEW p, NEW e, Line(buf, f, p, e), NEW a \in p..e,
         a = e \/ f[a] # "sp", \A j \in p..a - 1 : f[j] = "sp"
  PROVE  K(buf) = a - p
<1> DEFINE S == {"sp"}
<1>1. S \cap End = {} /\ (a = e \/ f[a] \notin S) /\ \A j \in p..a - 1 : f[j] \in S
  BY DEF End
<1>2. p \in p..e /\ p - p = 0
  BY DEF Line
<1>2a. Leaves(f, p, e, S, p, a)
  BY <1>1, <1>2 DEF Leaves
<1>3. K(buf) = Past(buf, 0, S)
  BY DEF K, skip_whitespace
<1> HIDE DEF S
<1>4. Past(buf, p - p, S) = a - p
  BY <1>2a, PastInLine
<1> QED BY <1>2, <1>3, <1>4

LEMMA BlankRead ==
  ASSUME NEW buf, NEW f, NEW p, Line(buf, f, p, LineEnd(f, p)), Blank(f, p, LineEnd(f, p))
  PROVE  Skips(buf) /\ p \notin Told(f)
<1> DEFINE e == LineEnd(f, p)
<1>1. p \in Nat /\ e \in Nat /\ p <= e /\ p >= 1 /\ e <= Len(f) + 1 /\ f \in Seq(Text1 \cup {"nl"})
  BY DEF Line
<1>2. Skips(buf)
  <2>1. e \in p..e /\ Line(buf, f, p, e) /\ \A j \in p..e - 1 : f[j] = "sp"
    BY <1>1 DEF Blank
  <2>2. K(buf) = e - p
    <3> HIDE DEF e
    <3> QED BY <2>1, SkipInLine
  <2>3. At(buf, e - p) \in End
    BY DEF Line
  <2> QED BY <2>2, <2>3 DEF Skips, line_comment
<1>3. PICK b \in p..e : \E z \in b..e :
         /\ b = e \/ f[b] \notin Separator
         /\ Entry(f, p)[1] = SubSeq(f, b, z - 1)
  BY EntryKey
<1>4. b = e
  BY <1>1, <1>3 DEF Blank, Separator
<1>5. Entry(f, p)[1] = SubSeq(f, e, e - 1)
  BY <1>1, <1>3, <1>4
<1>6. SubSeq(f, e, e - 1) = <<>>
  BY <1>1
<1> QED BY <1>2, <1>5, <1>6, KeysAre DEF Told

LEMMA CommentRead ==
  ASSUME NEW buf, NEW f, NEW p, Line(buf, f, p, LineEnd(f, p)),
         NEW k \in p..LineEnd(f, p) - 1, Comment(f, p, k)
  PROVE  Skips(buf) /\ p \notin Told(f)
<1> DEFINE e == LineEnd(f, p)
<1>1. p \in Nat /\ e \in Nat /\ p <= e /\ p >= 1 /\ e <= Len(f) + 1 /\ f \in Seq(Text1 \cup {"nl"})
  BY DEF Line
<1>2. Skips(buf)
  <2>1. /\ k \in p..e /\ Line(buf, f, p, e)
        /\ f[k] # "sp" /\ \A j \in p..k - 1 : f[j] = "sp"
    BY <1>1 DEF Comment
  <2>2. K(buf) = k - p
    <3> HIDE DEF e
    <3> QED BY <2>1, SkipInLine
  <2>3. At(buf, k - p) = "cm"
    BY DEF Line, Comment
  <2> QED BY <2>2, <2>3 DEF Skips, line_comment
<1>3. PICK b \in p..e : \E z \in b..e :
         /\ b = e \/ f[b] \notin Separator
         /\ \A j \in p..b - 1 : f[j] \in Separator
         /\ z = e \/ f[z] \in Separator
         /\ Entry(f, p)[1] = SubSeq(f, b, z - 1)
  BY EntryKey
<1>4. b = k
  <2>1. f[k] \notin Separator /\ \A j \in p..k - 1 : f[j] \in Separator
    BY DEF Comment, Separator
  <2> QED BY <1>1, <1>3, <2>1
<1>5. PICK z \in k..e : /\ z = e \/ f[z] \in Separator
                        /\ Entry(f, p)[1] = SubSeq(f, k, z - 1)
  BY <1>3, <1>4
<1>6. z > k
  <2>1. f[k] \notin Separator /\ k # e
    BY <1>1 DEF Comment, Separator
  <2> QED BY <1>1, <1>5, <2>1
<1>7. SubSeq(f, k, z - 1) \notin Seq(Letter)
  <2> DEFINE s == SubSeq(f, k, z - 1)
  <2>1. Len(s) = z - k /\ s[1] = f[k]
    BY <1>1, <1>5, <1>6
  <2>2. s \in Seq(Letter) => s[1] \in Letter
    <3> HIDE DEF s
    <3>1. 1 \in 1..z - k
      BY <1>1, <1>5, <1>6
    <3> QED BY <2>1, <3>1
  <2>3. f[k] \notin Letter
    BY Classes DEF Comment
  <2> QED BY <2>1, <2>2, <2>3
<1> QED BY <1>2, <1>5, <1>7, KeysAre DEF Told

LEMMA KeyRead ==
  ASSUME NEW buf, NEW f, NEW p, Line(buf, f, p, LineEnd(f, p)),
         NEW k \in p..LineEnd(f, p) - 1, NEW z \in k + 1..LineEnd(f, p) - 1, Key(f, p, k, z)
  PROVE  /\ ~ Skips(buf) /\ ~ Over(buf)
         /\ p \in Starts(f) => (p \in Told(f) <=> ~ new_line(At(buf, V(buf))) /\ Known(Pair(buf)[1]))
         /\ ~ new_line(At(buf, V(buf))) => Pair(buf) = Entry(f, p)
<1> DEFINE e == LineEnd(f, p)
<1>1. /\ p \in Nat /\ e \in Nat /\ p <= e /\ p >= 1 /\ e <= Len(f) + 1
      /\ f \in Seq(Text1 \cup {"nl"}) /\ Len(f) \in Nat
      /\ Line(buf, f, p, e) /\ k \in p..e - 1 /\ z \in k + 1..e - 1
      /\ e - p + 1 < LineSize /\ LineSize \in Nat /\ KeySize \in Nat
  BY Classes DEF Line
<1>2. e = LineEnd(f, p)
  OBVIOUS
<1> HIDE DEF e
<1>3. k \in Nat /\ z \in Nat /\ k \in p..e /\ z \in p..e /\ z \in k + 1..e /\ z # e
  BY <1>1
<1>4. f[k] \in Letter /\ f[k] # "sp" /\ f[k] # "cm" /\ f[k] \notin Separator /\ f[k] \notin End
  <2>1. k \in k..z - 1
    BY <1>1
  <2>2. f[k] \in Letter
    BY <2>1 DEF Key
  <2> QED BY <2>2, Classes
<1>5. K(buf) = k - p
  BY <1>1, <1>3, <1>4, SkipInLine DEF Key
<1>6. ~ Skips(buf)
  <2>1. At(buf, k - p) = f[k]
    BY <1>1 DEF Line
  <2> QED BY <1>4, <1>5, <2>1 DEF Skips, line_comment
<1>7. KE(buf) = z - p
  <2>1. z - k <= KeySize /\ f[z] \in Separator /\ \A j \in k + 1..z - 1 : f[j] \notin Separator
    BY <1>1, <1>3, Classes DEF Key
  <2>1a. Meets(f, p, e, Separator, KeySize, k, z)
    BY <1>1, <1>3, <2>1 DEF Meets
  <2>2. Stop(buf, k - p, KeySize, Separator) = z - p
    BY <1>1, <2>1, <2>1a, StopInLine
  <2> QED BY <1>5, <2>2 DEF KE, get_key
<1>8. Word(f, p, Separator) = <<k, z>>
  <2>1. PICK b \in p..e : \E y \in b..e :
         /\ Word(f, p, Separator) = <<b, y>>
         /\ b = e \/ f[b] \notin Separator
         /\ \A j \in p..b - 1 : f[j] \in Separator
         /\ y = e \/ f[y] \in Separator
         /\ \A j \in b..y - 1 : f[j] \notin Separator
    BY <1>1, <1>2, EntryKey
  <2>2. \A j \in p..k - 1 : f[j] \in Separator
    BY DEF Key, Separator
  <2>3. b = k
    BY <1>1, <1>4, <2>1, <2>2
  <2>4. PICK y \in k..e : /\ Word(f, p, Separator) = <<k, y>>
                          /\ y = e \/ f[y] \in Separator
                          /\ \A j \in k..y - 1 : f[j] \notin Separator
    BY <2>1, <2>3
  <2>5. f[z] \in Separator /\ \A j \in k..z - 1 : f[j] \notin Separator
    BY Classes DEF Key
  <2>6. y = z
    BY <1>1, <1>3, <2>4, <2>5
  <2> QED BY <2>4, <2>6
<1>9a. IsWord(Word(f, z, {"sp"}), f, z, e, {"sp"})
  <2>1. LineEnd(f, z) = e
    <3>1. p \in 1..Len(f) + 1 /\ z \in p..LineEnd(f, p)
      BY <1>1, <1>2, <1>3
    <3> QED BY <1>1, <1>2, <3>1, SameLine
  <2>2. z \in 1..Len(f) + 1
    BY <1>1
  <2> QED BY <1>1, <2>1, <2>2, WordFacts
<1>9b. PICK b \in z..e : \E y \in b..e :
         /\ Word(f, z, {"sp"}) = <<b, y>>
         /\ b = e \/ f[b] \notin Separator
         /\ \A j \in z..b - 1 : f[j] \in Separator
         /\ y = e \/ f[y] \in {"sp"}
         /\ \A j \in b..y - 1 : f[j] \notin {"sp"}
  BY <1>9a DEF IsWord
<1>9. PICK y \in b..e :
         /\ Word(f, z, {"sp"}) = <<b, y>>
         /\ b = e \/ f[b] \notin Separator
         /\ \A j \in z..b - 1 : f[j] \in Separator
         /\ y = e \/ f[y] \in {"sp"}
         /\ \A j \in b..y - 1 : f[j] \notin {"sp"}
  BY <1>9b
<1>10. Entry(f, p) = <<SubSeq(f, k, z - 1), SubSeq(f, b, y - 1)>>
  BY <1>8, <1>9 DEF Entry
<1>11. V(buf) = b - p
  <2>1. Separator \cap End = {}
    BY DEF Separator, End
  <2>1a. Leaves(f, p, e, Separator, z, b)
    BY <1>1, <1>3, <1>9, <2>1 DEF Leaves
  <2>2. Past(buf, z - p, Separator) = b - p
    BY <1>1, <2>1a, PastInLine
  <2> QED BY <1>7, <2>2 DEF V, to_value
<1>12. At(buf, b - p) # "beyond"
  <2>1. CASE b = e
    BY <1>1, <2>1, Classes DEF Line
  <2>2. CASE b # e
    <3>1. b \in p..e - 1
      BY <1>1, <1>3, <2>2
    <3>2. At(buf, b - p) \in Text1
      BY <1>1, <3>1 DEF Line
    <3> QED BY <3>2, Classes
  <2> QED BY <2>1, <2>2
<1>13. ~ KeyOverrun(buf, K(buf), KE(buf))
  <2>1. z - p < LineSize /\ z - p # k - p + KeySize
    BY <1>1, <1>3 DEF Key
  <2> QED BY <1>1, <1>3, <1>5, <1>7, <2>1 DEF KeyOverrun
<1>14. Pair(buf)[1] = SubSeq(f, k, z - 1)
  <2>1. Part(p, e, k, z)
    BY <1>1, <1>3 DEF Part
  <2>2. Text(Copied(buf, k - p, z - p)) = Cut(f, k, z)
    BY <1>1, <2>1, CopiedInLine
  <2>3. Pair(buf)[1] = Text(Copied(buf, K(buf), KE(buf)))
    BY DEF Pair
  <2> QED BY <1>5, <1>7, <2>2, <2>3, Zenon DEF Cut
<1>15. CASE b = e
  <2>1. new_line(At(buf, V(buf)))
    BY <1>11, <1>15 DEF Line, new_line, e
  <2>2. y = e
    BY <1>1, <1>9, <1>15
  <2>3. SubSeq(f, b, y - 1) = <<>>
    BY <1>1, <1>15, <2>2
  <2>4. ~ Over(buf)
    BY <1>11, <1>12, <1>13, <2>1 DEF Over
  <2>5. Entry(f, p)[2] = <<>>
    <3>1. Entry(f, p)[2] = SubSeq(f, b, y - 1)
      BY <1>10
    <3> QED BY <2>3, <3>1, Zenon
  <2>6. p \notin Told(f)
    BY <2>5 DEF Told
  <2> QED BY <1>6, <2>1, <2>4, <2>6
<1>16. CASE b # e
  <2>1. b \in p..e - 1 /\ b \in p..e /\ b \in Nat
    BY <1>1, <1>3, <1>9, <1>16
  <2>2. At(buf, b - p) = f[b] /\ f[b] \in Text1 /\ f[b] \notin Separator
    BY <1>1, <1>9, <1>16, <2>1 DEF Line
  <2>3. ~ new_line(At(buf, V(buf)))
    BY <1>11, <2>2, Classes DEF new_line
  <2>4. y \in b + 1..e
    <3>1. f[b] \notin {"sp"}
      BY <2>2 DEF Separator
    <3> QED BY <1>1, <1>9, <1>16, <2>1, <3>1
  <2>5. VE(buf) = y - p
    <3> DEFINE S == End \cup {"sp"}
    <3>1. \A j \in b + 1..y - 1 : f[j] \notin S
      <4>1. TAKE j \in b + 1..y - 1
      <4>2. j \in p..e - 1 /\ j \in b..y - 1
        BY <1>1, <2>1, <2>4
      <4>3. f[j] \in Text1 /\ f[j] \notin {"sp"}
        BY <1>1, <1>9, <4>2 DEF Line
      <4> QED BY <4>3, Classes
    <3>2. IF y = e THEN End \subseteq S ELSE f[y] \in S
      BY <1>9
    <3>3. y - b <= LineSize
      BY <1>1, <2>1, <2>4
    <3> HIDE DEF S
    <3>3a. Meets(f, p, e, S, LineSize, b, y)
      BY <2>1, <2>4, <3>1, <3>2, <3>3 DEF Meets
    <3>4. Stop(buf, b - p, LineSize, S) = y - p
      BY <1>1, <3>3, <3>3a, StopInLine
    <3> QED BY <1>11, <3>4 DEF S, VE, get_val
  <2>6. ~ ValOverrun(VE(buf))
    BY <1>1, <2>1, <2>4, <2>5 DEF ValOverrun
  <2>7. ~ Over(buf)
    BY <1>11, <1>12, <1>13, <2>6 DEF Over
  <2>8. Pair(buf)[2] = SubSeq(f, b, y - 1)
    <3>1. Part(p, e, b, y)
      BY <2>1 DEF Part
    <3>2. Text(Copied(buf, b - p, y - p)) = Cut(f, b, y)
      BY <1>1, <3>1, CopiedInLine
    <3>3. Pair(buf)[2] = Text(Copied(buf, V(buf), VE(buf)))
      BY DEF Pair
    <3> QED BY <1>11, <2>5, <3>2, <3>3, Zenon DEF Cut
  <2>9. SubSeq(f, b, y - 1) # <<>>
    BY <1>1, <2>1, <2>4
  <2>10. Pair(buf) = Entry(f, p)
    BY <1>10, <1>14, <2>8 DEF Pair
  <2>11. Entry(f, p)[2] # <<>> /\ Entry(f, p)[1] = Pair(buf)[1]
    BY <1>10, <1>14, <2>9
  <2>12. p \in Starts(f) => (p \in Told(f) <=> Known(Pair(buf)[1]))
    BY <2>11 DEF Told, Known
  <2> QED BY <1>6, <2>3, <2>7, <2>10, <2>12
<1> QED BY <1>15, <1>16

-----------------------------------------------------------------------------
(* fgets takes exactly one line.                                             *)
After(f, p) == IF LineEnd(f, p) = Len(f) + 1 THEN Len(f) + 1 ELSE LineEnd(f, p) + 1
Rest(f, p) == SubSeq(f, p, Len(f))

LEMMA RestFacts ==
  ASSUME NEW T, NEW f \in Seq(T), NEW p \in 1..Len(f) + 1
  PROVE  /\ Rest(f, p) \in Seq(T) /\ Len(Rest(f, p)) = Len(f) - p + 1
         /\ \A i \in 1..Len(f) - p + 1 : Rest(f, p)[i] = f[p + i - 1]
         /\ Rest(f, p) = <<>> <=> p = Len(f) + 1
         /\ \A n \in 0..Len(f) - p + 1 : SubSeq(Rest(f, p), n + 1, Len(Rest(f, p))) = Rest(f, p + n)
<1>0. Len(f) \in Nat
  OBVIOUS
<1>1. Rest(f, p) \in Seq(T) /\ Len(Rest(f, p)) = Len(f) - p + 1
  BY <1>0 DEF Rest
<1>2. \A i \in 1..Len(f) - p + 1 : Rest(f, p)[i] = f[p + i - 1]
  BY <1>0 DEF Rest
<1>3. Rest(f, p) = <<>> <=> p = Len(f) + 1
  BY <1>0, <1>1
<1>4. ASSUME NEW n \in 0..Len(f) - p + 1
      PROVE  SubSeq(Rest(f, p), n + 1, Len(Rest(f, p))) = Rest(f, p + n)
  <2> DEFINE r == Rest(f, p)
             m == Len(f) - p + 1
  <2>1. r \in Seq(T) /\ Len(r) = m /\ m \in Nat /\ n \in 0..m /\ m = Len(f) - p + 1
    BY <1>0, <1>1
  <2>2. \A i \in 1..m : r[i] = f[p + i - 1]
    BY <1>2
  <2> HIDE DEF r, m
  <2>3. SubSeq(r, n + 1, Len(r)) = [i \in 1..m - n |-> r[n + i]]
    <3>1. SubSeq(r, n + 1, m) = [i \in 1..m - (n + 1) + 1 |-> r[n + 1 + i - 1]]
      BY <2>1
    <3>2. m - (n + 1) + 1 = m - n /\ \A i \in 1..m - n : n + 1 + i - 1 = n + i
      BY <2>1
    <3> QED BY <2>1, <3>1, <3>2
  <2>4. Rest(f, p + n) = [i \in 1..m - n |-> f[p + n + i - 1]]
    <3>1. SubSeq(f, p + n, Len(f)) = [i \in 1..Len(f) - (p + n) + 1 |-> f[p + n + i - 1]]
      BY <1>0, <2>1
    <3>2. Len(f) - (p + n) + 1 = m - n
      BY <1>0, <2>1
    <3> QED BY <3>1, <3>2 DEF Rest
  <2>5. \A i \in 1..m - n : r[n + i] = f[p + n + i - 1]
    <3>1. TAKE i \in 1..m - n
    <3>2. n + i \in 1..m /\ p + (n + i) - 1 = p + n + i - 1
      BY <1>0, <2>1
    <3> QED BY <2>2, <3>2
  <2>6. SubSeq(r, n + 1, Len(r)) = Rest(f, p + n)
    BY <2>3, <2>4, <2>5
  <2> QED BY <2>6 DEF r
<1> QED BY <1>1, <1>2, <1>3, <1>4

LEMMA OneLine ==
  ASSUME NEW f, Described(f), NEW p \in Starts(f), NEW old
  PROVE  /\ Line(Filled(old, Rest(f, p)), f, p, LineEnd(f, p))
         /\ After(f, p) \in p + 1..Len(f) + 1 /\ p \in 1..Len(f) /\ Len(f) \in Nat
         /\ SubSeq(Rest(f, p), Taken(Rest(f, p)) + 1, Len(Rest(f, p))) = Rest(f, After(f, p))
<1> DEFINE e == LineEnd(f, p)
           g == Rest(f, p)
           t == After(f, p) - p
           T == Text1 \cup {"nl"}
<1>1. f \in Seq(T) /\ Len(f) \in Nat /\ p \in 1..Len(f) /\ p \in Nat /\ p >= 1
  BY DEF Described, Text1, Starts
<1>2. /\ e \in p..Len(f) + 1 /\ (e = Len(f) + 1 \/ f[e] = "nl")
      /\ \A j \in p..e - 1 : f[j] # "nl"
  BY <1>1, LineEndFacts
<1>3. e - p + 1 < LineSize /\ LineSize \in Nat
  BY Classes DEF Described
<1>4. t = IF e = Len(f) + 1 THEN Len(f) + 1 - p ELSE e + 1 - p
  <2>1. CASE e = Len(f) + 1
    BY <1>1, <1>2, <2>1 DEF After
  <2>2. CASE e # Len(f) + 1
    BY <1>1, <1>2, <2>2 DEF After
  <2> QED BY <2>1, <2>2
<1>5. /\ g \in Seq(T) /\ Len(g) = Len(f) - p + 1
      /\ \A i \in 1..Len(f) - p + 1 : g[i] = f[p + i - 1]
      /\ \A n \in 0..Len(f) - p + 1 : SubSeq(g, n + 1, Len(g)) = Rest(f, p + n)
  <2>1. f \in Seq(T) /\ p \in 1..Len(f) + 1
    BY <1>1
  <2> HIDE DEF T
  <2> QED BY <2>1, RestFacts
<1>6. After(f, p) \in p + 1..Len(f) + 1 /\ After(f, p) = p + t
  BY <1>1, <1>2 DEF After
<1> HIDE DEF e, g, t, T
<1>7. t \in 1..LineSize - 1 /\ t <= Len(g) /\ t \in 1..Len(f) - p + 1
  <2>1. CASE e = Len(f) + 1
    <3>1. t = Len(f) + 1 - p /\ t < LineSize
      BY <1>1, <1>3, <1>4, <2>1
    <3> QED BY <1>1, <1>3, <1>5, <3>1
  <2>2. CASE e # Len(f) + 1
    <3>1. t = e + 1 - p /\ e \in p..Len(f)
      BY <1>1, <1>2, <1>4, <2>2
    <3>2. Len(g) = Len(f) - p + 1
      BY <1>5
    <3>3. p \in Nat /\ e \in Nat /\ Len(f) \in Nat /\ p <= e /\ e <= Len(f)
      BY <1>1, <3>1
    <3>4. t \in Nat /\ t >= 1 /\ t < LineSize /\ t <= Len(f) - p + 1
      BY <1>3, <3>1, <3>3
    <3> QED BY <1>3, <3>2, <3>3, <3>4
  <2> QED BY <2>1, <2>2
<1>8. Taken(g) = t
  <2>1. t = Len(g) \/ g[t] = "nl"
    <3>1. CASE e = Len(f) + 1
      BY <1>1, <1>4, <1>5, <3>1
    <3>2. CASE e # Len(f) + 1
      <4>1. g[t] = f[p + t - 1] /\ p + t - 1 = e
        BY <1>1, <1>2, <1>4, <1>5, <1>7, <3>2
      <4> QED BY <1>2, <3>2, <4>1
    <3> QED BY <3>1, <3>2
  <2>2. ASSUME NEW m \in 1..t - 1 PROVE g[m] # "nl"
    <3>1. m \in 1..Len(f) - p + 1 /\ p + m - 1 \in p..e - 1
      BY <1>1, <1>2, <1>4, <1>7
    <3> QED BY <1>2, <1>5, <3>1
  <2>3. Len(g) \in Nat
    BY <1>5
  <2> QED BY <1>3, <1>7, <2>1, <2>2, <2>3, TakenIs
<1>9. SubSeq(g, Taken(g) + 1, Len(g)) = Rest(f, After(f, p))
  <2>1. t \in 0..Len(f) - p + 1
    BY <1>7
  <2> QED BY <1>5, <1>6, <1>8, <2>1
<1> DEFINE buf == Filled(old, g)
<1>10. \A i \in 0..LineSize - 1 :
         At(buf, i) = IF i < t THEN g[i + 1] ELSE IF i = t THEN "nul" ELSE old[i]
  BY <1>3, <1>8 DEF Filled, At
<1> HIDE DEF buf
<1>11. ASSUME NEW j \in p..e - 1 PROVE f[j] \in Text1 /\ At(buf, j - p) = f[j]
  <2>1. j \in 1..Len(f) /\ j - p \in 0..LineSize - 1 /\ j - p < t
    BY <1>1, <1>2, <1>3, <1>4
  <2>2. f[j] \in T /\ f[j] # "nl"
    BY <1>1, <1>2, <2>1
  <2>3. At(buf, j - p) = g[(j - p) + 1]
    BY <1>10, <2>1
  <2>4. (j - p) + 1 \in 1..Len(f) - p + 1 /\ p + ((j - p) + 1) - 1 = j
    BY <1>1, <2>1
  <2>5. g[(j - p) + 1] = f[p + ((j - p) + 1) - 1]
    BY <1>5, <2>4
  <2> QED BY <2>2, <2>3, <2>4, <2>5 DEF T
<1>12. At(buf, e - p) \in End
  <2>1. e - p \in 0..LineSize - 1
    BY <1>1, <1>2, <1>3
  <2>2. CASE e = Len(f) + 1
    <3>1. e - p = t
      BY <1>1, <1>4, <2>2
    <3>2. ~ (t < t) /\ t \in 0..LineSize - 1
      BY <1>7, <2>1, <3>1
    <3>3. At(buf, t) = "nul"
      BY <1>10, <3>2
    <3> QED BY <3>1, <3>3 DEF End
  <2>3. CASE e # Len(f) + 1
    <3>1. e - p < t /\ (e - p) + 1 \in 1..Len(f) - p + 1 /\ p + ((e - p) + 1) - 1 = e
      BY <1>1, <1>2, <1>4, <2>3
    <3>2. At(buf, e - p) = g[(e - p) + 1]
      BY <1>10, <2>1, <3>1
    <3>3. g[(e - p) + 1] = f[p + ((e - p) + 1) - 1]
      BY <1>5, <3>1
    <3> QED BY <1>2, <2>3, <3>1, <3>2, <3>3 DEF End
  <2> QED BY <2>2, <2>3
<1>13. Line(buf, f, p, e)
  BY <1>1, <1>2, <1>3, <1>11, <1>12 DEF Line, T
<1> QED BY <1>1, <1>6, <1>9, <1>13 DEF buf, e, g

-----------------------------------------------------------------------------
(* What is stored once n characters are read.                                *)
AsSaid(f, s, n) ==
  /\ s \in Seq({Entry(f, i) : i \in Told(f)})
  /\ Len(s) = Cardinality(Told(f) \cap 1..n)
  /\ \A m \in 1..Len(s) : \E i \in Told(f) \cap 1..n :
       /\ Cardinality(Told(f) \cap 1..i) = m
       /\ s[m] = Entry(f, i)

LEMMA ToldNext ==
  ASSUME NEW f, Described(f), NEW p \in Starts(f)
  PROVE  /\ Told(f) \cap 1..After(f, p) - 1 = IF p \in Told(f) THEN (Told(f) \cap 1..p - 1) \cup {p}
                                             ELSE Told(f) \cap 1..p - 1
         /\ After(f, p) = Len(f) + 1 \/ After(f, p) \in Starts(f)
<1> DEFINE e == LineEnd(f, p)
           q == After(f, p)
<1>1. Len(f) \in Nat /\ p \in 1..Len(f) /\ q \in p + 1..Len(f) + 1
  BY OneLine
<1>2. /\ e \in p..Len(f) + 1 /\ (e = Len(f) + 1 \/ f[e] = "nl")
      /\ \A j \in p..e - 1 : f[j] # "nl"
  BY <1>1, LineEndFacts
<1>3. q = IF e = Len(f) + 1 THEN Len(f) + 1 ELSE e + 1
  BY DEF After
<1> HIDE DEF e, q
<1>4. ASSUME NEW j \in p + 1..q - 1 PROVE j \notin Told(f)
  <2>1. j - 1 \in p..e - 1 /\ j # 1
    BY <1>1, <1>2, <1>3
  <2>2. f[j - 1] # "nl"
    BY <1>2, <2>1
  <2> QED BY <2>1, <2>2 DEF Told, Starts
<1>5. 1..q - 1 = (1..p - 1) \cup {p} \cup (p + 1..q - 1)
  BY <1>1
<1>6. q = Len(f) + 1 \/ q \in Starts(f)
  <2>1. CASE e = Len(f) + 1
    BY <1>3, <2>1
  <2>2. CASE e # Len(f) + 1
    <3>1. q - 1 = e /\ q \in 1..Len(f) + 1
      BY <1>1, <1>2, <1>3, <2>2
    <3> QED BY <1>1, <1>2, <2>2, <3>1 DEF Starts
  <2> QED BY <2>1, <2>2
<1>7. Told(f) \cap 1..q - 1 = (Told(f) \cap 1..p - 1) \cup (Told(f) \cap {p})
  BY <1>4, <1>5
<1> QED BY <1>6, <1>7 DEF q

LEMMA AsSaidNext ==
  ASSUME NEW f, Described(f), NEW p \in Starts(f), NEW s, AsSaid(f, s, p - 1)
  PROVE  AsSaid(f, IF p \in Told(f) THEN Append(s, Entry(f, p)) ELSE s, After(f, p) - 1)
<1> DEFINE D == Told(f)
           B == D \cap 1..p - 1
           C == D \cap 1..After(f, p) - 1
           E == {Entry(f, i) : i \in D}
<1>1. p \in 1..Len(f) /\ Len(f) \in Nat
  BY OneLine
<1>2. /\ s \in Seq(E) /\ Len(s) = Cardinality(B)
      /\ \A m \in 1..Len(s) : \E i \in B : Cardinality(D \cap 1..i) = m /\ s[m] = Entry(f, i)
  BY DEF AsSaid
<1>3. C = IF p \in D THEN B \cup {p} ELSE B
  BY ToldNext
<1>4. CASE p \notin D
  <2>1. C = B
    BY <1>3, <1>4
  <2> HIDE DEF B, C, D, E
  <2>2. s \in Seq(E) /\ Len(s) = Cardinality(C)
    BY <1>2, <2>1
  <2>3. \A m \in 1..Len(s) : \E i \in C : Cardinality(D \cap 1..i) = m /\ s[m] = Entry(f, i)
    BY <1>2, <2>1
  <2>4. AsSaid(f, s, After(f, p) - 1)
    BY <2>2, <2>3 DEF AsSaid, C, D, E
  <2> QED BY <1>4, <2>4 DEF D
<1>5. CASE p \in D
  <2> DEFINE r == Append(s, Entry(f, p))
  <2>1. C = B \cup {p} /\ p \notin B
    BY <1>1, <1>3, <1>5
  <2>2. IsFiniteSet(B)
    <3>1. IsFiniteSet(1..p - 1) /\ B \subseteq 1..p - 1
      BY <1>1, FS_Interval
    <3> HIDE DEF B
    <3> QED BY <3>1, FS_Subset
  <2>3. D \cap 1..p = C
    <3>1. 1..p = (1..p - 1) \cup {p}
      BY <1>1
    <3> QED BY <1>5, <2>1, <3>1
  <2>4. Entry(f, p) \in E
    BY <1>5
  <2> HIDE DEF B, C, D, E
  <2>5. Cardinality(C) = Cardinality(B) + 1
    BY <2>1, <2>2, FS_AddElement
  <2>6. /\ r \in Seq(E) /\ Len(r) = Len(s) + 1 /\ Len(s) \in Nat
        /\ r[Len(s) + 1] = Entry(f, p) /\ \A m \in 1..Len(s) : r[m] = s[m]
    BY <1>2, <2>4
  <2> HIDE DEF r
  <2>7. ASSUME NEW m \in 1..Len(r)
        PROVE  \E i \in C : Cardinality(D \cap 1..i) = m /\ r[m] = Entry(f, i)
    <3>1. CASE m = Len(s) + 1
      <4>1. p \in C /\ Cardinality(D \cap 1..p) = m
        BY <1>2, <2>1, <2>3, <2>5, <3>1
      <4> QED BY <2>6, <3>1, <4>1
    <3>2. CASE m # Len(s) + 1
      <4>1. m \in 1..Len(s)
        BY <2>6, <3>2
      <4>2. PICK i \in B : Cardinality(D \cap 1..i) = m /\ s[m] = Entry(f, i)
        BY <1>2, <4>1
      <4> QED BY <2>1, <2>6, <4>1, <4>2
    <3> QED BY <3>1, <3>2
  <2>8. Len(r) = Cardinality(C)
    BY <1>2, <2>5, <2>6
  <2>9. AsSaid(f, r, After(f, p) - 1)
    BY <2>6, <2>7, <2>8 DEF AsSaid, C, D, E
  <2> QED BY <1>5, <2>9 DEF D, r
<1> QED BY <1>4, <1>5

LEMMA AsSaidAll ==
  ASSUME NEW f, Len(f) \in Nat, NEW s, AsSaid(f, s, Len(f))
  PROVE  s = Expected(f)
<1> DEFINE D == Told(f)
           At1(m) == CHOOSE i \in D : Cardinality(D \cap 1..i) = m
<1>1. D \in SUBSET (1..Len(f)) /\ D \cap 1..Len(f) = D
  BY DEF Told, Starts
<1>2. /\ s \in Seq({Entry(f, i) : i \in D}) /\ Len(s) = Cardinality(D)
      /\ \A m \in 1..Len(s) : \E i \in D : Cardinality(D \cap 1..i) = m /\ s[m] = Entry(f, i)
  BY <1>1 DEF AsSaid
<1> HIDE DEF D
<1>3. ASSUME NEW m \in 1..Len(s) PROVE s[m] = Entry(f, At1(m))
  <2>1. PICK i \in D : Cardinality(D \cap 1..i) = m /\ s[m] = Entry(f, i)
    BY <1>2
  <2>2. At1(m) \in D /\ Cardinality(D \cap 1..At1(m)) = m
    BY <2>1
  <2> HIDE DEF At1
  <2>3. At1(m) = i
    BY <1>1, <2>1, <2>2, CountsDiffer
  <2> QED BY <2>1, <2>3
<1>4. s = [m \in 1..Len(s) |-> s[m]]
  BY <1>2
<1>5. s = [m \in 1..Len(s) |-> Entry(f, At1(m))]
  <2> HIDE DEF At1
  <2> QED BY <1>3, <1>4
<1>6. s = [m \in 1..Cardinality(D) |-> Entry(f, At1(m))]
  BY <1>2, <1>5
<1> QED BY <1>6 DEF Expected, D

-----------------------------------------------------------------------------
(* The reader stands at the start of a line, and what it has stored is what  *)
(* the lines in front of it say.                                             *)
ReadSoFar ==
  /\ Described(source) /\ status # "overrun"
  /\ \E p \in 1..Len(source) + 1 :
       /\ file = Rest(source, p)
       /\ p = Len(source) + 1 \/ p \in Starts(source)
       /\ AsSaid(source, stored, p - 1)
  /\ status = "done" => file = <<>>

LEMMA ParseLine ==
  ASSUME parse_line
  PROVE  LET buf == Filled(line, file)
         IN  /\ \/ Skips(buf) /\ UNCHANGED <<stored, status>>
                \/ ~ Skips(buf) /\ Over(buf)
                \/ /\ ~ Skips(buf) /\ ~ Over(buf) /\ UNCHANGED status
                   /\ stored' = IF ~ new_line(At(buf, V(buf))) /\ Known(Pair(buf)[1])
                                THEN Append(stored, Pair(buf)) ELSE stored
             /\ file' = SubSeq(file, Taken(file) + 1, Len(file))
             /\ source' = source /\ status = "reading" /\ file # <<>>
BY DEF parse_line, Skips, Over, Pair, K, KE, V, VE

(* Every line is one README.md describes.                                    *)
LEMMA LineRead ==
  ASSUME NEW f, Described(f), NEW p \in Starts(f), NEW buf, Line(buf, f, p, LineEnd(f, p))
  PROVE  \/ Skips(buf) /\ p \notin Told(f)
         \/ /\ ~ Skips(buf) /\ ~ Over(buf)
            /\ p \in Told(f) <=> ~ new_line(At(buf, V(buf))) /\ Known(Pair(buf)[1])
            /\ ~ new_line(At(buf, V(buf))) => Pair(buf) = Entry(f, p)
<1> DEFINE e == LineEnd(f, p)
<1>1. \/ Blank(f, p, e)
      \/ \E k \in p..e - 1 : \/ Comment(f, p, k)
                             \/ \E z \in k + 1..e - 1 : Key(f, p, k, z)
  BY DEF Described, Blank, Comment, Key
<1>2. CASE Blank(f, p, e)
  BY <1>2, BlankRead
<1>3. ASSUME NEW k \in p..e - 1, Comment(f, p, k)
      PROVE  Skips(buf) /\ p \notin Told(f)
  BY <1>3, CommentRead
<1>4. ASSUME NEW k \in p..e - 1, NEW z \in k + 1..e - 1, Key(f, p, k, z)
      PROVE  /\ ~ Skips(buf) /\ ~ Over(buf)
             /\ p \in Told(f) <=> ~ new_line(At(buf, V(buf))) /\ Known(Pair(buf)[1])
             /\ ~ new_line(At(buf, V(buf))) => Pair(buf) = Entry(f, p)
  BY <1>4, KeyRead
<1> HIDE DEF e
<1> QED BY <1>1, <1>2, <1>3, <1>4

LEMMA ReadStep ==
  ASSUME ReadSoFar, parse_line
  PROVE  ReadSoFar'
<1> DEFINE buf == Filled(line, file)
<1>1. /\ \/ Skips(buf) /\ UNCHANGED <<stored, status>>
         \/ ~ Skips(buf) /\ Over(buf)
         \/ /\ ~ Skips(buf) /\ ~ Over(buf) /\ UNCHANGED status
            /\ stored' = IF ~ new_line(At(buf, V(buf))) /\ Known(Pair(buf)[1])
                         THEN Append(stored, Pair(buf)) ELSE stored
      /\ file' = SubSeq(file, Taken(file) + 1, Len(file))
      /\ source' = source /\ status = "reading" /\ file # <<>>
  BY ParseLine
<1>2. Described(source)
  BY DEF ReadSoFar
<1>3. PICK p \in 1..Len(source) + 1 : /\ file = Rest(source, p)
                                      /\ p = Len(source) + 1 \/ p \in Starts(source)
                                      /\ AsSaid(source, stored, p - 1)
  BY DEF ReadSoFar
<1>4. p \in Starts(source)
  <2>1. p # Len(source) + 1
    BY <1>1, <1>2, <1>3, RestFacts DEF Described
  <2> QED BY <1>3, <2>1
<1> DEFINE q == After(source, p)
<1>5. /\ Line(buf, source, p, LineEnd(source, p))
      /\ q \in p + 1..Len(source) + 1 /\ p \in 1..Len(source) /\ Len(source) \in Nat
      /\ file' = Rest(source, q)
  BY <1>1, <1>2, <1>3, <1>4, OneLine
<1>6. q = Len(source) + 1 \/ q \in Starts(source)
  BY <1>2, <1>4, ToldNext
<1>7. \/ Skips(buf) /\ p \notin Told(source)
      \/ /\ ~ Skips(buf) /\ ~ Over(buf)
         /\ p \in Told(source) <=> ~ new_line(At(buf, V(buf))) /\ Known(Pair(buf)[1])
         /\ ~ new_line(At(buf, V(buf))) => Pair(buf) = Entry(source, p)
  BY <1>2, <1>4, <1>5, LineRead
<1>8. /\ status' = "reading"
      /\ stored' = IF p \in Told(source) THEN Append(stored, Entry(source, p)) ELSE stored
  <2> HIDE DEF buf
  <2> QED BY <1>1, <1>7
<1>9. AsSaid(source, stored', q - 1)
  BY <1>2, <1>3, <1>4, <1>8, AsSaidNext
<1> HIDE DEF q
<1>10. q \in 1..Len(source) + 1
  BY <1>5
<1>11. source' = source
  BY <1>1
<1>12. \E r \in 1..Len(source') + 1 : /\ file' = Rest(source', r)
                                      /\ r = Len(source') + 1 \/ r \in Starts(source')
                                      /\ AsSaid(source', stored', r - 1)
  BY <1>5, <1>6, <1>9, <1>10, <1>11
<1> QED BY <1>2, <1>8, <1>11, <1>12 DEF ReadSoFar

LEMMA ReadInit ==
  ASSUME Init, Described(source)
  PROVE  ReadSoFar
<1>1. /\ source \in Seq(Letter \cup {"sp", "eq", "cm", "nl"})
      /\ file = source /\ stored = <<>> /\ status = "reading"
  BY DEF Init, Described
<1>2. file = Rest(source, 1) /\ 1 \in 1..Len(source) + 1 /\ Len(source) \in Nat
  BY <1>1 DEF Rest
<1>3. 1 = Len(source) + 1 \/ 1 \in Starts(source)
  BY <1>2 DEF Starts
<1>4. AsSaid(source, stored, 0)
  <2>1. Told(source) \cap 1..0 = {}
    OBVIOUS
  <2>2. Cardinality({}) = 0
    BY FS_EmptySet
  <2>3. stored \in Seq({Entry(source, i) : i \in Told(source)}) /\ Len(stored) = 0
    BY <1>1
  <2> QED BY <2>1, <2>2, <2>3 DEF AsSaid
<1>5. 1 - 1 = 0
  OBVIOUS
<1> QED BY <1>1, <1>2, <1>3, <1>4, <1>5 DEF ReadSoFar

LEMMA ReadNext ==
  ASSUME ReadSoFar, [Next]_vars
  PROVE  ReadSoFar'
<1>1. CASE parse_line
  BY <1>1, ReadStep
<1>2. CASE parse_end
  BY <1>2 DEF parse_end, ReadSoFar
<1>3. CASE UNCHANGED vars
  BY <1>3 DEF vars, ReadSoFar
<1> QED BY <1>1, <1>2, <1>3 DEF Next

LEMMA ReadAll ==
  ASSUME ReadSoFar
  PROVE  ReadsAsDocumented
<1>2. ASSUME status = "done" PROVE stored = Expected(source)
  <2>1. PICK p \in 1..Len(source) + 1 : /\ file = Rest(source, p)
                                        /\ AsSaid(source, stored, p - 1)
    BY DEF ReadSoFar
  <2> DEFINE T == Letter \cup {"sp", "eq", "cm", "nl"}
  <2>2. source \in Seq(T) /\ file = <<>>
    BY <1>2 DEF ReadSoFar, Described
  <2>3. p = Len(source) + 1 /\ Len(source) \in Nat
    <3>1. p \in 1..Len(source) + 1 /\ Rest(source, p) = <<>>
      BY <2>1, <2>2
    <3>2. Len(source) \in Nat
      BY <2>2
    <3> HIDE DEF T
    <3>3. Rest(source, p) = <<>> <=> p = Len(source) + 1
      BY <2>2, <3>1, RestFacts, Zenon
    <3> QED BY <3>1, <3>2, <3>3
  <2>4. p - 1 = Len(source)
    BY <2>3
  <2> QED BY <2>1, <2>3, <2>4, AsSaidAll
<1> QED BY <1>2 DEF ReadsAsDocumented

(* DescribedIsRead: in a file as README.md describes it no line leaves a      *)
(* buffer, and what store_config was given is what README.md says the file    *)
(* says, whatever an earlier line or the stack left in the buffer.            *)
THEOREM DescribedIsReadAlways == Spec => []DescribedIsRead
<1> DEFINE Inv == Described(source) => ReadSoFar
<1>1. Init => Inv
  BY ReadInit
<1>2. Inv /\ [Next]_vars => Inv'
  <2> SUFFICES ASSUME Inv, [Next]_vars, Described(source') PROVE ReadSoFar'
    OBVIOUS
  <2>1. source' = source
    BY DEF Next, parse_line, parse_end, vars
  <2>2. ReadSoFar
    BY <2>1
  <2> QED BY <2>2, ReadNext
<1>3. Inv => DescribedIsRead
  <2> SUFFICES ASSUME Inv, Described(source) PROVE status # "overrun" /\ ReadsAsDocumented
    BY DEF DescribedIsRead
  <2>1. ReadSoFar
    OBVIOUS
  <2> QED BY <2>1, ReadAll DEF ReadSoFar
<1> QED BY <1>1, <1>2, <1>3, PTL DEF Spec

-----------------------------------------------------------------------------
(* What leads out of the buffers, for any file and any buffer.               *)

(* fgets ends what it takes with a NUL inside the buffer.                    *)
LEMMA NulIsThere ==
  ASSUME NEW f \in Seq(Character), f # <<>>, NEW old
  PROVE  /\ Taken(f) \in 1..LineSize - 1 /\ At(Filled(old, f), Taken(f)) = "nul"
         /\ \A i \in 0..Taken(f) - 1 : At(Filled(old, f), i) \in Character
<1> DEFINE hi == IF Len(f) < LineSize - 1 THEN Len(f) ELSE LineSize - 1
           T == {j \in 1..Len(f) : f[j] = "nl"}
<1>1. /\ LineSize \in Nat /\ Len(f) \in Nat /\ hi \in 1..LineSize - 1 /\ hi <= Len(f)
      /\ hi = Len(f) \/ hi = LineSize - 1
  BY ConfigFileAssumption DEF ConfigFileAssumption
<1>2. PICK n \in 1..hi : First(n, 1, hi, T)
  <2> HIDE DEF hi, T
  <2> QED BY <1>1, FirstExists
<1>3. Taken(f) = n
  <2>1. /\ n \in 1..LineSize - 1 /\ n <= Len(f)
        /\ n = LineSize - 1 \/ n = Len(f) \/ f[n] = "nl"
        /\ \A m \in 1..n - 1 : f[m] # "nl"
    BY <1>1, <1>2 DEF First
  <2> QED BY <1>1, <2>1, TakenIs
<1>4. n \in 1..LineSize - 1 /\ n <= Len(f)
  BY <1>1, <1>2
<1>5. At(Filled(old, f), n) = "nul"
  BY <1>1, <1>3, <1>4 DEF At, Filled
<1>6. ASSUME NEW i \in 0..n - 1 PROVE At(Filled(old, f), i) \in Character
  <2>1. At(Filled(old, f), i) = f[i + 1]
    BY <1>1, <1>3, <1>4 DEF At, Filled
  <2>2. i + 1 \in 1..Len(f)
    BY <1>1, <1>4
  <2> QED BY <2>1, <2>2
<1> QED BY <1>3, <1>4, <1>5, <1>6

(* With a NUL in the buffer, a key that ends leaves every pointer in front   *)
(* of the NUL or on it.                                                      *)
LEMMA EndedKeyStays ==
  ASSUME NEW buf, NEW t \in 1..LineSize - 1, At(buf, t) = "nul",
         \A i \in 0..t - 1 : At(buf, i) \in Character,
         KeyEnds(buf, K(buf))
  PROVE  ~ Over(buf)
<1>1. /\ LineSize \in Nat /\ KeySize \in Nat /\ t \in Nat /\ t < LineSize
      /\ "beyond" \notin Character
  BY ConfigFileAssumption DEF ConfigFileAssumption, Character
<1> DEFINE NotIn(S) == {i \in 0..t : At(buf, i) \notin S}
           In(S) == {i \in 0..t : At(buf, i) \in S}
           k == K(buf)
<1>2. k \in 0..t
  <2>1. PICK a \in 0..t : First(a, 0, t, NotIn({"sp"}))
    <3> HIDE DEF NotIn
    <3> QED BY <1>1, FirstExists
  <2>2. /\ a \in 0..LineSize /\ At(buf, a) \notin {"sp"}
        /\ \A j \in 0..a - 1 : At(buf, j) \in {"sp"}
    BY <1>1, <2>1 DEF First
  <2>3. K(buf) = a
    BY <1>1, <2>2, PastIs DEF K, skip_whitespace
  <2> QED BY <2>1, <2>3
<1> HIDE DEF k
<1>3. PICK z \in k + 1..k + KeySize - 1 :
        At(buf, z) \in Separator /\ \A j \in k..z : At(buf, j) # "nul"
  BY DEF KeyEnds, k
<1>4. z < t /\ z \in Nat
  BY <1>1, <1>2, <1>3
<1> DEFINE e == KE(buf)
<1>5. e \in k + 1..z /\ At(buf, e) \in Separator
  <2>1. PICK a \in k + 1..z : First(a, k + 1, z, In(Separator))
    <3>1. k + 1 \in Nat /\ z \in Nat /\ k + 1 <= z
      BY <1>1, <1>2, <1>3
    <3> HIDE DEF In
    <3> QED BY <3>1, FirstExists
  <2>2. /\ a \in k + 1..k + KeySize /\ At(buf, a) \in Separator
        /\ \A j \in k + 1..a - 1 : At(buf, j) \notin Separator
    BY <1>1, <1>2, <1>3, <1>4, <2>1 DEF First
  <2>3. KE(buf) = a
    BY <1>1, <1>2, <2>2, StopIs DEF KE, get_key, k
  <2> QED BY <2>1, <2>2, <2>3
<1> HIDE DEF e
<1>6. ~ KeyOverrun(buf, k, e)
  BY <1>1, <1>2, <1>3, <1>4, <1>5 DEF KeyOverrun
<1> DEFINE v == V(buf)
<1>7. v \in e..t
  <2>1. PICK a \in e..t : First(a, e, t, NotIn(Separator))
    <3>1. e \in Nat /\ e <= t
      BY <1>1, <1>2, <1>4, <1>5
    <3> HIDE DEF NotIn
    <3> QED BY <1>1, <3>1, FirstExists
  <2>2. /\ a \in e..LineSize /\ At(buf, a) \notin Separator /\ e \in Nat
        /\ \A j \in e..a - 1 : At(buf, j) \in Separator
    BY <1>1, <1>2, <1>5, <2>1 DEF First, Separator
  <2>3. V(buf) = a
    BY <1>1, <2>2, PastIs DEF V, to_value, e
  <2> QED BY <2>1, <2>3
<1> HIDE DEF v
<1>8. v \in 0..t
  BY <1>1, <1>2, <1>5, <1>7
<1>9. At(buf, v) # "beyond"
  BY <1>1, <1>8
<1>10. ASSUME ~ new_line(At(buf, v)) PROVE ~ ValOverrun(VE(buf))
  <2>1. v < t
    BY <1>1, <1>8, <1>10 DEF new_line, End
  <2> DEFINE S == End \cup {"sp"}
  <2>2. PICK a \in v + 1..t : First(a, v + 1, t, In(S))
    <3>1. v + 1 \in Nat /\ v + 1 <= t
      BY <1>1, <1>8, <2>1
    <3> HIDE DEF In
    <3> QED BY <1>1, <3>1, FirstExists
  <2>3. /\ a \in v + 1..v + LineSize /\ At(buf, a) \in S
        /\ \A j \in v + 1..a - 1 : At(buf, j) \notin S
    BY <1>1, <1>8, <2>1, <2>2 DEF First, End
  <2>4. VE(buf) = a
    <3>1. VE(buf) = Stop(buf, v, LineSize, S)
      BY DEF VE, get_val, v
    <3> HIDE DEF S
    <3> QED BY <1>1, <1>8, <2>3, <3>1, StopIs
  <2> QED BY <1>1, <2>2, <2>4 DEF ValOverrun
<1> QED BY <1>6, <1>9, <1>10 DEF Over, k, e, v

(* An overrun is the one of the line in the buffer.                          *)
LeftByAKey == file \in Seq(Character) /\ OverrunIsTheKeys

LEMMA LeftByAKeyNext ==
  ASSUME LeftByAKey, [Next]_vars
  PROVE  LeftByAKey'
<1>1. CASE parse_line
  <2> DEFINE buf == Filled(line, file)
             t == Taken(file)
  <2>1. /\ file \in Seq(Character) /\ file # <<>> /\ status = "reading" /\ line' = buf
        /\ file' = SubSeq(file, t + 1, Len(file))
    BY <1>1 DEF parse_line, LeftByAKey
  <2>2. status' = "overrun" => Over(buf)
    <3>1. /\ \/ Skips(buf) /\ UNCHANGED <<stored, status>>
             \/ ~ Skips(buf) /\ Over(buf)
             \/ ~ Skips(buf) /\ ~ Over(buf) /\ UNCHANGED status
          /\ status = "reading"
      BY <1>1, ParseLine
    <3> HIDE DEF buf
    <3> QED BY <3>1
  <2>3. /\ t \in 1..LineSize - 1 /\ At(buf, t) = "nul"
        /\ \A i \in 0..t - 1 : At(buf, i) \in Character
    BY <2>1, NulIsThere
  <2>4. file' \in Seq(Character)
    <3>1. t + 1 \in 1..Len(file) + 1 \/ t + 1 > Len(file)
      BY <2>1, <2>3, ConfigFileAssumption DEF ConfigFileAssumption
    <3> HIDE DEF t
    <3> QED BY <2>1, <2>3, <3>1, ConfigFileAssumption DEF ConfigFileAssumption
  <2> HIDE DEF buf, t
  <2>5. Over(buf) => ~ KeyEnds(buf, K(buf))
    BY <2>3, EndedKeyStays
  <2> QED BY <2>1, <2>2, <2>4, <2>5 DEF LeftByAKey, OverrunIsTheKeys, K
<1>2. CASE parse_end
  BY <1>2 DEF parse_end, LeftByAKey, OverrunIsTheKeys
<1>3. CASE UNCHANGED vars
  BY <1>3 DEF vars, LeftByAKey, OverrunIsTheKeys
<1> QED BY <1>1, <1>2, <1>3 DEF Next

(* OverrunIsTheKeys: whatever is in the file and in the buffer, and whatever *)
(* the sizes, parse_configs keeps to its buffers in every line whose key a   *)
(* separator ends in time.                                                   *)
THEOREM OverrunIsTheKeysAlways == Spec => []OverrunIsTheKeys
<1>1. Init => LeftByAKey
  BY ConfigFileAssumption DEF Init, LeftByAKey, OverrunIsTheKeys, ConfigFileAssumption
<1>2. LeftByAKey /\ [Next]_vars => LeftByAKey'
  BY LeftByAKeyNext
<1>3. LeftByAKey => OverrunIsTheKeys
  BY DEF LeftByAKey
<1> QED BY <1>1, <1>2, <1>3, PTL DEF Spec
=============================================================================
