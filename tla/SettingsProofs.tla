--------------------------- MODULE SettingsProofs ---------------------------
(* A server that starts does what its file says, for files of any length and *)
(* settings in any order.                                                    *)
EXTENDS Settings, FiniteSetTheorems, SequenceTheorems, TLAPS

-----------------------------------------------------------------------------
(* What a setting has, by its key.                                           *)
LEMMA SettingFields ==
  ASSUME NEW s \in Setting
  PROVE  /\ s.key \in {"log", "max-connections", "allow", "method", "address", "listen", "block"}
         /\ s.key = "log" => s.of \in LogFile
         /\ s.key = "max-connections" => s.val \in Counts
         /\ s.key = "allow" => s.of \in AllowKey /\ s.val \in {"yes", "no", "other"}
         /\ s.key = "method" => s.val \in Method \cup {"other"}
         /\ s.key = "address" => s.of \in Role /\ s.val \in Values
         /\ s.key \in {"listen", "block"} => s.delim \in BOOLEAN /\ s.val \in Values
BY DEF Setting

(* The last of a set of lines.                                               *)
LEMMA LastAdded ==
  ASSUME NEW S, NEW n \in Nat, S \subseteq 1..n - 1
  PROVE  LastOf(S \cup {n}) = n
<1>1. \A i \in S \cup {n} : (\A j \in S \cup {n} : j <= i) <=> i = n
  OBVIOUS
<1> QED BY <1>1 DEF LastOf

(* Lines in their order: the first i of S are fewer for a smaller i.         *)
LEMMA CountsGrow ==
  ASSUME NEW n \in Nat, NEW S \in SUBSET (1..n), NEW i \in S, NEW j \in S, i < j
  PROVE  Cardinality(S \cap 1..i) < Cardinality(S \cap 1..j)
<1>1. IsFiniteSet(S \cap 1..j)
  <2>1. IsFiniteSet(1..j)
    BY FS_Interval
  <2> QED BY <2>1, FS_Intersection
<1>2. S \cap 1..i \subseteq S \cap 1..j
  OBVIOUS
<1>3. S \cap 1..i # S \cap 1..j
  <2>1. j \in S \cap 1..j /\ j \notin S \cap 1..i
    OBVIOUS
  <2> QED BY <2>1
<1>4. /\ Cardinality(S \cap 1..i) <= Cardinality(S \cap 1..j)
      /\ Cardinality(S \cap 1..i) = Cardinality(S \cap 1..j) => S \cap 1..i = S \cap 1..j
  BY <1>1, <1>2, FS_Subset
<1>5. Cardinality(S \cap 1..i) \in Nat /\ Cardinality(S \cap 1..j) \in Nat
  BY <1>1, <1>2, FS_Subset, FS_CardinalityType
<1> QED BY <1>3, <1>4, <1>5

LEMMA CountsDiffer ==
  ASSUME NEW n \in Nat, NEW S \in SUBSET (1..n), NEW i \in S, NEW j \in S,
         Cardinality(S \cap 1..i) = Cardinality(S \cap 1..j)
  PROVE  i = j
<1>1. i \in Nat /\ j \in Nat
  OBVIOUS
<1>2. ASSUME NEW k \in S, NEW l \in S, k < l PROVE Cardinality(S \cap 1..k) # Cardinality(S \cap 1..l)
  <2>1. IsFiniteSet(S \cap 1..k) /\ IsFiniteSet(S \cap 1..l)
    <3>1. IsFiniteSet(1..k) /\ IsFiniteSet(1..l)
      BY FS_Interval
    <3> QED BY <3>1, FS_Intersection
  <2>2. Cardinality(S \cap 1..k) < Cardinality(S \cap 1..l)
    BY <1>2, CountsGrow
  <2>3. Cardinality(S \cap 1..k) \in Nat /\ Cardinality(S \cap 1..l) \in Nat
    BY <2>1, FS_CardinalityType
  <2> QED BY <2>2, <2>3
<1> QED BY <1>1, <1>2
LEMMA Shifted ==
  ASSUME NEW q, NEW h, NEW n \in Nat, NEW m \in Nat,
         \A i \in 1..n + m : i > n => q[i] = h[i - n]
  PROVE  \A i \in 1..m : q[n + i] = h[i]
<1> TAKE i \in 1..m
<1>1. n + i \in 1..n + m /\ n + i > n /\ (n + i) - n = i
  OBVIOUS
<1>2. q[n + i] = h[(n + i) - n]
  BY <1>1
<1> QED BY <1>1, <1>2

(* What getaddrinfo has found is in front of what was there.                 *)
LEMMA LinkedRange ==
  ASSUME NEW t \in Values, NEW n \in Nat \ {0}, NEW head \in Seq(Values),
         SettingsAssumption, t \in Addresses
  PROVE  /\ Linked(getaddrinfo(t, n), head) \in Seq(Values)
         /\ Range(Linked(getaddrinfo(t, n), head)) = Range(head) \cup {t}
<1> DEFINE g == [i \in 1..n |-> t]
<1>1. getaddrinfo(t, n) = g
  BY DEF getaddrinfo
<1>2. g \in Seq(Values) /\ Len(g) = n
  OBVIOUS
<1>3. Reverse(g) = g
  BY <1>2 DEF Reverse
<1>4. Linked(getaddrinfo(t, n), head) = g \o head
  BY <1>1, <1>3 DEF Linked
<1>5. /\ g \o head \in Seq(Values)
      /\ Len(g \o head) = n + Len(head)
      /\ \A i \in 1..n : (g \o head)[i] = t
      /\ \A i \in 1..Len(head) : (g \o head)[n + i] = head[i]
  <2>1. Len(head) \in Nat
    OBVIOUS
  <2>2. g \o head \in Seq(Values) /\ Len(g \o head) = n + Len(head)
    BY <1>2
  <2>3. \A i \in 1..n + Len(head) : (g \o head)[i] = IF i <= n THEN g[i] ELSE head[i - n]
    BY <1>2
  <2>4. \A i \in 1..n : (g \o head)[i] = t
    BY <2>1, <2>3
  <2>5. \A i \in 1..Len(head) : (g \o head)[n + i] = head[i]
    <3> DEFINE q == g \o head
    <3>1. \A i \in 1..n + Len(head) : i > n => q[i] = head[i - n]
      BY <2>1, <2>3
    <3> HIDE DEF q
    <3>2. \A i \in 1..Len(head) : q[n + i] = head[i]
      BY <2>1, <3>1, Shifted
    <3> QED BY <3>2 DEF q
  <2> QED BY <2>2, <2>4, <2>5
<1> DEFINE q == g \o head
<1>6. q \in Seq(Values) /\ Len(q) = n + Len(head) /\ Len(head) \in Nat
  BY <1>5
<1>7. DOMAIN q = 1..n + Len(head) /\ DOMAIN head = 1..Len(head)
  BY <1>6
<1>8. \A i \in 1..n : q[i] = t
  BY <1>5
<1>9. \A i \in 1..Len(head) : q[n + i] = head[i]
  BY <1>5
<1> HIDE DEF q
<1>10. Range(q) = Range(head) \cup {t}
  <2>1. ASSUME NEW x \in Range(q) PROVE x \in Range(head) \cup {t}
    <3>1. PICK i \in 1..n + Len(head) : x = q[i]
      BY <1>7, <2>1 DEF Range
    <3>2. CASE i <= n
      BY <3>1, <3>2, <1>8
    <3>3. CASE i > n
      <4>1. i - n \in 1..Len(head) /\ n + (i - n) = i
        BY <3>1, <3>3, <1>6
      <4> QED BY <4>1, <3>1, <1>9, <1>7 DEF Range
    <3> QED BY <3>1, <3>2, <3>3, <1>6
  <2>2. t \in Range(q)
    <3>1. 1 \in 1..n /\ 1 \in 1..n + Len(head)
      BY <1>6
    <3> QED BY <3>1, <1>7, <1>8 DEF Range
  <2>3. ASSUME NEW x \in Range(head) PROVE x \in Range(q)
    <3>1. PICK i \in 1..Len(head) : x = head[i]
      BY <1>7, <2>3 DEF Range
    <3>2. n + i \in 1..n + Len(head)
      BY <1>6
    <3> QED BY <3>1, <3>2, <1>7, <1>9 DEF Range
  <2> QED BY <2>1, <2>2, <2>3
<1>11. Linked(getaddrinfo(t, n), head) = q
  BY <1>4 DEF q
<1> QED BY <1>6, <1>10, <1>11

-----------------------------------------------------------------------------
(* What the first n settings of f say, and what is stored when it is that.   *)
Upto(f, n, key) == {i \in 1..n : f[i].key = key}
UptoOf(f, n, key, k) == {i \in Upto(f, n, key) : f[i].of = k}
Named(f, S) == {f[i].val : i \in S}

ConfigsType ==
  [listen_head : Seq(Values), logs : SUBSET LogFile, max_conns : Int, allow : SUBSET AllowKey,
   methods : SUBSET Method, addrs : [Role -> Seq(Values)], block_head : Seq(Values)]

AllowAs(f, n, a) ==
  \A k \in AllowKey : k \in a <=> /\ UptoOf(f, n, "allow", k) # {}
                                  /\ f[LastOf(UptoOf(f, n, "allow", k))].val = "yes"
MaxAs(f, n, m) ==
  IF Upto(f, n, "max-connections") = {} THEN m = 0
  ELSE m = f[LastOf(Upto(f, n, "max-connections"))].val
MethodsAs(f, n, M) == M = Named(f, Upto(f, n, "method")) \ {"other"}
ListenAs(f, n, h) == Range(h) = Named(f, Upto(f, n, "listen"))
AddrsAs(f, n, a) == \A r \in Role : Range(a[r]) = Named(f, UptoOf(f, n, "address", r))
BlocksAs(f, n, h) ==
  LET S == Upto(f, n, "block") IN
  /\ Len(h) = Cardinality(S)
  /\ \A m \in 1..Len(h) : \E i \in S : /\ Cardinality(S \cap 1..i) = m
                                       /\ h[Len(h) - m + 1] = f[i].val

As(f, n, c) ==
  /\ c \in ConfigsType
  /\ AllowAs(f, n, c.allow) /\ MaxAs(f, n, c.max_conns) /\ MethodsAs(f, n, c.methods)
  /\ ListenAs(f, n, c.listen_head) /\ AddrsAs(f, n, c.addrs) /\ BlocksAs(f, n, c.block_head)

(* While settings are stored, and once they are accepted, the stored ones    *)
(* are what was read.                                                        *)
Written ==
  /\ file \in Seq(Setting) /\ next \in 1..Len(file) + 1
  /\ status \in {"storing", "accepted"} => As(file, next - 1, configs)
  /\ status = "accepted" => next = Len(file) + 1 /\ ~ Errors(configs)

-----------------------------------------------------------------------------
(* One setting more.                                                         *)
LEMMA UptoNext ==
  ASSUME NEW f, NEW n \in Nat \ {0}, NEW key
  PROVE  /\ Upto(f, n, key) = IF f[n].key = key THEN Upto(f, n - 1, key) \cup {n}
                              ELSE Upto(f, n - 1, key)
         /\ Upto(f, n - 1, key) \subseteq 1..n - 1
<1>1. 1..n = (1..n - 1) \cup {n}
  OBVIOUS
<1> QED BY <1>1 DEF Upto

LEMMA UptoOfNext ==
  ASSUME NEW f, NEW n \in Nat \ {0}, NEW key, NEW k
  PROVE  /\ UptoOf(f, n, key, k) = IF f[n].key = key /\ f[n].of = k
                                   THEN UptoOf(f, n - 1, key, k) \cup {n}
                                   ELSE UptoOf(f, n - 1, key, k)
         /\ UptoOf(f, n - 1, key, k) \subseteq 1..n - 1
<1>1. Upto(f, n - 1, key) \subseteq 1..n - 1
  BY UptoNext
<1>2. CASE f[n].key = key
  BY <1>1, <1>2, UptoNext DEF UptoOf
<1>3. CASE f[n].key # key
  BY <1>1, <1>3, UptoNext DEF UptoOf
<1> QED BY <1>2, <1>3

LEMMA NamedNext ==
  ASSUME NEW f, NEW S, NEW n
  PROVE  Named(f, S \cup {n}) = Named(f, S) \cup {f[n].val}
BY DEF Named

(* The last setting of a key counts.                                         *)
LEMMA AllowNext ==
  ASSUME NEW f, NEW n \in Nat \ {0}, NEW a, f[n] \in Setting, AllowAs(f, n - 1, a)
  PROVE  AllowAs(f, n, IF f[n].key = "allow" THEN yes_check(a, f[n]) ELSE a)
<1> DEFINE b == IF f[n].key = "allow" THEN yes_check(a, f[n]) ELSE a
<1> SUFFICES ASSUME NEW k \in AllowKey
             PROVE  k \in b <=> /\ UptoOf(f, n, "allow", k) # {}
                                /\ f[LastOf(UptoOf(f, n, "allow", k))].val = "yes"
  BY DEF AllowAs
<1>1. k \in a <=> /\ UptoOf(f, n - 1, "allow", k) # {}
                  /\ f[LastOf(UptoOf(f, n - 1, "allow", k))].val = "yes"
  BY DEF AllowAs
<1>2. CASE f[n].key = "allow" /\ f[n].of = k
  <2>1. UptoOf(f, n, "allow", k) = UptoOf(f, n - 1, "allow", k) \cup {n}
    BY <1>2, UptoOfNext
  <2>2. LastOf(UptoOf(f, n, "allow", k)) = n
    <3>1. UptoOf(f, n - 1, "allow", k) \subseteq 1..n - 1
      BY UptoOfNext
    <3> QED BY <2>1, <3>1, LastAdded
  <2>3. k \in b <=> f[n].val = "yes"
    BY <1>2 DEF yes_check
  <2> QED BY <2>1, <2>2, <2>3
<1>3. CASE ~ (f[n].key = "allow" /\ f[n].of = k)
  <2>1. UptoOf(f, n, "allow", k) = UptoOf(f, n - 1, "allow", k)
    BY <1>3, UptoOfNext
  <2>2. k \in b <=> k \in a
    BY <1>3 DEF yes_check
  <2> QED BY <1>1, <2>1, <2>2
<1> QED BY <1>2, <1>3

LEMMA MaxNext ==
  ASSUME NEW f, NEW n \in Nat \ {0}, NEW m, MaxAs(f, n - 1, m)
  PROVE  MaxAs(f, n, IF f[n].key = "max-connections" THEN f[n].val ELSE m)
<1>1. CASE f[n].key = "max-connections"
  <2>1. Upto(f, n, "max-connections") = Upto(f, n - 1, "max-connections") \cup {n}
    BY <1>1, UptoNext
  <2>2. LastOf(Upto(f, n, "max-connections")) = n
    <3>1. Upto(f, n - 1, "max-connections") \subseteq 1..n - 1
      BY UptoNext
    <3> QED BY <2>1, <3>1, LastAdded
  <2> QED BY <1>1, <2>1, <2>2 DEF MaxAs
<1>2. CASE f[n].key # "max-connections"
  BY <1>2, UptoNext DEF MaxAs
<1> QED BY <1>1, <1>2

(* Every setting of a key counts.                                            *)
LEMMA MethodsNext ==
  ASSUME NEW f, NEW n \in Nat \ {0}, NEW M, f[n] \in Setting, MethodsAs(f, n - 1, M)
  PROVE  MethodsAs(f, n, IF f[n].key = "method" THEN M \cup method_parse(f[n]) ELSE M)
<1>1. CASE f[n].key = "method"
  <2>1. Named(f, Upto(f, n, "method")) = Named(f, Upto(f, n - 1, "method")) \cup {f[n].val}
    <3>1. Upto(f, n, "method") = Upto(f, n - 1, "method") \cup {n}
      BY <1>1, UptoNext
    <3> QED BY <3>1 DEF Named
  <2>2. method_parse(f[n]) = {f[n].val} \ {"other"}
    <3>1. f[n].val \in Method \cup {"other"}
      BY <1>1, SettingFields
    <3> QED BY <3>1 DEF method_parse, Method
  <2> QED BY <1>1, <2>1, <2>2 DEF MethodsAs
<1>2. CASE f[n].key # "method"
  BY <1>2, UptoNext DEF MethodsAs
<1> QED BY <1>1, <1>2

LEMMA DelimThere ==
  ASSUME NEW s \in Setting, SettingsAssumption, ~ Fails(s), s.key \in {"listen", "block"}
  PROVE  BeforeDelim(s) = s.val /\ s.val \in Addresses /\ s.val \in Values
<1>1. BeforeDelim(s) \in Addresses
  BY DEF Fails
<1>2. "empty" \notin Addresses
  BY DEF SettingsAssumption
<1> QED BY <1>1, <1>2, SettingFields DEF BeforeDelim

LEMMA ListenNext ==
  ASSUME NEW f, NEW n \in Nat \ {0}, NEW h \in Seq(Values), SettingsAssumption,
         f[n] \in Setting, ~ Fails(f[n]), ListenAs(f, n - 1, h)
  PROVE  LET g == IF f[n].key = "listen" THEN link_addr(f[n], h) ELSE h
         IN  g \in Seq(Values) /\ ListenAs(f, n, g)
<1>1. CASE f[n].key = "listen"
  <2>1. BeforeDelim(f[n]) = f[n].val /\ f[n].val \in Addresses /\ f[n].val \in Values
    BY <1>1, DelimThere
  <2>2. /\ link_addr(f[n], h) \in Seq(Values)
        /\ Range(link_addr(f[n], h)) = Range(h) \cup {f[n].val}
    BY <2>1, LinkedRange DEF link_addr
  <2>3. Named(f, Upto(f, n, "listen")) = Named(f, Upto(f, n - 1, "listen")) \cup {f[n].val}
    <3>1. Upto(f, n, "listen") = Upto(f, n - 1, "listen") \cup {n}
      BY <1>1, UptoNext
    <3> QED BY <3>1 DEF Named
  <2> QED BY <1>1, <2>2, <2>3 DEF ListenAs
<1>2. CASE f[n].key # "listen"
  BY <1>2, UptoNext DEF ListenAs
<1> QED BY <1>1, <1>2

LEMMA AddrsNext ==
  ASSUME NEW f, NEW n \in Nat \ {0}, NEW a \in [Role -> Seq(Values)], SettingsAssumption,
         f[n] \in Setting, ~ Fails(f[n]), AddrsAs(f, n - 1, a)
  PROVE  LET b == IF f[n].key = "address"
                  THEN link_addrs_from_gai(f[n], a) ELSE a
         IN  b \in [Role -> Seq(Values)] /\ AddrsAs(f, n, b)
<1>1. CASE f[n].key = "address"
  <2> DEFINE o == f[n].of
             h == Linked(getaddrinfo(f[n].val, 3), a[o])
             b == [a EXCEPT ![o] = h]
  <2>1. o \in Role /\ f[n].val \in Values /\ f[n].val \in Addresses
    BY <1>1, SettingFields DEF Fails
  <2>2. h \in Seq(Values) /\ Range(h) = Range(a[o]) \cup {f[n].val}
    BY <2>1, LinkedRange
  <2> HIDE DEF h
  <2>3. b \in [Role -> Seq(Values)] /\ \A r \in Role : b[r] = IF r = o THEN h ELSE a[r]
    BY <2>1, <2>2
  <2>4. ASSUME NEW r \in Role PROVE Range(b[r]) = Named(f, UptoOf(f, n, "address", r))
    <3>1. Range(a[r]) = Named(f, UptoOf(f, n - 1, "address", r))
      BY DEF AddrsAs
    <3>2. CASE r = o
      <4>1. UptoOf(f, n, "address", r) = UptoOf(f, n - 1, "address", r) \cup {n}
        BY <1>1, <3>2, UptoOfNext
      <4>2. Named(f, UptoOf(f, n, "address", r))
              = Named(f, UptoOf(f, n - 1, "address", r)) \cup {f[n].val}
        BY <4>1, NamedNext
      <4> QED BY <2>2, <2>3, <3>1, <3>2, <4>2
    <3>3. CASE r # o
      <4>1. UptoOf(f, n, "address", r) = UptoOf(f, n - 1, "address", r)
        BY <3>3, UptoOfNext
      <4> QED BY <2>3, <3>1, <3>3, <4>1
    <3> QED BY <3>2, <3>3
  <2>5. AddrsAs(f, n, b)
    BY <2>4 DEF AddrsAs
  <2> HIDE DEF b
  <2>6. b = link_addrs_from_gai(f[n], a)
    BY DEF b, h, link_addrs_from_gai
  <2> QED BY <1>1, <2>3, <2>5, <2>6
<1>2. CASE f[n].key # "address"
  <2>1. \A r \in Role : UptoOf(f, n, "address", r) = UptoOf(f, n - 1, "address", r)
    BY <1>2, UptoOfNext
  <2> QED BY <1>2, <2>1 DEF AddrsAs
<1> QED BY <1>1, <1>2

(* Each block line is linked in front of the earlier ones, and none is lost. *)
LEMMA BlocksNext ==
  ASSUME NEW f, NEW n \in Nat \ {0}, NEW h \in Seq(Values), SettingsAssumption,
         f[n] \in Setting, ~ Fails(f[n]), BlocksAs(f, n - 1, h)
  PROVE  LET g == IF f[n].key = "block" THEN link_blocks(f[n], h) ELSE h
         IN  g \in Seq(Values) /\ BlocksAs(f, n, g)
<1>1. CASE f[n].key = "block"
  <2> DEFINE v == f[n].val
             g == <<v>> \o h
             T == Upto(f, n - 1, "block")
             S == Upto(f, n, "block")
  <2>1. v \in Values /\ link_blocks(f[n], h) = g
    BY <1>1, DelimThere DEF link_blocks
  <2>2. Len(h) \in Nat /\ g \in Seq(Values) /\ Len(g) = Len(h) + 1 /\ g[1] = v
    BY <2>1
  <2>3. \A i \in 1..Len(h) : g[1 + i] = h[i]
    BY <2>1
  <2>4. S = T \cup {n} /\ T \subseteq 1..n - 1
    BY <1>1, UptoNext
  <2>5. /\ Len(h) = Cardinality(T)
        /\ \A m \in 1..Len(h) : \E i \in T : /\ Cardinality(T \cap 1..i) = m
                                             /\ h[Len(h) - m + 1] = f[i].val
    BY DEF BlocksAs
  <2> HIDE DEF g, S, T
  <2>6. S \cap 1..n = S /\ \A i \in T : S \cap 1..i = T \cap 1..i
    <3>1. S \subseteq 1..n
      BY <2>4
    <3>2. ASSUME NEW i \in T PROVE S \cap 1..i = T \cap 1..i
      <4>1. i \in 1..n - 1
        BY <2>4
      <4>2. n \notin 1..i
        BY <4>1
      <4> QED BY <2>4, <4>2
    <3> QED BY <3>1, <3>2
  <2>7. Cardinality(S) = Len(h) + 1
    <3>1. IsFiniteSet(1..n - 1)
      BY FS_Interval
    <3>2. IsFiniteSet(T)
      BY <2>4, <3>1, FS_Subset
    <3>3. n \notin T
      BY <2>4
    <3>4. Cardinality(T \cup {n}) = Cardinality(T) + 1
      BY <3>2, <3>3, FS_AddElement
    <3> QED BY <2>4, <2>5, <3>4
  <2>8. ASSUME NEW m \in 1..Len(g)
        PROVE  \E i \in S : Cardinality(S \cap 1..i) = m /\ g[Len(g) - m + 1] = f[i].val
    <3>1. CASE m = Len(g)
      <4>1. n \in S /\ Cardinality(S \cap 1..n) = m
        BY <2>2, <2>4, <2>6, <2>7, <3>1
      <4>2. Len(g) - m + 1 = 1
        BY <2>2, <3>1
      <4> QED BY <2>2, <4>1, <4>2
    <3>2. CASE m # Len(g)
      <4>1. m \in 1..Len(h)
        BY <2>2, <3>2
      <4>2. PICK i \in T : Cardinality(T \cap 1..i) = m /\ h[Len(h) - m + 1] = f[i].val
        BY <2>5, <4>1
      <4>3. Len(h) - m + 1 \in 1..Len(h) /\ Len(g) - m + 1 = 1 + (Len(h) - m + 1)
        BY <2>2, <4>1
      <4>4. g[Len(g) - m + 1] = f[i].val
        BY <2>3, <4>2, <4>3
      <4> QED BY <2>4, <2>6, <4>2, <4>4
    <3> QED BY <3>1, <3>2
  <2>9. BlocksAs(f, n, g)
    BY <2>2, <2>7, <2>8 DEF BlocksAs, S
  <2> QED BY <1>1, <2>1, <2>2, <2>9
<1>2. CASE f[n].key # "block"
  <2>1. Upto(f, n, "block") = Upto(f, n - 1, "block")
    BY <1>2, UptoNext
  <2>2. BlocksAs(f, n, h)
    BY <2>1 DEF BlocksAs
  <2> QED BY <1>2, <2>2
<1> QED BY <1>1, <1>2

(* store_config stores one setting.                                          *)
LEMMA StoredAs ==
  ASSUME SettingsAssumption, file \in Seq(Setting), next \in 1..Len(file),
         As(file, next - 1, configs), ~ Fails(file[next])
  PROVE  As(file, next, Stored(file[next]))
<1> DEFINE s == file[next]
           c == configs
           d == Stored(s)
<1>1. s \in Setting /\ next \in Nat \ {0}
  OBVIOUS
<1>2. c \in ConfigsType
  BY DEF As
<1>3. /\ d.allow = IF s.key = "allow" THEN yes_check(c.allow, s) ELSE c.allow
      /\ d.max_conns = IF s.key = "max-connections" THEN s.val ELSE c.max_conns
      /\ d.methods = IF s.key = "method" THEN c.methods \cup method_parse(s) ELSE c.methods
      /\ d.listen_head = IF s.key = "listen" THEN link_addr(s, c.listen_head) ELSE c.listen_head
      /\ d.addrs = IF s.key = "address"
                   THEN link_addrs_from_gai(s, c.addrs) ELSE c.addrs
      /\ d.block_head = IF s.key = "block" THEN link_blocks(s, c.block_head) ELSE c.block_head
      /\ d.logs = IF s.key = "log" THEN c.logs \cup {s.of} ELSE c.logs
      /\ d = [listen_head |-> d.listen_head, logs |-> d.logs, max_conns |-> d.max_conns,
              allow |-> d.allow, methods |-> d.methods, addrs |-> d.addrs,
              block_head |-> d.block_head]
  <2>1. c = [listen_head |-> c.listen_head, logs |-> c.logs, max_conns |-> c.max_conns,
             allow |-> c.allow, methods |-> c.methods, addrs |-> c.addrs,
             block_head |-> c.block_head]
    BY <1>2 DEF ConfigsType
  <2>2. DOMAIN c = {"listen_head", "logs", "max_conns", "allow", "methods", "addrs", "block_head"}
    BY <2>1
  <2>3. DOMAIN d = DOMAIN c /\ d = [f \in DOMAIN d |-> d[f]]
    BY DEF Stored
  <2>4. /\ d.allow = IF s.key = "allow" THEN yes_check(c.allow, s) ELSE c.allow
        /\ d.max_conns = IF s.key = "max-connections" THEN s.val ELSE c.max_conns
        /\ d.methods = IF s.key = "method" THEN c.methods \cup method_parse(s) ELSE c.methods
        /\ d.listen_head = IF s.key = "listen" THEN link_addr(s, c.listen_head) ELSE c.listen_head
    BY <2>2 DEF Stored
  <2>5. d.addrs = IF s.key = "address"
                  THEN link_addrs_from_gai(s, c.addrs) ELSE c.addrs
    BY <2>2 DEF Stored
  <2>6. /\ d.block_head = IF s.key = "block" THEN link_blocks(s, c.block_head) ELSE c.block_head
        /\ d.logs = IF s.key = "log" THEN c.logs \cup {s.of} ELSE c.logs
    BY <2>2 DEF Stored
  <2> HIDE DEF d
  <2>7. d = [listen_head |-> d.listen_head, logs |-> d.logs, max_conns |-> d.max_conns,
             allow |-> d.allow, methods |-> d.methods, addrs |-> d.addrs,
             block_head |-> d.block_head]
    BY <2>2, <2>3
  <2> QED BY <2>4, <2>5, <2>6, <2>7
<1> HIDE DEF d, s
<1>4. s = file[next]
  BY DEF s
<1>5. AllowAs(file, next, d.allow)
  BY <1>1, <1>3, <1>4, AllowNext DEF As
<1>6. MaxAs(file, next, d.max_conns)
  BY <1>1, <1>3, <1>4, MaxNext DEF As
<1>7. MethodsAs(file, next, d.methods)
  BY <1>1, <1>3, <1>4, MethodsNext DEF As
<1>8. d.listen_head \in Seq(Values) /\ ListenAs(file, next, d.listen_head)
  <2>1. c.listen_head \in Seq(Values)
    BY <1>2 DEF ConfigsType
  <2> QED BY <1>1, <1>3, <1>4, <2>1, ListenNext DEF As
<1>9. d.addrs \in [Role -> Seq(Values)] /\ AddrsAs(file, next, d.addrs)
  <2>1. c.addrs \in [Role -> Seq(Values)]
    BY <1>2 DEF ConfigsType
  <2>2. AddrsAs(file, next - 1, c.addrs)
    BY DEF As
  <2> DEFINE a == c.addrs
  <2>3. LET b == IF s.key = "address"
                 THEN link_addrs_from_gai(s, a) ELSE a
        IN  b \in [Role -> Seq(Values)] /\ AddrsAs(file, next, b)
    <3> HIDE DEF a
    <3>1. a \in [Role -> Seq(Values)] /\ AddrsAs(file, next - 1, a)
      BY <2>1, <2>2 DEF a
    <3> QED BY <1>1, <1>4, <3>1, AddrsNext
  <2> QED BY <1>3, <2>3
<1>10. d.block_head \in Seq(Values) /\ BlocksAs(file, next, d.block_head)
  <2>1. c.block_head \in Seq(Values)
    BY <1>2 DEF ConfigsType
  <2> QED BY <1>1, <1>3, <1>4, <2>1, BlocksNext DEF As
<1>11. /\ d.logs \in SUBSET LogFile /\ d.max_conns \in Int
       /\ d.allow \in SUBSET AllowKey /\ d.methods \in SUBSET Method
  <2>1. d.logs \in SUBSET LogFile
    BY <1>1, <1>2, <1>3, SettingFields DEF ConfigsType
  <2>2. d.max_conns \in Int
    BY <1>1, <1>2, <1>3, SettingFields, SettingsAssumption DEF ConfigsType, SettingsAssumption
  <2>3. d.allow \in SUBSET AllowKey
    BY <1>1, <1>2, <1>3, SettingFields DEF ConfigsType, yes_check
  <2>4. d.methods \in SUBSET Method
    BY <1>1, <1>2, <1>3 DEF ConfigsType, method_parse
  <2> QED BY <2>1, <2>2, <2>3, <2>4
<1>12. d \in ConfigsType
  BY <1>3, <1>8, <1>9, <1>10, <1>11 DEF ConfigsType
<1>13. As(file, next, d)
  BY <1>5, <1>6, <1>7, <1>8, <1>9, <1>10, <1>12 DEF As
<1> QED BY <1>13 DEF d, s

LEMMA WrittenInit ==
  ASSUME SettingsAssumption, Init
  PROVE  Written
<1>1. file \in Seq(Setting) /\ next = 1 /\ status = "storing"
  BY DEF Init, SettingsAssumption
<1>2. Len(file) \in Nat
  BY <1>1
<1>3. \A key : Upto(file, 0, key) = {}
  BY DEF Upto
<1>4. \A key, k : UptoOf(file, 0, key, k) = {}
  BY <1>3 DEF UptoOf
<1>5. \A S : S = {} => Named(file, S) = {}
  BY DEF Named
<1>6. Range(<<>>) = {}
  BY DEF Range
<1>7. configs \in ConfigsType
  BY DEF Init, ConfigsType
<1>8. AllowAs(file, 0, configs.allow) /\ MaxAs(file, 0, configs.max_conns)
  BY <1>3, <1>4 DEF Init, AllowAs, MaxAs
<1>9. MethodsAs(file, 0, configs.methods) /\ ListenAs(file, 0, configs.listen_head)
  BY <1>3, <1>5, <1>6 DEF Init, MethodsAs, ListenAs
<1>10. AddrsAs(file, 0, configs.addrs)
  BY <1>4, <1>5, <1>6 DEF Init, AddrsAs
<1>11. BlocksAs(file, 0, configs.block_head)
  <2>1. configs.block_head = <<>>
    BY DEF Init
  <2>2. Cardinality({}) = 0
    BY FS_EmptySet
  <2>3. Upto(file, 0, "block") = {}
    BY <1>3
  <2>4. Len(<<>>) = 0 /\ 1..0 = {}
    OBVIOUS
  <2> QED BY <2>1, <2>2, <2>3, <2>4 DEF BlocksAs
<1>12. As(file, 0, configs)
  BY <1>7, <1>8, <1>9, <1>10, <1>11 DEF As
<1>13. next - 1 = 0 /\ next \in 1..Len(file) + 1
  BY <1>1, <1>2
<1> QED BY <1>1, <1>12, <1>13 DEF Written

LEMMA WrittenStep ==
  ASSUME SettingsAssumption, Written, [Next]_vars
  PROVE  Written'
<1>1. file' = file
  BY DEF Next, store_config, conf_error_check, vars
<1>2. CASE store_config
  <2>1. status = "storing" /\ next \in 1..Len(file) /\ next' = next + 1
    BY <1>2 DEF store_config, Written
  <2>2. CASE Fails(file[next])
    <3>1. status' = "failed"
      BY <1>2, <2>2 DEF store_config
    <3> QED BY <1>1, <2>1, <3>1 DEF Written
  <2>3. CASE ~ Fails(file[next])
    <3>1. status' = "storing" /\ configs' = Stored(file[next])
      BY <1>2, <2>3 DEF store_config
    <3>2. As(file, next, Stored(file[next]))
      BY <2>1, <2>3, StoredAs DEF Written
    <3>3. next' - 1 = next /\ next' \in 1..Len(file) + 1
      BY <2>1
    <3>4. As(file', next' - 1, configs')
      BY <1>1, <3>1, <3>2, <3>3
    <3> QED BY <1>1, <3>1, <3>3, <3>4 DEF Written
  <2> QED BY <2>2, <2>3
<1>3. CASE conf_error_check
  BY <1>1, <1>3 DEF conf_error_check, Written, Errors
<1>4. CASE UNCHANGED vars
  BY <1>4 DEF vars, Written, Errors
<1> QED BY <1>2, <1>3, <1>4 DEF Next

LEMMA WrittenAlways == Spec => []Written
<1>1. Init => Written
  BY WrittenInit, SettingsAssumption
<1>2. Written /\ [Next]_vars => Written'
  BY WrittenStep, SettingsAssumption
<1> QED BY <1>1, <1>2, PTL DEF Spec

(* All settings of the file.                                                 *)
LEMMA WrittenAccepted ==
  ASSUME Written
  PROVE  AcceptedAsWritten
<1> SUFFICES ASSUME status = "accepted" PROVE AcceptedAsWritten
  BY DEF AcceptedAsWritten
<1> DEFINE n == Len(file)
           c == configs
<1>1. n \in Nat /\ DOMAIN file = 1..n
  BY DEF Written
<1>2. As(file, n, c) /\ ~ Errors(c)
  <2>1. next = n + 1 /\ As(file, next - 1, c) /\ ~ Errors(c)
    BY DEF Written
  <2>2. next - 1 = n
    BY <1>1, <2>1
  <2> QED BY <2>1, <2>2
<1>3. \A key : Upto(file, n, key) = Lines(key)
  BY <1>1 DEF Upto, Lines
<1>4. \A key, k : UptoOf(file, n, key, k) = Says(key, k)
  BY <1>3 DEF UptoOf, Says
<1>5. c.allow = {k \in AllowKey : /\ Says("allow", k) # {}
                                  /\ file[LastOf(Says("allow", k))].val = "yes"}
  <2>1. c.allow \subseteq AllowKey
    BY <1>2 DEF As, ConfigsType
  <2>2. \A k \in AllowKey : k \in c.allow <=> /\ Says("allow", k) # {}
                                              /\ file[LastOf(Says("allow", k))].val = "yes"
    BY <1>2, <1>4 DEF As, AllowAs
  <2> HIDE DEF c
  <2> QED BY <2>1, <2>2
<1>6. c.max_conns = file[LastOf(Lines("max-connections"))].val
  <2>1. ~ (c.max_conns < 1)
    BY <1>2 DEF Errors
  <2>2. c.max_conns # 0
    BY <2>1
  <2>3. MaxAs(file, n, c.max_conns)
    BY <1>2 DEF As
  <2> QED BY <1>3, <2>2, <2>3 DEF MaxAs
<1>7. c.methods = {file[i].val : i \in Lines("method")} \ {"other"}
  BY <1>2, <1>3 DEF As, MethodsAs, Named
<1>8. Range(c.listen_head) = {file[i].val : i \in Lines("listen")}
  BY <1>2, <1>3 DEF As, ListenAs, Named
<1>9. \A r \in Role : Range(c.addrs[r]) = {file[i].val : i \in Says("address", r)}
  BY <1>2, <1>4 DEF As, AddrsAs, Named
<1>10. Reverse(c.block_head) = [m \in 1..Cardinality(Lines("block")) |->
          file[CHOOSE i \in Lines("block") : Cardinality(Lines("block") \cap 1..i) = m].val]
  <2> DEFINE h == c.block_head
             S == Lines("block")
             At(m) == CHOOSE i \in S : Cardinality(S \cap 1..i) = m
  <2>1. /\ Len(h) = Cardinality(S)
        /\ \A m \in 1..Len(h) : \E i \in S : /\ Cardinality(S \cap 1..i) = m
                                             /\ h[Len(h) - m + 1] = file[i].val
    <3>1. BlocksAs(file, n, h) /\ Upto(file, n, "block") = S
      BY <1>2, <1>3 DEF As
    <3> HIDE DEF h, S
    <3> QED BY <3>1 DEF BlocksAs
  <2>2. S \in SUBSET (1..n)
    BY <1>1 DEF Lines
  <2> HIDE DEF S, h, n
  <2>3. ASSUME NEW m \in 1..Len(h) PROVE h[Len(h) - m + 1] = file[At(m)].val
    <3>1. PICK i \in S : Cardinality(S \cap 1..i) = m /\ h[Len(h) - m + 1] = file[i].val
      BY <2>1
    <3>2. At(m) \in S /\ Cardinality(S \cap 1..At(m)) = m
      BY <3>1
    <3> HIDE DEF At
    <3>3. n \in Nat
      BY <1>1
    <3>4. At(m) = i
      BY <2>2, <3>1, <3>2, <3>3, CountsDiffer
    <3> QED BY <3>1, <3>4
  <2>4. Reverse(h) = [m \in 1..Len(h) |-> h[Len(h) - m + 1]]
    BY DEF Reverse
  <2>5. Reverse(h) = [m \in 1..Len(h) |-> file[At(m)].val]
    <3> HIDE DEF At
    <3> QED BY <2>3, <2>4
  <2>6. Reverse(h) = [m \in 1..Cardinality(S) |-> file[At(m)].val]
    BY <2>1, <2>5
  <2> QED BY <2>6 DEF h, S
<1> QED BY <1>5, <1>6, <1>7, <1>8, <1>9, <1>10 DEF AcceptedAsWritten

(* AcceptedAsWritten: whatever file store_config is given, conf_error_check  *)
(* accepts only settings that say what the file says, its last line where    *)
(* one counts, all its lines where several do.                               *)
THEOREM AcceptedAsWrittenAlways == Spec => []AcceptedAsWritten
<1>1. Written => AcceptedAsWritten
  BY WrittenAccepted
<1> QED BY <1>1, WrittenAlways, PTL
=============================================================================
