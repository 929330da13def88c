----------------------------- MODULE ServerProofs ---------------------------
(* Server, for any number of listeners and clients, any size of the event    *)
(* array and whichever calls fail: how it starts, and that nothing that is   *)
(* ready is lost from epoll's list or overtaken in it.                       *)
EXTENDS Server, WellFoundedInduction, SequenceTheorems, TLAPS

-----------------------------------------------------------------------------
(* Startup.                                                                  *)

AllRegistered == \A l \in Listener : sock[l] # "none"

(* What init_resolver and the loop rely on is settled a phase earlier, and   *)
(* stays: a phase is never left for an earlier one.                          *)
Settled ==
    /\ sock \in [Listener -> {"none", "bound", "listening"}]
    /\ phase = "resolver" => AllRegistered
    /\ InLoop => AllRegistered /\ (allow_domains => resolver = "running")

LEMMA InitSettled == Init => Settled
BY DEF Init, Settled, InLoop

(* Before the loop: each phase ends where the next one starts.               *)
LEMMA StartupSettled ==
    ASSUME Settled, startup
    PROVE  Settled'
<1>1. CASE parse_configs
    BY <1>1 DEF parse_configs, Settled, InLoop
<1>2. CASE init_logger
    BY <1>2 DEF init_logger, Settled, InLoop
<1>3. CASE epoll_create
    BY <1>3 DEF epoll_create, Settled, InLoop
<1>4. ASSUME NEW l \in Listener, init_listener(l)
      PROVE  Settled'
    BY <1>4 DEF init_listener, Settled, InLoop
<1>5. CASE listeners_done
    BY <1>5 DEF listeners_done, Settled, AllRegistered, InLoop
<1>6. CASE init_resolver
    BY <1>6 DEF init_resolver, Settled, AllRegistered, InLoop
<1> QED BY <1>1, <1>2, <1>3, <1>4, <1>5, <1>6 DEF startup

(* From the loop on the sockets, the resolver and allow_domains stay as they *)
(* are, and the phase stays or is a way out.                                 *)
LEMMA StepSettled ==
    ASSUME Settled, [Next]_vars
    PROVE  Settled'
<1> DEFINE Held == /\ UNCHANGED <<allow_domains, resolver, sock>>
                   /\ phase' = phase \/ phase' \in {"joining", "exited"}
<1>1. Held => Settled'
    BY DEF Settled, AllRegistered, InLoop
<1>2. epoll_wait \/ epoll_wait_fails \/ exits => Held
    BY DEF epoll_wait, epoll_wait_fails, exits
<1>3. serve => Held
    BY DEF serve, accept_new_client, listener_error, serve_peer, serve_resolver
<1>4. ASSUME NEW l \in Listener, Connects(l)
      PROVE  Held
    BY <1>4 DEF Connects
<1>5. ASSUME NEW c \in Client, Sends(c)
      PROVE  Held
    BY <1>5 DEF Sends
<1>6. Answers \/ UNCHANGED vars => Held
    BY DEF Answers, vars
<1> QED BY <1>1, <1>2, <1>3, <1>4, <1>5, <1>6, StartupSettled DEF Next

(* The loop is entered only when every listener is registered, and takes     *)
(* requests by name only with a running resolver thread, whichever of the    *)
(* calls of main failed on the way.                                          *)
THEOREM StartedWholeAlways == Spec => []StartedWhole
<1>1. Settled => StartedWhole
    BY DEF Settled, AllRegistered, StartedWhole
<1> QED BY <1>1, InitSettled, StepSettled, PTL DEF Spec
-----------------------------------------------------------------------------
(* Induction, in terms of sets: a set of numbers has a least member, and one *)
(* that has 0 and with each number the next has all.                         *)
LEMMA Least ==
  ASSUME NEW S \in SUBSET Nat, S # {}
  PROVE  \E n \in S : \A m \in S : n <= m
<1> DEFINE R == OpToRel(<, Nat)
<1>1. IsWellFoundedOn(R, Nat)
  BY NatLessThanWellFounded
<1>2. \A x, y \in Nat : x < y => <<x, y>> \in R
  BY Zenon DEF OpToRel
<1> HIDE DEF R
<1>3. PICK n \in S : \A m \in S : ~ (<<m, n>> \in R)
  BY <1>1, WFMin
<1>4. ASSUME NEW m \in S PROVE n <= m
  <2>1. n \in Nat /\ m \in Nat /\ ~ (m < n)
    BY <1>2, <1>3, Zenon
  <2> QED BY <2>1
<1> QED BY <1>4

LEMMA Induction ==
  ASSUME NEW S, 0 \in S, \A n \in Nat : n \in S => n + 1 \in S
  PROVE  Nat \subseteq S
<1> SUFFICES ASSUME Nat \ S # {} PROVE FALSE
  OBVIOUS
<1>1. PICK n \in Nat \ S : \A m \in Nat \ S : n <= m
  BY Least
<1>2. n # 0 /\ n - 1 \in Nat /\ n - 1 \in S
  BY <1>1
<1> QED BY <1>1, <1>2

-----------------------------------------------------------------------------
(* What Kept computes.                                                       *)
Step(r, e, S) == IF e \in S THEN Append(r, e) ELSE r

(* g lists what is kept of the first 0, 1, ... n entries of s.               *)
Runs(g, s, S, T, n) ==
  /\ g \in [0..n -> Seq(T)] /\ g[0] = <<>>
  /\ \A i \in 1..n : g[i] = Step(g[i - 1], s[i], S)

LEMMA RunsExist ==
  ASSUME NEW T, NEW S, NEW s \in Seq(T)
  PROVE  \E g : Runs(g, s, S, T, Len(s))
<1> DEFINE Good == {n \in Nat : n <= Len(s) => \E g : Runs(g, s, S, T, n)}
<1>1. 0 \in Good
  <2> DEFINE g == [i \in 0..0 |-> <<>>]
  <2>1. g \in [0..0 -> Seq(T)] /\ g[0] = <<>>
    OBVIOUS
  <2>2. \A i \in 1..0 : g[i] = Step(g[i - 1], s[i], S)
    OBVIOUS
  <2> HIDE DEF g
  <2>3. Runs(g, s, S, T, 0)
    BY <2>1, <2>2 DEF Runs
  <2> QED BY <2>3
<1>2. ASSUME NEW n \in Nat, n \in Good PROVE n + 1 \in Good
  <2> SUFFICES ASSUME n + 1 <= Len(s) PROVE \E g : Runs(g, s, S, T, n + 1)
    BY SMT
  <2>0. n <= Len(s)
    BY LenProperties
  <2>1. PICK g : Runs(g, s, S, T, n)
    BY <1>2, <2>0
  <2> DEFINE h == [i \in 0..n + 1 |-> IF i = n + 1 THEN Step(g[n], s[n + 1], S) ELSE g[i]]
  <2>2. g[n] \in Seq(T) /\ s[n + 1] \in T
    BY <2>1 DEF Runs
  <2>3. Step(g[n], s[n + 1], S) \in Seq(T)
    BY <2>2 DEF Step
  <2>4. h \in [0..n + 1 -> Seq(T)] /\ h[0] = <<>> 
    BY <2>1, <2>3 DEF Runs
  <2>5. ASSUME NEW i \in 1..n + 1 PROVE h[i] = Step(h[i - 1], s[i], S)
    <3>1. CASE i = n + 1
      <4>1. h[i] = Step(g[n], s[n + 1], S) /\ h[i - 1] = g[n]
        BY <3>1
      <4> QED BY <3>1, <4>1
    <3>2. CASE i # n + 1
      <4>1. h[i] = g[i] /\ h[i - 1] = g[i - 1] /\ i \in 1..n
        BY <3>2
      <4> QED BY <2>1, <4>1 DEF Runs
    <3> QED BY <3>1, <3>2
  <2> HIDE DEF h
  <2>6. Runs(h, s, S, T, n + 1)
    BY <2>4, <2>5 DEF Runs
  <2> QED BY <2>6
<1> HIDE DEF Good
<1>3. Nat \subseteq Good
  BY <1>1, <1>2, Induction
<1>4. Len(s) \in Nat /\ Len(s) <= Len(s)
  BY LenProperties
<1>5. Len(s) \in Good
  BY <1>3, <1>4
<1> QED BY <1>4, <1>5 DEF Good

(* The recursion in Kept has a solution, and it is the only one.             *)
LEMMA KeptRuns ==
  ASSUME NEW T, NEW S, NEW s \in Seq(T)
  PROVE  \E g : Runs(g, s, S, T, Len(s)) /\ Kept(s, S) = g[Len(s)]
<1> DEFINE Body(f) == [i \in 0..Len(s) |-> IF i = 0 THEN <<>>
            ELSE IF s[i] \in S THEN Append(f[i - 1], s[i]) ELSE f[i - 1]]
           k == CHOOSE f : f = Body(f)
<1>0. Len(s) \in Nat
  BY LenProperties
<1>1. PICK g : Runs(g, s, S, T, Len(s))
  BY RunsExist
<1>2. g = Body(g)
  <2>1. g = [i \in 0..Len(s) |-> g[i]]
    BY <1>1 DEF Runs
  <2>2. \A i \in 0..Len(s) : g[i] = Body(g)[i]
    <3> SUFFICES ASSUME NEW i \in 0..Len(s) PROVE g[i] = Body(g)[i]
      OBVIOUS
    <3>1. CASE i = 0
      BY <1>0, <1>1, <3>1 DEF Runs
    <3>2. CASE i \in 1..Len(s)
      BY <1>1, <3>2 DEF Runs, Step
    <3> QED BY <1>0, <3>1, <3>2
  <2> QED BY <2>1, <2>2
<1>3. k = Body(k)
  BY <1>2
<1>4. Kept(s, S) = k[Len(s)]
  BY DEF Kept
<1> HIDE DEF k
<1>5. k[0] = <<>> /\ \A i \in 1..Len(s) : k[i] = Step(k[i - 1], s[i], S)
  <2>1. ASSUME NEW i \in 0..Len(s) PROVE k[i] = Body(k)[i]
    BY <1>3
  <2>2. k[0] = <<>>
    BY <1>0, <2>1
  <2>3. ASSUME NEW i \in 1..Len(s) PROVE k[i] = Step(k[i - 1], s[i], S)
    <3>1. i \in 0..Len(s) /\ i # 0
      BY <1>0
    <3>2. k[i] = Body(k)[i]
      BY <2>1, <3>1
    <3> QED BY <3>1, <3>2 DEF Step
  <2> QED BY <2>2, <2>3
<1> DEFINE Same == {n \in Nat : n <= Len(s) => k[n] = g[n]}
<1>6. 0 \in Same
  BY <1>1, <1>5 DEF Runs
<1>7. ASSUME NEW n \in Nat, n \in Same PROVE n + 1 \in Same
  <2> SUFFICES ASSUME n + 1 <= Len(s) PROVE k[n + 1] = g[n + 1]
    OBVIOUS
  <2>1. n + 1 \in 1..Len(s) /\ k[n] = g[n] /\ (n + 1) - 1 = n
    BY <1>0, <1>7
  <2>2. k[n + 1] = Step(k[n], s[n + 1], S)
    BY <1>5, <2>1
  <2>3. g[n + 1] = Step(g[n], s[n + 1], S)
    BY <1>1, <2>1 DEF Runs
  <2> QED BY <2>1, <2>2, <2>3
<1> HIDE DEF Same
<1>8. Nat \subseteq Same
  BY <1>6, <1>7, Induction
<1>9. k[Len(s)] = g[Len(s)]
  BY <1>0, <1>8 DEF Same
<1> QED BY <1>1, <1>4, <1>9

(* Every entry of r is one of the first n of s and in S, each of these that  *)
(* is in S is in r, and the order is theirs.                                 *)
Excerpt(r, s, S, n) ==
  /\ \A i \in 1..Len(r) : r[i] \in S /\ \E a \in 1..n : s[a] = r[i]
  /\ \A a \in 1..n : s[a] \in S => \E i \in 1..Len(r) : r[i] = s[a]
  /\ \A i, j \in 1..Len(r) : i < j => \E a, b \in 1..n : a < b /\ s[a] = r[i] /\ s[b] = r[j]

LEMMA StepExcerpt ==
  ASSUME NEW T, NEW S, NEW s \in Seq(T), NEW n \in Nat, n + 1 <= Len(s),
         NEW r \in Seq(T), Excerpt(r, s, S, n)
  PROVE  Excerpt(Step(r, s[n + 1], S), s, S, n + 1)
<1>0. n + 1 \in 1..n + 1 /\ n + 1 \in 1..Len(s) /\ s[n + 1] \in T /\ Len(r) \in Nat
  BY LenProperties
<1>1. CASE s[n + 1] \notin S
  BY <1>0, <1>1 DEF Excerpt, Step
<1>2. CASE s[n + 1] \in S
  <2> DEFINE q == Append(r, s[n + 1])
  <2>1. /\ Len(q) = Len(r) + 1 /\ q[Len(q)] = s[n + 1]
        /\ \A i \in 1..Len(r) : q[i] = r[i]
    BY <1>0
  <2> HIDE DEF q
  <2>2. \A i \in 1..Len(q) : q[i] \in S /\ \E a \in 1..n + 1 : s[a] = q[i]
    <3> SUFFICES ASSUME NEW i \in 1..Len(q)
                 PROVE  q[i] \in S /\ \E a \in 1..n + 1 : s[a] = q[i]
      OBVIOUS
    <3>1. CASE i = Len(q)
      BY <1>0, <1>2, <2>1, <3>1
    <3>2. CASE i \in 1..Len(r)
      <4>1. PICK a \in 1..n : s[a] = r[i]
        BY <3>2 DEF Excerpt
      <4>2. a \in 1..n + 1 /\ r[i] \in S
        BY <3>2 DEF Excerpt
      <4> QED BY <2>1, <3>2, <4>1, <4>2
    <3> QED BY <1>0, <2>1, <3>1, <3>2
  <2>3. \A a \in 1..n + 1 : s[a] \in S => \E i \in 1..Len(q) : q[i] = s[a]
    <3> SUFFICES ASSUME NEW a \in 1..n + 1, s[a] \in S
                 PROVE  \E i \in 1..Len(q) : q[i] = s[a]
      OBVIOUS
    <3>1. CASE a = n + 1
      BY <1>0, <2>1, <3>1
    <3>2. CASE a \in 1..n
      BY <1>0, <2>1, <3>2 DEF Excerpt
    <3> QED BY <3>1, <3>2
  <2>4. ASSUME NEW i \in 1..Len(q), NEW j \in 1..Len(q), i < j
        PROVE  \E a, b \in 1..n + 1 : a < b /\ s[a] = q[i] /\ s[b] = q[j]
    <3>0. i \in 1..Len(r) /\ q[i] = r[i]
      BY <1>0, <2>1, <2>4
    <3>1. CASE j = Len(q)
      <4>1. PICK a \in 1..n : s[a] = r[i]
        BY <3>0 DEF Excerpt
      <4>2. a \in 1..n + 1 /\ a < n + 1
        OBVIOUS
      <4> QED BY <1>0, <2>1, <3>0, <3>1, <4>1, <4>2
    <3>2. CASE j \in 1..Len(r)
      <4>1. PICK a, b \in 1..n : a < b /\ s[a] = r[i] /\ s[b] = r[j]
        BY <2>4, <3>0, <3>2 DEF Excerpt
      <4> QED BY <2>1, <3>0, <3>2, <4>1
    <3> QED BY <1>0, <2>1, <3>1, <3>2
  <2>5. Excerpt(q, s, S, n + 1)
    BY <2>2, <2>3, <2>4 DEF Excerpt
  <2> QED BY <1>2, <2>5 DEF Step, q
<1> QED BY <1>1, <1>2

LEMMA KeptExcerpt ==
  ASSUME NEW T, NEW S, NEW s \in Seq(T)
  PROVE  Kept(s, S) \in Seq(T) /\ Excerpt(Kept(s, S), s, S, Len(s))
<1>0. Len(s) \in Nat
  BY LenProperties
<1>1. PICK g : Runs(g, s, S, T, Len(s)) /\ Kept(s, S) = g[Len(s)]
  BY KeptRuns
<1> DEFINE Good == {n \in Nat : n <= Len(s) => Excerpt(g[n], s, S, n)}
<1>2. 0 \in Good
  <2>1. g[0] = <<>> /\ Len(<<>>) = 0
    BY <1>1 DEF Runs
  <2>2. Excerpt(<<>>, s, S, 0)
    BY <2>1 DEF Excerpt
  <2> QED BY <2>1, <2>2
<1>3. ASSUME NEW n \in Nat, n \in Good PROVE n + 1 \in Good
  <2> SUFFICES ASSUME n + 1 <= Len(s) PROVE Excerpt(g[n + 1], s, S, n + 1)
    OBVIOUS
  <2>1. n \in 0..Len(s) /\ n + 1 \in 1..Len(s) /\ (n + 1) - 1 = n
    BY <1>0
  <2>2. g[n] \in Seq(T) /\ g[n + 1] = Step(g[n], s[n + 1], S)
    BY <1>1, <2>1 DEF Runs
  <2>3. Excerpt(g[n], s, S, n)
    BY <1>0, <1>3
  <2> QED BY <2>2, <2>3, StepExcerpt
<1> HIDE DEF Good
<1>4. Nat \subseteq Good
  BY <1>2, <1>3, Induction
<1>5. Excerpt(g[Len(s)], s, S, Len(s))
  BY <1>0, <1>4 DEF Good
<1>6. g[Len(s)] \in Seq(T)
  BY <1>0, <1>1 DEF Runs
<1> QED BY <1>1, <1>5, <1>6

Distinct(s) == \A i, j \in 1..Len(s) : s[i] = s[j] => i = j

(* Kept leaves the members that are in S, and each of them once.             *)
LEMMA KeptFacts ==
  ASSUME NEW T, NEW S, NEW s \in Seq(T)
  PROVE  /\ Kept(s, S) \in Seq(T)
         /\ Members(Kept(s, S)) = Members(s) \cap S
         /\ Distinct(s) => Distinct(Kept(s, S))
<1> DEFINE r == Kept(s, S)
<1>1. r \in Seq(T) /\ Excerpt(r, s, S, Len(s))
  BY KeptExcerpt
<1>2. /\ Len(r) \in Nat /\ DOMAIN r = 1..Len(r)
      /\ Len(s) \in Nat /\ DOMAIN s = 1..Len(s)
  BY <1>1, LenProperties
<1> HIDE DEF r
<1>3. Members(r) = Members(s) \cap S
  <2>1. ASSUME NEW x \in Members(r) PROVE x \in Members(s) /\ x \in S
    BY <1>1, <1>2, <2>1 DEF Members, Excerpt
  <2>2. ASSUME NEW x \in Members(s), x \in S PROVE x \in Members(r)
    <3>1. PICK a \in 1..Len(s) : s[a] = x
      BY <1>2 DEF Members
    <3> QED BY <1>1, <1>2, <2>2, <3>1 DEF Members, Excerpt
  <2> QED BY <2>1, <2>2
<1>4. ASSUME Distinct(s), NEW i \in 1..Len(r), NEW j \in 1..Len(r), r[i] = r[j]
      PROVE  i = j
  <2>1. ASSUME NEW k \in 1..Len(r), NEW l \in 1..Len(r), k < l PROVE r[k] # r[l]
    <3>1. PICK a, b \in 1..Len(s) : a < b /\ s[a] = r[k] /\ s[b] = r[l]
      BY <1>1, <2>1 DEF Excerpt
    <3> QED BY <1>2, <1>4, <3>1 DEF Distinct
  <2>2. i < j \/ j < i \/ i = j
    BY <1>2
  <2> QED BY <1>4, <2>1, <2>2
<1>5. Distinct(s) => Distinct(r)
  BY <1>4 DEF Distinct
<1> QED BY <1>1, <1>3, <1>5 DEF r

-----------------------------------------------------------------------------
(* The ready list.                                                           *)
Listed ==
    /\ ready \subseteq Fd /\ clients \subseteq Client
    /\ queue \in Seq(Fd) /\ batch \in Seq(Fd) /\ Distinct(queue)
    /\ NoLostWakeup

(* A descriptor that wakes up is in the list, once.                          *)
LEMMA WakesListed ==
    ASSUME Listed, NEW f \in Fd, Wakes(f), UNCHANGED batch, clients' \subseteq Client
    PROVE  Listed' /\ \A i \in 1..Len(queue) : i \in 1..Len(queue') /\ queue'[i] = queue[i]
<1>0. Len(queue) \in Nat /\ DOMAIN queue = 1..Len(queue)
    BY LenProperties DEF Listed
<1>1. CASE f \in Members(queue)
    BY <1>0, <1>1 DEF Listed, Wakes, NoLostWakeup, Members
<1>2. CASE f \notin Members(queue)
    <2>1. queue' = Append(queue, f)
        BY <1>2 DEF Wakes
    <2>2. /\ queue' \in Seq(Fd) /\ Len(queue') = Len(queue) + 1
          /\ \A i \in 1..Len(queue) : queue'[i] = queue[i]
          /\ queue'[Len(queue) + 1] = f
          /\ DOMAIN queue' = 1..Len(queue) + 1
        BY <1>0, <2>1 DEF Listed
    <2>3. \A i \in 1..Len(queue) : queue[i] # f
        BY <1>0, <1>2 DEF Members
    <2>4. Distinct(queue')
        BY <1>0, <2>2, <2>3 DEF Distinct, Listed
    <2>5. ready' \subseteq Members(queue')
        BY <1>0, <2>2 DEF Listed, Wakes, NoLostWakeup, Members
    <2>6. ready' \subseteq Fd
        BY DEF Listed, Wakes
    <2> QED BY <1>0, <2>2, <2>4, <2>5, <2>6 DEF Listed, NoLostWakeup
<1> QED BY <1>1, <1>2

(* The descriptors in front of f in the list.                                *)
Before(f) == {queue[j] : j \in {j \in DOMAIN queue :
                                   \E k \in DOMAIN queue : j < k /\ queue[k] = f}}

LEMMA RestLength ==
    ASSUME NEW d \in Nat, NEW n \in Nat, n <= d
    PROVE  (IF n + 1 <= d THEN d - (n + 1) + 1 ELSE 0) = d - n
OBVIOUS

(* One epoll_wait: n descriptors are taken from the head of what is ready.   *)
LEMMA TurnListed ==
    ASSUME Listed, epoll_wait
    PROVE  /\ Listed'
           /\ \A f \in ready : \/ f \in Members(batch')
                               \/ Before(f)' \subseteq Before(f) /\ Before(f)' # Before(f)
<1> DEFINE due == Kept(queue, ready)
           n == IF Len(due) <= max_conns THEN Len(due) ELSE max_conns
           rest == SubSeq(due, n + 1, Len(due))
           taken == SubSeq(due, 1, n)
<1>1. /\ due # <<>> /\ batch' = taken /\ queue' = rest \o taken
      /\ UNCHANGED <<clients, ready>>
    BY DEF epoll_wait, world
<1>2. /\ due \in Seq(Fd) /\ Members(due) = Members(queue) \cap ready /\ Distinct(due)
      /\ Excerpt(due, queue, ready, Len(queue))
    BY KeptFacts, KeptExcerpt DEF Listed
<1> HIDE DEF due
<1>3. /\ Len(due) \in Nat /\ Len(due) >= 1 /\ DOMAIN due = 1..Len(due)
      /\ n \in Nat /\ n >= 1 /\ n <= Len(due)
      /\ Len(queue) \in Nat /\ DOMAIN queue = 1..Len(queue)
    BY <1>1, <1>2, ServerAssumption DEF Listed
<1> HIDE DEF n
<1>4. /\ rest \in Seq(Fd) /\ Len(rest) = Len(due) - n
      /\ \A i \in 1..Len(due) - n : rest[i] = due[n + i]
      /\ taken \in Seq(Fd) /\ Len(taken) = n /\ \A i \in 1..n : taken[i] = due[i]
    <2>1. \A i \in 1..Len(due) : due[i] \in Fd
        BY <1>2, ElementOfSeq
    <2>2. /\ rest \in Seq(Fd) /\ Len(rest) = Len(due) - n
          /\ \A i \in 1..Len(due) - n : rest[i] = due[n + i]
        <3>1. n + 1 \in Int /\ Len(due) \in Int /\ \A i \in n + 1..Len(due) : due[i] \in Fd
            BY <1>3, <2>1
        <3>2. (IF n + 1 <= Len(due) THEN Len(due) - (n + 1) + 1 ELSE 0) = Len(due) - n
            BY <1>3, RestLength
        <3>3. Len(due) - (n + 1) + 1 = Len(due) - n
            BY <1>3
        <3>4. \A i \in 1..Len(due) - n : (n + 1) + i - 1 = n + i
            BY <1>3
        <3>5. /\ rest \in Seq(Fd)
              /\ Len(rest) = IF n + 1 <= Len(due) THEN Len(due) - (n + 1) + 1 ELSE 0
              /\ \A i \in 1..Len(due) - (n + 1) + 1 : rest[i] = due[(n + 1) + i - 1]
            BY <3>1, SubSeqProperties
        <3> HIDE DEF rest
        <3> QED BY <3>2, <3>3, <3>4, <3>5
    <2>3. /\ taken \in Seq(Fd)
          /\ Len(taken) = IF 1 <= n THEN n - 1 + 1 ELSE 0
          /\ \A i \in 1..n - 1 + 1 : taken[i] = due[1 + i - 1]
        <3>1. 1 \in Int /\ n \in Int /\ \A i \in 1..n : due[i] \in Fd
            BY <1>3, <2>1
        <3> QED BY <3>1, SubSeqProperties
    <2> HIDE DEF rest, taken
    <2>4. Len(taken) = n /\ \A i \in 1..n : taken[i] = due[i]
        BY <1>3, <2>3
    <2> QED BY <2>2, <2>3, <2>4
<1> HIDE DEF rest, taken
<1>5. /\ queue' \in Seq(Fd) /\ Len(queue') = Len(due) /\ DOMAIN queue' = 1..Len(due)
      /\ \A i \in 1..Len(due) : queue'[i] = IF i <= Len(due) - n THEN due[n + i]
                                            ELSE due[i - (Len(due) - n)]
    <2>1. queue' \in Seq(Fd) /\ Len(queue') = Len(rest) + Len(taken)
          /\ \A i \in 1..Len(rest) + Len(taken) :
               queue'[i] = IF i <= Len(rest) THEN rest[i] ELSE taken[i - Len(rest)]
        BY <1>1, <1>4, ConcatProperties
    <2>2. DOMAIN queue' = 1..Len(due)
        BY <1>3, <1>4, <2>1
    <2>3. ASSUME NEW i \in 1..Len(due), i <= Len(due) - n PROVE queue'[i] = due[n + i]
        BY <1>3, <1>4, <2>1, <2>3
    <2>4. ASSUME NEW i \in 1..Len(due), ~ (i <= Len(due) - n)
          PROVE  queue'[i] = due[i - (Len(due) - n)]
        BY <1>3, <1>4, <2>1, <2>4
    <2> QED BY <1>3, <1>4, <2>1, <2>2, <2>3, <2>4
<1>6. Distinct(queue')
    <2> SUFFICES ASSUME NEW i \in 1..Len(due), NEW j \in 1..Len(due), queue'[i] = queue'[j]
                 PROVE  i = j
        BY <1>5 DEF Distinct
    <2> DEFINE at(k) == IF k <= Len(due) - n THEN n + k ELSE k - (Len(due) - n)
    <2>1. at(i) \in 1..Len(due) /\ at(j) \in 1..Len(due)
        BY <1>3
    <2>2. due[at(i)] = due[at(j)]
        BY <1>5
    <2>3. at(i) = at(j)
        BY <1>2, <2>1, <2>2 DEF Distinct
    <2> QED BY <1>3, <2>3
<1>7. \A i \in 1..Len(due) : \E k \in 1..Len(due) : queue'[k] = due[i]
    <2> SUFFICES ASSUME NEW i \in 1..Len(due) PROVE \E k \in 1..Len(due) : queue'[k] = due[i]
        OBVIOUS
    <2>1. CASE i <= n
        <3> DEFINE k == i + (Len(due) - n)
        <3>1. k \in 1..Len(due) /\ ~ (k <= Len(due) - n) /\ k - (Len(due) - n) = i
            BY <1>3, <2>1
        <3> QED BY <1>5, <3>1
    <2>2. CASE i > n
        <3> DEFINE k == i - n
        <3>1. k \in 1..Len(due) /\ k <= Len(due) - n /\ n + k = i
            BY <1>3, <2>2
        <3> QED BY <1>5, <3>1
    <2> QED BY <1>3, <2>1, <2>2
<1>8. ready \subseteq Members(due)
    BY <1>2 DEF Listed, NoLostWakeup
<1>9. Listed'
    <2>1. ready' \subseteq Members(queue')
        <3> SUFFICES ASSUME NEW f \in ready PROVE f \in Members(queue')
            BY <1>1
        <3>1. PICK i \in 1..Len(due) : due[i] = f
            BY <1>3, <1>8 DEF Members
        <3>2. PICK k \in 1..Len(due) : queue'[k] = f
            BY <1>7, <3>1
        <3> QED BY <1>5, <3>2 DEF Members
    <2> QED BY <1>1, <1>4, <1>5, <1>6, <2>1 DEF Listed, NoLostWakeup
<1>10. ASSUME NEW f \in ready, f \notin Members(batch')
       PROVE  Before(f)' \subseteq Before(f) /\ Before(f)' # Before(f)
    <2>1. PICK m \in 1..Len(due) : due[m] = f
        BY <1>3, <1>8 DEF Members
    <2>2. m > n
        <3>1. CASE m <= n
            <4>1. m \in 1..n /\ m \in DOMAIN taken /\ taken[m] = f
                BY <1>3, <1>4, <2>1, <3>1
            <4> QED BY <1>1, <1>10, <4>1 DEF Members
        <3> QED BY <1>3, <3>1
    <2>3. \A k \in 1..m - 1 : due[k] \in Before(f)
        <3> SUFFICES ASSUME NEW k \in 1..m - 1 PROVE due[k] \in Before(f)
            OBVIOUS
        <3>1. k \in 1..Len(due) /\ k < m
            OBVIOUS
        <3>2. PICK a, b \in 1..Len(queue) : a < b /\ queue[a] = due[k] /\ queue[b] = due[m]
            BY <1>2, <3>1 DEF Excerpt
        <3> QED BY <1>3, <2>1, <3>2 DEF Before
    <2>4. ASSUME NEW x \in Before(f)'
          PROVE  \E k \in n + 1..m - 1 : x = due[k]
        <3>1. PICK j, k \in 1..Len(due) : j < k /\ queue'[k] = f /\ x = queue'[j]
            BY <1>5 DEF Before
        <3>2. k = m - n
            <4>1. m - n \in 1..Len(due) /\ queue'[m - n] = f
                BY <1>3, <1>5, <2>1, <2>2
            <4> QED BY <1>5, <1>6, <3>1, <4>1 DEF Distinct
        <3>3. j <= Len(due) - n /\ n + j \in n + 1..m - 1
            BY <1>3, <3>1, <3>2
        <3> QED BY <1>5, <3>1, <3>3
    <2>5. Before(f)' \subseteq Before(f)
        BY <1>3, <2>3, <2>4
    <2>6. due[1] \in Before(f)
        BY <1>3, <2>2, <2>3
    <2>7. due[1] \notin Before(f)'
        <3> SUFFICES ASSUME NEW k \in n + 1..m - 1, due[1] = due[k] PROVE FALSE
            BY <2>4
        <3> QED BY <1>2, <1>3 DEF Distinct
    <2> QED BY <2>5, <2>6, <2>7
<1> QED BY <1>9, <1>10

(* The session of c ends: closing its descriptor takes it out of the list.   *)
LEMMA ClosedListed ==
    ASSUME Listed, NEW c \in Client,
           queue' = Kept(queue, Fd \ {c}), ready' = ready \ {c},
           clients' \subseteq Client, batch' \in Seq(Fd)
    PROVE  Listed' /\ \A f \in ready' : Before(f)' \subseteq Before(f)
<1>1. /\ queue' \in Seq(Fd) /\ Members(queue') = Members(queue) \cap (Fd \ {c})
      /\ Distinct(queue') /\ Excerpt(queue', queue, Fd \ {c}, Len(queue))
    BY KeptFacts, KeptExcerpt DEF Listed
<1>2. Listed'
    BY <1>1 DEF Listed, NoLostWakeup
<1>3. /\ Len(queue) \in Nat /\ DOMAIN queue = 1..Len(queue)
      /\ Len(queue') \in Nat /\ DOMAIN queue' = 1..Len(queue')
    BY <1>1, LenProperties DEF Listed
<1>4. ASSUME NEW f \in ready', NEW x \in Before(f)' PROVE x \in Before(f)
    <2>1. PICK j, k \in 1..Len(queue') : j < k /\ queue'[k] = f /\ x = queue'[j]
        BY <1>3 DEF Before
    <2>2. PICK a, b \in 1..Len(queue) : a < b /\ queue[a] = x /\ queue[b] = f
        <3>1. \E a, b \in 1..Len(queue) : a < b /\ queue[a] = queue'[j] /\ queue[b] = queue'[k]
            BY <1>1, <2>1 DEF Excerpt
        <3> QED BY <2>1, <3>1
    <2> QED BY <1>3, <2>2 DEF Before
<1> QED BY <1>2, <1>4

(* Whatever leaves the list alone, or adds to its end.                       *)
LEMMA GrownBefore ==
    ASSUME Listed, Listed',
           \A i \in 1..Len(queue) : i \in 1..Len(queue') /\ queue'[i] = queue[i]
    PROVE  \A f \in ready : Before(f)' \subseteq Before(f)
<1>1. /\ Len(queue) \in Nat /\ DOMAIN queue = 1..Len(queue)
      /\ Len(queue') \in Nat /\ DOMAIN queue' = 1..Len(queue')
    BY LenProperties DEF Listed
<1> SUFFICES ASSUME NEW f \in ready, NEW x \in Before(f)' PROVE x \in Before(f)
    OBVIOUS
<1>2. PICK m \in 1..Len(queue) : queue[m] = f
    BY <1>1 DEF Listed, NoLostWakeup, Members
<1>3. PICK j, k \in 1..Len(queue') : j < k /\ queue'[k] = f /\ x = queue'[j]
    BY <1>1 DEF Before
<1>4. m \in 1..Len(queue') /\ queue'[m] = f
    BY <1>2
<1>5. k = m
    BY <1>3, <1>4 DEF Listed, Distinct
<1>6. j \in 1..Len(queue) /\ j < m /\ queue[j] = x
    BY <1>1, <1>3, <1>5
<1> QED BY <1>1, <1>2, <1>6 DEF Before

(* Every step but an epoll_wait.                                             *)
LEMMA StepListed ==
    ASSUME Listed, [Next]_vars, ~ epoll_wait
    PROVE  Listed' /\ \A f \in ready : f \in ready' => Before(f)' \subseteq Before(f)
<1> DEFINE Goal == Listed' /\ \A f \in ready : f \in ready' => Before(f)' \subseteq Before(f)
<1>1. ASSUME NEW f \in Fd, Wakes(f), UNCHANGED <<batch, clients>> PROVE Goal
    <2>1. clients' \subseteq Client
        BY <1>1 DEF Listed
    <2>2. Listed' /\ \A i \in 1..Len(queue) : i \in 1..Len(queue') /\ queue'[i] = queue[i]
        BY <1>1, <2>1, WakesListed
    <2> QED BY <2>2, GrownBefore
<1>2. ASSUME ready' \subseteq ready, UNCHANGED queue, clients' \subseteq Client, batch' \in Seq(Fd)
      PROVE  Goal
    <2>1. Listed'
        BY <1>2 DEF Listed, NoLostWakeup
    <2>2. \A f \in ready : Before(f)' \subseteq Before(f)
        BY <1>2, <2>1, GrownBefore
    <2> QED BY <2>1, <2>2
<1>3. batch # <<>> => Tail(batch) \in Seq(Fd)
    BY HeadTailProperties DEF Listed
<1>4. CASE startup
    <2>1. ASSUME NEW l \in Listener, init_listener(l) PROVE Goal
        <3>1. CASE Wakes(l) /\ UNCHANGED batch
            <4>1. UNCHANGED clients /\ l \in Fd
                BY <2>1 DEF init_listener, world, Fd
            <4> QED BY <1>1, <3>1, <4>1
        <3>2. CASE UNCHANGED poll
            <4>1. UNCHANGED <<clients, ready, queue, batch>>
                BY <2>1, <3>2 DEF init_listener, world, poll
            <4> QED BY <1>2, <4>1 DEF Listed
        <3> QED BY <2>1, <3>1, <3>2 DEF init_listener
    <2>2. CASE parse_configs \/ init_logger \/ epoll_create \/ listeners_done \/ init_resolver
        <3>1. UNCHANGED <<clients, ready, queue, batch>>
            BY <2>2 DEF parse_configs, init_logger, epoll_create, listeners_done, init_resolver,
                        world, poll
        <3> QED BY <1>2, <3>1 DEF Listed
    <2> QED BY <1>4, <2>1, <2>2 DEF startup
<1>5. CASE epoll_wait_fails \/ exits \/ UNCHANGED vars
    <2>1. UNCHANGED <<clients, ready, queue, batch>>
        BY <1>5 DEF epoll_wait_fails, exits, vars, world, poll
    <2> QED BY <1>2, <2>1 DEF Listed
<1>6. ASSUME NEW l \in Listener, accept_new_client(l) \/ listener_error(l) PROVE Goal
    <2>1. CASE listener_error(l)
        <3>1. UNCHANGED <<clients, ready, queue, batch>>
            BY <2>1 DEF listener_error, world, poll
        <3> QED BY <1>2, <3>1 DEF Listed
    <2>2. CASE accept_new_client(l)
        <3>1. ready' \subseteq ready /\ UNCHANGED queue /\ batch' = Tail(batch) /\ batch # <<>>
            BY <2>2 DEF accept_new_client, Drained, Serve
        <3>2. clients' \subseteq Client
            BY <2>2 DEF accept_new_client, world, Listed
        <3> QED BY <1>2, <1>3, <3>1, <3>2
    <2> QED BY <1>6, <2>1, <2>2
<1>7. ASSUME NEW c \in Client, serve_peer(c) PROVE Goal
    <2>1. batch # <<>>
        BY <1>7 DEF serve_peer, Serve
    <2>2. CASE Drained({c}) \/ Drained({})
        <3>1. ready' \subseteq ready /\ UNCHANGED queue /\ batch' = Tail(batch)
            BY <2>2 DEF Drained
        <3>2. clients' \subseteq Client
            BY <1>7 DEF serve_peer, Listed
        <3> QED BY <1>2, <1>3, <2>1, <3>1, <3>2
    <2>3. CASE /\ clients' = clients \ {c}
               /\ ready' = ready \ {c} /\ batch' = Tail(batch)
               /\ queue' = Kept(queue, Fd \ {c})
        <3>1. clients' \subseteq Client /\ batch' \in Seq(Fd)
            BY <1>3, <2>1, <2>3 DEF Listed
        <3>2. Listed' /\ \A f \in ready' : Before(f)' \subseteq Before(f)
            BY <2>3, <3>1, ClosedListed
        <3> QED BY <3>2
    <2> QED BY <1>7, <2>2, <2>3 DEF serve_peer
<1>8. CASE serve_resolver
    <2>1. ready' \subseteq ready /\ UNCHANGED <<clients, queue>> /\ batch' = Tail(batch) /\ batch # <<>>
        BY <1>8 DEF serve_resolver, Drained, Serve, world
    <2> QED BY <1>2, <1>3, <2>1 DEF Listed
<1>9. ASSUME NEW l \in Listener, Connects(l) PROVE Goal
    <2>1. l \in Fd /\ Wakes(l) /\ UNCHANGED <<batch, clients>>
        BY <1>9 DEF Connects, Fd
    <2> QED BY <1>1, <2>1
<1>10. ASSUME NEW c \in Client, Sends(c) PROVE Goal
    <2>1. c \in Fd /\ Wakes(c) /\ UNCHANGED <<batch, clients>>
        BY <1>10 DEF Sends, Fd, world
    <2> QED BY <1>1, <2>1
<1>11. CASE Answers
    <2>1. Resolver \in Fd /\ Wakes(Resolver) /\ UNCHANGED <<batch, clients>>
        BY <1>11 DEF Answers, Fd, world
    <2> QED BY <1>1, <2>1
<1>12. CASE serve
    BY <1>6, <1>7, <1>8, <1>12 DEF serve
<1> QED
    <2>1. startup \/ serve \/ Answers \/ epoll_wait_fails \/ exits \/ UNCHANGED vars => Goal
        BY <1>4, <1>5, <1>11, <1>12
    <2>2. (\E l \in Listener : Connects(l)) \/ (\E c \in Client : Sends(c)) => Goal
        BY <1>9, <1>10
    <2> HIDE DEF Goal
    <2>3. Goal
        BY <2>1, <2>2 DEF Next
    <2> QED BY <2>3 DEF Goal

LEMMA ListedAlways == Spec => []Listed
<1>1. Init => Listed
    <2> SUFFICES ASSUME Init PROVE Listed
        OBVIOUS
    <2>1. queue = <<>> /\ batch = <<>> /\ ready = {} /\ clients = {}
        BY DEF Init
    <2>2. <<>> \in Seq(Fd) /\ Len(<<>>) = 0
        OBVIOUS
    <2> QED BY <2>1, <2>2 DEF Listed, NoLostWakeup, Distinct
<1>2. Listed /\ [Next]_vars => Listed'
    BY StepListed, TurnListed
<1> QED BY <1>1, <1>2, PTL DEF Spec

(* What has something to report is in epoll's list, for any number of        *)
(* descriptors and however few of them epoll_wait takes at a time.           *)
THEOREM NoLostWakeupAlways == Spec => []NoLostWakeup
<1>1. Listed => NoLostWakeup
    BY DEF Listed
<1> QED BY <1>1, ListedAlways, PTL

(* The reason why the loop of socksprox.c serves every descriptor, whatever  *)
(* max_conns: no step puts a descriptor in front of one that is ready, and   *)
(* an epoll_wait that does not report it takes some away from there.         *)
THEOREM NeverOvertaken ==
    Spec => [][\A f \in ready : f \in ready' =>
                 IF epoll_wait
                 THEN f \in Members(batch')
                      \/ (Before(f)' \subseteq Before(f) /\ Before(f)' # Before(f))
                 ELSE Before(f)' \subseteq Before(f)]_vars
<1> DEFINE Turn == \A f \in ready : f \in ready' =>
                 IF epoll_wait
                 THEN f \in Members(batch')
                      \/ (Before(f)' \subseteq Before(f) /\ Before(f)' # Before(f))
                 ELSE Before(f)' \subseteq Before(f)
<1>1. Listed /\ [Next]_vars => Turn
    BY StepListed, TurnListed
<1> HIDE DEF Turn
<1>2. Listed /\ [Next]_vars => [Turn]_vars
    BY <1>1
<1>3. Spec => [][Turn]_vars
    BY <1>2, ListedAlways, PTL DEF Spec
<1> QED BY <1>3 DEF Turn
=============================================================================
