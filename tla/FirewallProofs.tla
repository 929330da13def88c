--------------------------- MODULE FirewallProofs ---------------------------
(* Theorems about Firewall: the netmasks computed word by word and octet by  *)
(* octet are the prefixes CIDR means, and the firewall blocks the listed     *)
(* networks and nothing else, for addresses of every width.                  *)
EXTENDS Firewall, TLAPS

(* The masks for which firewall_iton is defined: not 0 for IPv4, see there.  *)
ProperMask(af) == IF af = "INET" THEN 1..WordBits ELSE 0..Octets * OctetBits
Proper == \A af \in Family : Masks[af] \subseteq ProperMask(af)

Prefix(af, mask) == [p \in Pos(af) |-> IF Rank(af, p) <= mask THEN 1 ELSE 0]

(* The word: shifting ones to the left by the rest leaves mask of them.      *)
LEMMA WordMask ==
    ASSUME NEW mask \in 1..WordBits
    PROVE  Shift(Ones(Pos("INET")), WordBits, WordBits - mask) = Prefix("INET", mask)
<1>1. WordBits \in Nat \ {0}
  BY FirewallAssumption
<1>2. ASSUME NEW k \in 1..WordBits
      PROVE  (IF k + (WordBits - mask) <= WordBits
                THEN Ones(Pos("INET"))[k + (WordBits - mask)] ELSE 0)
             = IF Rank("INET", k) <= mask THEN 1 ELSE 0
  BY <1>1, <1>2 DEF Ones, Pos, Rank
<1> QED
  BY <1>2 DEF Shift, Prefix, Pos

LEMMA ProductMonotone ==
    ASSUME NEW m \in Nat, NEW n \in Nat, m <= n, NEW b \in Nat
    PROVE  m * b <= n * b
<1>1. PICK d \in Nat : n = m + d
  <2>1. n - m \in Nat /\ n = m + (n - m)
    OBVIOUS
  <2> QED
    BY <2>1
<1>2. n * b = m * b + d * b /\ d * b \in Nat
  BY <1>1
<1> QED
  BY <1>2

(* The loop comes to octet i exactly if the mask goes past its first bit, or *)
(* it is the first.                                                          *)
LEMMA LoopReaches ==
    ASSUME NEW mask \in Nat, NEW i \in Nat
    PROVE  Reached(mask, i) <=> (i = 0 \/ mask > i * OctetBits)
<1>1. OctetBits \in Nat \ {0}
  BY FirewallAssumption
<1>2. CASE i = 0
  BY <1>2 DEF Reached
<1>3. CASE i # 0
  <2>1. i - 1 \in 0..i - 1 /\ (i - 1) * OctetBits + OctetBits = i * OctetBits
    BY <1>1, <1>3
  <2>2. ASSUME Reached(mask, i) PROVE mask > i * OctetBits
    <3>1. mask - (i - 1) * OctetBits > OctetBits
      BY <2>1, <2>2 DEF Reached, BitsLeft
    <3>2. (i - 1) * OctetBits \in Int /\ i * OctetBits \in Int
      BY <1>1, <1>3
    <3> QED
      BY <1>1, <2>1, <3>1, <3>2
  <2>3. ASSUME mask > i * OctetBits PROVE Reached(mask, i)
    <3>1. SUFFICES ASSUME NEW j \in 0..i - 1 PROVE mask - j * OctetBits > OctetBits
      BY DEF Reached, BitsLeft
    <3>2. (j + 1) * OctetBits <= i * OctetBits
      <4>1. j + 1 \in Nat /\ j + 1 <= i
        BY <1>3
      <4> QED
        BY <1>1, <4>1, ProductMonotone
    <3>3. (j + 1) * OctetBits = j * OctetBits + OctetBits
      BY <1>1
    <3>4. j * OctetBits \in Int /\ i * OctetBits \in Int
      BY <1>1
    <3> QED
      BY <1>1, <2>3, <3>2, <3>3, <3>4
  <2> QED
    BY <1>3, <2>2, <2>3
<1> QED
  BY <1>2, <1>3

(* One octet of the netmask.                                                 *)
LEMMA OctetMask ==
    ASSUME NEW mask \in Nat, NEW i \in Nat, NEW k \in 1..OctetBits
    PROVE  Octet(mask, i)[k] = IF i * OctetBits + k <= mask THEN 1 ELSE 0
<1>1. OctetBits \in Nat \ {0} /\ i * OctetBits \in Nat
  BY FirewallAssumption
<1> DEFINE start == i * OctetBits
           full == Ones(1..OctetBits)
<1>2. start \in Nat /\ BitsLeft(mask, i) = mask - start
  BY <1>1 DEF BitsLeft
<1>3. Reached(mask, i) <=> (i = 0 \/ mask > start)
  BY LoopReaches
<1>4. i = 0 => start = 0
  BY <1>1
<1> HIDE DEF start
<1>5. CASE ~ Reached(mask, i)
  <2>1. Octet(mask, i)[k] = 0
    BY <1>5 DEF Octet, Zeros
  <2>2. ~ (start + k <= mask)
    BY <1>1, <1>2, <1>3, <1>5
  <2> QED
    BY <2>1, <2>2 DEF start
<1>6. CASE Reached(mask, i) /\ mask - start > OctetBits
  <2>1. Octet(mask, i)[k] = 1
    BY <1>2, <1>6 DEF Octet, Ones
  <2>2. start + k <= mask
    BY <1>1, <1>2, <1>6
  <2> QED
    BY <2>1, <2>2 DEF start
<1>7. CASE Reached(mask, i) /\ ~ (mask - start > OctetBits)
  <2>1. Octet(mask, i) = Shift(full, OctetBits, OctetBits - (mask - start))
    BY <1>2, <1>7 DEF Octet
  <2>2. Octet(mask, i)[k] = IF k + (OctetBits - (mask - start)) <= OctetBits
                              THEN full[k + (OctetBits - (mask - start))] ELSE 0
    BY <2>1 DEF Shift
  <2>3. 0 <= mask - start /\ mask - start <= OctetBits
    BY <1>1, <1>2, <1>3, <1>4, <1>7
  <2>4. CASE k <= mask - start
    <3>1. k + (OctetBits - (mask - start)) \in 1..OctetBits
      BY <1>1, <1>2, <2>3, <2>4
    <3>2. full[k + (OctetBits - (mask - start))] = 1
      BY <3>1 DEF Ones
    <3> QED
      BY <1>1, <1>2, <2>2, <2>4, <3>1, <3>2 DEF start
  <2>5. CASE ~ (k <= mask - start)
    <3>1. ~ (k + (OctetBits - (mask - start)) <= OctetBits)
      BY <1>1, <1>2, <2>5
    <3> QED
      BY <1>1, <1>2, <2>2, <2>5, <3>1 DEF start
  <2> QED
    BY <2>4, <2>5
<1> QED
  BY <1>5, <1>6, <1>7, <1>2

(* firewall_iton computes the prefix of the mask, of either family: both the *)
(* shift of the word and the loop over the octets, with its early end.       *)
THEOREM NetmaskIsPrefix ==
    ASSUME NEW af \in Family, NEW mask \in ProperMask(af)
    PROVE  firewall_iton(af, mask) = {Prefix(af, mask)}
<1>1. WordBits \in Nat \ {0} /\ Octets \in Nat \ {0} /\ OctetBits \in Nat \ {0}
  BY FirewallAssumption
<1>2. CASE af = "INET"
  <2>1. mask \in 1..WordBits
    BY <1>2 DEF ProperMask
  <2>2. firewall_iton(af, mask) = {Shift(Ones(Pos(af)), WordBits, WordBits - mask)}
    BY <1>1, <1>2, <2>1 DEF firewall_iton, Bits
  <2> QED
    BY <1>2, <2>1, <2>2, WordMask
<1>3. CASE af = "INET6"
  <2>1. mask \in 0..Octets * OctetBits /\ Octets * OctetBits \in Nat
    BY <1>1, <1>3 DEF ProperMask
  <2>2. firewall_iton(af, mask) = {[p \in Pos(af) |-> Octet(mask, p[1])[p[2]]]}
    BY <1>3, <2>1 DEF firewall_iton, Bits
  <2>3. ASSUME NEW p \in Pos(af)
        PROVE  Octet(mask, p[1])[p[2]] = IF Rank(af, p) <= mask THEN 1 ELSE 0
    <3>1. p[1] \in Nat /\ p[2] \in 1..OctetBits
      BY <1>1, <1>3 DEF Pos
    <3> QED
      BY <1>3, <2>1, <3>1, OctetMask DEF Rank
  <2> QED
    BY <2>2, <2>3 DEF Prefix
<1> QED
  BY <1>2, <1>3 DEF Family
-----------------------------------------------------------------------------
(* Two addresses are masked to the same one exactly if they agree on the     *)
(* first mask bits.                                                          *)
LEMMA MaskedAgree ==
    ASSUME NEW af \in Family, NEW mask \in Int, NEW a \in Addr(af), NEW b \in Addr(af)
    PROVE  mask_sin(a, Prefix(af, mask)) = mask_sin(b, Prefix(af, mask))
             <=> Agrees(af, a, b, mask)
<1> DEFINE ma == mask_sin(a, Prefix(af, mask))
           mb == mask_sin(b, Prefix(af, mask))
<1>1. DOMAIN a = Pos(af) /\ DOMAIN b = Pos(af)
  BY DEF Addr
<1>2. /\ ma = [p \in Pos(af) |-> IF Rank(af, p) <= mask THEN a[p] ELSE 0]
      /\ mb = [p \in Pos(af) |-> IF Rank(af, p) <= mask THEN b[p] ELSE 0]
  BY <1>1 DEF mask_sin, Prefix
<1>3. ASSUME ma = mb, NEW p \in Pos(af), Rank(af, p) <= mask PROVE a[p] = b[p]
  <2>1. ma[p] = a[p] /\ mb[p] = b[p]
    BY <1>2, <1>3
  <2> QED
    BY <1>3, <2>1
<1>4. ASSUME Agrees(af, a, b, mask) PROVE ma = mb
  BY <1>2, <1>4 DEF Agrees
<1> QED
  BY <1>3, <1>4 DEF Agrees

LEMMA MaskedType ==
    ASSUME NEW af \in Family, NEW mask \in Int, NEW a \in Addr(af)
    PROVE  Prefix(af, mask) \in Addr(af) /\ mask_sin(a, Prefix(af, mask)) \in Addr(af)
<1>1. Prefix(af, mask) \in [Pos(af) -> Bit]
  BY DEF Prefix, Bit
<1>2. mask_sin(a, Prefix(af, mask)) \in [Pos(af) -> Bit]
  BY DEF mask_sin, Addr, Bit
<1> QED
  BY <1>1, <1>2 DEF Addr

(* A node of the list and the line it was made from.                         *)
Node(r) == [af |-> r.af, netmask |-> Prefix(r.af, r.mask),
            sa |-> mask_sin(r.sa, Prefix(r.af, r.mask))]

Rules == Rule("INET") \cup Rule("INET6")
NodesMatch == \A i \in DOMAIN rules : blocks[i] = Node(rules[i])
IInv == TypeOK /\ NodesMatch

LEMMA RuleType ==
    ASSUME Proper, NEW r \in Rules
    PROVE  /\ r.af \in Family /\ r.sa \in Addr(r.af)
           /\ r.mask \in ProperMask(r.af) /\ r.mask \in Int
<1>1. r.af \in Family /\ r.sa \in Addr(r.af) /\ r.mask \in Masks[r.af]
  BY DEF Rules, Rule, Family
<1>2. r.mask \in Int
  BY <1>1, FirewallAssumption
<1> QED
  BY <1>1, <1>2 DEF Proper

LEMMA NodeType ==
    ASSUME Proper, NEW r \in Rules
    PROVE  Node(r) \in Block("INET") \cup Block("INET6")
<1>1. /\ r.af \in Family /\ Prefix(r.af, r.mask) \in Addr(r.af)
      /\ mask_sin(r.sa, Prefix(r.af, r.mask)) \in Addr(r.af)
  BY RuleType, MaskedType
<1> QED
  BY <1>1 DEF Node, Block, Family

LEMMA FirewallInduction ==
    ASSUME Proper
    PROVE  Spec => []IInv
<1>1. Init => IInv
  BY FirewallAssumption DEF Init, IInv, TypeOK, NodesMatch
<1>2. IInv /\ [Next]_vars => IInv'
  <2>1. SUFFICES ASSUME IInv, [Next]_vars PROVE IInv'
    OBVIOUS
  <2>2. CASE UNCHANGED vars
    BY <2>1, <2>2 DEF vars, IInv, TypeOK, NodesMatch
  <2>3. CASE Next
    <3>0. PICK af \in Family : \E r \in Rule(af) : link_blocks(r)
      BY <2>3 DEF Next
    <3>1. PICK r \in Rule(af) : link_blocks(r)
      BY <3>0
    <3>2. r \in Rules /\ r.af = af
      BY DEF Rules, Rule, Family
    <3>3. firewall_iton(r.af, r.mask) = {Prefix(r.af, r.mask)}
      BY <3>2, RuleType, NetmaskIsPrefix
    <3>4. /\ blocks' = <<Node(r)>> \o blocks
          /\ rules' = <<r>> \o rules
          /\ Len(blocks) < MaxBlocks
      BY <3>1, <3>3 DEF link_blocks, Node
    <3>5. /\ blocks \in Seq(Block("INET") \cup Block("INET6")) /\ rules \in Seq(Rules)
          /\ Len(blocks) = Len(rules)
      BY <2>1 DEF IInv, TypeOK, Rules
    <3>6. Node(r) \in Block("INET") \cup Block("INET6")
      BY <3>2, NodeType
    <3>7. TypeOK'
      <4>1. /\ blocks' \in Seq(Block("INET") \cup Block("INET6")) /\ Len(blocks') = 1 + Len(blocks)
        BY <3>4, <3>5, <3>6
      <4>2. rules' \in Seq(Rules) /\ Len(rules') = 1 + Len(rules)
        BY <3>2, <3>4, <3>5
      <4> QED
        BY <3>4, <3>5, <4>1, <4>2, FirewallAssumption DEF TypeOK, Rules
    <3>8. NodesMatch'
      <4>1. SUFFICES ASSUME NEW i \in DOMAIN rules' PROVE blocks'[i] = Node(rules'[i])
        BY DEF NodesMatch
      <4>2. CASE i = 1
        BY <3>4, <3>5, <4>2
      <4>3. CASE i # 1
        <5>1. i - 1 \in DOMAIN rules /\ rules'[i] = rules[i - 1] /\ blocks'[i] = blocks[i - 1]
          BY <3>4, <3>5, <4>1, <4>3
        <5> QED
          BY <2>1, <5>1 DEF IInv, NodesMatch
      <4> QED
        BY <4>2, <4>3
    <3> QED
      BY <3>7, <3>8 DEF IInv
  <2> QED
    BY <2>1, <2>2, <2>3
<1> QED
  BY <1>1, <1>2, PTL DEF Spec

(* An entry matches a request exactly if the line it stands for lists it.    *)
LEMMA EntryExact ==
    ASSUME Proper, NEW r \in Rules, NEW info \in Infos
    PROVE  (Node(r).af = info.af /\ mask_sin(info.sa, Node(r).netmask) = Node(r).sa)
             <=> InNetwork(info, r)
<1>1. info.af \in Family /\ info.sa \in Addr(info.af)
  BY DEF Infos, Info, Family
<1>2. r.af \in Family /\ r.sa \in Addr(r.af) /\ r.mask \in Int
  BY RuleType
<1>3. r.af = info.af =>
        (mask_sin(info.sa, Prefix(r.af, r.mask)) = mask_sin(r.sa, Prefix(r.af, r.mask))
           <=> Agrees(info.af, info.sa, r.sa, r.mask))
  BY <1>1, <1>2, MaskedAgree
<1> QED
  BY <1>3 DEF Node, InNetwork

LEMMA CheckExact ==
    ASSUME Proper, IInv, NEW info \in Infos
    PROVE  check_sin(info.af, info.sa, blocks) <=> Listed(info)
<1>1. rules \in Seq(Rules) /\ DOMAIN blocks = DOMAIN rules
  BY DEF IInv, TypeOK, Rules
<1>2. \A i \in DOMAIN rules :
        (blocks[i].af = info.af /\ mask_sin(info.sa, blocks[i].netmask) = blocks[i].sa)
          <=> InNetwork(info, rules[i])
  <2>1. TAKE i \in DOMAIN rules
  <2>2. rules[i] \in Rules /\ blocks[i] = Node(rules[i])
    BY <1>1 DEF IInv, NodesMatch
  <2> QED
    BY <2>2, EntryExact
<1> QED
  BY <1>1, <1>2 DEF check_sin, Listed

THEOREM FirewallTypeCorrect ==
    ASSUME Proper
    PROVE  Spec => []TypeOK
<1>1. IInv => TypeOK
  BY DEF IInv
<1> QED
  BY <1>1, FirewallInduction, PTL

(* Every line of the configuration is enforced, for addresses of every width *)
(* and lists of every length.                                                *)
THEOREM ListedAlwaysBlocked ==
    ASSUME Proper
    PROVE  Spec => []ListedIsBlocked
<1>1. IInv => ListedIsBlocked
  BY CheckExact DEF ListedIsBlocked, firewall
<1> QED
  BY <1>1, FirewallInduction, PTL

(* Nothing but what is listed is refused.                                    *)
THEOREM OthersAlwaysAccepted ==
    ASSUME Proper
    PROVE  Spec => []OthersAccepted
<1>1. IInv => OthersAccepted
  BY CheckExact DEF OthersAccepted, firewall
<1> QED
  BY <1>1, FirewallInduction, PTL
=============================================================================
