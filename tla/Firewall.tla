------------------------------ MODULE Firewall ------------------------------
(* The firewall of firewall.c: link_blocks turns each "block" line of the    *)
(* configuration into a netmask and a masked address, firewall compares the  *)
(* address of a request with every one of them.  Addresses are functions     *)
(* from bit positions, the most significant first, to bits: IPv4 is one      *)
(* word, IPv6 an array of octets, and each netmask is built its own way.     *)
EXTENDS Integers, Sequences

CONSTANTS WordBits,    \* bits of an IPv4 address
          Octets,      \* octets of an IPv6 address
          OctetBits,   \* bits of an octet
          Masks,       \* masks that occur, of each family
          MaxBlocks    \* bound on the block lines

Family == {"INET", "INET6"}

ASSUME FirewallAssumption ==
    /\ {WordBits, Octets, OctetBits} \subseteq Nat \ {0}
    /\ Masks \in [Family -> SUBSET Int]
    /\ MaxBlocks \in Nat

VARIABLES blocks,   \* configs->block_head, a list
          rules     \* the lines it was made from
vars == <<blocks, rules>>

Bit == {0, 1}
Pos(af) == IF af = "INET" THEN 1..WordBits ELSE (0..Octets - 1) \X (1..OctetBits)
Bits(af) == IF af = "INET" THEN WordBits ELSE Octets * OctetBits
Addr(af) == [Pos(af) -> Bit]
Zeros(P) == [p \in P |-> 0]
Ones(P) == [p \in P |-> 1]
-----------------------------------------------------------------------------
(* v << n, kept to the width of v.                                           *)
Shift(v, width, n) == [k \in 1..width |-> IF k + n <= width THEN v[k + n] ELSE 0]

(* The loop over the octets: bits_left when it comes to octet i, if no       *)
(* earlier octet was the last one.                                           *)
BitsLeft(mask, i) == mask - i * OctetBits
Reached(mask, i) == \A j \in 0..i - 1 : BitsLeft(mask, j) > OctetBits

Octet_short(mask, i) ==
    LET full == Ones(1..OctetBits) IN
    IF ~ Reached(mask, i) THEN Zeros(1..OctetBits)
    ELSE Shift(full, OctetBits, OctetBits - BitsLeft(mask, i) + 1)

Octet(mask, i) ==
    LET full == Ones(1..OctetBits) IN
    IF ~ Reached(mask, i) THEN Zeros(1..OctetBits)
    ELSE IF BitsLeft(mask, i) > OctetBits THEN full
    ELSE Shift(full, OctetBits, OctetBits - BitsLeft(mask, i))

(* The netmask the caller is left with: zeros, as it was, when the mask is   *)
(* refused.  A shift of a word by its whole width is undefined; the build    *)
(* leaves all bits or none.                                                  *)
firewall_iton(af, mask) ==
    IF mask < 0 \/ mask > Bits(af) THEN {Zeros(Pos(af))}
    ELSE IF af = "INET6" THEN {[p \in Pos(af) |-> Octet(mask, p[1])[p[2]]]}
    ELSE IF mask = 0 THEN {Zeros(Pos(af)), Ones(Pos(af))}
    ELSE {Shift(Ones(Pos(af)), WordBits, WordBits - mask)}

(* mask_sin and mask_sin6.                                                   *)
mask_sin(addr, netmask) == [p \in DOMAIN addr |-> IF netmask[p] = 1 THEN addr[p] ELSE 0]

(* check_sin and check_sin6.                                                 *)
check_head(af, addr, list) ==
    list # <<>> /\ list[1].af = af /\ mask_sin(addr, list[1].netmask) = list[1].sa

check_sin(af, addr, list) ==
    \E i \in DOMAIN list :
        list[i].af = af /\ mask_sin(addr, list[i].netmask) = list[i].sa

udpa_unspec(info) == info.cmd = "UDPA" /\ info.sa = Zeros(Pos(info.af))

(* TRUE is the return value 1.                                               *)
firewall(info) == ~ udpa_unspec(info) /\ check_sin(info.af, info.sa, blocks)
-----------------------------------------------------------------------------
Rule(af) == [af : {af}, sa : Addr(af), mask : Masks[af]]

link_every(r) ==
    /\ Len(blocks) < MaxBlocks
    /\ \E netmask \in firewall_iton(r.af, r.mask) :
          LET node == [af |-> r.af, netmask |-> netmask, sa |-> mask_sin(r.sa, netmask)]
          IN  blocks' = <<node, node>> \o blocks
    /\ rules' = <<r>> \o rules

link_blocks(r) ==
    /\ Len(blocks) < MaxBlocks
    /\ \E netmask \in firewall_iton(r.af, r.mask) :
          blocks' = <<[af |-> r.af, netmask |-> netmask,
                       sa |-> mask_sin(r.sa, netmask)]>> \o blocks
    /\ rules' = <<r>> \o rules

Init == blocks = <<>> /\ rules = <<>>
Next == \E af \in Family : \E r \in Rule(af) : link_blocks(r)
Spec == Init /\ [][Next]_vars
-----------------------------------------------------------------------------
Block(af) == [af : {af}, netmask : Addr(af), sa : Addr(af)]
Info(af) == [af : {af}, sa : Addr(af), cmd : {"CONN", "BIND", "UDPA"}]
Infos == Info("INET") \cup Info("INET6")

(* link_blocks makes one rule of each line, with a netmask and an address of *)
(* the line's family.                                                        *)
TypeOK ==
    /\ blocks \in Seq(Block("INET") \cup Block("INET6"))
    /\ rules \in Seq(Rule("INET") \cup Rule("INET6"))
    /\ Len(blocks) = Len(rules) /\ Len(rules) <= MaxBlocks

(* CIDR: an address is in a network when the first mask bits agree.          *)
Rank(af, p) == IF af = "INET" THEN p ELSE p[1] * OctetBits + p[2]
Agrees(af, a, b, mask) == \A p \in Pos(af) : Rank(af, p) <= mask => a[p] = b[p]
InNetwork(info, r) == r.af = info.af /\ Agrees(info.af, info.sa, r.sa, r.mask)
Listed(info) == \E i \in DOMAIN rules : InNetwork(info, rules[i])

(* README.md:66, "If a requested IP address is included in one of the        *)
(* blocked networks the server will respond with" 0x02: every line counts,   *)
(* in whatever order, with the host bits of its address set or not.  All     *)
(* zeros of a UDP Associate is the stated exception.                         *)
ListedIsBlocked == \A info \in Infos : Listed(info) /\ ~ udpa_unspec(info) => firewall(info)

(* README.md:66, "an implicit accept for all other addresses".               *)
OthersAccepted == \A info \in Infos : firewall(info) => Listed(info)
=============================================================================
