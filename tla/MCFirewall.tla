----------------------------- MODULE MCFirewall -----------------------------
(* Values of the constants of Firewall for TLC.                              *)
EXTENDS Firewall

\* Masks that are CIDR and that the build computes.
ProperMasks == [af \in Family |-> IF af = "INET" THEN 1..WordBits ELSE 0..Bits(af)]
\* Every CIDR mask.
CidrMasks == [af \in Family |-> 0..Bits(af)]
\* What atoi may return for a line with a typing error.
AnyMasks == [af \in Family |-> -1..Bits(af) + 1]
=============================================================================
