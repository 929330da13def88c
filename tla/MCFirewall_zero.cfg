\* Every mask CIDR allows.
SPECIFICATION Spec
CONSTANTS
  WordBits = 3
  Octets = 2
  OctetBits = 2
  Masks <- CidrMasks
  MaxBlocks = 1
INVARIANT ListedIsBlocked
CHECK_DEADLOCK FALSE
