\* Two block lines of either family, every mask but 0 of IPv4.
SPECIFICATION Spec
CONSTANTS
  WordBits = 3
  Octets = 2
  OctetBits = 2
  Masks <- ProperMasks
  MaxBlocks = 2
INVARIANT TypeOK
INVARIANT ListedIsBlocked
INVARIANT OthersAccepted
CHECK_DEADLOCK FALSE
