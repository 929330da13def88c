\* Masks that are out of range as well.
SPECIFICATION Spec
CONSTANTS
  WordBits = 3
  Octets = 2
  OctetBits = 2
  Masks <- AnyMasks
  MaxBlocks = 1
INVARIANT OthersAccepted
CHECK_DEADLOCK FALSE
