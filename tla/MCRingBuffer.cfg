\* Three cells, two byte values, writes of 0 to 4 bytes.
SPECIFICATION Spec
CONSTANTS
  Byte = {a, b}
  Capacity = 3
  MaxSource = 4
  Sources <- MCSources
INVARIANT TypeOK
INVARIANT HeadsAgree
PROPERTY IsQueue
