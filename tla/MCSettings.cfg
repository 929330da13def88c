\* Complete files, files with a line missing, and a line more at both ends.
SPECIFICATION Spec
CONSTANTS
  Addresses = {"v4", "v6"}
  Values = {"v4", "v6", "name", "empty"}
  Counts = {0, 1, 2}
  Files <- FilesAround
INVARIANT AcceptedAsWritten
CHECK_DEADLOCK FALSE
