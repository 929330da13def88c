\* Files that open, and a pipe that is full when the last entry is logged.
SPECIFICATION Spec
CONSTANTS
  Code = {c1}
  LogCap = 4
  MaxLogs = 3
  Opens = {TRUE}
INVARIANT EnsuresPendingLogs
CHECK_DEADLOCK FALSE
