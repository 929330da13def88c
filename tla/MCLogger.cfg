\* A pipe that may fill up, and files that may not open.
SPECIFICATION FairSpec
CONSTANTS
  Code = {c1, c2}
  LogCap = 7
  MaxLogs = 4
  Opens = {TRUE, FALSE}
INVARIANT TypeOK
INVARIANT InOrder
INVARIANT JoinedMeansWritten
PROPERTY AcceptedIsWritten
PROPERTY JoinTakesEffect
CHECK_DEADLOCK FALSE
