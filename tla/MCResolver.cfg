\* Any value in the byte that is not set; both pipes may fill up.
SPECIFICATION FairSpec
CONSTANTS
  None = None
  Wild = Wild
  Unset = Unset
  Session = {s1, s2}
  Lens = {1, 3}
  Gaps = {0, 1, 3, 5}
  Byte = {0, 2, 4}
  PtrSize = 2
  RequestCap = 12
  AnswerCap = 1
  MaxRequests = 4
INVARIANT OneOutstanding
INVARIANT QueryUnderWay
PROPERTY PipeDrains
PROPERTY RequestAnswered
CHECK_DEADLOCK FALSE
