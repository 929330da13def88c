\* Even a request that is framed right is looked up under another name.
SPECIFICATION Spec
CONSTANTS
  None = None
  Wild = Wild
  Unset = Unset
  Session = {s1}
  Lens = {2}
  Gaps = {2}
  Byte = {0}
  PtrSize = 2
  RequestCap = 7
  AnswerCap = 1
  MaxRequests = 1
INVARIANT LooksUpWhatWasAsked
CHECK_DEADLOCK FALSE
