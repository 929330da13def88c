\* A comment longer than the buffer, whose tail looks like a setting.
SPECIFICATION Spec
CONSTANTS
  Letter = {"a", "b"}
  LineSize = 5
  KeySize = 3
  Keys <- KnownKeys
  Files <- LongComment
  Garbage = {"a", "eq", "nul"}
INVARIANT ReadsAsDocumented
CHECK_DEADLOCK FALSE
