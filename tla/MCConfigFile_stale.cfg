\* A last line that is only a key.
SPECIFICATION Spec
CONSTANTS
  Letter = {"a", "b"}
  LineSize = 8
  KeySize = 5
  Keys <- KnownKeys
  Files <- LastKey
  Garbage = {"a", "eq", "nul"}
INVARIANT ReadsAsDocumented
CHECK_DEADLOCK FALSE
