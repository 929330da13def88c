\* A key as long as its buffer.
SPECIFICATION Spec
CONSTANTS
  Letter = {"a", "b"}
  LineSize = 8
  KeySize = 3
  Keys <- KnownKeys
  Files <- UnknownKeys
  Garbage = {"nul"}
INVARIANT StaysInBuffers
CHECK_DEADLOCK FALSE
