\* Every file of two lines as README.md describes them that fit into the buffer;
\* and every short file, whatever it holds, with a line longer than the buffer.
SPECIFICATION Spec
CONSTANTS
  Letter = {"a", "b"}
  LineSize = 6
  KeySize = 3
  Keys <- KnownKeys
  Files <- EveryFile
  Garbage = {"eq"}
INVARIANT DescribedIsRead
INVARIANT OverrunIsTheKeys
CHECK_DEADLOCK FALSE
