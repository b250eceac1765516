SPECIFICATION Spec
CONSTANTS
  ChunkSize = 2
  MaxChunks = 3
  MaxDepth = 3
INVARIANTS
  OneOwner
  CountOfObjects
\* The pool may be destroyed.
CHECK_DEADLOCK FALSE
