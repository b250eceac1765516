SPECIFICATION FairSpec
CONSTANTS
  p1 = p1
  p2 = p2
  n1 = n1
  n2 = n2
  n3 = n3
  n4 = n4
  Producers <- MCProducers
  Nodes <- MCNodes
  Null = Null
  MaxPushes = 2
INVARIANTS
  NoUseAfterFree
  EmptyOnlyWhenCut
  MemoryInUse
PROPERTIES
  ImplementsQueue
  AllReceived
\* The queue is gone once its destructor has run.
CHECK_DEADLOCK FALSE
