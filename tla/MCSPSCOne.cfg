SPECIFICATION Spec
CONSTANTS
  v1 = v1
  v2 = v2
  Values <- MCValues
  NoItem = NoItem
  Capacity = 1
  MaxPushes = 3
  WordSize = 64
INVARIANT InOrder
