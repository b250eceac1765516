SPECIFICATION FairSpec
CONSTANTS
  v1 = v1
  v2 = v2
  Values <- MCValues
  NoItem = NoItem
  Capacity = 2
  MaxPushes = 5
  WordSize = 64
INVARIANTS
  IInv
  FIFO
  NoDataRace
  SizeSkew
  MonitorSizeBound
PROPERTIES
  ImplementsFIFO
  AllDelivered
