SPECIFICATION Spec
CONSTANTS
  MaxSize = 100
  NUM_BUCKETS = 3
  Total = 22
  MaxPrice = 20
  AddEvery = 5
  ExecuteEvery = 7
  CancelEvery = 11
  SampleEvery = 5
  SpreadThreshold = 4
  Quotes <- MCQuotes
  Latencies = {1, 2, 3}
INVARIANTS
  NeverSignals
  PercentilesAgree
PROPERTY OrdersOnlyArrive
