SPECIFICATION TapeSpec
CONSTANTS
  RecordSize = 2
  MaxStarts = 2
  PageSize = 4
  MinimumMap = 5
  MaxWrites = 3
INVARIANTS
  ReplaysRecording
  ReplaysKilledRecording
  DeliveredInOrder
  RunningTellsThread
  PauseTakesHold
PROPERTIES
  QuietAfterStop
  StopReturns
  EndsUnlessPaused
\* The process may have ended, and the engine may be gone.
CHECK_DEADLOCK FALSE
