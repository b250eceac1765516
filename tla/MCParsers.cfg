SPECIFICATION FairSpec
CONSTANTS
  Base = 3
  MaxSize = 7
  ITCHSize <- MCITCHSize
  IEXSize <- MCIEXSize
  IEXHeader = 1
  MaxResets = 1
INVARIANTS
  CopiesInBounds
  DeliversStream
PROPERTY PassesStream
