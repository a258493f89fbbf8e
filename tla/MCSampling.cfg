CONSTANTS
  NumIndices = 4
  MaxIdxVal = 7
  RandRange = 16
  MaxBound = 6
  MaxNum = 4
  Ranges = {8, 16, 60}
  KeyNum = 3
  Z = 5
  Budget = 5
  Count = 3
  Width = 4
  NumDraws = 6
  Bound = 5
  WordRange = 8
SPECIFICATION MCSpec
INVARIANTS
  ExactWeight
  PositionStillFree
  NearlyUniform
  FirstDrawnKept
  NoStrayIndex
PROPERTIES
  RefinesSample
  RejectionRefines
  RejectionReturns
CHECK_DEADLOCK FALSE
