CONSTANTS
  Levels <- MCLevels
  Inputs <- MCInputs
  Times <- MCTimes
  Unit <- MCUnit
  Builds <- MCBuilds
  BytesR = 67
  RQwords = 2
  RPadded = 192
  Ks = {1, 2, 9}
  Operands <- MCOperands
SPECIFICATION MCSpec
INVARIANTS
  Inverts
  MapRight
  KSquared
CHECK_DEADLOCK FALSE
