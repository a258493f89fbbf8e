CONSTANTS
  Levels <- Levels3
  R = 83
  QwBits = 2
  RegQwords <- MCRegQwords
SPECIFICATION MCSpec
INVARIANT SignTellsErrors
CHECK_DEADLOCK FALSE
