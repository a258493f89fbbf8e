CONSTANTS
  Levels <- Levels1And5
  R = 83
  QwBits = 2
  RegQwords <- MCRegQwords
SPECIFICATION MCSpec
INVARIANTS
  SignTellsErrors
  RotatesRight
CHECK_DEADLOCK FALSE
