CONSTANTS
  R = 13
  H0 <- MCH0
  H1 <- MCH1
  Pk <- MCPk
  MaxIt = 5
  Delta = 1
  Slices = 3
  Coeff0 = 2
  Coeff1 = 1
  Divisor = 4
  ThresholdMin = 2
  Ciphertexts <- MCWords
SPECIFICATION DecodeSpec
INVARIANTS
  SyndromeOfResidue
  SingleErrorsFound
PROPERTIES
  SecondLookOnlyMarked
  FoundStaysFound
CHECK_DEADLOCK FALSE
