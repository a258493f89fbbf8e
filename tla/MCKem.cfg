CONSTANTS
  MaxDraws = 3
  MaxDecs = 2
SPECIFICATION Spec
INVARIANTS
  KeyAgreement
  RejectsAnythingElse
  SecretsBound
  OutputsCoherent

  
CHECK_DEADLOCK FALSE
