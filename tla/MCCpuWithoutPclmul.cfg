CONSTANTS
  Cpus <- WithoutPclmul
SPECIFICATION DispatchSpec
INVARIANTS
  AdditionsAligned
