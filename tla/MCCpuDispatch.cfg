CONSTANTS
  Cpus <- Common
SPECIFICATION DispatchSpec
INVARIANTS
  RunsOnThisCpu
  AdditionsAligned
