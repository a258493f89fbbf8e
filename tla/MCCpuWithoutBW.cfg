CONSTANTS
  Cpus <- WithoutBW
SPECIFICATION DispatchSpec
INVARIANTS
  RunsOnThisCpu
