CONSTANTS
  BlockBytes = 4
  MaxInvocations = 5
  MaxLen = 10
  Lens <- MCLens
  Rate = 136
  RequestBytes = 4
  BlockRequests = 34
  HashBlockBytes = 128
  FieldBytes = 16
  LenBytes = 8
  ByteLens <- MCByteLens
  Null = Null
  Modes <- MCModes
  MessageLens <- MCMessageLens
SPECIFICATION MCSpec
INVARIANTS
  KeystreamAccounted
  WritesWithinRequest
  BudgetExact
  SqueezeBudgetExact
  PaddedMessage
PROPERTIES
  RefinesStream
  RefinesSqueezedStream
CHECK_DEADLOCK FALSE
