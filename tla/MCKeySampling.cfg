CONSTANTS
  R = 5
  QwBits = 2
  RegQwords = 2
  Qwords = 4
  IdxRange = 64
  KeyLists <- MCKeyLists
  ErrorLists <- MCErrorLists
  D = 2
  T = 3
  BlockBytes = 4
  Budgets = {1, 2, 3}
  RandBytes = 2
  ByteValues = 3
  Streams <- MCStreams
  ByteBits = 2
  WordBits = 4
  LongBits = 8
  Compared = {0, 1, 2, 3, 4, 5, 6, 7}
  Longs = {0, 1, 2, 3, 5, 9, 15, 16, 170, 255}
SPECIFICATION MCSpec
INVARIANTS
  BitsOfTheList
  FreshWords
  SparseAsPromised
  SelectsAsBranch
CHECK_DEADLOCK FALSE
