CONSTANTS
  QwBits = 2
  Builds <- MCBuilds
  Operands <- MCOperands
  Width = 10
  WordOperands <- MCWordOperands
  SqrQwords = 13
  Factors <- MCFactors
  Squared <- MCSquared
SPECIFICATION MCSpec
INVARIANTS
  ProductModR
  SubproductsInPlace
  BuffersSuffice
  PartialProduct
  BaseProductsExact
CHECK_DEADLOCK FALSE
