SPECIFICATION MCSpec
CONSTANTS
  Denoms = {1, 2, 3, 4}
  UpperDenoms = {1}
  BadDenoms = {4}
  One = 10
  Limit = 2000
  Sets <- SomeSets
  Factors <- SomeFactors
  IntCoins <- SomeIntCoins
  MaxCalls = 3
  Starts <- SomeStarts
  Operands <- SomeOperands
  MaxOps = 2
INVARIANTS
  DecExact
  RootsClose
  ResultsKept
  CoinsAgree
  DecCoinsAgree
  UnitsKeepValue
CHECK_DEADLOCK FALSE
