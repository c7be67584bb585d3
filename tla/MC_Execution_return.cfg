SPECIFICATION FairSpec
CONSTANTS
  N = 3
  Plans <- SumOrCoin
  InputLists <- SomeInputs
  HashLength = HashLength
  Capacity = 1
  MaxCrashes = 1
  MaxRetries = 0
PROPERTIES
  ImplementsLockstep
  CallsReturn
  AllFinish
\* contexts are dropped when they are finished or have failed
CHECK_DEADLOCK FALSE
