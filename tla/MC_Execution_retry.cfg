SPECIFICATION Spec
CONSTANTS
  N = 3
  Plans <- DoubleOrCoins
  InputLists <- MCInputs
  HashLength = HashLength
  Capacity = 2
  MaxCrashes = 1
  MaxRetries = 2
INVARIANTS
  TypeOK
  PlanAgreement
  RoutingCorrect
  CleanClose
  DefaultShareNeverSent
  OutputsNew
\* contexts are dropped when they are finished or have failed
CHECK_DEADLOCK FALSE
