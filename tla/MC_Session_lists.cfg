SPECIFICATION FairSpec
CONSTANTS
  N = 2
  Lists <- MCLists
  InputLists <- MCInputs
  HashLength = HashLength
  Capacity = 1
  MaxCrashes = 1
INVARIANTS
  PanicsOnlyIfMixed
  ListEvaluated
PROPERTY RefusedOrFinished
\* lists are refused, and contexts dropped when they are finished
CHECK_DEADLOCK FALSE
