SPECIFICATION Spec
CONSTANTS
  N = 2
  M = 3
  Word = 8
  OverflowChecks = FALSE
  Circuits <- MixedOnly
  Values <- MCValues
INVARIANT RevealsCorrect
\* the parties stop when the circuit is evaluated
CHECK_DEADLOCK FALSE
