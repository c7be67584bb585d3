SPECIFICATION Spec
CONSTANTS
  N = 3
  M = 3
  Word = 6
  OverflowChecks = TRUE
  Circuits <- MaskedOrSum
  Values <- MCValues
INVARIANTS
  TypeOK
  NeverPanics
  RevealsCorrect
PROPERTY ImplementsEvaluation
\* the operations of a list come to an end
CHECK_DEADLOCK FALSE
