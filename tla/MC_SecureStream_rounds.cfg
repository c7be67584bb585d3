SPECIFICATION FairSpec
CONSTANTS
  Data <- WithOversized
  TagLen = 1
  LenWord = 4
  Capacity = 4
  Rounds = TRUE
  MaxSends <- TwoEach
  MaxCancels = 2
INVARIANTS
  TypeOK
  InOrder
  FailsOnlyIfTorn
  NoncesOnce
PROPERTY RoundsComplete
\* the rounds come to an end, or the ends wait for what a torn frame lacks
CHECK_DEADLOCK FALSE
