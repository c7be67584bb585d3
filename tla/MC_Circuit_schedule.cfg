SPECIFICATION FairSpec
CONSTANTS
  Wires <- MCWires
  Circuits <- MCCircuits
  Unsound <- MCUnsound
INVARIANTS
  TypeOK
  QueueSound
  InDegreeExact
  ScheduledOnce
  OfflineIsInputIndependent
  EarlyOnlyIfMixed
  CyclicExactly
PROPERTY Terminates
\* the constructor returns
CHECK_DEADLOCK FALSE
