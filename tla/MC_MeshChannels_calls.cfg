SPECIFICATION Spec
CONSTANTS
  NPeers = 2
  Receives <- MixedReceives
  SingleCounts = {1}
  Sends <- MixedSends
  MaxCalls = 2
  MaxFrames = 2
  MaxObjects = 2
INVARIANTS
  TypeOK
  GivenInOrder
  CountsHonoured
  SentOnce
\* the calls are bounded
CHECK_DEADLOCK FALSE
