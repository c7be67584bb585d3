SPECIFICATION Spec
CONSTANTS
  Wires <- MCWires
  Circuits <- MCSmallCircuits
  Unsound <- MCUnsound
INVARIANT NoWireConsumedBeforeProduced
\* the constructor returns
CHECK_DEADLOCK FALSE
