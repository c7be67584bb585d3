SPECIFICATION FairSpec
CONSTANTS
  Circuits <- MCCircuits
  Moduli <- MCModuli
INVARIANT LeastFixpoint
PROPERTIES
  TypesNeverRevised
  Answers
\* the constructor returns
CHECK_DEADLOCK FALSE
