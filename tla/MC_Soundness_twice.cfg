SPECIFICATION FairSpec
CONSTANTS
  Circuits <- TwoTypes
  Moduli <- MCModuli
PROPERTY DuplicatesRefused
\* the constructor returns
CHECK_DEADLOCK FALSE
