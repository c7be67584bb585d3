SPECIFICATION FairSpec
CONSTANTS
  N = 3
  MaxFaults = 1
INVARIANTS
  TypeOK
  OneConnection
PROPERTIES
  AllConnected
  HangsOnlyOnUnavailable
\* the calls return, or wait for a party that is gone
CHECK_DEADLOCK FALSE
