CONSTANTS
  BASE = 3
  LANES = 4
  SUMBYTES = 4
  MaxBytes = 6
SPECIFICATION CsSpec
INVARIANTS
  CsTypeOK
  SumStandsForPrefix
  ListChecksum
  SingleChecksum
CHECK_DEADLOCK FALSE
