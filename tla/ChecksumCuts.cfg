CONSTANTS
  BASE = 3
  LANES = 4
  SUMBYTES = 4
  MaxBytes = 4
SPECIFICATION CsSpec
INVARIANT CutsDoNotMatter
CHECK_DEADLOCK FALSE
