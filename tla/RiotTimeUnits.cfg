CONSTANTS
  NsPerUs = 2
  WORD = 40
  OfDay1 = 20
  Delays = {0, 1}
  MaxSleeps = 1
  MaxTime = 4
  NONE = NONE
SPECIFICATION TimeSpec
INVARIANT TimeInMicroseconds
CHECK_DEADLOCK FALSE
