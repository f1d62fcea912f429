CONSTANTS
  NsPerUs = 2
  WORD = 40
  OfDay1 = 20
  Delays = {0, 1}
  MaxSleeps = 2
  MaxTime = 5
  NONE = NONE
SPECIFICATION TimeSpec
INVARIANTS
  TimeTypeOK
  QueuedOnce
  OneOutcome
  NeverEarly
  NoImmediateWakeup
  WaitsForEarliest
PROPERTIES
  TimerFindsWork
  DueSleeperWoken
CHECK_DEADLOCK FALSE
