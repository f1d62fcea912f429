CONSTANTS
  Cells = 1
  MaxPackets = 2
  MaxWrites = 1
  HeapEvents = 2
  NsPerUs = 2
  WORD = 20
  OfDay1 = 8
  Delays = {0, 1}
  MaxSleeps = 1
  MaxTime = 2
  NONE = NONE
SPECIFICATION LoopSpec
INVARIANTS
  LoopTypeOK
  TimersNotStarved
PROPERTY PacketServed
CHECK_DEADLOCK FALSE
