CONSTANTS
  Cells = 2
  MaxPackets = 3
  MaxWrites = 1
  HeapEvents = 2
SPECIFICATION Spec
INVARIANTS
  TypeOK
  OverlapBranchDead
  OneDeliveryPerEvent
  SharedCoherent
  DeliveryWindow
  WriteWindow
PROPERTIES
  EventuallyDelivered
  ImplementsMailbox
CHECK_DEADLOCK FALSE
