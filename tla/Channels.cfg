SPECIFICATION ChannelsSpec
CONSTANTS
  Sigs = {0}
  MaxSignals = 2
  MaxFinal = 1
  MaxDepth = 3
  BufSize = 2
  MaxOut = 2
  Writes = {2}
  InSize = 2
  Reads = {2}
  Newlines = {1}
  InputInRefill = FALSE
INVARIANTS FinalisersNotForgotten HandlerMasked OutputInOrder InputInOrder
PROPERTIES SignalsServed
