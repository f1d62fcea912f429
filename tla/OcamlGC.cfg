SPECIFICATION GCSpec
CONSTANTS
  NMajor = 2
  NYoung = 1
  FirstFuns = {f}
  LastFuns = {l}
  MarkStackSize = 1
  MaxRoots = 2
  KeyEditPhases = {"idle", "clean", "sweep"}
INVARIANTS GCTypeOK NoDangling DeadStaysDead Remembered
PROPERTIES FinalisedWhenDead EpheDataKept
