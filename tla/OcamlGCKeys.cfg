SPECIFICATION GCSpec
CONSTANTS
  NMajor = 2
  NYoung = 1
  FirstFuns = {}
  LastFuns = {}
  MarkStackSize = 1
  MaxRoots = 2
  KeyEditPhases = {"idle", "mark_main", "mark_final", "clean", "sweep"}
INVARIANT CleanedDataMarked
