SPECIFICATION Spec
CONSTANTS
  SporkRoots <- MCSporkRoots
  Seals <- MCSeals
  MaxHeight = 8
  Overrun = 0
  SporkSealTolerance = 2
  SkipBlocks = {}
  UseConsensusFollower = TRUE
  Cache = TRUE
  Resync = FALSE
  Signals = TRUE
  Faults = {"sibling"}
  Word = 16
  None = None
INVARIANT
  NeverFatal
PROPERTY
  CatchesUp
