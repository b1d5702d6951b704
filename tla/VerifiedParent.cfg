SPECIFICATION Spec
CONSTANTS
  SporkRoots <- MCSporkRoots
  Seals <- MCSeals
  MaxHeight = 8
  Overrun = 0
  SporkSealTolerance = 2
  SkipBlocks = {}
  UseConsensusFollower = TRUE
  Cache = FALSE
  Resync = FALSE
  Signals = FALSE
  Faults = {"sibling", "swappedParent"}
  Word = 16
  None = None
INVARIANT
  Linked
