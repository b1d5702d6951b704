SPECIFICATION Spec
CONSTANTS
  SporkRoots <- MCSporkRoots
  Seals <- MCSeals
  MaxHeight = 9
  Overrun = 3
  SporkSealTolerance = 2
  SkipBlocks = {6}
  UseConsensusFollower = TRUE
  Cache = FALSE
  Resync = TRUE
  Signals = FALSE
  Faults = {"badPayload", "garbledParent", "sibling", "canceled", "badEvents"}
  Word = 16
  None = None
INVARIANTS
  Finalized
  Linked
  EventsAuthentic
  LastIndexedStored
