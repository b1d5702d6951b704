SPECIFICATION Spec
CONSTANTS
  o = o
  p = p
  Accounts = {o, p}
  Forks = {f1, f2}
  Blocks <- MCBlocks
  Root = 2
  MaxHeight = 5
  RepeatReset = TRUE
  NoAccount = NoAccount
  None = None
INVARIANTS
  TypeOK
  ChainIntact
  NoOrphans
  NothingBeyondLatest
  LatestServable
  Reconciles
  ProxiesHaveBalances
PROPERTIES
  ServedHistoryStable
  ImplementsLedger
SYMMETRY ForkSymmetry
