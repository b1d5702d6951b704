SPECIFICATION ReadSpec
CONSTANTS
  o = o
  p = p
  Accounts = {o, p}
  Forks = {f1}
  Blocks <- MCBlocks
  Root = 2
  MaxHeight = 4
  RepeatReset = TRUE
  NoAccount = NoAccount
  None = None
  Requests = {"balanceAtHeight"}
INVARIANTS
  BalanceByHeightCorrect
