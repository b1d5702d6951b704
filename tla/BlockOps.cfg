SPECIFICATION Spec
CONSTANTS
  origin = origin
  other = other
  fees = fees
  new1 = new1
  new2 = new2
  NoAccount = NoAccount
  Addrs <- MCAddrs
  Originators <- MCOriginators
  FeeAddr = fees
  Outsiders <- MCOutsiders
  Funds = 15
  Fee = 1
  Reserve = 1
  Amounts = {4}
  MaxOurs = 3
  MaxOthers = 3
  BlockSize = 2
SYMMETRY MCSymmetry
INVARIANTS
  RestartNeutral
  BalancesMatch
  FeesMatch
  NeverStuck
