SPECIFICATION Spec
CONSTANTS
  s1 = s1
  s2 = s2
  s3 = s3
  user = user
  fee = fee
  Payer = Payer
  Proxy = Proxy
  FirstKey = FirstKey
  SpareKey = SpareKey
  ColdKey = ColdKey
  Keys = {FirstKey, SpareKey, ColdKey}
  None = None
  Sessions <- MCSessions
  Requests <- MCProxyRequests
  FirstPins <- MCPins
  Resolved = {}
  Users = {user}
  FeeAddrs = {fee}
  Word = 4
  Expiry = 1
  MaxHeight = 4
  MaxTries <- MCMaxTries
INVARIANT SupportedOrdersExecute
CHECK_DEADLOCK FALSE
