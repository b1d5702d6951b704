SPECIFICATION Spec
CONSTANTS
  a1 = a1
  a2 = a2
  p = p
  f1 = f1
  f2 = f2
  None = None
  Accounts <- MCAccounts
  Born <- MCBorn
  Proxies = {p}
  ProxyDeployed = FALSE
  Configured = {f1}
  Receivers <- MCReceivers
  Attempts = 2
  MaxHeight = 3
INVARIANTS
  NoFalseAlarm
  ToldThenRefused
  SuccessSound
PROPERTIES
  Detects
CHECK_DEADLOCK FALSE
