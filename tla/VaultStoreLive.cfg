CONSTANTS
  Processes = {p1, p2}
  Names = {n1}
  Values = {v1}
  NoValue = NoValue
  Untouched = Untouched
  NoVault = NoVault
  MaxStamp = 3
  MaxFaults = 1
  MaxOutages = 1
SPECIFICATION FairSpec
PROPERTY ClaimResolved
CHECK_DEADLOCK FALSE
