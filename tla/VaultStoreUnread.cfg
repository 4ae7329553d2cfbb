CONSTANTS
  Processes = {p1, p2}
  Names = {n1, n2}
  Values = {v1}
  NoValue = NoValue
  Untouched = Untouched
  NoVault = NoVault
  MaxStamp = 4
  MaxFaults = 1
  MaxOutages = 0
SPECIFICATION Spec
SYMMETRY Symmetry

PROPERTY NoLostUpdateOutsideWindow
CHECK_DEADLOCK FALSE
