CONSTANTS
  Processes = {p1, p2}
  Names = {n1, n2}
  Values = {v1}
  NoValue = NoValue
  Untouched = Untouched
  NoVault = NoVault
  MaxStamp = 4
  MaxFaults = 2
  MaxOutages = 1
SPECIFICATION Spec
SYMMETRY Symmetry
INVARIANTS TypeOK NeverTorn
PROPERTIES NoLostUpdate VaultSurvives RefusedOnlyIfChanged AtomicStore
CHECK_DEADLOCK FALSE
