CONSTANTS
  Procs = {p1, p2}
  Vaults = {a, b}
  NoVault = NoVault
  NoKey = NoKey
  MaxKeys = 3
SPECIFICATION Spec
SYMMETRY Symmetry
INVARIANTS TypeOK KeyKept SingleFactorIsStrong
PROPERTIES RightPassphraseOpens RecoveryOpens
