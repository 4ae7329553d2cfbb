CONSTANTS
  Names = {n1, n2, n3}
  LongNames = {n3}
  Values = {v1, v2}
  NoValue = NoValue
  NoName = NoName
  NoImage = NoImage
  CountBucket = 2
  RevealFails = FALSE
SPECIFICATION Spec
SYMMETRY Symmetry
INVARIANT SavedUnlocks
CHECK_DEADLOCK FALSE
