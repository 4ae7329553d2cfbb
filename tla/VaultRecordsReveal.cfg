CONSTANTS
  Names = {n1, n2, n3}
  LongNames = {}
  Values = {v1, v2}
  NoValue = NoValue
  NoName = NoName
  NoImage = NoImage
  CountBucket = 2
  RevealFails = TRUE
SPECIFICATION Spec
SYMMETRY Symmetry
INVARIANT NoWrongKey
CHECK_DEADLOCK FALSE
