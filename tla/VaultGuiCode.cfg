CONSTANTS
  Names = {n1, n2}
  Values = {v1}
  NoValue = NoValue
  NoName = NoName
  NoFile = NoFile
  Timeout = 2
  MaxPosted = 1
SPECIFICATION Spec
INVARIANT RecoveryCodeScrubbed
