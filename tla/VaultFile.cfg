CONSTANTS
  Names = {n1, n2, n3}
  LongNames = {n3}
  Values = {v1, v2}
  NoValue = NoValue
  NoName = NoName
  NoImage = NoImage
  CountBucket = 2
  RevealFails = TRUE
  MAGIC = 7
  MAX_ARGON2 = 3
  MAX_NAME_LEN = 2
  NAME_BUCKET = 3
  VALUE_BUCKET = 2
  COUNT_BUCKET = 2
  NotUtf8 = 8
  Bytes = {0, 1}
  MaxBlob = 1
  MaxRecords = 2
  MaxSecrets = 3
  MaxText = 3
SPECIFICATION FileSpec
SYMMETRY Symmetry
INVARIANTS TypeOK GetReturnsLatest ReopensAsStored CountHidden ReadsBack TornRejected MacTellsApart DamageShows SecretsReadBack HidesSizes
CHECK_DEADLOCK FALSE
