SPECIFICATION Spec
CONSTANTS
  AppCount = 2
  HasFactory = FALSE
  HasTest = FALSE
  ROLLBACK_ENABLE = TRUE
  ANTI_ROLLBACK = TRUE
  Versions = {1, 2}
  Chunks = 2
  MaxSeq = 3
  Handles = {h1}
  SecVerSize = 2
  FACTORY_RESET = TRUE
  OTA_DATA_ERASE = FALSE
  APP_TEST = TRUE
  Unstable = TRUE
  Reselect = TRUE
  ConfirmOther = FALSE
  Forget = FALSE
INVARIANTS
  RunningNotRevoked
  NeverBricked
PROPERTIES
  FusesFollowGoodApp
