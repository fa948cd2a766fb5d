SPECIFICATION FairSpec
CONSTANTS
  AppCount = 2
  HasFactory = FALSE
  HasTest = TRUE
  ROLLBACK_ENABLE = FALSE
  ANTI_ROLLBACK = FALSE
  Versions = {1}
  Chunks = 1
  MaxSeq = 3
  Handles = {h1}
  SecVerSize = 2
  FACTORY_RESET = TRUE
  OTA_DATA_ERASE = TRUE
  APP_TEST = TRUE
  Unstable = TRUE
  Reselect = TRUE
  ConfirmOther = TRUE
  Forget = TRUE
PROPERTIES
  EventuallyRuns
