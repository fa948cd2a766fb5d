SPECIFICATION Spec
CONSTANTS
  AppCount = 2
  HasFactory = TRUE
  HasTest = FALSE
  ROLLBACK_ENABLE = TRUE
  ANTI_ROLLBACK = FALSE
  Versions = {1}
  Chunks = 2
  MaxSeq = 3
  Handles = {h1, h2}
  SecVerSize = 2
  FACTORY_RESET = FALSE
  OTA_DATA_ERASE = FALSE
  APP_TEST = FALSE
  Unstable = TRUE
  Reselect = FALSE
  ConfirmOther = FALSE
  Forget = TRUE
INVARIANTS
  RunningIntact
  SelectionHolds
  ConfirmHolds
  RollbackPromise
  BootViewAgrees
PROPERTIES
  SwitchAtomic
  TrialIsRun
  ConfirmedBeforeUpdate
SYMMETRY HandleSymmetry
