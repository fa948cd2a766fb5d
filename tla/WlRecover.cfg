SPECIFICATION Spec
CONSTANTS
  FLASH = 3
  MAX_COUNT = 1
  FACTOR = 2
  Vals = {1}
  Starts = {0}
  Counts = {1, 2}
  Written = {0, 1}
  CutState1 = TRUE
  CutCount = FALSE
INVARIANTS
  SurvivesReboot
