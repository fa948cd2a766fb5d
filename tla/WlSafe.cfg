SPECIFICATION Spec
CONSTANTS
  FLASH = 4
  MAX_COUNT = 2
  FACTOR = 2
  Vals = {1}
  Starts = {1}
  Counts = {2}
  Written = {0}
  CutState1 = FALSE
  CutCount = FALSE
INVARIANTS
  StateConsistent
PROPERTIES
  DiskSurvives
