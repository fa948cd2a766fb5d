SPECIFICATION Spec
CONSTANTS
  Senders = {s1, i1}
  Receivers = {r1}
  Isrs = {i1}
  Timeouts = TRUE
  xSize = 8
  HEADER = 2
  Splits = {TRUE, FALSE}
  Lens = {0, 1, 2}
  Uses = {"any"}
PROPERTIES
  UnsentNotReceived
