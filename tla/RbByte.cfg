SPECIFICATION FairSpec
CONSTANTS
  Senders = {s1, i1}
  Receivers = {r1}
  Isrs = {i1}
  Timeouts = TRUE
  xSize = 3
  Byte = {0, 1}
  MaxSizes = {0, 1, 2}
INVARIANTS
  PointersAgree
  TxNotLost
  RxNotLost
PROPERTIES
  ImplementsFifo
  EventuallyRead
  EventuallySent
