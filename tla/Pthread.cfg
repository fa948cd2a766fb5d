SPECIFICATION Spec
CONSTANTS
  Threads = {"t", "u"}
  Main = "main"
  Waiters = {"t", "u", "main"}
INVARIANTS
  DescriptorsKept
  WaitersListed
PROPERTIES
  DeletesStopped
  JoinReturns
  SignalledReturns
CHECK_DEADLOCK FALSE
