SPECIFICATION Spec
CONSTANTS
  Tasks = {"a", "b"}
  LoopTask = "loop"
  Handlers = {1, 101, 111, 112, 211}
  Events = {11}
  QueueSize = 1
  MaxHandlers = 3
  SelfRemoved = {111, 112, 211}
  Late = {111}
CHECK_DEADLOCK FALSE
INVARIANTS
  CalledInOrder
  NoUseAfterFree
PROPERTIES
  QueueServed
