SPECIFICATION Spec
CONSTANTS
  NSources = 2
  Layouts <- AnyLayout
  Room = 1
  Ntrgs = {1, 2}
  WordSize = 64
  MaxKey = 2
  MaxConfigures = 2
  MaxChanges = 1
  MaxPollers = 1
INVARIANTS QuietUnlessRunning Survives WholeEvents
PROPERTIES ActsAsDataServer StopReturns
CHECK_DEADLOCK FALSE
