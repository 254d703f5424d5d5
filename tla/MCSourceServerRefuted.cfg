SPECIFICATION Spec
CONSTANTS
  NSources = 2
  Layouts <- Twins
  Room = 1
  Ntrgs = {1, 2}
  WordSize = 64
  MaxKey = 2
  MaxConfigures = 1
  MaxChanges = 1
  MaxPollers = 1
INVARIANTS AlwaysQuiet EveryBuilderConnected
CHECK_DEADLOCK FALSE
