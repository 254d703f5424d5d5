SPECIFICATION Spec
CONSTANTS
  NSources = 2
  Layouts <- TwoBuilders
  Room = 1
  Ntrgs = {1, 2}
  WordSize = 64
  MaxKey = 2
  MaxConfigures = 1
  MaxChanges = 0
  MaxPollers = 1
PROPERTIES StandAlonePublishes
CHECK_DEADLOCK FALSE
