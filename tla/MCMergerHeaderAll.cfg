SPECIFICATION Spec
CONSTANTS
  Sources = {s1, s2}
  MaxKey = 2
  PurgeWindow = 1
  ForcePurge = 3
  HalfRange = 8
  DsNumber = 0
  RegisterDs = {}
  Processors = 2
  Orderly = TRUE
  MaxRegister = 1
  MaxRuns = 1
  MaxHeaders = 1
INVARIANTS HeaderToAll
