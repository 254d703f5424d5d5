SPECIFICATION Spec
CONSTANTS
  Sources = {s1, s2}
  MaxKey = 1
  PurgeWindow = 1
  ForcePurge = 2
  HalfRange = 8
  DsNumber = 0
  RegisterDs = {}
  Processors = 1
  Orderly = TRUE
  MaxRegister = 1
  MaxRuns = 2
  MaxHeaders = 0
INVARIANTS CompleteNotHeld
