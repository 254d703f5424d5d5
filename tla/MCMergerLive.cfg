SPECIFICATION Spec
CONSTANTS
  Sources = {s1, s2}
  MaxKey = 3
  PurgeWindow = 1
  ForcePurge = 4
  HalfRange = 8
  DsNumber = 0
  RegisterDs = {}
  Processors = 1
  Orderly = TRUE
  MaxRegister = 1
  MaxRuns = 1
  MaxHeaders = 0
PROPERTIES SentIsBuilt StopReturns
