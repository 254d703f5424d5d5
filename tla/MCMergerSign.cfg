SPECIFICATION Spec
CONSTANTS
  Sources = {s1, s2}
  MaxKey = 4
  PurgeWindow = 1
  ForcePurge = 4
  HalfRange = 3
  DsNumber = 0
  RegisterDs = {}
  Processors = 1
  Orderly = TRUE
  MaxRegister = 1
  MaxRuns = 1
  MaxHeaders = 0
PROPERTIES OnlyOldPurged
