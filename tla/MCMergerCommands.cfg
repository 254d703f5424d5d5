SPECIFICATION Spec
CONSTANTS
  Sources = {s1, s2}
  MaxKey = 2
  PurgeWindow = 1
  ForcePurge = 2
  HalfRange = 8
  DsNumber = 0
  RegisterDs = {0, 1}
  Processors = 2
  Orderly = FALSE
  MaxRegister = 1
  MaxRuns = 2
  MaxHeaders = 1
INVARIANTS StartFindsNoThread HeaderWhereAsked
SYMMETRY SourceSymmetry
PROPERTIES EventsOnlyWhileStarted
