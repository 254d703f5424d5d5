SPECIFICATION Spec
CONSTANTS
  Sources = {s1, s2}
  MaxKey = 3
  PurgeWindow = 1
  ForcePurge = 3
  HalfRange = 8
  DsNumber = 0
  RegisterDs = {2}
  Processors = 1
  Orderly = TRUE
  MaxRegister = 1
  MaxRuns = 2
  MaxHeaders = 0
INVARIANTS IInv BuiltComplete BuiltWhenComplete
PROPERTIES BuiltInOrder OnlyHopelessPurged MapBounded RefinesAssembly
