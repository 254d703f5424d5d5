SPECIFICATION Spec
CONSTANTS
  MaxKey = 4
  MaxRuns = 2
  MaxSize = 2
  Sizes = {1, 2}
  Speed = 2
  OpenFails = TRUE
  WriteFails = TRUE
INVARIANTS WriterInv AllRecorded ReadsBack
PROPERTIES KeptUnlessCarried
