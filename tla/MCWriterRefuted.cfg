SPECIFICATION Spec
CONSTANTS
  MaxKey = 3
  MaxRuns = 2
  MaxSize = 2
  Sizes = {1, 2}
  Speed = 2
  OpenFails = TRUE
  WriteFails = FALSE
PROPERTIES Kept TakenIsRecorded
