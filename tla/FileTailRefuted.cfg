SPECIFICATION Spec
CONSTANTS
  Counts = {1, 2, 3}
  Sizes = {3, 4, 5, 6, 7, 8}
  MaxFile = 12
INVARIANTS PrintsLines FindsLastLines
CHECK_DEADLOCK FALSE
