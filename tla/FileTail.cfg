SPECIFICATION Spec
CONSTANTS
  Counts = {1, 2, 3}
  Sizes = {3, 4, 5, 6, 7, 8, 9}
  MaxFile = 14
INVARIANTS LinesIntact LastLines
CHECK_DEADLOCK FALSE
