SPECIFICATION Spec
CONSTANTS
  j1 = j1
  j2 = j2
  j3 = j3
  Jobs = {j1, j2, j3}
  NameOf <- HostNames
  Pids = {1, 2, 3, 4, 5}
  Signals = {"KILL"}
  ForkFails = TRUE
INVARIANTS JobInv RunsOnce
PROPERTIES OnlyInPlaceOfTheDead
