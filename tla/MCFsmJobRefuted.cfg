SPECIFICATION Spec
CONSTANTS
  j1 = j1
  j2 = j2
  j3 = j3
  Jobs = {j1, j2, j3}
  NameOf <- HostNames
  Pids = {1, 2, 3, 4}
  Signals = {"KILL"}
  ForkFails = FALSE
INVARIANTS EntriesAreTrue
PROPERTIES RestartsThisProcess
