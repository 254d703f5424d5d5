SPECIFICATION Spec
CONSTANTS
  s1 = s1
  s2 = s2
  Servers = {s1, s2}
  Clients = {s1, s2}
  Ntrg = 1
  Ntrgs = {2}
  NtrgAnytime = FALSE
  MaxHalted = 1
  MaxKey = 3
  MaxRuns = 2
  MaxLost = 1
  WordSize = 64
INVARIANTS SameEvents BacklogBounded
PROPERTIES FeedsInOrder PostsToRunning
SYMMETRY ServerSymmetry
