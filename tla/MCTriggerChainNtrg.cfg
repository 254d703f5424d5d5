SPECIFICATION Spec
CONSTANTS
  s1 = s1
  s2 = s2
  Servers = {s1}
  Clients = {s1}
  Ntrg = 2
  Ntrgs = {1}
  NtrgAnytime = TRUE
  MaxHalted = 1
  MaxKey = 3
  MaxRuns = 2
  MaxLost = 0
  WordSize = 64
PROPERTIES FeedsInOrder
