SPECIFICATION Spec
CONSTANTS
  s1 = s1
  s2 = s2
  Servers = {s1}
  Clients = {s1}
  Ntrg = 1
  Ntrgs = {}
  NtrgAnytime = FALSE
  MaxHalted = 1
  MaxKey = 3
  MaxRuns = 2
  MaxLost = 0
  WordSize = 64
PROPERTIES PeriodicallyPublished
