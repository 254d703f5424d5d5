SPECIFICATION Spec
CONSTANTS
  s1 = s1
  s2 = s2
  Servers = {s1, s2}
  Clients = {s1, s2}
  Ntrg = 1
  Ntrgs = {1}
  NtrgAnytime = FALSE
  MaxHalted = 1
  MaxKey = 3
  MaxRuns = 1
  MaxLost = 0
  WordSize = 64
PROPERTIES TriggerResumes StopsReturn
