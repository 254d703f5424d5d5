SPECIFICATION Spec
CONSTANTS
  p1 = p1
  p2 = p2
  Plugins = {p1, p2}
  Apps = {"monitorApplication", "supervisor", "lsc"}
INVARIANTS PortFree Monitors StatusOneAtATime
