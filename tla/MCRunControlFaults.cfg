SPECIFICATION Spec
CONSTANTS
  b1 = b1
  b2 = b2
  s1 = s1
  s2 = s2
  s3 = s3
  trigger = trigger
  runcontrol = runcontrol
  Builders = {b1, b2}
  Servers = {s1, s2}
  Trigger = trigger
  RunCtrl = runcontrol
  Complete <- AllButOne
  Commands <- AllCommands
  MaxMishaps = 2
INVARIANTS StatesAgree RunIsReal ResourcesMatchStates
PROPERTIES KeepsOrder HandlerEnds
