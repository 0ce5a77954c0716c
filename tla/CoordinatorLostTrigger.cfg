SPECIFICATION Spec
CONSTANTS
  MaxGeneration = 2
  LoopIds = {l1, l2}
  WakeIds = {w1}
  Connections = {c1}
  Off = Off
CHECK_DEADLOCK FALSE
INVARIANT RequestIsServed
