SPECIFICATION Spec
CONSTANTS
  MaxGeneration = 3
  LoopIds = {l1, l2}
  WakeIds = {w1, w2}
  Connections = {c1}
  Off = Off
CHECK_DEADLOCK FALSE
PROPERTY WakeJoinsClear
