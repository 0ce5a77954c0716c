SPECIFICATION LiveSpec
CONSTANTS
  MaxGeneration = 3
  LoopIds = {l1}
  WakeIds = {w1, w2}
  Connections = {c1}
  Off = Off
CHECK_DEADLOCK FALSE
PROPERTIES ActsAsDesk ActivePublishes NegotiationSettles DegradedTriesAgain WakeResumes ShutdownReturns
