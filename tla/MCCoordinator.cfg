SPECIFICATION Spec
CONSTANTS
  MaxGeneration = 3
  LoopIds = {l1, l2}
  WakeIds = {w1}
  Connections = {c1, c2}
  Off = Off
SYMMETRY Symmetry
CHECK_DEADLOCK FALSE
INVARIANTS TypeOK SingleFlight QuietOutsidePublishing Recoverable SessionWithinGeneration AuthorityOfClient
PROPERTIES SendSpacing ShutdownIsExclusive
