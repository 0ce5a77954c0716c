SPECIFICATION Spec
CONSTANTS
  Users = {u1, u2}
  Objects = {s1}
  s1 = s1
  Clients = {c1, c2}
  SequencerOf <- MCSequencerOf
  Floor = 1
  MaxSafe = 4
  MaxCrashes = 1
  Free = Free
  MaxMessages = 2
  MaxWakes = 2
  Views = {v1, v2}
  app = app
  Apps = {app}
  AppOf <- MCAppOf
  Hidden = Hidden
  Unset = Unset
  Loops = {l1, l2}
  Idle = Idle
CHECK_DEADLOCK FALSE
INVARIANTS ThreadsTypeOK FlagIsTold SuspendedIsWoken DetectorIsGone
PROPERTIES GapIsRepaired MutationEnds ForegroundIsHeard StopReturns
