SPECIFICATION Spec
CONSTANTS
  Calls = {k1, k2}
  Policies = {open, strict}
  Strict = strict
  Screens = {a, b}
  Servers = {s1}
  Nothing = Nothing
INVARIANT ConfirmedWhatWasSeen
