SPECIFICATION Spec
CONSTANTS
  Calls = {k1}
  Policies = {open, strict}
  Strict = strict
  Screens = {a, b}
  Servers = {s1}
  Nothing = Nothing
PROPERTY ReplacedIsStopped
