\* A start cut short between mkdir and mount leaves later daemons unmounted.
SPECIFICATION Spec
CONSTANTS
  Group = {g1}
  Root = Root
  Limits <- MCLimits
  Value = {1, 2}
  Unset = Unset
  Declared <- MCDeclared
  Process = {p}
  NoProcess = NoProcess
  MaxStarts = 2
INVARIANT ControllersMounted
CHECK_DEADLOCK FALSE
