\* Three starts, with a failure possible between any two system calls: the next
\* daemon finds whatever the first one left.  When it ends nothing follows.
SPECIFICATION Spec
CONSTANTS
  Group = {g1, g2}
  Root = Root
  Limits <- MCLimits
  Value = {1, 2}
  Unset = Unset
  Declared <- MCDeclared
  Process = {p}
  NoProcess = NoProcess
  MaxStarts = 3
INVARIANTS MountedAtMostOnce KnownIsLimited
PROPERTIES LimitsStable AddedToBoth
CHECK_DEADLOCK FALSE
