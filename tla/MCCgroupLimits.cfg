\* A cgroup left by an earlier daemon keeps limits its declaration leaves out.
SPECIFICATION Spec
CONSTANTS
  Group = {g1}
  Root = Root
  Limits <- MCLimits
  Value = {1, 2}
  Unset = Unset
  Declared <- MCDeclared
  Process = {p}
  NoProcess = NoProcess
  MaxStarts = 2
INVARIANT LimitsAreReceived
CHECK_DEADLOCK FALSE
