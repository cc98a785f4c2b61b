\* The cgroups of a running program.
SPECIFICATION Safety
CONSTANTS
  c1 = c1 c2 = c2
  usr = usr mnt = mnt pid = pid uts = uts time = time
  b1 = b1
  None = None
  Container = {c1, c2}
  Entry = {usr, mnt, pid, uts, time}
  Binary = {b1}
  TypeOf <- MCTypeOf
  Groups <- MCGroups
INVARIANT ConfinedAfterLaunch
CHECK_DEADLOCK FALSE
