\* The launches: two requests, every interleaving of the daemon, the two
\* children and the failures.  The system may stop: the daemon ends with the
\* first failing request.
SPECIFICATION Spec
CONSTANTS
  c1 = c1 c2 = c2
  usr = usr mnt = mnt pid = pid uts = uts time = time
  b1 = b1
  None = None
  Container = {c1, c2}
  Entry = {usr, mnt, pid, uts, time}
  Binary = {b1}
  TypeOf <- MCTypeOf
  Groups <- MCGroups
INVARIANTS TypeOK CreatedOnce FirstPidIsCreator HandleNamesCreator MapsBeforeProgram
           ActiveIsComplete ConfinedOrLaunching IsolatedRoot NeverStuck
PROPERTIES LifecycleSpec OutcomeSpec ChildSettles LaunchEnds
CHECK_DEADLOCK FALSE
