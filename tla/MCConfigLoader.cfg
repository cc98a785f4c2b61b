\* The registry: any three configurations of two blocks, containers served in
\* between.  The daemon ends with the first malformed block or unknown name.
SPECIFICATION Spec
CONSTANTS
  n1 = n1 n2 = n2
  Name = {n1, n2}
  NoName = NoName
  NoObject = NoObject
  Id = {1, 2}
  Config <- MCConfig
  Request <- MCRequest
  MaxConfig = 3
INVARIANT NameMeansObject
PROPERTIES WriteOnce ConfigSpec
CHECK_DEADLOCK FALSE
