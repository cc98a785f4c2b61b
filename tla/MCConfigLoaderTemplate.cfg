\* The template a namespace is made from.
SPECIFICATION Spec
CONSTANTS
  n1 = n1 n2 = n2
  Name = {n1, n2}
  NoName = NoName
  NoObject = NoObject
  Id = {1, 2}
  Config <- MCConfig
  Request <- MCRequest
  MaxConfig = 3
INVARIANT TemplateHonoured
CHECK_DEADLOCK FALSE
