SPECIFICATION Spec
CONSTANTS
  nameA = nameA
  nameLog = nameLog
  nsX = nsX
  c1 = c1
  c2 = c2
  NoClient = NoClient
  NoRequest = NoRequest
  Client = {c1, c2}
  File = {nameA, nameLog}
  OldLog = {nameLog}
  Ns = {nsX}
  LogName <- MCLogName
  Request <- MCRequest
  Asks <- MCAsks
  Backlog = 1
  FdLimit = 3
  MaxRequests = 3
  MaxStarts = 2
INVARIANTS TypeOK InStep TraceExact AnswersOwn   DescriptorsAccounted NeverStuck
PROPERTIES OutcomeSpec ConfigSpec AnswerComes NextServed
CHECK_DEADLOCK FALSE
