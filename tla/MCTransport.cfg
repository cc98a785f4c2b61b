CONSTANTS
  MaxStream = 5
  MaxWire = 5
  MaxSize = 3
SPECIFICATION Spec
INVARIANTS ReceivedInOrder ShortOnlyAtEnd WireIsAnswer StepsBackOnce NeverStuck
PROPERTIES BlockSpec RecvEnds SendEnds
CHECK_DEADLOCK FALSE
