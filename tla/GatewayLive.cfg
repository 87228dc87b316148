SPECIFICATION Spec
CONSTANTS
  MaxConns = 2
  MaxPacket = 2
  MaxStarts = 1
PROPERTIES
  AckedIsSettled
  NeverLeftWaiting
CHECK_DEADLOCK FALSE
