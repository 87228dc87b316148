SPECIFICATION Spec
CONSTANTS
  MaxConns = 3
  MaxPacket = 3
  MaxStarts = 1
INVARIANTS
  AckedIsSafe
  OvertakenByLater
PROPERTY Delivers
CHECK_DEADLOCK FALSE
