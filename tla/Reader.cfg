SPECIFICATION Spec
CONSTANTS
  Size = 2
  MaxIdle = 1
  Lengths = {1, 2, 3, 6}
  MaxBytes = 8
INVARIANTS
  Boundary
  RoomFits
  LeftoverIsExact
PROPERTY EveryByteHandled
CHECK_DEADLOCK FALSE
