SPECIFICATION Spec
CONSTANTS
  c1 = c1
  c2 = c2
  u1 = u1
  u2 = u2
  x1 = x1
  x2 = x2
  NoImei = NoImei
  NoId = NoId
  Conns = {c1, c2}
  Uids = {u1}
  Ids = {x1}
  Units <- OneUnit
  MaxIdle = 1
  MaxRecords = 1
  MaxMsgs = 1
  MaxFull = 0
  Env = {"signal", "panic"}
PROPERTIES
  StopReturns
  IdleReaped
  BatchSettled
  Drains
CHECK_DEADLOCK FALSE
