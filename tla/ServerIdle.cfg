SPECIFICATION Spec
CONSTANTS
  c1 = c1
  c2 = c2
  u1 = u1
  u2 = u2
  x1 = x1
  x2 = x2
  NoImei = NoImei
  NoId = NoId
  Conns = {c1}
  Uids = {u1}
  Ids = {x1}
  Units <- OneUnit
  MaxIdle = 60
  MaxRecords = 0
  MaxMsgs = 1
  MaxFull = 0
  Env = {}
INVARIANTS
  ClosedAfterMaxIdle
CHECK_DEADLOCK FALSE
