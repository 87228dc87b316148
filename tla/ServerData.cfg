SPECIFICATION Spec
CONSTANTS
  c1 = c1
  c2 = c2
  u1 = u1
  u2 = u2
  x1 = x1
  x2 = x2
  NoImei = NoImei
  NoId = NoId
  Conns = {c1}
  Uids = {u1, u2}
  Ids = {x1, x2}
  Units <- TwoUnits
  MaxIdle = 0
  MaxRecords = 2
  MaxMsgs = 2
  MaxFull = 0
  Env = {"signal", "panic", "pgsql", "mongo"}
INVARIANTS
  LossWindow
  StoredOnceInOrder
  FiledUnderOwner
  DropEndsSession
CHECK_DEADLOCK FALSE
