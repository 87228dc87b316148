SPECIFICATION Spec
CONSTANTS
  c1 = c1
  c2 = c2
  Configs <- SomeConfigs
  Names <- SomeNames
  Loadable = {"Teltonika", "Ruptela", "Arnavi", "EGTS", "BCE"}
  Ports = {1, 2, 3}
  Conns = {c1, c2}
  MaxServers = 4
  Env = {"config", "stores", "taken", "hang", "panic"}
INVARIANTS
  TypeOK
  AllWantedServe
  ExitIsClean
  LogOpen
PROPERTIES
  StopEnds
  RepeatedSignalEnds
  ServersDrain
CHECK_DEADLOCK FALSE
