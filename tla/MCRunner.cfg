CONSTANTS
  p1 = p1 p2 = p2 None = None
  Ports = {p1, p2}
  WsPort = p1
  Configs <- SomeConfigs
  MaxSignals <- FewSignals
SPECIFICATION FairSpec
INVARIANTS
  TypeOK
  NoFalseAlarm
  NodeStopsLast
PROPERTIES
  ServersComeUp
  FailureEndsProcess
  
CHECK_DEADLOCK FALSE
