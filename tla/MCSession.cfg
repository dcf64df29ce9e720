CONSTANTS
  p1 = p1
  Peers = {p1}
  SendCap = 1
  MaxUses = 2
SPECIFICATION FairSpec
INVARIANTS
  NoPanic
  ToldOnce
PROPERTIES
  ConnectionCloses
  GoneIsNoticed
  PingStops
CHECK_DEADLOCK FALSE
