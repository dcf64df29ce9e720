CONSTANTS
  c1 = c1 c2 = c2 r1 = r1
  Counters = {c1, c2}
  Configs <- SomeConfigs
  Scrapes = {r1}
  Increments = {1}
  MaxValue = 2
SPECIFICATION FairSpec
INVARIANTS
  LogAddsUp
PROPERTIES
  CountsAreLogged
CHECK_DEADLOCK FALSE
