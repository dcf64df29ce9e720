CONSTANTS
  t1 = t1 t2 = t2 t3 = t3 t4 = t4 t5 = t5 w1 = w1 w2 = w2 w3 = w3
  NoTask = NoTask
  Tasks = {t1, t2, t3, t4, t5}
  Impatient = {t1}
  Ids = {w1, w2, w3}
  Size = 3
  Threshold = 2
SPECIFICATION FairSpec
INVARIANTS
  TasksAccounted
PROPERTIES
  PoolSpec
  AcceptedTaskRuns
CHECK_DEADLOCK FALSE
