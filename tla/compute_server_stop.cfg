SPECIFICATION FairSpec
CONSTANTS
  a1 = a1
  a2 = a2
  t1 = t1
  t2 = t2
  Agents = {a1}
  Tasks = {t1}
  NoTask = NoTask
  FaultKinds = {"stop"}
  MaxFaults = 1
CHECK_DEADLOCK FALSE
PROPERTY ServerStops
