SPECIFICATION Spec
CONSTANTS
  a1 = a1
  a2 = a2
  t1 = t1
  t2 = t2
  Agents = {a1}
  Tasks = {t1}
  NoTask = NoTask
  FaultKinds = {"drain"}
  MaxFaults = 1
CHECK_DEADLOCK FALSE
INVARIANT LeavesIdle
