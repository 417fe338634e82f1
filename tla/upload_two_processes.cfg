SPECIFICATION Spec
CONSTANTS
  h1 = h1
  h2 = h2
  h3 = h3
  u1 = u1
  u2 = u2
  f1 = f1
  Handlers = {h1, h2}
  Placements <- TwoProcesses
  Users = {u1}
  Files = {f1}
  Total = 2
  Numbers = {1, 2}
  Quota = 4
  Engines = {"minio"}
  Orderly = FALSE
  FaultKinds = {}
  MaxFaults = 0
  MaxCalls = 4
CHECK_DEADLOCK FALSE
INVARIANT NoLostUpdate
