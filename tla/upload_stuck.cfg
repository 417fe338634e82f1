SPECIFICATION Spec
CONSTANTS
  h1 = h1
  h2 = h2
  h3 = h3
  u1 = u1
  u2 = u2
  f1 = f1
  Handlers = {h1}
  Placements <- SingleProcess
  Users = {u1}
  Files = {f1}
  Total = 2
  Numbers = {1, 2}
  Quota = 4
  Engines = {"minio"}
  Orderly = TRUE
  FaultKinds = {"crash"}
  MaxFaults = 1
  MaxCalls = 5
CHECK_DEADLOCK FALSE
INVARIANT RecordedIsStored
