SPECIFICATION Spec
CONSTANTS
  h1 = h1
  h2 = h2
  h3 = h3
  u1 = u1
  u2 = u2
  f1 = f1
  Handlers = {h1, h2, h3}
  Placements <- SingleProcess
  Users = {u1, u2}
  Files = {f1}
  Total = 2
  Numbers = {1, 2}
  Quota = 4
  Engines = {"minio", "local"}
  Orderly = TRUE
  FaultKinds = {"store", "copy"}
  MaxFaults = 2
  MaxCalls = 6
CHECK_DEADLOCK FALSE
SYMMETRY HandlerSymmetry
INVARIANT RecordedIsStored
PROPERTY LedgerSpec
