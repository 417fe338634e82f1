SPECIFICATION FairSpec
CONSTANTS
  h1 = h1
  h2 = h2
  h3 = h3
  u1 = u1
  u2 = u2
  f1 = f1
  Handlers = {h1, h2}
  Placements <- AnyPlacement
  Users = {u1}
  Files = {f1}
  Total = 2
  Numbers = {1, 2, 3}
  Quota = 4
  Engines = {"minio"}
  Orderly = FALSE
  FaultKinds = {"store", "db", "ignored", "crash"}
  MaxFaults = 1
  MaxCalls = 5
CHECK_DEADLOCK FALSE
INVARIANT TypeOK
INVARIANT ReportedIsAccountedFor
INVARIANT MergedOnce
INVARIANT LockIsHeld
PROPERTY CallReturns
