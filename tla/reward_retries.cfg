SPECIFICATION FairSpec
CONSTANTS
  u1 = u1
  u2 = u2
  r1 = r1
  r2 = r2
  r3 = r3
  Users = {u1}
  Reqs = {r1}
  UserOf <- OneUser
  Rows = {u1}
  Workers = {w1, w2}
  w1 = w1
  w2 = w2
  NoMsg = NoMsg
  InitialStock = 1
  MaxRetries = 3
  MaxFaults = 3
  FaultKinds = {"db", "insert", "storage", "channel", "link"}
CHECK_DEADLOCK FALSE
INVARIANT OneCopy
PROPERTY AcceptedIsCredited
