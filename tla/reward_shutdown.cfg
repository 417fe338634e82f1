SPECIFICATION FairSpec
CONSTANTS
  u1 = u1
  u2 = u2
  r1 = r1
  r2 = r2
  r3 = r3
  Users = {u1, u2}
  Reqs = {r1, r3}
  UserOf <- TwoUsers
  Rows = {u1, u2}
  Workers = {w1}
  w1 = w1
  w2 = w2
  NoMsg = NoMsg
  InitialStock = 2
  MaxRetries = 1
  MaxFaults = 1
  FaultKinds = {"shutdown"}
CHECK_DEADLOCK FALSE
PROPERTY WinIsCredited
