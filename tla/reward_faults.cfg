SPECIFICATION Spec
CONSTANTS
  u1 = u1
  u2 = u2
  r1 = r1
  r2 = r2
  r3 = r3
  Users = {u1, u2}
  Reqs = {r1, r2, r3}
  UserOf <- ThreeReqs
  Rows = {u1}
  Workers = {w1, w2}
  w1 = w1
  w2 = w2
  NoMsg = NoMsg
  InitialStock = 1
  MaxRetries = 1
  MaxFaults = 4
  FaultKinds = {"redis", "channel", "conn", "crash", "shutdown", "db", "insert", "link", "storage", "monitor"}
CHECK_DEADLOCK FALSE
INVARIANT TypeOK
INVARIANT WinsMatchStock
INVARIANT CreditMatchesRecords
INVARIANT OnlyAcceptedTravels
INVARIANT CreditsWithinStock
INVARIANT OneTransactionPerEvent
INVARIANT NothingVanishes
INVARIANT GivenUpAfterAllRetries
PROPERTY LedgerSpec
