SPECIFICATION WindowSpec
CONSTANTS
  r1 = r1
  r2 = r2
  a1 = a1
  a2 = a2
  None = None
  Requests = {r1, r2}
  Addresses = {a1, a2}
  Credentials <- AllCredentials
  Workloads <- FourWorkloads
  Measured <- OneAddressOnly
  MaxWindow = 8
  Limiters = {1, 2, 3, 4}
  Burst = 2
  Rate = 1
  IdleTime = 3
  SweepTime = 1
  MaxDelay = 1
  MaxFaults = 1
INVARIANT TypeOK
INVARIANT OneLimiterPerAddress
INVARIANT IdleForgotten
INVARIANT WithinRate
INVARIANT RegisteredOnce
INVARIANT TokensAreOwned
PROPERTY BucketSpec
