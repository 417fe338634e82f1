SPECIFICATION FairSpec
CONSTANTS
  a1 = a1
  a2 = a2
  t1 = t1
  t2 = t2
  Agents = {a1, a2}
  Tasks = {t1, t2}
  NoTask = NoTask
  FaultKinds = {"amqp", "stop", "kill", "network", "drain", "crash", "link"}
  MaxFaults = 2
CHECK_DEADLOCK FALSE
INVARIANT TypeOK
INVARIANT AcceptedIsKept
INVARIANT RerunsHaveCause
INVARIANT OnePlace
INVARIANT NoStuckDelivery
PROPERTY ForgetsOnlyRun
PROPERTY LedgerSpec
PROPERTY AcceptedIsRun
