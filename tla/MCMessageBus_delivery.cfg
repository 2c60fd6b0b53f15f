SPECIFICATION Spec
CONSTANTS
  t1 = t1
  t2 = t2
  c1 = c1
  Threads <- MCThreads
  Clients <- MCClients
  Manager = Manager
  Off = Off
  NoMsg = NoMsg
  Routes <- MCChainRoutes
  QueueLimit = 1
  Delays = {1}
  MayStop = FALSE
  MaxTime = 2
  MaxMsgs = 2
INVARIANTS
  TypeOK
PROPERTY
  ImplementsDelivery
CHECK_DEADLOCK FALSE
