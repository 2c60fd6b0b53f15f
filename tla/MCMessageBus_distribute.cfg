SPECIFICATION FairSpec
CONSTANTS
  t1 = t1
  t2 = t2
  c1 = c1
  Threads <- MCThread
  Clients <- MCClients
  Manager = Manager
  Off = Off
  NoMsg = NoMsg
  Routes <- MCSelfRoutes
  QueueLimit = 1
  Delays = {1}
  MayStop = TRUE
  MaxTime = 1
  MaxMsgs = 1
PROPERTY
  ArrivesOrStopped
CHECK_DEADLOCK FALSE
