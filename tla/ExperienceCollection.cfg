SPECIFICATION FairSpec
CONSTANTS
  a1 = a1
  t1 = t1
  w1 = w1
  w2 = w2
  Agent <- AgentSet
  Task <- TaskSet
  Worker <- WorkerSet
  WorkerLease = 2
  MaxCollection = 1
  DeliveryLimit = 1
  MaxCopies = 2
  MaxClaims = 5
  NoWorker = NoWorker
  NoMessage = NoMessage
CHECK_DEADLOCK FALSE
INVARIANTS
  CollectorHoldsLease
  ReportIsRemembered
  NothingUncollected
PROPERTIES
  NoWriteAfterReport
  EveryMessageSettles
