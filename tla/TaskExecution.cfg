SPECIFICATION FairSpec
CONSTANTS
  a1 = a1
  t1 = t1
  t2 = t2
  w1 = w1
  w2 = w2
  Agent <- OneAgent
  Task <- OneTask
  Worker <- TwoWorkers
  WorkerLease = 2
  MaxExecution = 1
  DeliveryLimit = 2
  ExperienceEnabled = TRUE
  MaxRestarts = 1
  MaxClaims = 3
  NoWorker = NoWorker
  NoMessage = NoMessage
INVARIANTS
  ExecutorHoldsLease
  NoOverlappingExecution
  AnswersAreRecorded
  NothingLost
  ExperienceAfterAnswer
  QueuedOnce
PROPERTIES
  PromiseSpec
  SettledForGood
  EveryCommandSettles
