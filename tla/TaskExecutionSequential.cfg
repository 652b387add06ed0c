SPECIFICATION Spec
CONSTANTS
  a1 = a1
  t1 = t1
  t2 = t2
  w1 = w1
  w2 = w2
  Agent <- OneAgent
  Task <- TwoTasks
  Worker <- TwoWorkers
  WorkerLease = 1
  MaxExecution = 0
  DeliveryLimit = 1
  ExperienceEnabled = FALSE
  MaxRestarts = 0
  MaxClaims = 4
  NoWorker = NoWorker
  NoMessage = NoMessage
SYMMETRY TaskWorkerSymmetry
INVARIANT SequentialPartition
