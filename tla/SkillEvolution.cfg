SPECIFICATION Spec
CONSTANTS
  p1 = p1
  scheduler = scheduler
  command = command
  Policy <- OnePolicy
  AutoPublish <- OnePolicy
  AtStartup <- NoPolicies
  Runner <- Processes
  Lease = 2
  Interval = 2
  Retry = 1
  MinEvidence = 1
  MaxEvidence = 2
  MaxRuns = 3
  r1 = r1
  Resource <- OneResource
  NoPolicy = NoPolicy
SYMMETRY ProcessSymmetry
CHECK_DEADLOCK FALSE
INVARIANTS
  OneRunAtATime
  RunningIsRecoverable
  NoLostUpdate
  UnchangedEvidenceSkipped
