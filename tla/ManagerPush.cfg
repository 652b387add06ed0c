SPECIFICATION LiveSpec
CONSTANTS
  pushed = pushed
  polled = polled
  Task <- BothTasks
  PushTask <- PushedTask
  Artifacts = TRUE
  Faulty = TRUE
  MaxRestarts = 1
  MaxWakes = 2
CHECK_DEADLOCK FALSE
INVARIANTS
  WokenOnce
  SessionKept
  EndNeverOverlooked
PROPERTY ReawakenedUnlessMissed
