SPECIFICATION LiveSpec
CONSTANTS
  pushed = pushed
  polled = polled
  Task <- PushedTask
  PushTask <- PushedTask
  Artifacts = FALSE
  Faulty = FALSE
  MaxRestarts = 0
  MaxWakes = 2
CHECK_DEADLOCK FALSE
PROPERTY Reawakened
