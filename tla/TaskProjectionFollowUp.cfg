SPECIFICATION Spec
CONSTANTS
  t1 = t1
  n1 = n1
  Task <- OneTask
  NativeTask <- NoTask
  NativeState = {"WORKING", "COMPLETED"}
  FollowUps = TRUE
  Lossy = FALSE
  MaxEvents = 4
CHECK_DEADLOCK FALSE
INVARIANT AgreesWhenQuiet
