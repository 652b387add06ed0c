SPECIFICATION Spec
CONSTANTS
  a1 = a1
  a2 = a2
  t1 = t1
  t2 = t2
  m1 = m1
  m2 = m2
  ok = ok
  empty = empty
  NoMessage = NoMessage
  Agent <- MCAgent
  Task <- MCTask
  Message <- MCMessage
  Text <- MCText
  Empty = empty
  MaxLease = 2
  MaxClaims = 3
SYMMETRY Symmetry
INVARIANTS
  ExperienceOfCompletedTask
  NoOrphanRows
PROPERTIES
  ResultImmutable
  ReportImmutable
  LeaseHonoured
