CONSTANTS
  Writer = wr
  Workers = {p1, p2}
  Subscribers = {s1, s2}
  Failing = {s2}
  MaxWrites = 3
  MaxFailures = 1
  StopPossible = TRUE
SPECIFICATION Spec
INVARIANTS TypeOK
PROPERTIES QueuedNotificationsRun
