SPECIFICATION Spec
CONSTANTS
  d1 = d1
  d2 = d2
  c1 = c1
  c2 = c2
  Daemon = {d1, d2}
  Client = {c1, c2}
  Connection = {1, 2}
  Deployments <- All
  MaxGen = 2
  MaxFailures = 1
INVARIANTS
  TypeOK
  OneGeneration
PROPERTIES
  AcknowledgedStopEnds
  EveryRequestEnds
CHECK_DEADLOCK FALSE
