SPECIFICATION Spec
CONSTANTS
  d1 = d1
  d2 = d2
  c1 = c1
  c2 = c2
  Daemon = {d1, d2}
  Client = {c1, c2}
  Connection = {1, 2}
  Deployments <- SmallListener
  MaxGen = 1
  MaxFailures = 1
INVARIANT
  StopIsAcknowledged
CHECK_DEADLOCK FALSE
