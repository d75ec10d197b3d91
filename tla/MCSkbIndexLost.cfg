SPECIFICATION Spec
CONSTANTS
  s1 = s1
  s2 = s2
  r1 = r1
  Scanner = {s1, s2}
  Reader = {r1}
  MaxScans = 3
  MaxFaults = 3
PROPERTY
  IndexNotLost
