SPECIFICATION Spec
CONSTANTS
  r1 = r1
  r2 = r2
  r3 = r3
  Run = {r1, r2, r3}
  Operation <- McOperation
  MaxFaults = 3
SYMMETRY Symmetry
INVARIANTS
  TypeOK
  OkMeansDone
PROPERTIES
  ProgramNotLost
CHECK_DEADLOCK FALSE
