SPECIFICATION Spec
CONSTANTS
  mcp = mcp
  find1 = find1
  find2 = find2
  Process = {mcp, find1, find2}
  Server = {mcp}
  Learning <- McLearning
  Line <- McLine
  MaxLines = 2
  MaxMcpBatch = 2
  MaxFaults = 2
SYMMETRY Symmetry
INVARIANTS
  TypeOK
  RepliesTellTruth
  AloneIsStored
  LossIsReported
CHECK_DEADLOCK FALSE
