SPECIFICATION Spec
CONSTANTS
  Name <- SigmaName
  Fold <- SigmaFold
  Norm <- SigmaNorm
  FilenameHash <- SigmaHash
  Indexes <- SigmaIndexes
  HotWays = 1
  Capacities = {2}
  DefaultCapacity = 2
  Limits = {1}
  MaxCount = 2
INVARIANT
  TopNameIsHot
