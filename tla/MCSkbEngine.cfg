SPECIFICATION Spec
CONSTANTS
  Name <- MCName
  Fold <- MCFold
  Norm <- MCNorm
  FilenameHash <- MCHash
  Indexes <- MCIndexes
  HotWays = 1
  Capacities = {0, 2}
  DefaultCapacity = 2
  Limits = {0}
  MaxCount = 2
INVARIANTS
  TypeOK
  LayersAgree
  HotUsageFresh
  TopNameIsHot
  HotNamesAgree
  ReplyIsCurrent
