SPECIFICATION FairSpec
CONSTANTS
  Node <- MCNode
  Kind <- MCKind
  Children <- MCChildren
  Root = "root"
  Text <- MCText
  TextSize <- MCTextSize
  MaxFiles = 3
  MaxPool = 10
  MaxDirs = 3
INVARIANTS
  TypeOK
  ScanExact
  PathsResolve
  DirectoriesInternedOnce
PROPERTY
  ScanEnds
CHECK_DEADLOCK FALSE
