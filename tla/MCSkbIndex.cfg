SPECIFICATION FairSpec
CONSTANTS
  Name <- MCName
  Fold <- MCFold
  FilenameHash <- MCFilenameHash
  HashSpace = 8
  MaxFiles = 4
  SmallBuckets = 2
  MediumBuckets = 4
  LargeBuckets = 8
  MediumThreshold = 2
  LargeThreshold = 4
INVARIANTS
  TypeOK
  HashRangeExact
  VisitIsPrefixOfCandidates
PROPERTIES
  ImplementsCatalog
  RebuildEnds
CHECK_DEADLOCK FALSE
