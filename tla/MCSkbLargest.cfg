SPECIFICATION FairSpec
CONSTANTS
  Node <- MCNode
  Kind <- MCKind
  Children <- MCChildren
  Root = "root"
  Size <- MCSize
  Path <- MCPath
  Text <- MCText
  Limit = 3
  MaxTotal = 11
INVARIANTS
  TypeOK
  LargestKept
  RanksExact
  TotalsExact
PROPERTY
  WalkEnds
CHECK_DEADLOCK FALSE
