SPECIFICATION MSpec
CONSTANTS
  Node <- MCNode
  NoNode = 0
  Def <- MCDef
  Schema <- MCSchema
  Tables <- BoundTables
  Roots <- BoundRoots
  Value <- NestValue
  Lists <- NestLists
  Contents <- NestContents
  Heaps <- NestHeaps
  Targets <- NestTargets
  MaxWalkDepth = 8
  MaxRecursionDepth = 2
  MaxWrites = 0
INVARIANTS TypeOK Balanced SettledStopsKnown Sound Complete
CHECK_DEADLOCK FALSE
