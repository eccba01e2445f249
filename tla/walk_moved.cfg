SPECIFICATION MSpec
CONSTANTS
  Node <- MCNode
  NoNode = 0
  Def <- MCDef
  Schema <- MCSchema
  Tables <- MovedTables
  Roots <- MovedRoots
  Value <- MovedValue
  Lists <- MovedLists
  Contents <- MovedContents
  Heaps <- MovedHeaps
  Targets <- MovedLists
  MaxWalkDepth = 10
  MaxRecursionDepth = 3
  MaxWrites = 1
INVARIANT AdmissionHeldOnce
CHECK_DEADLOCK FALSE
