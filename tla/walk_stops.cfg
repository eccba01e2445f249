SPECIFICATION StopsSpec
CONSTANTS
  Node <- MCNode
  NoNode = 0
  Def <- MCDef
  Schema <- MCSchema
  Tables <- StopTables
  Roots <- StopRoots
  Value <- StopValue
  Lists <- StopLists
  Contents <- StopContents
  Heaps <- StopHeaps
  Targets <- StopTargets
  MaxWalkDepth = 10
  MaxRecursionDepth = 3
  MaxWrites = 1
INVARIANTS AdmissionHeldOnce
PROPERTIES FatalUnwinds WalkEnds
CHECK_DEADLOCK FALSE
