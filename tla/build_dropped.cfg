SPECIFICATION Spec
CONSTANTS
  Ann <- DroppedNames
  NoAnn = ""
  Reading <- Dropped
  RootAnns <- DroppedNames
  MaxSchemaDepth = 12
  MaxSchemaNodes = 60
  MaxDefinitions = 4
  MaxBuilds = 1
  MaxNested = 1
  MeaningDepth = 4
INVARIANTS NamesWhatItHolds
CHECK_DEADLOCK FALSE
