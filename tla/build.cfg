SPECIFICATION MCSpec
CONSTANTS
  Ann <- AnnNames
  NoAnn = ""
  Reading <- Annotations
  RootAnns <- Roots
  MaxSchemaDepth = 7
  MaxSchemaNodes = 25
  MaxDefinitions = 4
  MaxBuilds = 2
  MaxNested = 2
  MeaningDepth = 4
INVARIANTS ScopesMatch TableIsWhole RefusedForCause ReadsAsWritten DeepIsDeep LargeIsLarge
CHECK_DEADLOCK FALSE
