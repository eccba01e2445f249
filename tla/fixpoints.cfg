SPECIFICATION Spec
CONSTANTS
  t1 = t1
  t2 = t2
  Thread = {t1, t2}
  Programs <- MCPrograms
  Read <- Compiled
  Prune <- Pruned
  Resolve <- ResolveSelf
  Unguarded <- OccursUnguardedUnder
  Measure <- MeasureOf
  MaxSchemaDepth = 4
  MaxDefinitions = 4
  MaxSchemaNodes = 26
  MaxComparisonDepth = 40
  MaxComparisonSteps = 400
  Height = 2
  Environments <- FreeSets
INVARIANTS RefusedForCause ReadsAsWritten EqualIsSame EqualHashAlike SameIsEqual
PROPERTY MarkersAreOfRunning
CHECK_DEADLOCK FALSE
