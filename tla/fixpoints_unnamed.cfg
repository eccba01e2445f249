SPECIFICATION Spec
CONSTANTS
  t1 = t1
  t2 = t2
  Thread = {t1, t2}
  Programs <- UnionsAlone
  Read <- Compiled
  Prune <- Pruned
  Resolve <- ResolveSelf
  Unguarded <- OccursUnguardedUnder
  Measure <- MeasureOf
  MaxSchemaDepth = 4
  MaxDefinitions = 3
  MaxSchemaNodes = 16
  MaxComparisonDepth = 40
  MaxComparisonSteps = 400
  Height = 1
  Environments <- FreeSets
INVARIANT DefinitionsNameThemselves
CHECK_DEADLOCK FALSE
