SPECIFICATION Spec
CONSTANTS
  Defs <- MCDefs
  Vouched <- MCVouched
  ClassOf <- MCClassOf
  AsksInside <- MCAsksInside
  RelatesInside <- MCRelatesInside
  NoneDerives <- MCNoneDerives
  Outside <- MCOutside
  Decide <- MCDecide
  Scripts <- MCScripts
  DecisionBudget = 60
  MaxDecisionDepth = 12
  Respelling = 20
  RespellingAgain = 60
  ReadingsHeld = 4
  MaxDistributedTerms = 4
  MaxInside = 1
  MembersHeld = 3
  LeafReading = 4
  Height = 3
  Longer = 2000
INVARIANTS RelationsAreTrue KeptAnswersAreTrue NothingIsLeftOpen GoalsAreGuarded MoreStepsDecideAlike
CHECK_DEADLOCK FALSE
