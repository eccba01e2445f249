SPECIFICATION Spec
CONSTANTS
  Defs <- MCDefs
  Vouched <- MCVouched
  ClassOf <- MCClassOf
  AsksInside <- MCAsksInside
  Outside <- MCOutside
  Decide <- MCDecide
  Scripts <- MCScripts
  DecisionBudget = 190
  Longer = 5000
  MaxDecisionDepth = 20
  Respelling = 20
  RespellingAgain = 60
  ReadingsHeld = 4
  MaxDistributedTerms = 4
  MaxInside = 1
  Height = 5
INVARIANTS AnswersAreTrue KeptVerdictsAreTrue TheMemoTakesNoAnswer MoreStepsAnswerAlike HypothesesEndIt
CHECK_DEADLOCK FALSE
