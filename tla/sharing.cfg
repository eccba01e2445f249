SPECIFICATION Spec
CONSTANTS
  t1 = t1
  t2 = t2
  x = x
  y = y
  r = r
  s = s
  Nobody = Nobody
  Gone = Gone
  Refused = Refused
  Thread = {t1, t2}
  Address = {a1, a2, a3}
  Var = {x, y}
  Register = {r, s}
  Label <- MCLabel
  Arity <- MCArity
  Text = {"a", "("}
  Reads <- MCReads
  Word <- MCWord
  Bytes <- MCBytes
  Fits <- MCFits
  Kept = 3
  Work = 2
  Programs <- MCPrograms
SYMMETRY Alike
INVARIANTS DroppedOnTheSpot KeptProductsAreTrue MemosWeighWhatTheyHold AnswersAndChargesAlike BuiltTwiceIsOne
PROPERTY HandsWhatWasAsked
CHECK_DEADLOCK FALSE
