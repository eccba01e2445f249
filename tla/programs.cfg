SPECIFICATION Spec
CONSTANTS
  Client = {c1, c2}
  Text <- Texts
  Invalid <- Broken
  Memory <- Weights
  Allowance = 5
  Schemas <- Asked
SYMMETRY Symmetric
INVARIANTS RefusalIsOfTheSchema UpkeepIsPaid
