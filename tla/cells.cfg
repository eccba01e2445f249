SPECIFICATION FairSpec
CONSTANTS
  Thread = {t1, t2}
  Cell <- AllCells
  Digest = {d1, d2}
  Programs <- TwoAtOnce
  MaxNested = 2
  Others = Others
  None = None
PROPERTIES OneValueEach AskingEnds
