SPECIFICATION FairSpec
CONSTANTS
  Tiles <- MCTiles
  FileOf <- MCFileOf
  Part = {p1, p2}
  Limit = 3
INVARIANTS UsedIntact CompleteIsWhole BudgetOK QuietAtEnd
PROPERTIES StreamEnds
