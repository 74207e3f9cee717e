CONSTANTS
  Owner = rep
  Accts = {a1, a2}
  None = None
  Figures <- MCFigures
  Thresholds = {20, 60}
  Reqs = {r1, r2}
  Ops <- AllOps
  Connections = {"none", "sandbox", "production"}
  TestData = {TRUE, FALSE}
  MaxDocs = 2
SPECIFICATION SaleSpec
INVARIANTS
  TypeOK
  StatusIsAccountedFor
  BooksAreSound
  AloneJudgesWhatItSigns
PROPERTIES
  AloneImplementsContract
SYMMETRY Symmetry
