SPECIFICATION InvoiceSpec
CONSTANTS
  None = None
  Sales = {s1, s2, s3}
  BrandOf <- TwoBrands
  Prefixes = {vfw, gfc}
  Blank = Blank
  FirstPrefix <- TwoPrefixes
  HandSeqs = {2, 10}
  MaxSequence = 3
  Reqs = {r1, r2}
  Ops = {"create", "approve", "void", "generate", "export", "number", "prefix"}
  s1 = s1
  s2 = s2
  s3 = s3
  vfw = vfw
  gfc = gfc
  r1 = r1
  r2 = r2
SYMMETRY Symmetry
INVARIANTS
  TypeOK
  RefsAreGapless
  AloneSequenceIsAhead
CHECK_DEADLOCK FALSE
