SPECIFICATION LedgerSpec
CONSTANTS
  None = None
  Prices <- TwoPrices
  HandAmounts <- PlusMinus
  Parts = {50, 100}
  Sessions = {s1}
  Unit = 100
  Reqs = {r1, r2}
  Ops <- AllOps
  MaxInsts = 5
  MaxEntries = 5
  FewInsts = 3
  FewEntries = 2
  s1 = s1
  r1 = r1
  r2 = r2
INVARIANTS
  TypeOK
  InstalmentPostedOnce
  AloneMoneyAddsUp
  SessionPostedOnce
  ChargedIsBooked
PROPERTIES
  PaidInstalmentsAreKept
SYMMETRY Symmetry
