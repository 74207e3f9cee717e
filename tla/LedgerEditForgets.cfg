SPECIFICATION OnePart
CONSTANTS
  None = None
  Prices <- OnePrice
  HandAmounts = {100}
  Parts = {100}
  Sessions = {}
  Unit = 1
  Reqs = {r1}
  Ops = {"pay", "update"}
  MaxInsts = 0
  MaxEntries = 4
  FewInsts = 0
  FewEntries = 4
  r1 = r1
INVARIANTS
  MoneyFollowsLedger
CHECK_DEADLOCK FALSE
