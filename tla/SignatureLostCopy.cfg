SPECIFICATION FairSpec
CONSTANTS
  None = None
  Envelopes = {e1}
  Reqs = {r1}
  e1 = e1
  r1 = r1
PROPERTIES
  SignedCopyArrives
CHECK_DEADLOCK FALSE
