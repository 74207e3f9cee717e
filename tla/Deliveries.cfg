SPECIFICATION DeliveriesSpec
CONSTANTS
  None = None
  Envelopes = {e1}
  Reqs = {r1, r2}
  Blank = Blank
  e1 = e1
  r1 = r1
  r2 = r2
  s1 = s1
  s2 = s2
  vfw = vfw
  gfc = gfc
  slot = slot
  Last = 3
  Polls = {1, 2}
  Subjects = {1, 2}
  Runs = {1, 2}
  Troubles = {"refused", "crash", "unlogged"}
  Cooldown = 2
  MaxMails = 2
  Few = {1}
INVARIANTS
  DeliveriesTypeOK
  OutcomeOnce
  OnceEach
PROPERTIES
  OutcomeIsFinal
  OutcomeArrives
  NothingIsStuck
CHECK_DEADLOCK FALSE
