SPECIFICATION Spec
CONSTANTS
  People = {ann, bob}
  Kind = "DM"
  Reqs = {r1, r2}
  Ops = {"create", "send", "read"}
  MaxMessages = 2
  MaxSends = 2
  None = None
PROPERTIES
  CursorsForward
CHECK_DEADLOCK FALSE
