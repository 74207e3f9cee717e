SPECIFICATION Spec
CONSTANTS
  e1 = e1
  e2 = e2
  p1 = p1
  p2 = p2
  a1 = a1
  a2 = a2
  t1 = t1
  t2 = t2
  f1 = f1
  f2 = f2
  rep = rep
  mgr = mgr
  acct = acct
  chief = chief
  Talkers = {ann, bob}
  r1 = r1
  Reqs = {r1, r2}
  CrossingMessages = 2
  ReadMessages = 3
  GroupMessages = 1
  Crowd = {s1, s2, s3}
  CrowdRows = 4
  Pair = {s1, s2}
  PairRows = 3
  typing = typing
  read = read
  events = events
  Typings = 2
  Calls = 3
  Ttl = 3
  Block = 3
  SweepEvery = 3
  MaxSaid = 2
  FewSaid = 1
  MaxMoves = 2
  FewMoves = 1
  None = None
  Asked = Asked
PROPERTIES
  AskingDecidesNothing
CHECK_DEADLOCK FALSE
