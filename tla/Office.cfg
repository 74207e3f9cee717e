SPECIFICATION Spec
CONSTANTS
  None = None
  owner = owner
  boss = boss
  guest = guest
  other = other
  ADMIN = ADMIN
  INTERN = INTERN
  FIELD = FIELD
  r1 = r1
  Reqs = {r1, r2}
  Deputies = {cleo, dana}
  Joiners = {boss, guest}
  Runners = {boss, peer, guest}
  Rushers = {boss, guest, other}
  Invites = {i1}
  BuiltInRoles = {ADMIN, INTERN}
  CustomRoles = {FIELD}
  MaxOtpAttempts = 2
  MaxCodes = 2
  MaxAttempts = 2
  MaxWrong = 3
  MaxVersion = 2
  MaxLinks = 2
  FewLinks = 1
  MaxSecrets = 2
  Realms = {acme, globex}
  MaxStarted = 2
  MaxTokens = 4
  MoreTokens = 5
  Mailers = {box1, box2, box3}
  MaxPasswords = 2
  MaxWrites = 6
SYMMETRY Symmetry
INVARIANTS
  OfficeTypeOK
  
  ConnectionHolds
  MailboxHolds
  InvitationsHold
  AnAdminRemains
  AccessFollowsProof
  AdministrationHolds
PROPERTIES
  
  RolesAreGiven
  AdministrationKeeps
CHECK_DEADLOCK FALSE
