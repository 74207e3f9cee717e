--------------------------- MODULE MCOfficeProofs ---------------------------
(***************************************************************************)
(* What the run Office checks of accounts, sign-in, OAuth and mailboxes,   *)
(* for every value of MCOffice's constants.  A behaviour follows one part  *)
(* from its start, and a part is a behaviour of the module it instantiates;*)
(* each lemma ...Is says that MCOffice's instance of the module and that   *)
(* of OfficeProofs are the same, each ...Holds brings the theorem over.    *)
(***************************************************************************)
EXTENDS MCOffice, TLAPS

state == <<part, people, admin, office>>

(* The part decides which side of the program steps.                       *)
LEMMA PeopleRuns ==
  part \in {"joining", "running", "rushing", "entering", "proving", "leaving", "barring", "changing"}
  => ~AdminNext /\ ~OfficeNext
BY DEF AdminNext, OfficeNext

LEMMA OfficeRuns ==
  part \in {"alone", "lossy", "racing", "docusign", "mailboxes"} => ~AdminNext /\ ~PeopleNext
BY DEF AdminNext, PeopleNext

(* The parts joining, entering, alone and mailboxes; what OfficeProofs says  *)
(* of the other modules is not used, and its constants are given None.     *)
One == INSTANCE OfficeProofs WITH
  People <- Joiners, Admins <- {boss}, BuiltIn <- BuiltInRoles, Custom <- {}, Admin <- ADMIN,
  Fallback <- INTERN, Reqs <- {r1},
  Ops <- Admission,
  Visits <- {r1}, VisitOps <- {"login", "google", "forgot", "change"},
  MaxWrong <- MaxWrong, MaxLinks <- MaxLinks, MaxSecrets <- 0,
  Provider <- "qbo", Users <- Deputies, Calls <- {r1},
  CallOps <- {"connect", "disconnect", "use"}, MaxStarted <- MaxStarted, MaxTokens <- MaxTokens,
  Accounts <- Mailers, Writes <- {r1}, WriteOps <- {"create", "update", "activate", "remove", "send"},
  Owner <- None, Approvers <- None, Thresholds <- None, MaxPct <- None, MaxSales <- None,
  MaxHours <- None, BaseRate <- None, Amounts <- None, Currencies <- None, Values <- None,
  LastDay <- None, MaxSaves <- None, Keys <- None, Secrets <- None, Env <- None, Crossing <-
  None, Garbled <- None, Fields <- None, Optional <- None, Figures <- None, OneField <-
  None, MaxEdits <- None, Brands <- None, Details <- None, Reps <- None, Office <- None,
  Sales <- None, Files <- None, rates <- fxRates, history <- snapshots, page <- mailList,
  seen <- cardSeen, typed <- cardTyped

(* None is none of the records a variable holds.                           *)
NothingElse == One!OAuthConstants /\ One!MailConstants

LEMMA JoiningIs ==
  /\ Joining!Init => One!Accts!Init
  /\ Joining!Next => One!Accts!Next
  /\ One!Accts!InvitationsHold => Joining!InvitationsHold
  /\ One!Accts!EntersAsInvited => Joining!EntersAsInvited
  /\ One!Accts!HeldByNobody => Joining!HeldByNobody
BY DEF
    Joining!Init, Joining!NoAccount, Joining!NoInvitation, Joining!Next, Joining!AdminStep,
    Joining!Roles, Joining!CreateInvitation, Joining!ByManager, Joining!Offered, Joining!Manages,
    Joining!Live, Joining!roleRows, Joining!ReadInvitation, Joining!Revocable, Joining!Begin,
    Joining!WriteInvitation, Joining!At, Joining!Finish, Joining!ReadForDecision, Joining!Undecided,
    Joining!WriteDecision, Joining!Decide, Joining!ReadForUpdate, Joining!LastAdmin,
    Joining!OtherActiveAdmins, Joining!ActiveAdmin, Joining!ReadForStatus, Joining!ReadForDelete,
    Joining!WriteRole, Joining!WriteStatus, Joining!WriteDelete, Joining!CreateRole,
    Joining!ReadForRemoveRole, Joining!Held, Joining!Redeemable, Joining!UpdateRole,
    Joining!RemoveRole, Joining!Moved, Joining!SignupStep, Joining!ReadForSignup,
    Joining!ReadForResend, Joining!ReadForVerify, Joining!OpenCodes, Joining!Spent, Joining!Closed,
    Joining!ClaimAndCreate, Joining!RoleGiven, Joining!Claimable, Joining!RetireCodes,
    Joining!RetiredCodes, Joining!SendCode, Joining!WrongCode, Joining!Activate, Joining!Fail,
    Joining!InvitationExpires, Joining!CodeExpires, Joining!InvitationsHold, Joining!InvitationOnce,
    Joining!RedeemedOrRevoked, Joining!DecidedOnce, Joining!CodesAreGuarded,
    Joining!EntersAsInvited, Joining!HeldByNobody, Joining!Cardinality, Joining!IsFiniteSet,
    One!Accts!Init, One!Accts!NoAccount, One!Accts!NoInvitation, One!Accts!Next,
    One!Accts!AdminStep, One!Accts!Roles, One!Accts!CreateInvitation, One!Accts!ByManager,
    One!Accts!Offered, One!Accts!Manages, One!Accts!Live, One!Accts!roleRows,
    One!Accts!ReadInvitation, One!Accts!Revocable, One!Accts!Begin, One!Accts!WriteInvitation,
    One!Accts!At, One!Accts!Finish, One!Accts!ReadForDecision, One!Accts!Undecided,
    One!Accts!WriteDecision, One!Accts!Decide, One!Accts!ReadForUpdate, One!Accts!LastAdmin,
    One!Accts!OtherActiveAdmins, One!Accts!ActiveAdmin, One!Accts!ReadForStatus,
    One!Accts!ReadForDelete, One!Accts!WriteRole, One!Accts!WriteStatus, One!Accts!WriteDelete,
    One!Accts!CreateRole, One!Accts!ReadForRemoveRole, One!Accts!Held, One!Accts!Redeemable,
    One!Accts!UpdateRole, One!Accts!RemoveRole, One!Accts!Moved, One!Accts!SignupStep,
    One!Accts!ReadForSignup, One!Accts!ReadForResend, One!Accts!ReadForVerify, One!Accts!OpenCodes,
    One!Accts!Spent, One!Accts!Closed, One!Accts!ClaimAndCreate, One!Accts!RoleGiven,
    One!Accts!Claimable, One!Accts!RetireCodes, One!Accts!RetiredCodes, One!Accts!SendCode,
    One!Accts!WrongCode, One!Accts!Activate, One!Accts!Fail, One!Accts!InvitationExpires,
    One!Accts!CodeExpires, One!Accts!InvitationsHold, One!Accts!InvitationOnce,
    One!Accts!RedeemedOrRevoked, One!Accts!DecidedOnce, One!Accts!CodesAreGuarded,
    One!Accts!EntersAsInvited, One!Accts!HeldByNobody, One!Accts!Cardinality, One!Accts!IsFiniteSet

LEMMA JoiningHolds == Spec => 
  /\ [](part = "joining" => Joining!InvitationsHold)
  /\ [][part = "joining" => Joining!EntersAsInvited
                    /\ Joining!HeldByNobody]_accounts
<1>1. Init /\ part = "joining" => One!Accts!Init
  BY JoiningIs DEF Init, PeopleInit, AdminInit, OfficeInit
<1>2. [Next]_state =>
        /\ part = "joining" => (part = "joining")' /\ [One!Accts!Next]_(One!Accts!vars)
        /\ ~(part = "joining") => ~(part = "joining")'
  BY JoiningIs, PeopleRuns DEF Next, PeopleNext, state, people, accounts, signin, One!Accts!vars
<1>3. One!Accts!Spec => []One!Accts!InvitationsHold
  BY One!InvitationsAlwaysHold, AccountsAreSound DEF One!OneSlot, Joining!AccountsAssumption,
  One!Accts!AccountsAssumption, Joining!Roles, One!Accts!Roles
<1>4. One!Accts!Spec => One!Accts!RolesAreGiven
  BY One!RolesAlwaysGiven, AccountsAreSound DEF One!OneSlot, Joining!AccountsAssumption,
  One!Accts!AccountsAssumption, Joining!Roles, One!Accts!Roles
<1>. QED
  BY <1>1, <1>2, <1>3, <1>4, JoiningIs, PTL DEF Spec, One!Accts!Spec, state, accounts,
  One!Accts!vars, One!Accts!RolesAreGiven

LEMMA EnteringIs ==
  /\ Entering!Init => One!Login!Init
  /\ Entering!Next => One!Login!Next
  /\ One!Login!SessionsFollowPassword => Entering!SessionsFollowPassword
  /\ One!Login!AccessFollowsProof => Entering!AccessFollowsProof
BY DEF
    Entering!Init, Entering!NoAttempt, Entering!Next, Entering!Step, Entering!ReadForLogin,
    Entering!Begin, Entering!keys, Entering!counters, Entering!WrongPassword, Entering!At,
    Entering!Go, Entering!Finish, Entering!RightPassword, Entering!ReadFailures,
    Entering!RecordFailure, Entering!LocksAt, Entering!ClearAttempts, Entering!ProofOf,
    Entering!Sign, Entering!ReadForTotp, Entering!RightCode, Entering!GoogleReturn, Entering!Issue,
    Entering!CommitLink, Entering!ClaimLink, Entering!Resetting, Entering!Retired,
    Entering!OpenLinks, Entering!CommitReset, Entering!NewPassword, Entering!UseUp,
    Entering!Profile, Entering!ReadForProfile, Entering!Accepted, Entering!ChangePassword,
    Entering!EnrollTotp, Entering!ConfirmTotp, Entering!Checked, Entering!DisableTotp,
    Entering!WithoutTotp, Entering!Fail, Entering!LockExpires, Entering!GoogleStart,
    Entering!Suspend, Entering!Disabled, Entering!Reinstate, Entering!LinkExpires,
    Entering!SessionsFollowPassword, Entering!AccessFollowsProof, Entering!OldLinksDie,
    Entering!FailuresCounted, Entering!TotpIsUsable, One!Login!Init, One!Login!NoAttempt,
    One!Login!Next, One!Login!Step, One!Login!ReadForLogin, One!Login!Begin, One!Login!keys,
    One!Login!counters, One!Login!WrongPassword, One!Login!At, One!Login!Go, One!Login!Finish,
    One!Login!RightPassword, One!Login!ReadFailures, One!Login!RecordFailure, One!Login!LocksAt,
    One!Login!ClearAttempts, One!Login!ProofOf, One!Login!Sign, One!Login!ReadForTotp,
    One!Login!RightCode, One!Login!GoogleReturn, One!Login!Issue, One!Login!CommitLink,
    One!Login!ClaimLink, One!Login!Resetting, One!Login!Retired, One!Login!OpenLinks,
    One!Login!CommitReset, One!Login!NewPassword, One!Login!UseUp, One!Login!Profile,
    One!Login!ReadForProfile, One!Login!Accepted, One!Login!ChangePassword, One!Login!EnrollTotp,
    One!Login!ConfirmTotp, One!Login!Checked, One!Login!DisableTotp, One!Login!WithoutTotp,
    One!Login!Fail, One!Login!LockExpires, One!Login!GoogleStart, One!Login!Suspend,
    One!Login!Disabled, One!Login!Reinstate, One!Login!LinkExpires,
    One!Login!SessionsFollowPassword, One!Login!AccessFollowsProof, One!Login!OldLinksDie,
    One!Login!FailuresCounted, One!Login!TotpIsUsable

LEMMA EnteringHolds == Spec => [](part = "entering" => Entering!SessionsFollowPassword
                    /\ Entering!AccessFollowsProof)
<1>1. Init /\ part = "entering" => One!Login!Init
  BY EnteringIs DEF Init, PeopleInit, AdminInit, OfficeInit
<1>2. [Next]_state =>
        /\ part = "entering" => (part = "entering")' /\ [One!Login!Next]_(One!Login!vars)
        /\ ~(part = "entering") => ~(part = "entering")'
  BY EnteringIs, PeopleRuns DEF Next, PeopleNext, state, people, accounts, signin, One!Login!vars
<1>3. One!Login!Spec => []One!Login!SessionsFollowPassword
  BY One!SessionsAlwaysFollowPassword, SignInIsBounded DEF One!OneVisit, One!Login!SignInBounds
<1>4. One!Login!Spec => []One!Login!AccessFollowsProof
  BY One!AccessAlwaysFollowsProof, SignInIsBounded DEF One!OneVisit, One!Login!SignInBounds
<1>. QED
  BY <1>1, <1>2, <1>3, <1>4, EnteringIs, PTL DEF Spec, One!Login!Spec, state

LEMMA AloneIs ==
  /\ Alone!Init => One!OAuth!Init
  /\ Alone!Next => One!OAuth!Next
  /\ One!OAuth!ConnectionHolds => Alone!ConnectionHolds
  /\ One!OAuth!LinkRedeemedOnce => Alone!LinkRedeemedOnce
  /\ One!OAuth!TokenMatchesRealm => Alone!TokenMatchesRealm
  /\ One!OAuth!NameMatchesRealm => Alone!NameMatchesRealm
BY DEF
    Alone!Init, Alone!Next, Alone!Step, Alone!Callback, Alone!Taken, Alone!Honoured, Alone!Begin,
    Alone!Request, Alone!provider, Alone!ExchangeCode, Alone!At, Alone!Issue, Alone!links,
    Alone!StoreConnection, Alone!Upserted, Alone!Connection, Alone!Finish, Alone!NameCompany,
    Alone!ReadForDisconnect, Alone!Revoke, Alone!DeleteConnection, Alone!ReadForUse, Alone!Refresh,
    Alone!StoreTokens, Alone!Rotated, Alone!AnswerLost, Alone!Authorize, Alone!LinkExpires,
    Alone!AccessExpires, Alone!ConnectionHolds, Alone!LinkRedeemedOnce, Alone!TokenMatchesRealm,
    Alone!NameMatchesRealm, Alone!StaysConnected, Alone!Quiet, One!OAuth!Init, One!OAuth!Next,
    One!OAuth!Step, One!OAuth!Callback, One!OAuth!Taken, One!OAuth!Honoured, One!OAuth!Begin,
    One!OAuth!Request, One!OAuth!provider, One!OAuth!ExchangeCode, One!OAuth!At, One!OAuth!Issue,
    One!OAuth!links, One!OAuth!StoreConnection, One!OAuth!Upserted, One!OAuth!Connection,
    One!OAuth!Finish, One!OAuth!NameCompany, One!OAuth!ReadForDisconnect, One!OAuth!Revoke,
    One!OAuth!DeleteConnection, One!OAuth!ReadForUse, One!OAuth!Refresh, One!OAuth!StoreTokens,
    One!OAuth!Rotated, One!OAuth!AnswerLost, One!OAuth!Authorize, One!OAuth!LinkExpires,
    One!OAuth!AccessExpires, One!OAuth!ConnectionHolds, One!OAuth!LinkRedeemedOnce,
    One!OAuth!TokenMatchesRealm, One!OAuth!NameMatchesRealm, One!OAuth!StaysConnected,
    One!OAuth!Quiet

LEMMA AloneHolds ==
  ASSUME NothingElse
  PROVE  Spec => [](part = "alone" => Alone!ConnectionHolds
                    /\ Alone!LinkRedeemedOnce
                    /\ Alone!TokenMatchesRealm
                    /\ Alone!NameMatchesRealm)
<1>1. Init /\ part = "alone" => One!OAuth!Init
  BY AloneIs DEF Init, PeopleInit, AdminInit, OfficeInit
<1>2. [Next]_state =>
        /\ part = "alone" => (part = "alone")' /\ [One!OAuth!Next]_(One!OAuth!vars)
        /\ ~(part = "alone") => ~(part = "alone")'
  BY AloneIs, OfficeRuns DEF Next, OfficeNext, state, office, tokens, mailboxes, One!OAuth!vars
<1>3. One!OAuth!Spec => []One!OAuth!ConnectionHolds
  BY One!ConnectionAlwaysHolds, NothingElse DEF One!OneCall, NothingElse, One!OAuthConstants,
  One!Connected, One!Call, One!CallSteps
<1>4. One!OAuth!Spec => []One!OAuth!LinkRedeemedOnce
  BY One!HandshakesFinishOnce, NothingElse DEF One!OneCall, NothingElse, One!OAuthConstants,
  One!Connected, One!Call, One!CallSteps
<1>5. One!OAuth!Spec => [](One!OAuth!TokenMatchesRealm /\ One!OAuth!NameMatchesRealm)
  BY One!TokensAreTheCompanys, NothingElse DEF One!OneCall, NothingElse, One!OAuthConstants,
  One!Connected, One!Call, One!CallSteps
<1>. QED
  BY <1>1, <1>2, <1>3, <1>4, <1>5, AloneIs, PTL DEF Spec, One!OAuth!Spec, state

LEMMA MailboxesIs ==
  /\ Mailboxes!Init => One!Mail!Init
  /\ Mailboxes!Next => One!Mail!Next
  /\ One!Mail!MailboxHolds => Mailboxes!MailboxHolds
BY DEF
    Mailboxes!Init, Mailboxes!NoRows, Mailboxes!Next, Mailboxes!Step, Mailboxes!CountRows,
    Mailboxes!Free, Mailboxes!AtWork, Mailboxes!Begin, Mailboxes!Request, Mailboxes!Edit,
    Mailboxes!StartActivate, Mailboxes!Active, Mailboxes!StartRemove, Mailboxes!Removable,
    Mailboxes!Insert, Mailboxes!At, Mailboxes!Activate, Mailboxes!Stopped, Mailboxes!Finish,
    Mailboxes!Delete, Mailboxes!Reload, Mailboxes!Stored, Mailboxes!Bump, Mailboxes!Abort,
    Mailboxes!Send, Mailboxes!Through, Mailboxes!Kept, Mailboxes!Key, Mailboxes!First,
    Mailboxes!MailboxHolds, Mailboxes!OneSends, Mailboxes!CacheIsCurrent, Mailboxes!Quiet,
    Mailboxes!MailGoesAsShown, Mailboxes!Cardinality, Mailboxes!IsFiniteSet, One!Mail!Init,
    One!Mail!NoRows, One!Mail!Next, One!Mail!Step, One!Mail!CountRows, One!Mail!Free,
    One!Mail!AtWork, One!Mail!Begin, One!Mail!Request, One!Mail!Edit, One!Mail!StartActivate,
    One!Mail!Active, One!Mail!StartRemove, One!Mail!Removable, One!Mail!Insert, One!Mail!At,
    One!Mail!Activate, One!Mail!Stopped, One!Mail!Finish, One!Mail!Delete, One!Mail!Reload,
    One!Mail!Stored, One!Mail!Bump, One!Mail!Abort, One!Mail!Send, One!Mail!Through, One!Mail!Kept,
    One!Mail!Key, One!Mail!First, One!Mail!MailboxHolds, One!Mail!OneSends, One!Mail!CacheIsCurrent,
    One!Mail!Quiet, One!Mail!MailGoesAsShown, One!Mail!Cardinality, One!Mail!IsFiniteSet

LEMMA MailboxesHolds ==
  ASSUME NothingElse
  PROVE  Spec => [](part = "mailboxes" => Mailboxes!MailboxHolds)
<1>1. Init /\ part = "mailboxes" => One!Mail!Init
  BY MailboxesIs DEF Init, PeopleInit, AdminInit, OfficeInit
<1>2. [Next]_state =>
        /\ part = "mailboxes" => (part = "mailboxes")' /\ [One!Mail!Next]_(One!Mail!vars)
        /\ ~(part = "mailboxes") => ~(part = "mailboxes")'
  BY MailboxesIs, OfficeRuns DEF Next, OfficeNext, state, office, tokens, mailboxes, One!Mail!vars
<1>3. One!Mail!Spec => []One!Mail!MailboxHolds
  BY One!MailboxAlwaysHolds, NothingElse DEF NothingElse, One!OneWrite
<1>. QED
  BY <1>1, <1>2, <1>3, MailboxesIs, PTL DEF Spec, One!Mail!Spec, state

(* The parts running, proving and lossy.                                   *)
Two == INSTANCE OfficeProofs WITH
  People <- Runners, Admins <- Runners, BuiltIn <- BuiltInRoles, Custom <- CustomRoles, Admin <- ADMIN,
  Fallback <- INTERN, Reqs <- {r1},
  Ops <- {"users", "roles", "invite"},
  Visits <- {r1}, VisitOps <- {"login", "totp", "enroll", "confirm", "disable"},
  MaxWrong <- MaxWrong, MaxLinks <- 0, MaxSecrets <- MaxSecrets,
  Provider <- "qbo", Users <- Deputies, Calls <- {r1},
  CallOps <- {"connect", "disconnect", "use", "lost"}, MaxStarted <- MaxStarted, MaxTokens <- MaxTokens,
  Accounts <- Mailers, Writes <- {r1}, WriteOps <- {"create", "update", "activate", "remove", "send"},
  Owner <- None, Approvers <- None, Thresholds <- None, MaxPct <- None, MaxSales <- None,
  MaxHours <- None, BaseRate <- None, Amounts <- None, Currencies <- None, Values <- None,
  LastDay <- None, MaxSaves <- None, Keys <- None, Secrets <- None, Env <- None, Crossing <-
  None, Garbled <- None, Fields <- None, Optional <- None, Figures <- None, OneField <-
  None, MaxEdits <- None, Brands <- None, Details <- None, Reps <- None, Office <- None,
  Sales <- None, Files <- None, rates <- fxRates, history <- snapshots, page <- mailList,
  seen <- cardSeen, typed <- cardTyped

LEMMA RunningIs ==
  /\ Running!Init => Two!Accts!Init
  /\ Running!Next => Two!Accts!Next
  /\ Two!Accts!AnAdminRemains => Running!AnAdminRemains
  /\ Two!Accts!EntersAsInvited => Running!EntersAsInvited
  /\ Two!Accts!HeldByNobody => Running!HeldByNobody
BY DEF
    Running!Init, Running!NoAccount, Running!NoInvitation, Running!Next, Running!AdminStep,
    Running!Roles, Running!CreateInvitation, Running!ByManager, Running!Offered, Running!Manages,
    Running!Live, Running!roleRows, Running!ReadInvitation, Running!Revocable, Running!Begin,
    Running!WriteInvitation, Running!At, Running!Finish, Running!ReadForDecision, Running!Undecided,
    Running!WriteDecision, Running!Decide, Running!ReadForUpdate, Running!LastAdmin,
    Running!OtherActiveAdmins, Running!ActiveAdmin, Running!ReadForStatus, Running!ReadForDelete,
    Running!WriteRole, Running!WriteStatus, Running!WriteDelete, Running!CreateRole,
    Running!ReadForRemoveRole, Running!Held, Running!Redeemable, Running!UpdateRole,
    Running!RemoveRole, Running!Moved, Running!SignupStep, Running!ReadForSignup,
    Running!ReadForResend, Running!ReadForVerify, Running!OpenCodes, Running!Spent, Running!Closed,
    Running!ClaimAndCreate, Running!RoleGiven, Running!Claimable, Running!RetireCodes,
    Running!RetiredCodes, Running!SendCode, Running!WrongCode, Running!Activate, Running!Fail,
    Running!InvitationExpires, Running!CodeExpires, Running!AnAdminRemains, Running!EntersAsInvited,
    Running!HeldByNobody, Two!Accts!Init, Two!Accts!NoAccount, Two!Accts!NoInvitation,
    Two!Accts!Next, Two!Accts!AdminStep, Two!Accts!Roles, Two!Accts!CreateInvitation,
    Two!Accts!ByManager, Two!Accts!Offered, Two!Accts!Manages, Two!Accts!Live, Two!Accts!roleRows,
    Two!Accts!ReadInvitation, Two!Accts!Revocable, Two!Accts!Begin, Two!Accts!WriteInvitation,
    Two!Accts!At, Two!Accts!Finish, Two!Accts!ReadForDecision, Two!Accts!Undecided,
    Two!Accts!WriteDecision, Two!Accts!Decide, Two!Accts!ReadForUpdate, Two!Accts!LastAdmin,
    Two!Accts!OtherActiveAdmins, Two!Accts!ActiveAdmin, Two!Accts!ReadForStatus,
    Two!Accts!ReadForDelete, Two!Accts!WriteRole, Two!Accts!WriteStatus, Two!Accts!WriteDelete,
    Two!Accts!CreateRole, Two!Accts!ReadForRemoveRole, Two!Accts!Held, Two!Accts!Redeemable,
    Two!Accts!UpdateRole, Two!Accts!RemoveRole, Two!Accts!Moved, Two!Accts!SignupStep,
    Two!Accts!ReadForSignup, Two!Accts!ReadForResend, Two!Accts!ReadForVerify, Two!Accts!OpenCodes,
    Two!Accts!Spent, Two!Accts!Closed, Two!Accts!ClaimAndCreate, Two!Accts!RoleGiven,
    Two!Accts!Claimable, Two!Accts!RetireCodes, Two!Accts!RetiredCodes, Two!Accts!SendCode,
    Two!Accts!WrongCode, Two!Accts!Activate, Two!Accts!Fail, Two!Accts!InvitationExpires,
    Two!Accts!CodeExpires, Two!Accts!AnAdminRemains, Two!Accts!EntersAsInvited,
    Two!Accts!HeldByNobody

LEMMA RunningHolds == Spec => 
  /\ [](part = "running" => Running!AnAdminRemains)
  /\ [][part = "running" => Running!EntersAsInvited
                    /\ Running!HeldByNobody]_accounts
<1>1. Init /\ part = "running" => Two!Accts!Init
  BY RunningIs DEF Init, PeopleInit, AdminInit, OfficeInit
<1>2. [Next]_state =>
        /\ part = "running" => (part = "running")' /\ [Two!Accts!Next]_(Two!Accts!vars)
        /\ ~(part = "running") => ~(part = "running")'
  BY RunningIs, PeopleRuns DEF Next, PeopleNext, state, people, accounts, signin, Two!Accts!vars
<1>3. Two!Accts!Spec => []Two!Accts!AnAdminRemains
  BY Two!AnAdminAlwaysRemains, AccountsAreSound DEF Two!OneSlot, Running!AccountsAssumption,
  Two!Accts!AccountsAssumption, Running!Roles, Two!Accts!Roles
<1>4. Two!Accts!Spec => Two!Accts!RolesAreGiven
  BY Two!RolesAlwaysGiven, AccountsAreSound DEF Two!OneSlot, Running!AccountsAssumption,
  Two!Accts!AccountsAssumption, Running!Roles, Two!Accts!Roles
<1>. QED
  BY <1>1, <1>2, <1>3, <1>4, RunningIs, PTL DEF Spec, Two!Accts!Spec, state, accounts,
  Two!Accts!vars, Two!Accts!RolesAreGiven

LEMMA ProvingIs ==
  /\ Proving!Init => Two!Login!Init
  /\ Proving!Next => Two!Login!Next
  /\ Two!Login!AccessFollowsProof => Proving!AccessFollowsProof
BY DEF
    Proving!Init, Proving!NoAttempt, Proving!Next, Proving!Step, Proving!ReadForLogin,
    Proving!Begin, Proving!keys, Proving!counters, Proving!WrongPassword, Proving!At, Proving!Go,
    Proving!Finish, Proving!RightPassword, Proving!ReadFailures, Proving!RecordFailure,
    Proving!LocksAt, Proving!ClearAttempts, Proving!ProofOf, Proving!Sign, Proving!ReadForTotp,
    Proving!RightCode, Proving!GoogleReturn, Proving!Issue, Proving!CommitLink, Proving!ClaimLink,
    Proving!Resetting, Proving!Retired, Proving!OpenLinks, Proving!CommitReset, Proving!NewPassword,
    Proving!UseUp, Proving!Profile, Proving!ReadForProfile, Proving!Accepted,
    Proving!ChangePassword, Proving!EnrollTotp, Proving!ConfirmTotp, Proving!Checked,
    Proving!DisableTotp, Proving!WithoutTotp, Proving!Fail, Proving!LockExpires,
    Proving!GoogleStart, Proving!Suspend, Proving!Disabled, Proving!Reinstate, Proving!LinkExpires,
    Proving!AccessFollowsProof, Proving!OldLinksDie, Proving!FailuresCounted, Proving!TotpIsUsable,
    Two!Login!Init, Two!Login!NoAttempt, Two!Login!Next, Two!Login!Step, Two!Login!ReadForLogin,
    Two!Login!Begin, Two!Login!keys, Two!Login!counters, Two!Login!WrongPassword, Two!Login!At,
    Two!Login!Go, Two!Login!Finish, Two!Login!RightPassword, Two!Login!ReadFailures,
    Two!Login!RecordFailure, Two!Login!LocksAt, Two!Login!ClearAttempts, Two!Login!ProofOf,
    Two!Login!Sign, Two!Login!ReadForTotp, Two!Login!RightCode, Two!Login!GoogleReturn,
    Two!Login!Issue, Two!Login!CommitLink, Two!Login!ClaimLink, Two!Login!Resetting,
    Two!Login!Retired, Two!Login!OpenLinks, Two!Login!CommitReset, Two!Login!NewPassword,
    Two!Login!UseUp, Two!Login!Profile, Two!Login!ReadForProfile, Two!Login!Accepted,
    Two!Login!ChangePassword, Two!Login!EnrollTotp, Two!Login!ConfirmTotp, Two!Login!Checked,
    Two!Login!DisableTotp, Two!Login!WithoutTotp, Two!Login!Fail, Two!Login!LockExpires,
    Two!Login!GoogleStart, Two!Login!Suspend, Two!Login!Disabled, Two!Login!Reinstate,
    Two!Login!LinkExpires, Two!Login!AccessFollowsProof, Two!Login!OldLinksDie,
    Two!Login!FailuresCounted, Two!Login!TotpIsUsable

LEMMA ProvingHolds == Spec => [](part = "proving" => Proving!AccessFollowsProof)
<1>1. Init /\ part = "proving" => Two!Login!Init
  BY ProvingIs DEF Init, PeopleInit, AdminInit, OfficeInit
<1>2. [Next]_state =>
        /\ part = "proving" => (part = "proving")' /\ [Two!Login!Next]_(Two!Login!vars)
        /\ ~(part = "proving") => ~(part = "proving")'
  BY ProvingIs, PeopleRuns DEF Next, PeopleNext, state, people, accounts, signin, Two!Login!vars
<1>3. Two!Login!Spec => []Two!Login!AccessFollowsProof
  BY Two!AccessAlwaysFollowsProof, SignInIsBounded DEF Two!OneVisit, Two!Login!SignInBounds
<1>. QED
  BY <1>1, <1>2, <1>3, ProvingIs, PTL DEF Spec, Two!Login!Spec, state

LEMMA LossyIs ==
  /\ Lossy!Init => Two!OAuth!Init
  /\ Lossy!Next => Two!OAuth!Next
  /\ Two!OAuth!LinkRedeemedOnce => Lossy!LinkRedeemedOnce
  /\ Two!OAuth!TokenMatchesRealm => Lossy!TokenMatchesRealm
  /\ Two!OAuth!NameMatchesRealm => Lossy!NameMatchesRealm
BY DEF
    Lossy!Init, Lossy!Next, Lossy!Step, Lossy!Callback, Lossy!Taken, Lossy!Honoured, Lossy!Begin,
    Lossy!Request, Lossy!provider, Lossy!ExchangeCode, Lossy!At, Lossy!Issue, Lossy!links,
    Lossy!StoreConnection, Lossy!Upserted, Lossy!Connection, Lossy!Finish, Lossy!NameCompany,
    Lossy!ReadForDisconnect, Lossy!Revoke, Lossy!DeleteConnection, Lossy!ReadForUse, Lossy!Refresh,
    Lossy!StoreTokens, Lossy!Rotated, Lossy!AnswerLost, Lossy!Authorize, Lossy!LinkExpires,
    Lossy!AccessExpires, Lossy!LinkRedeemedOnce, Lossy!TokenMatchesRealm, Lossy!NameMatchesRealm,
    Two!OAuth!Init, Two!OAuth!Next, Two!OAuth!Step, Two!OAuth!Callback, Two!OAuth!Taken,
    Two!OAuth!Honoured, Two!OAuth!Begin, Two!OAuth!Request, Two!OAuth!provider,
    Two!OAuth!ExchangeCode, Two!OAuth!At, Two!OAuth!Issue, Two!OAuth!links,
    Two!OAuth!StoreConnection, Two!OAuth!Upserted, Two!OAuth!Connection, Two!OAuth!Finish,
    Two!OAuth!NameCompany, Two!OAuth!ReadForDisconnect, Two!OAuth!Revoke,
    Two!OAuth!DeleteConnection, Two!OAuth!ReadForUse, Two!OAuth!Refresh, Two!OAuth!StoreTokens,
    Two!OAuth!Rotated, Two!OAuth!AnswerLost, Two!OAuth!Authorize, Two!OAuth!LinkExpires,
    Two!OAuth!AccessExpires, Two!OAuth!LinkRedeemedOnce, Two!OAuth!TokenMatchesRealm,
    Two!OAuth!NameMatchesRealm

LEMMA LossyHolds ==
  ASSUME NothingElse
  PROVE  Spec => [](part = "lossy" => Lossy!LinkRedeemedOnce
                    /\ Lossy!TokenMatchesRealm
                    /\ Lossy!NameMatchesRealm)
<1>1. Init /\ part = "lossy" => Two!OAuth!Init
  BY LossyIs DEF Init, PeopleInit, AdminInit, OfficeInit
<1>2. [Next]_state =>
        /\ part = "lossy" => (part = "lossy")' /\ [Two!OAuth!Next]_(Two!OAuth!vars)
        /\ ~(part = "lossy") => ~(part = "lossy")'
  BY LossyIs, OfficeRuns DEF Next, OfficeNext, state, office, tokens, mailboxes, Two!OAuth!vars
<1>3. Two!OAuth!Spec => []Two!OAuth!LinkRedeemedOnce
  BY Two!HandshakesFinishOnce, NothingElse DEF Two!OneCall, NothingElse, Two!OAuthConstants,
  Two!Connected, Two!Call, Two!CallSteps, One!OAuthConstants, One!Connected, One!Call,
  One!CallSteps
<1>4. Two!OAuth!Spec => [](Two!OAuth!TokenMatchesRealm /\ Two!OAuth!NameMatchesRealm)
  BY Two!TokensAreTheCompanys, NothingElse DEF Two!OneCall, NothingElse, Two!OAuthConstants,
  Two!Connected, Two!Call, Two!CallSteps, One!OAuthConstants, One!Connected, One!Call,
  One!CallSteps
<1>. QED
  BY <1>1, <1>2, <1>3, <1>4, LossyIs, PTL DEF Spec, Two!OAuth!Spec, state

(* The parts rushing, leaving and racing.                                  *)
Three == INSTANCE OfficeProofs WITH
  People <- Rushers, Admins <- {boss}, BuiltIn <- BuiltInRoles, Custom <- {}, Admin <- ADMIN,
  Fallback <- INTERN, Reqs <- Reqs,
  Ops <- {"invite", "edit", "revoke", "signup", "verify", "delete"},
  Visits <- Reqs, VisitOps <- {"login", "google", "suspend"},
  MaxWrong <- 0, MaxLinks <- 0, MaxSecrets <- 0,
  Provider <- "qbo", Users <- Deputies, Calls <- Reqs,
  CallOps <- {"connect", "disconnect", "use"}, MaxStarted <- 1, MaxTokens <- MoreTokens,
  Accounts <- Mailers, Writes <- {r1}, WriteOps <- {"create", "update", "activate", "remove", "send"},
  Owner <- None, Approvers <- None, Thresholds <- None, MaxPct <- None, MaxSales <- None,
  MaxHours <- None, BaseRate <- None, Amounts <- None, Currencies <- None, Values <- None,
  LastDay <- None, MaxSaves <- None, Keys <- None, Secrets <- None, Env <- None, Crossing <-
  None, Garbled <- None, Fields <- None, Optional <- None, Figures <- None, OneField <-
  None, MaxEdits <- None, Brands <- None, Details <- None, Reps <- None, Office <- None,
  Sales <- None, Files <- None, rates <- fxRates, history <- snapshots, page <- mailList,
  seen <- cardSeen, typed <- cardTyped

LEMMA RushingIs ==
  /\ Rushing!Init => Three!Accts!Init
  /\ Rushing!Next => Three!Accts!Next
  /\ Three!Accts!InvitationOnce => Rushing!InvitationOnce
BY DEF
    Rushing!Init, Rushing!NoAccount, Rushing!NoInvitation, Rushing!Next, Rushing!AdminStep,
    Rushing!Roles, Rushing!CreateInvitation, Rushing!ByManager, Rushing!Offered, Rushing!Manages,
    Rushing!Live, Rushing!roleRows, Rushing!ReadInvitation, Rushing!Revocable, Rushing!Begin,
    Rushing!WriteInvitation, Rushing!At, Rushing!Finish, Rushing!ReadForDecision, Rushing!Undecided,
    Rushing!WriteDecision, Rushing!Decide, Rushing!ReadForUpdate, Rushing!LastAdmin,
    Rushing!OtherActiveAdmins, Rushing!ActiveAdmin, Rushing!ReadForStatus, Rushing!ReadForDelete,
    Rushing!WriteRole, Rushing!WriteStatus, Rushing!WriteDelete, Rushing!CreateRole,
    Rushing!ReadForRemoveRole, Rushing!Held, Rushing!Redeemable, Rushing!UpdateRole,
    Rushing!RemoveRole, Rushing!Moved, Rushing!SignupStep, Rushing!ReadForSignup,
    Rushing!ReadForResend, Rushing!ReadForVerify, Rushing!OpenCodes, Rushing!Spent, Rushing!Closed,
    Rushing!ClaimAndCreate, Rushing!RoleGiven, Rushing!Claimable, Rushing!RetireCodes,
    Rushing!RetiredCodes, Rushing!SendCode, Rushing!WrongCode, Rushing!Activate, Rushing!Fail,
    Rushing!InvitationExpires, Rushing!CodeExpires, Rushing!InvitationOnce, Three!Accts!Init,
    Three!Accts!NoAccount, Three!Accts!NoInvitation, Three!Accts!Next, Three!Accts!AdminStep,
    Three!Accts!Roles, Three!Accts!CreateInvitation, Three!Accts!ByManager, Three!Accts!Offered,
    Three!Accts!Manages, Three!Accts!Live, Three!Accts!roleRows, Three!Accts!ReadInvitation,
    Three!Accts!Revocable, Three!Accts!Begin, Three!Accts!WriteInvitation, Three!Accts!At,
    Three!Accts!Finish, Three!Accts!ReadForDecision, Three!Accts!Undecided,
    Three!Accts!WriteDecision, Three!Accts!Decide, Three!Accts!ReadForUpdate, Three!Accts!LastAdmin,
    Three!Accts!OtherActiveAdmins, Three!Accts!ActiveAdmin, Three!Accts!ReadForStatus,
    Three!Accts!ReadForDelete, Three!Accts!WriteRole, Three!Accts!WriteStatus,
    Three!Accts!WriteDelete, Three!Accts!CreateRole, Three!Accts!ReadForRemoveRole,
    Three!Accts!Held, Three!Accts!Redeemable, Three!Accts!UpdateRole, Three!Accts!RemoveRole,
    Three!Accts!Moved, Three!Accts!SignupStep, Three!Accts!ReadForSignup, Three!Accts!ReadForResend,
    Three!Accts!ReadForVerify, Three!Accts!OpenCodes, Three!Accts!Spent, Three!Accts!Closed,
    Three!Accts!ClaimAndCreate, Three!Accts!RoleGiven, Three!Accts!Claimable,
    Three!Accts!RetireCodes, Three!Accts!RetiredCodes, Three!Accts!SendCode, Three!Accts!WrongCode,
    Three!Accts!Activate, Three!Accts!Fail, Three!Accts!InvitationExpires, Three!Accts!CodeExpires,
    Three!Accts!InvitationOnce

LEMMA RushingHolds == Spec => [](part = "rushing" => Rushing!InvitationOnce)
<1>1. Init /\ part = "rushing" => Three!Accts!Init
  BY RushingIs DEF Init, PeopleInit, AdminInit, OfficeInit
<1>2. [Next]_state =>
        /\ part = "rushing" => (part = "rushing")' /\ [Three!Accts!Next]_(Three!Accts!vars)
        /\ ~(part = "rushing") => ~(part = "rushing")'
  BY RushingIs, PeopleRuns DEF Next, PeopleNext, state, people, accounts, signin, Three!Accts!vars
<1>3. Three!Accts!Spec => []Three!Accts!InvitationOnce
  BY Three!InvitationsMakeOneAccount, AccountsAreSound DEF Three!OneSlot,
  Rushing!AccountsAssumption, Three!Accts!AccountsAssumption, Rushing!Roles, Three!Accts!Roles
<1>. QED
  BY <1>1, <1>2, <1>3, RushingIs, PTL DEF Spec, Three!Accts!Spec, state

LEMMA LeavingIs ==
  /\ Leaving!Init => Three!Login!Init
  /\ Leaving!Next => Three!Login!Next
  /\ Three!Login!SessionsFollowPassword => Leaving!SessionsFollowPassword
  /\ Three!Login!SuspensionEndsSessions => Leaving!SuspensionEndsSessions
BY DEF
    Leaving!Init, Leaving!NoAttempt, Leaving!Next, Leaving!Step, Leaving!ReadForLogin,
    Leaving!Begin, Leaving!keys, Leaving!counters, Leaving!WrongPassword, Leaving!At, Leaving!Go,
    Leaving!Finish, Leaving!RightPassword, Leaving!ReadFailures, Leaving!RecordFailure,
    Leaving!LocksAt, Leaving!ClearAttempts, Leaving!ProofOf, Leaving!Sign, Leaving!ReadForTotp,
    Leaving!RightCode, Leaving!GoogleReturn, Leaving!Issue, Leaving!CommitLink, Leaving!ClaimLink,
    Leaving!Resetting, Leaving!Retired, Leaving!OpenLinks, Leaving!CommitReset, Leaving!NewPassword,
    Leaving!UseUp, Leaving!Profile, Leaving!ReadForProfile, Leaving!Accepted,
    Leaving!ChangePassword, Leaving!EnrollTotp, Leaving!ConfirmTotp, Leaving!Checked,
    Leaving!DisableTotp, Leaving!WithoutTotp, Leaving!Fail, Leaving!LockExpires,
    Leaving!GoogleStart, Leaving!Suspend, Leaving!Disabled, Leaving!Reinstate, Leaving!LinkExpires,
    Leaving!SessionsFollowPassword, Leaving!SuspensionEndsSessions, Three!Login!Init,
    Three!Login!NoAttempt, Three!Login!Next, Three!Login!Step, Three!Login!ReadForLogin,
    Three!Login!Begin, Three!Login!keys, Three!Login!counters, Three!Login!WrongPassword,
    Three!Login!At, Three!Login!Go, Three!Login!Finish, Three!Login!RightPassword,
    Three!Login!ReadFailures, Three!Login!RecordFailure, Three!Login!LocksAt,
    Three!Login!ClearAttempts, Three!Login!ProofOf, Three!Login!Sign, Three!Login!ReadForTotp,
    Three!Login!RightCode, Three!Login!GoogleReturn, Three!Login!Issue, Three!Login!CommitLink,
    Three!Login!ClaimLink, Three!Login!Resetting, Three!Login!Retired, Three!Login!OpenLinks,
    Three!Login!CommitReset, Three!Login!NewPassword, Three!Login!UseUp, Three!Login!Profile,
    Three!Login!ReadForProfile, Three!Login!Accepted, Three!Login!ChangePassword,
    Three!Login!EnrollTotp, Three!Login!ConfirmTotp, Three!Login!Checked, Three!Login!DisableTotp,
    Three!Login!WithoutTotp, Three!Login!Fail, Three!Login!LockExpires, Three!Login!GoogleStart,
    Three!Login!Suspend, Three!Login!Disabled, Three!Login!Reinstate, Three!Login!LinkExpires,
    Three!Login!SessionsFollowPassword, Three!Login!SuspensionEndsSessions

LEMMA LeavingHolds == Spec => [](part = "leaving" => Leaving!SessionsFollowPassword
                    /\ Leaving!SuspensionEndsSessions)
<1>1. Init /\ part = "leaving" => Three!Login!Init
  BY LeavingIs DEF Init, PeopleInit, AdminInit, OfficeInit
<1>2. [Next]_state =>
        /\ part = "leaving" => (part = "leaving")' /\ [Three!Login!Next]_(Three!Login!vars)
        /\ ~(part = "leaving") => ~(part = "leaving")'
  BY LeavingIs, PeopleRuns DEF Next, PeopleNext, state, people, accounts, signin, Three!Login!vars
<1>3. Three!Login!Spec => []Three!Login!SessionsFollowPassword
  BY Three!SessionsAlwaysFollowPassword, SignInIsBounded DEF Three!OneVisit,
  Three!Login!SignInBounds
<1>4. Three!Login!Spec => []Three!Login!SuspensionEndsSessions
  BY Three!SuspensionAlwaysEndsSessions, SignInIsBounded DEF Three!OneVisit,
  Three!Login!SignInBounds
<1>. QED
  BY <1>1, <1>2, <1>3, <1>4, LeavingIs, PTL DEF Spec, Three!Login!Spec, state

LEMMA RacingIs ==
  /\ Racing!Init => Three!OAuth!Init
  /\ Racing!Next => Three!OAuth!Next
  /\ Three!OAuth!LinkRedeemedOnce => Racing!LinkRedeemedOnce
  /\ Three!OAuth!TokenMatchesRealm => Racing!TokenMatchesRealm
  /\ Three!OAuth!NameMatchesRealm => Racing!NameMatchesRealm
BY DEF
    Racing!Init, Racing!Next, Racing!Step, Racing!Callback, Racing!Taken, Racing!Honoured,
    Racing!Begin, Racing!Request, Racing!provider, Racing!ExchangeCode, Racing!At, Racing!Issue,
    Racing!links, Racing!StoreConnection, Racing!Upserted, Racing!Connection, Racing!Finish,
    Racing!NameCompany, Racing!ReadForDisconnect, Racing!Revoke, Racing!DeleteConnection,
    Racing!ReadForUse, Racing!Refresh, Racing!StoreTokens, Racing!Rotated, Racing!AnswerLost,
    Racing!Authorize, Racing!LinkExpires, Racing!AccessExpires, Racing!LinkRedeemedOnce,
    Racing!TokenMatchesRealm, Racing!NameMatchesRealm, Three!OAuth!Init, Three!OAuth!Next,
    Three!OAuth!Step, Three!OAuth!Callback, Three!OAuth!Taken, Three!OAuth!Honoured,
    Three!OAuth!Begin, Three!OAuth!Request, Three!OAuth!provider, Three!OAuth!ExchangeCode,
    Three!OAuth!At, Three!OAuth!Issue, Three!OAuth!links, Three!OAuth!StoreConnection,
    Three!OAuth!Upserted, Three!OAuth!Connection, Three!OAuth!Finish, Three!OAuth!NameCompany,
    Three!OAuth!ReadForDisconnect, Three!OAuth!Revoke, Three!OAuth!DeleteConnection,
    Three!OAuth!ReadForUse, Three!OAuth!Refresh, Three!OAuth!StoreTokens, Three!OAuth!Rotated,
    Three!OAuth!AnswerLost, Three!OAuth!Authorize, Three!OAuth!LinkExpires,
    Three!OAuth!AccessExpires, Three!OAuth!LinkRedeemedOnce, Three!OAuth!TokenMatchesRealm,
    Three!OAuth!NameMatchesRealm

LEMMA RacingHolds ==
  ASSUME NothingElse
  PROVE  Spec => [](part = "racing" => Racing!LinkRedeemedOnce
                    /\ Racing!TokenMatchesRealm
                    /\ Racing!NameMatchesRealm)
<1>1. Init /\ part = "racing" => Three!OAuth!Init
  BY RacingIs DEF Init, PeopleInit, AdminInit, OfficeInit
<1>2. [Next]_state =>
        /\ part = "racing" => (part = "racing")' /\ [Three!OAuth!Next]_(Three!OAuth!vars)
        /\ ~(part = "racing") => ~(part = "racing")'
  BY RacingIs, OfficeRuns DEF Next, OfficeNext, state, office, tokens, mailboxes, Three!OAuth!vars
<1>3. Three!OAuth!Spec => []Three!OAuth!LinkRedeemedOnce
  BY Three!HandshakesFinishOnce, NothingElse DEF Three!OneCall, NothingElse,
  Three!OAuthConstants, Three!Connected, Three!Call, Three!CallSteps, One!OAuthConstants,
  One!Connected, One!Call, One!CallSteps
<1>4. Three!OAuth!Spec => [](Three!OAuth!TokenMatchesRealm /\ Three!OAuth!NameMatchesRealm)
  BY Three!OneHandshakeOneCompany, NothingElse DEF Three!OneCall, NothingElse,
  Three!OAuthConstants, Three!Connected, Three!Call, Three!CallSteps, One!OAuthConstants,
  One!Connected, One!Call, One!CallSteps
<1>. QED
  BY <1>1, <1>2, <1>3, <1>4, RacingIs, PTL DEF Spec, Three!OAuth!Spec, state

(* The parts barring and docusign.                                         *)
Four == INSTANCE OfficeProofs WITH
  People <- Rushers, Admins <- {boss}, BuiltIn <- BuiltInRoles, Custom <- {}, Admin <- ADMIN,
  Fallback <- INTERN, Reqs <- Reqs,
  Ops <- {"invite", "edit", "revoke", "signup", "verify", "delete"},
  Visits <- Reqs, VisitOps <- {"login", "forgot", "suspend"},
  MaxWrong <- 0, MaxLinks <- FewLinks, MaxSecrets <- 0,
  Provider <- "docusign", Users <- Deputies, Calls <- Reqs,
  CallOps <- {"connect", "disconnect", "use"}, MaxStarted <- 1, MaxTokens <- MaxTokens,
  Accounts <- Mailers, Writes <- {r1}, WriteOps <- {"create", "update", "activate", "remove", "send"},
  Owner <- None, Approvers <- None, Thresholds <- None, MaxPct <- None, MaxSales <- None,
  MaxHours <- None, BaseRate <- None, Amounts <- None, Currencies <- None, Values <- None,
  LastDay <- None, MaxSaves <- None, Keys <- None, Secrets <- None, Env <- None, Crossing <-
  None, Garbled <- None, Fields <- None, Optional <- None, Figures <- None, OneField <-
  None, MaxEdits <- None, Brands <- None, Details <- None, Reps <- None, Office <- None,
  Sales <- None, Files <- None, rates <- fxRates, history <- snapshots, page <- mailList,
  seen <- cardSeen, typed <- cardTyped

LEMMA BarringIs ==
  /\ Barring!Init => Four!Login!Init
  /\ Barring!Next => Four!Login!Next
  /\ Four!Login!SessionsFollowPassword => Barring!SessionsFollowPassword
  /\ Four!Login!SuspensionEndsSessions => Barring!SuspensionEndsSessions
<1>1. Barring!Init => Four!Login!Init
  BY Zenon DEF
    Barring!Init, Barring!NoAttempt, Four!Login!Init, Four!Login!NoAttempt
<1>2. Four!Login!SessionsFollowPassword => Barring!SessionsFollowPassword
  BY Zenon DEF
    Barring!SessionsFollowPassword, Barring!Accepted, Four!Login!SessionsFollowPassword,
    Four!Login!Accepted
<1>3. Four!Login!SuspensionEndsSessions => Barring!SuspensionEndsSessions
  BY Zenon DEF
    Barring!SuspensionEndsSessions, Barring!Accepted, Four!Login!SuspensionEndsSessions,
    Four!Login!Accepted
<1>4. ASSUME NEW r, NEW c
      PROVE  /\ Barring!ReadForLogin(r) => Four!Login!ReadForLogin(r)
             /\ Barring!WrongPassword(r) => Four!Login!WrongPassword(r)
             /\ Barring!RightPassword(r) => Four!Login!RightPassword(r)
             /\ Barring!ReadFailures(r) => Four!Login!ReadFailures(r)
             /\ Barring!RecordFailure(r) => Four!Login!RecordFailure(r)
             /\ Barring!ClearAttempts(r) => Four!Login!ClearAttempts(r)
             /\ Barring!Sign(r) => Four!Login!Sign(r)
             /\ Barring!ReadForTotp(r, c) => Four!Login!ReadForTotp(r, c)
             /\ Barring!RightCode(r) => Four!Login!RightCode(r)
             /\ Barring!GoogleReturn(r) => Four!Login!GoogleReturn(r)
  BY Zenon DEF
    Barring!ReadForLogin, Barring!Begin, Barring!keys, Barring!counters, Barring!WrongPassword,
    Barring!At, Barring!Go, Barring!Finish, Barring!RightPassword, Barring!ReadFailures,
    Barring!RecordFailure, Barring!LocksAt, Barring!ClearAttempts, Barring!NoAttempt,
    Barring!ProofOf, Barring!Sign, Barring!ReadForTotp, Barring!RightCode, Barring!GoogleReturn,
    Four!Login!ReadForLogin, Four!Login!Begin, Four!Login!keys, Four!Login!counters,
    Four!Login!WrongPassword, Four!Login!At, Four!Login!Go, Four!Login!Finish,
    Four!Login!RightPassword, Four!Login!ReadFailures, Four!Login!RecordFailure, Four!Login!LocksAt,
    Four!Login!ClearAttempts, Four!Login!NoAttempt, Four!Login!ProofOf, Four!Login!Sign,
    Four!Login!ReadForTotp, Four!Login!RightCode, Four!Login!GoogleReturn
<1>5. ASSUME NEW r, NEW l, NEW op
      PROVE  /\ Barring!Issue(r) => Four!Login!Issue(r)
             /\ Barring!CommitLink(r) => Four!Login!CommitLink(r)
             /\ Barring!ClaimLink(r, l) => Four!Login!ClaimLink(r, l)
             /\ Barring!CommitReset(r) => Four!Login!CommitReset(r)
             /\ Barring!ReadForProfile(r, op) => Four!Login!ReadForProfile(r, op)
             /\ Barring!ChangePassword(r) => Four!Login!ChangePassword(r)
             /\ Barring!EnrollTotp(r) => Four!Login!EnrollTotp(r)
             /\ Barring!ConfirmTotp(r) => Four!Login!ConfirmTotp(r)
             /\ Barring!DisableTotp(r) => Four!Login!DisableTotp(r)
             /\ Barring!Fail(r) => Four!Login!Fail(r)
  BY Zenon DEF
    Barring!Issue, Barring!Begin, Barring!keys, Barring!counters, Barring!CommitLink, Barring!At,
    Barring!Finish, Barring!ClaimLink, Barring!Resetting, Barring!Retired, Barring!OpenLinks,
    Barring!CommitReset, Barring!NewPassword, Barring!UseUp, Barring!NoAttempt,
    Barring!ReadForProfile, Barring!Profile, Barring!Accepted, Barring!ChangePassword,
    Barring!EnrollTotp, Barring!ConfirmTotp, Barring!Checked, Barring!DisableTotp,
    Barring!WithoutTotp, Barring!Fail, Four!Login!Issue, Four!Login!Begin, Four!Login!keys,
    Four!Login!counters, Four!Login!CommitLink, Four!Login!At, Four!Login!Finish,
    Four!Login!ClaimLink, Four!Login!Resetting, Four!Login!Retired, Four!Login!OpenLinks,
    Four!Login!CommitReset, Four!Login!NewPassword, Four!Login!UseUp, Four!Login!NoAttempt,
    Four!Login!ReadForProfile, Four!Login!Profile, Four!Login!Accepted, Four!Login!ChangePassword,
    Four!Login!EnrollTotp, Four!Login!ConfirmTotp, Four!Login!Checked, Four!Login!DisableTotp,
    Four!Login!WithoutTotp, Four!Login!Fail
<1>6. ASSUME NEW l
      PROVE  /\ Barring!LockExpires => Four!Login!LockExpires
             /\ Barring!GoogleStart => Four!Login!GoogleStart
             /\ Barring!Suspend => Four!Login!Suspend
             /\ Barring!Reinstate => Four!Login!Reinstate
             /\ Barring!LinkExpires(l) => Four!Login!LinkExpires(l)
  BY Zenon DEF
    Barring!LockExpires, Barring!keys, Barring!counters, Barring!GoogleStart, Barring!Suspend,
    Barring!Disabled, Barring!Reinstate, Barring!LinkExpires, Barring!UseUp, Four!Login!LockExpires,
    Four!Login!keys, Four!Login!counters, Four!Login!GoogleStart, Four!Login!Suspend,
    Four!Login!Disabled, Four!Login!Reinstate, Four!Login!LinkExpires, Four!Login!UseUp
<1>7. ASSUME NEW r PROVE Barring!Step(r) => Four!Login!Step(r)
  BY Zenon, <1>4, <1>5, <1>6 DEF Barring!Step, Barring!Profile, Four!Login!Step,
  Four!Login!Profile
<1>8. Barring!Next => Four!Login!Next
  BY Zenon, <1>6, <1>7 DEF Barring!Next, Four!Login!Next
<1>. QED
  BY <1>1, <1>2, <1>3, <1>8

LEMMA BarringHolds == Spec => [](part = "barring" => Barring!SessionsFollowPassword
                    /\ Barring!SuspensionEndsSessions)
<1>1. Init /\ part = "barring" => Four!Login!Init
  BY BarringIs DEF Init, PeopleInit, AdminInit, OfficeInit
<1>2. [Next]_state =>
        /\ part = "barring" => (part = "barring")' /\ [Four!Login!Next]_(Four!Login!vars)
        /\ ~(part = "barring") => ~(part = "barring")'
  BY BarringIs, PeopleRuns DEF Next, PeopleNext, state, people, accounts, signin, Four!Login!vars
<1>3. Four!Login!Spec => []Four!Login!SessionsFollowPassword
  BY Four!SessionsAlwaysFollowPassword, SignInIsBounded DEF Four!OneVisit,
  Four!Login!SignInBounds
<1>4. Four!Login!Spec => []Four!Login!SuspensionEndsSessions
  BY Four!SuspensionAlwaysEndsSessions, SignInIsBounded DEF Four!OneVisit,
  Four!Login!SignInBounds
<1>. QED
  BY <1>1, <1>2, <1>3, <1>4, BarringIs, PTL DEF Spec, Four!Login!Spec, state

LEMMA DocusignIs ==
  /\ Docusign!Init => Four!OAuth!Init
  /\ Docusign!Next => Four!OAuth!Next
  /\ Four!OAuth!LinkRedeemedOnce => Docusign!LinkRedeemedOnce
  /\ Four!OAuth!TokenMatchesRealm => Docusign!TokenMatchesRealm
  /\ Four!OAuth!NameMatchesRealm => Docusign!NameMatchesRealm
BY DEF
    Docusign!Init, Docusign!Next, Docusign!Step, Docusign!Callback, Docusign!Taken,
    Docusign!Honoured, Docusign!Begin, Docusign!Request, Docusign!provider, Docusign!ExchangeCode,
    Docusign!At, Docusign!Issue, Docusign!links, Docusign!StoreConnection, Docusign!Upserted,
    Docusign!Connection, Docusign!Finish, Docusign!NameCompany, Docusign!ReadForDisconnect,
    Docusign!Revoke, Docusign!DeleteConnection, Docusign!ReadForUse, Docusign!Refresh,
    Docusign!StoreTokens, Docusign!Rotated, Docusign!AnswerLost, Docusign!Authorize,
    Docusign!LinkExpires, Docusign!AccessExpires, Docusign!LinkRedeemedOnce,
    Docusign!TokenMatchesRealm, Docusign!NameMatchesRealm, Four!OAuth!Init, Four!OAuth!Next,
    Four!OAuth!Step, Four!OAuth!Callback, Four!OAuth!Taken, Four!OAuth!Honoured, Four!OAuth!Begin,
    Four!OAuth!Request, Four!OAuth!provider, Four!OAuth!ExchangeCode, Four!OAuth!At,
    Four!OAuth!Issue, Four!OAuth!links, Four!OAuth!StoreConnection, Four!OAuth!Upserted,
    Four!OAuth!Connection, Four!OAuth!Finish, Four!OAuth!NameCompany, Four!OAuth!ReadForDisconnect,
    Four!OAuth!Revoke, Four!OAuth!DeleteConnection, Four!OAuth!ReadForUse, Four!OAuth!Refresh,
    Four!OAuth!StoreTokens, Four!OAuth!Rotated, Four!OAuth!AnswerLost, Four!OAuth!Authorize,
    Four!OAuth!LinkExpires, Four!OAuth!AccessExpires, Four!OAuth!LinkRedeemedOnce,
    Four!OAuth!TokenMatchesRealm, Four!OAuth!NameMatchesRealm

LEMMA DocusignHolds ==
  ASSUME NothingElse
  PROVE  Spec => [](part = "docusign" => Docusign!LinkRedeemedOnce
                    /\ Docusign!TokenMatchesRealm
                    /\ Docusign!NameMatchesRealm)
<1>1. Init /\ part = "docusign" => Four!OAuth!Init
  BY DocusignIs DEF Init, PeopleInit, AdminInit, OfficeInit
<1>2. [Next]_state =>
        /\ part = "docusign" => (part = "docusign")' /\ [Four!OAuth!Next]_(Four!OAuth!vars)
        /\ ~(part = "docusign") => ~(part = "docusign")'
  BY DocusignIs, OfficeRuns DEF Next, OfficeNext, state, office, tokens, mailboxes, Four!OAuth!vars
<1>3. Four!OAuth!Spec => []Four!OAuth!LinkRedeemedOnce
  BY Four!HandshakesFinishOnce, NothingElse DEF Four!OneCall, NothingElse, Four!OAuthConstants,
  Four!Connected, Four!Call, Four!CallSteps, One!OAuthConstants, One!Connected, One!Call,
  One!CallSteps
<1>4. Four!OAuth!Spec => [](Four!OAuth!TokenMatchesRealm /\ Four!OAuth!NameMatchesRealm)
  BY Four!OneHandshakeOneCompany, NothingElse DEF Four!OneCall, NothingElse,
  Four!OAuthConstants, Four!Connected, Four!Call, Four!CallSteps, One!OAuthConstants,
  One!Connected, One!Call, One!CallSteps
<1>. QED
  BY <1>1, <1>2, <1>3, <1>4, DocusignIs, PTL DEF Spec, Four!OAuth!Spec, state

(* The part changing.                                                      *)
Five == INSTANCE OfficeProofs WITH
  People <- Rushers, Admins <- {boss}, BuiltIn <- BuiltInRoles, Custom <- {}, Admin <- ADMIN,
  Fallback <- INTERN, Reqs <- Reqs,
  Ops <- {"invite", "edit", "revoke", "signup", "verify", "delete"},
  Visits <- Reqs, VisitOps <- {"login", "google", "forgot", "change"},
  MaxWrong <- 0, MaxLinks <- FewLinks, MaxSecrets <- 0,
  Provider <- "docusign", Users <- Deputies, Calls <- Reqs,
  CallOps <- {"connect", "disconnect", "use"}, MaxStarted <- 1, MaxTokens <- MaxTokens,
  Accounts <- Mailers, Writes <- {r1}, WriteOps <- {"create", "update", "activate", "remove", "send"},
  Owner <- None, Approvers <- None, Thresholds <- None, MaxPct <- None, MaxSales <- None,
  MaxHours <- None, BaseRate <- None, Amounts <- None, Currencies <- None, Values <- None,
  LastDay <- None, MaxSaves <- None, Keys <- None, Secrets <- None, Env <- None, Crossing <-
  None, Garbled <- None, Fields <- None, Optional <- None, Figures <- None, OneField <-
  None, MaxEdits <- None, Brands <- None, Details <- None, Reps <- None, Office <- None,
  Sales <- None, Files <- None, rates <- fxRates, history <- snapshots, page <- mailList,
  seen <- cardSeen, typed <- cardTyped

LEMMA ChangingIs ==
  /\ Changing!Init => Five!Login!Init
  /\ Changing!Next => Five!Login!Next
  /\ Five!Login!SessionsFollowPassword => Changing!SessionsFollowPassword
<1>1. Changing!Init => Five!Login!Init
  BY Zenon DEF
    Changing!Init, Changing!NoAttempt, Five!Login!Init, Five!Login!NoAttempt
<1>2. Five!Login!SessionsFollowPassword => Changing!SessionsFollowPassword
  BY Zenon DEF
    Changing!SessionsFollowPassword, Changing!Accepted, Five!Login!SessionsFollowPassword,
    Five!Login!Accepted
<1>3. ASSUME NEW r, NEW c
      PROVE  /\ Changing!ReadForLogin(r) => Five!Login!ReadForLogin(r)
             /\ Changing!WrongPassword(r) => Five!Login!WrongPassword(r)
             /\ Changing!RightPassword(r) => Five!Login!RightPassword(r)
             /\ Changing!ReadFailures(r) => Five!Login!ReadFailures(r)
             /\ Changing!RecordFailure(r) => Five!Login!RecordFailure(r)
             /\ Changing!ClearAttempts(r) => Five!Login!ClearAttempts(r)
             /\ Changing!Sign(r) => Five!Login!Sign(r)
             /\ Changing!ReadForTotp(r, c) => Five!Login!ReadForTotp(r, c)
             /\ Changing!RightCode(r) => Five!Login!RightCode(r)
             /\ Changing!GoogleReturn(r) => Five!Login!GoogleReturn(r)
  BY Zenon DEF
    Changing!ReadForLogin, Changing!Begin, Changing!keys, Changing!counters, Changing!WrongPassword,
    Changing!At, Changing!Go, Changing!Finish, Changing!RightPassword, Changing!ReadFailures,
    Changing!RecordFailure, Changing!LocksAt, Changing!ClearAttempts, Changing!NoAttempt,
    Changing!ProofOf, Changing!Sign, Changing!ReadForTotp, Changing!RightCode,
    Changing!GoogleReturn, Five!Login!ReadForLogin, Five!Login!Begin, Five!Login!keys,
    Five!Login!counters, Five!Login!WrongPassword, Five!Login!At, Five!Login!Go, Five!Login!Finish,
    Five!Login!RightPassword, Five!Login!ReadFailures, Five!Login!RecordFailure, Five!Login!LocksAt,
    Five!Login!ClearAttempts, Five!Login!NoAttempt, Five!Login!ProofOf, Five!Login!Sign,
    Five!Login!ReadForTotp, Five!Login!RightCode, Five!Login!GoogleReturn
<1>4. ASSUME NEW r, NEW l, NEW op
      PROVE  /\ Changing!Issue(r) => Five!Login!Issue(r)
             /\ Changing!CommitLink(r) => Five!Login!CommitLink(r)
             /\ Changing!ClaimLink(r, l) => Five!Login!ClaimLink(r, l)
             /\ Changing!CommitReset(r) => Five!Login!CommitReset(r)
             /\ Changing!ReadForProfile(r, op) => Five!Login!ReadForProfile(r, op)
             /\ Changing!ChangePassword(r) => Five!Login!ChangePassword(r)
             /\ Changing!EnrollTotp(r) => Five!Login!EnrollTotp(r)
             /\ Changing!ConfirmTotp(r) => Five!Login!ConfirmTotp(r)
             /\ Changing!DisableTotp(r) => Five!Login!DisableTotp(r)
             /\ Changing!Fail(r) => Five!Login!Fail(r)
  BY Zenon DEF
    Changing!Issue, Changing!Begin, Changing!keys, Changing!counters, Changing!CommitLink,
    Changing!At, Changing!Finish, Changing!ClaimLink, Changing!Resetting, Changing!Retired,
    Changing!OpenLinks, Changing!CommitReset, Changing!NewPassword, Changing!UseUp,
    Changing!NoAttempt, Changing!ReadForProfile, Changing!Profile, Changing!Accepted,
    Changing!ChangePassword, Changing!EnrollTotp, Changing!ConfirmTotp, Changing!Checked,
    Changing!DisableTotp, Changing!WithoutTotp, Changing!Fail, Five!Login!Issue, Five!Login!Begin,
    Five!Login!keys, Five!Login!counters, Five!Login!CommitLink, Five!Login!At, Five!Login!Finish,
    Five!Login!ClaimLink, Five!Login!Resetting, Five!Login!Retired, Five!Login!OpenLinks,
    Five!Login!CommitReset, Five!Login!NewPassword, Five!Login!UseUp, Five!Login!NoAttempt,
    Five!Login!ReadForProfile, Five!Login!Profile, Five!Login!Accepted, Five!Login!ChangePassword,
    Five!Login!EnrollTotp, Five!Login!ConfirmTotp, Five!Login!Checked, Five!Login!DisableTotp,
    Five!Login!WithoutTotp, Five!Login!Fail
<1>5. ASSUME NEW l
      PROVE  /\ Changing!LockExpires => Five!Login!LockExpires
             /\ Changing!GoogleStart => Five!Login!GoogleStart
             /\ Changing!Suspend => Five!Login!Suspend
             /\ Changing!Reinstate => Five!Login!Reinstate
             /\ Changing!LinkExpires(l) => Five!Login!LinkExpires(l)
  BY Zenon DEF
    Changing!LockExpires, Changing!keys, Changing!counters, Changing!GoogleStart, Changing!Suspend,
    Changing!Disabled, Changing!Reinstate, Changing!LinkExpires, Changing!UseUp,
    Five!Login!LockExpires, Five!Login!keys, Five!Login!counters, Five!Login!GoogleStart,
    Five!Login!Suspend, Five!Login!Disabled, Five!Login!Reinstate, Five!Login!LinkExpires,
    Five!Login!UseUp
<1>6. ASSUME NEW r PROVE Changing!Step(r) => Five!Login!Step(r)
  BY Zenon, <1>3, <1>4, <1>5 DEF Changing!Step, Changing!Profile, Five!Login!Step,
  Five!Login!Profile
<1>7. Changing!Next => Five!Login!Next
  BY Zenon, <1>5, <1>6 DEF Changing!Next, Five!Login!Next
<1>. QED
  BY <1>1, <1>2, <1>7

LEMMA ChangingHolds == Spec => [](part = "changing" => Changing!SessionsFollowPassword)
<1>1. Init /\ part = "changing" => Five!Login!Init
  BY ChangingIs DEF Init, PeopleInit, AdminInit, OfficeInit
<1>2. [Next]_state =>
        /\ part = "changing" => (part = "changing")' /\ [Five!Login!Next]_(Five!Login!vars)
        /\ ~(part = "changing") => ~(part = "changing")'
  BY ChangingIs, PeopleRuns DEF Next, PeopleNext, state, people, accounts, signin, Five!Login!vars
<1>3. Five!Login!Spec => []Five!Login!SessionsFollowPassword
  BY Five!SessionsAlwaysFollowPassword, SignInIsBounded DEF Five!OneVisit,
  Five!Login!SignInBounds
<1>. QED
  BY <1>1, <1>2, <1>3, ChangingIs, PTL DEF Spec, Five!Login!Spec, state

-----------------------------------------------------------------------------
(* InvitationsHold: an invitation makes one account (one transaction in    *)
(* verify), a request is decided once, and the codes that verify an        *)
(* address are bounded, one request after another or crossing.             *)
THEOREM InvitationsHoldThroughout == Spec => []InvitationsHold
BY JoiningHolds, RushingHolds, PTL DEF InvitationsHold

(* AnAdminRemains: whatever administrators do to one another, one that can *)
(* act is left (assertNotLastAdmin).                                       *)
THEOREM AnAdminRemainsThroughout == Spec => []AnAdminRemains
BY RunningHolds, PTL DEF AnAdminRemains

(* RolesAreGiven: one request at a time, an account starts with the role   *)
(* of the invitation that made it, and a role is removed when nobody holds *)
(* it.                                                                     *)
THEOREM RolesAreGivenThroughout == Spec => RolesAreGiven
BY JoiningHolds, RunningHolds, PTL DEF RolesAreGiven

(* AccessFollowsProof: an accepted session was proved with the password of *)
(* now, whatever logins cross its change, and none outlives a suspension   *)
(* that logins and resets by link cross.  One request at a time, links end *)
(* with the password they were sent for, wrong passwords count up to the   *)
(* lock, and a second factor that is asked for can be answered.            *)
THEOREM AccessFollowsProofThroughout == Spec => []AccessFollowsProof
BY EnteringHolds, ProvingHolds, LeavingHolds, BarringHolds, ChangingHolds, PTL DEF AccessFollowsProof

(* ConnectionHolds: a handshake is finished once by who began it, and the  *)
(* token and the name kept are the company's (OAuthService).               *)
THEOREM ConnectionHoldsThroughout == ASSUME NothingElse PROVE Spec => []ConnectionHolds
<1>1. Connecting <=> part = "alone" \/ part = "lossy" \/ part = "racing" \/ part = "docusign"
  BY DEF Connecting
<1>2. /\ Lossy!LinkRedeemedOnce => Alone!LinkRedeemedOnce
      /\ Lossy!TokenMatchesRealm => Alone!TokenMatchesRealm
      /\ Lossy!NameMatchesRealm => Alone!NameMatchesRealm
      /\ Racing!LinkRedeemedOnce => Alone!LinkRedeemedOnce
      /\ Racing!TokenMatchesRealm => Alone!TokenMatchesRealm
      /\ Racing!NameMatchesRealm => Alone!NameMatchesRealm
      /\ Docusign!LinkRedeemedOnce => Alone!LinkRedeemedOnce
      /\ Docusign!TokenMatchesRealm => Alone!TokenMatchesRealm
      /\ Docusign!NameMatchesRealm => Alone!NameMatchesRealm
  BY DEF Alone!LinkRedeemedOnce, Alone!TokenMatchesRealm, Alone!NameMatchesRealm,
    Lossy!LinkRedeemedOnce, Lossy!TokenMatchesRealm, Lossy!NameMatchesRealm,
    Racing!LinkRedeemedOnce, Racing!TokenMatchesRealm, Racing!NameMatchesRealm,
    Docusign!LinkRedeemedOnce, Docusign!TokenMatchesRealm, Docusign!NameMatchesRealm
<1>. QED
  BY <1>1, <1>2, AloneHolds, LossyHolds, RacingHolds, DocusignHolds, PTL DEF ConnectionHolds

(* MailboxHolds: one mailbox sends, what is decided on is what is stored,  *)
(* and mail goes out of the mailbox shown (MailAccountsService).           *)
THEOREM MailboxHoldsThroughout == ASSUME NothingElse PROVE Spec => []MailboxHolds
BY MailboxesHolds, PTL DEF MailboxHolds
=============================================================================
