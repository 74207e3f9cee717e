------------------------------ MODULE MCAdmin ------------------------------
(***************************************************************************)
(* People and administration for TLC: Accounts and SignIn, "one at a time" *)
(* with one request slot and "crossing" with two; Rates, RateCard,         *)
(* Contacts, Shows, AccountPages, Configuration, MailForm and Reports.     *)
(* A behaviour follows one of the instances from its start to its end.     *)
(***************************************************************************)
EXTENDS Naturals, TLC

CONSTANTS
  boss, guest, other, ADMIN, INTERN, FIELD, r1, None,
  Joiners, Runners, Rushers, Invites, BuiltInRoles, CustomRoles, Reqs, \* Accounts
  MaxOtpAttempts, MaxCodes,
  MaxAttempts, MaxWrong, MaxVersion, MaxLinks, FewLinks, MaxSecrets,   \* SignIn
  Deputies                                                             \* two administrators who are alike

VARIABLES
  part, \* which of the instances below runs
  user, invite, codes, roles, managers, decisions, req,
  account, attempt, links, sessions, challenges, states, suspensions, wrong,
  confirmed, secrets, visit

accounts == <<user, invite, codes, roles, managers, decisions, req>>
signin == <<account, attempt, links, sessions, challenges, states, suspensions, wrong,
            confirmed, secrets, visit>>
people == <<accounts, signin>>

-----------------------------------------------------------------------------
(* Admission, one request at a time; the administration, one at a time;    *)
(* admission with two requests crossing.                                   *)
Admission == {"invite", "edit", "delete", "revoke", "signup", "resend", "verify", "approve", "reject"}

Joining == INSTANCE Accounts WITH
  People <- Joiners, Admins <- {boss}, BuiltIn <- BuiltInRoles, Custom <- {},
  Admin <- ADMIN, Fallback <- INTERN, Reqs <- {r1}, Ops <- Admission

Running == INSTANCE Accounts WITH
  People <- Runners, Admins <- Runners, BuiltIn <- BuiltInRoles, Custom <- CustomRoles,
  Admin <- ADMIN, Fallback <- INTERN, Reqs <- {r1}, Ops <- {"users", "roles", "invite"}

Rushing == INSTANCE Accounts WITH
  People <- Rushers, Admins <- {boss}, BuiltIn <- BuiltInRoles, Custom <- {},
  Admin <- ADMIN, Fallback <- INTERN,
  Ops <- {"invite", "edit", "revoke", "signup", "verify", "delete"}

ASSUME AccountsAreSound ==
  Joining!AccountsAssumption /\ Running!AccountsAssumption /\ Rushing!AccountsAssumption

-----------------------------------------------------------------------------
(* Passwords and links, one request at a time; the second factor, one at a *)
(* time; sign-in crossing a suspension, with and without a reset; crossing *)
(* a change of password.                                                   *)
Entering == INSTANCE SignIn WITH
  user <- account, req <- visit, Reqs <- {r1}, Ops <- {"login", "google", "forgot", "change"},
  MaxSecrets <- 0

Proving == INSTANCE SignIn WITH
  user <- account, req <- visit, Reqs <- {r1}, Ops <- {"login", "totp", "enroll", "confirm", "disable"},
  MaxLinks <- 0

Leaving == INSTANCE SignIn WITH
  user <- account, req <- visit, Ops <- {"login", "google", "suspend"},
  MaxWrong <- 0, MaxLinks <- 0, MaxSecrets <- 0

Barring == INSTANCE SignIn WITH
  user <- account, req <- visit, Ops <- {"login", "forgot", "suspend"},
  MaxWrong <- 0, MaxLinks <- FewLinks, MaxSecrets <- 0

Changing == INSTANCE SignIn WITH
  user <- account, req <- visit, Ops <- {"login", "google", "forgot", "change"},
  MaxWrong <- 0, MaxLinks <- FewLinks, MaxSecrets <- 0

ASSUME SignInIsBounded ==
  /\ {MaxAttempts, MaxWrong, MaxVersion, MaxLinks, FewLinks, MaxSecrets} \subseteq Nat
  /\ MaxAttempts > 0

-----------------------------------------------------------------------------
NoAccounts ==
  /\ user = None /\ invite = None /\ codes = None /\ roles = None
  /\ managers = None /\ decisions = None /\ req = None

NoSignIn ==
  /\ account = None /\ attempt = None /\ links = None /\ sessions = None
  /\ challenges = None /\ states = None /\ suspensions = None /\ wrong = None
  /\ confirmed = None /\ secrets = None /\ visit = None

NoPeople == NoAccounts /\ NoSignIn

PeopleInit ==
  \/ /\ NoSignIn
     /\ \/ part = "joining" /\ Joining!Init
        \/ part = "running" /\ Running!Init
        \/ part = "rushing" /\ Rushing!Init
  \/ /\ NoAccounts
     /\ \/ part = "entering" /\ Entering!Init
        \/ part = "proving" /\ Proving!Init
        \/ part = "leaving" /\ Leaving!Init
        \/ part = "barring" /\ Barring!Init
        \/ part = "changing" /\ Changing!Init

PeopleNext ==
  \/ part = "joining" /\ Joining!Next /\ UNCHANGED signin
  \/ part = "running" /\ Running!Next /\ UNCHANGED signin
  \/ part = "rushing" /\ Rushing!Next /\ UNCHANGED signin
  \/ part = "entering" /\ Entering!Next /\ UNCHANGED accounts
  \/ part = "proving" /\ Proving!Next /\ UNCHANGED accounts
  \/ part = "leaving" /\ Leaving!Next /\ UNCHANGED accounts
  \/ part = "barring" /\ Barring!Next /\ UNCHANGED accounts
  \/ part = "changing" /\ Changing!Next /\ UNCHANGED accounts

-----------------------------------------------------------------------------
PeopleTypeOK ==
  /\ part = "joining" => Joining!AccountsTypeOK
  /\ part = "running" => Running!AccountsTypeOK
  /\ part = "rushing" => Rushing!AccountsTypeOK
  /\ part = "entering" => Entering!SignInTypeOK
  /\ part = "proving" => Proving!SignInTypeOK
  /\ part = "leaving" => Leaving!SignInTypeOK
  /\ part = "barring" => Barring!SignInTypeOK
  /\ part = "changing" => Changing!SignInTypeOK

(* An invitation makes one account, whatever sign-ups cross (signup); one  *)
(* request at a time, it is either redeemed or revoked, the account made   *)
(* of it is decided once (approveUser, rejectUser) and one code of it is   *)
(* open at a time, tried so often (issueOtp, verifyOtp).                   *)
InvitationsHold ==
  /\ part = "joining" => Joining!InvitationsHold
  /\ part = "rushing" => Rushing!InvitationOnce

(* Whoever enters has the role of the invitation (signup), and a role that *)
(* goes takes nobody's permissions along (RolesController.remove), one     *)
(* request at a time.                                                      *)
RolesAreGiven ==
  [][/\ part = "joining" => Joining!EntersAsInvited /\ Joining!HeldByNobody
     /\ part = "running" => Running!EntersAsInvited /\ Running!HeldByNobody]_accounts

(* One request at a time, an active administrator remains (updateUser,     *)
(* deleteUser, otherActiveAdmins).                                         *)
AnAdminRemains == part = "running" => Running!AnAdminRemains

(* A session ends with the password it was proved by (reset,               *)
(* changePassword) and with the account's suspension (updateUser), a reset *)
(* ends the links before it, and a second factor that is asked for can be  *)
(* answered (confirmTotp, disableTotp); wrong passwords count up to the    *)
(* lock (recordFailure).  Requests cross wherever the code keeps it so.    *)
AccessFollowsProof ==
  /\ part = "entering" => Entering!SessionsFollowPassword /\ Entering!AccessFollowsProof
  /\ part = "leaving" => Leaving!SessionsFollowPassword /\ Leaving!SuspensionEndsSessions
  /\ part = "barring" => Barring!SessionsFollowPassword /\ Barring!SuspensionEndsSessions
  /\ part = "changing" => Changing!SessionsFollowPassword
  /\ part = "proving" => Proving!AccessFollowsProof

-----------------------------------------------------------------------------
VARIABLES
  fxRates, snapshots, day, rateForm, saving, \* Rates
  card, log, cardSeen, cardTyped, patch,     \* RateCard
  book, soldTo, filing, told,                \* Contacts
  shows, seasons, catalogue, modal, adding,  \* Shows
  invitation, person, listed, form, sent, steps, \* AccountPages
  stored, held, epoch, client, shown, draft, edited, save, \* Configuration
  box, mailList, editor, update,             \* MailForm
  deal, status, voided, paid, active         \* Reports

fx == <<fxRates, snapshots, day, rateForm, saving>>
cards == <<card, log, cardSeen, cardTyped, patch>>
customers == <<book, soldTo, filing, told>>
calendar == <<shows, seasons, catalogue, modal, adding>>
pages == <<invitation, person, listed, form, sent, steps>>
settings == <<stored, held, epoch, client, shown, draft, edited, save>>
mailing == <<box, mailList, editor, update>>
figures == <<deal, status, voided, paid, active>>
admin == <<fx, cards, customers, calendar, pages, settings, mailing, figures>>

-----------------------------------------------------------------------------
(* The rates as they are saved, and with the provider's pulled in.         *)
Saving == INSTANCE Rates WITH
  rates <- fxRates, history <- snapshots, form <- rateForm,
  Currencies <- {"USD"}, Values <- {1, 2}, Admins <- Deputies, Ops <- {"save"},
  LastDay <- 3, MaxSaves <- 4

Pulling == INSTANCE Rates WITH
  rates <- fxRates, history <- snapshots, form <- rateForm,
  Currencies <- {"USD"}, Values <- {1, 2}, Admins <- Deputies,
  Ops <- {"save", "refresh", "partial"}, LastDay <- 2, MaxSaves <- 3

(* A package in its form, with a cap that may be left blank; a tax profile *)
(* in the table.                                                           *)
Package == INSTANCE RateCard WITH
  seen <- cardSeen, typed <- cardTyped,
  Fields <- {"price", "cap"}, Optional <- {"cap"},
  Figures <- [f \in {"price", "cap"} |-> IF f = "cap" THEN {None, 5} ELSE {1, 2}],
  Admins <- Deputies, OneField <- FALSE, MaxEdits <- 2

Tax == INSTANCE RateCard WITH
  seen <- cardSeen, typed <- cardTyped, Fields <- {"rate"}, Optional <- {},
  Figures <- [f \in {"rate"} |-> {1, 2}], Admins <- Deputies, OneField <- TRUE, MaxEdits <- 2

(* New brands, two requests crossing; brands amended and a sale moved from *)
(* one to another, one at a time; a file, crossing all of it.              *)
File == <<[brand |-> "x", details |-> 1, valid |-> FALSE], [brand |-> "x", details |-> 1, valid |-> TRUE],
          [brand |-> "x", details |-> 1, valid |-> TRUE], [brand |-> "y", details |-> 1, valid |-> TRUE]>>

Selling == INSTANCE Contacts WITH
  sales <- soldTo, req <- filing, Reps <- {guest, other}, Office <- {},
  Brands <- {"x"}, Details <- {1, 2}, Sales <- {"s", "t"}, Files <- <<>>,
  Ops <- {"sell", "create"}

Amending == INSTANCE Contacts WITH
  sales <- soldTo, req <- filing, Reps <- {guest, other},
  Office <- {boss}, Brands <- {"x", "y"}, Details <- {1, 2}, Sales <- {"s", "t"}, Files <- <<>>,
  Reqs <- {r1}, Ops <- {"sell", "amend"}

Importing == INSTANCE Contacts WITH
  sales <- soldTo, req <- filing, Reps <- {guest}, Office <- {boss},
  Brands <- {"x", "y"}, Details <- {1}, Sales <- {"s"}, Files <- [f |-> File],
  Ops <- {"import", "create", "sell"}

(* Two forms that add shows to a calendar two of whose seasons share an    *)
(* abbreviation; one that copies a show, while seasons come and go.        *)
Adding == INSTANCE Shows WITH
  page <- catalogue, req <- adding, Cities <- {"milan"}, Labels <- {"ss", "fw", "sS"},
  Short <- [ss |-> "SS27", fw |-> "FW27", sS |-> "SS27"], Admins <- Deputies,
  Ops <- {"add"}, MaxShows <- 3

Copying == INSTANCE Shows WITH
  page <- catalogue, req <- adding, Cities <- {"milan", "paris"}, Labels <- {"ss", "fw"},
  Short <- [ss |-> "SS27", fw |-> "FW27"], Admins <- {boss},
  Ops <- {"add", "edit", "season"}, MaxShows <- 2

(* From the invitation to the queue, with two administrators; an account   *)
(* in its form while another client patches it.                            *)
Deciding == INSTANCE AccountPages WITH
  invite <- invitation, account <- person, seen <- listed, Roles <- {INTERN, FIELD},
  Admins <- Deputies, PayTypes <- {"SALARY"}, Ops <- {"invite", "queue"},
  Crossing <- FALSE, MaxSteps <- 2

Keeping == INSTANCE AccountPages WITH
  invite <- invitation, account <- person, seen <- listed, Roles <- {INTERN, FIELD},
  Admins <- {boss}, PayTypes <- {"SALARY", "COMMISSION_ONLY"}, Ops <- {"users", "api"},
  Crossing <- FALSE, MaxSteps <- 3

(* The storage settings, one administrator's, with a secret among them;    *)
(* and two administrators whose saves cross.                               *)
Settled == INSTANCE Configuration WITH
  Keys <- {"bucket", "key"}, Secrets <- {"key"}, Values <- {1, 2},
  Env <- [k \in {"bucket", "key"} |-> IF k = "bucket" THEN 1 ELSE None],
  Admins <- {boss}, Crossing <- FALSE, MaxSaves <- 2, Garbled <- 0

Saves == INSTANCE Configuration WITH
  Keys <- {"bucket", "endpoint"}, Secrets <- {}, Values <- {1},
  Env <- [k \in {"bucket", "endpoint"} |-> 1],
  Admins <- Deputies, Crossing <- TRUE, MaxSaves <- 2, Garbled <- 0

(* One account of two administrators'.                                     *)
Account == INSTANCE MailForm WITH page <- mailList, Admins <- Deputies

(* Three sales of two representatives, in two currencies, one of which is  *)
(* paid but for a cent and one overpaid; the customers are one, or two.    *)
Deal(event, city, package, rep, contact, currency, net, pays, submitted) ==
  [event |-> event, city |-> city, package |-> package, rep |-> rep, contact |-> contact,
   currency |-> currency, taxable |-> net, tax |-> net \div 10, pays |-> pays,
   created |-> 1, sent |-> submitted]

BookedSales == {
  [s |-> Deal("ss", "milan", "vip", guest, "x", "CAD", 101, 110, 1),
   t |-> Deal("fw", "milan", "vip", guest, y, "USD", 53, 90, 2),
   u |-> Deal("fw", "paris", "group", other, "x", "USD", 71, 0, 2)] : y \in {"x", "y"}}

Reporting == INSTANCE Reports WITH
  Books <- BookedSales, Reps <- {guest, other}, Target <- 150,
  Rate <- [CAD |-> 100, USD |-> 137], Days <- {1}, MaxVoided <- 1, MaxSuspended <- 1,
  Weights <- [revenue |-> 30, approved |-> 20, collection |-> 30, retention |-> 20]

-----------------------------------------------------------------------------
NoRates == fxRates = None /\ snapshots = None /\ day = None /\ rateForm = None /\ saving = None
NoCards == card = None /\ log = None /\ cardSeen = None /\ cardTyped = None /\ patch = None
NoCustomers == book = None /\ soldTo = None /\ filing = None /\ told = None
NoCalendar ==
  shows = None /\ seasons = None /\ catalogue = None /\ modal = None /\ adding = None
NoPages ==
  /\ invitation = None /\ person = None /\ listed = None
  /\ form = None /\ sent = None /\ steps = None

NoSettings ==
  /\ stored = None /\ held = None /\ epoch = None /\ client = None
  /\ shown = None /\ draft = None /\ edited = None /\ save = None

NoMailing == box = None /\ mailList = None /\ editor = None /\ update = None

NoFigures == deal = None /\ status = None /\ voided = None /\ paid = None /\ active = None

NoAdmin ==
  /\ NoRates /\ NoCards /\ NoCustomers /\ NoCalendar /\ NoPages
  /\ NoSettings /\ NoMailing /\ NoFigures

AdminInit ==
  \/ /\ NoCards /\ NoCustomers /\ NoCalendar /\ NoPages /\ NoSettings /\ NoMailing /\ NoFigures
     /\ \/ part = "saving" /\ Saving!RatesInit
        \/ part = "pulling" /\ Pulling!RatesInit
  \/ /\ NoRates /\ NoCustomers /\ NoCalendar /\ NoPages /\ NoSettings /\ NoMailing /\ NoFigures
     /\ \/ part = "package" /\ Package!CardInit
        \/ part = "tax" /\ Tax!CardInit
  \/ /\ NoRates /\ NoCards /\ NoCalendar /\ NoPages /\ NoSettings /\ NoMailing /\ NoFigures
     /\ \/ part = "selling" /\ Selling!ContactsInit
        \/ part = "amending" /\ Amending!ContactsInit
        \/ part = "importing" /\ Importing!ContactsInit
  \/ /\ NoRates /\ NoCards /\ NoCustomers /\ NoPages /\ NoSettings /\ NoMailing /\ NoFigures
     /\ \/ part = "adding" /\ Adding!ShowsInit
        \/ part = "copying" /\ Copying!ShowsInit
  \/ /\ NoRates /\ NoCards /\ NoCustomers /\ NoCalendar /\ NoSettings /\ NoMailing /\ NoFigures
     /\ \/ part = "deciding" /\ Deciding!PagesInit
        \/ part = "keeping" /\ Keeping!PagesInit
  \/ /\ NoRates /\ NoCards /\ NoCustomers /\ NoCalendar /\ NoPages /\ NoMailing /\ NoFigures
     /\ \/ part = "settled" /\ Settled!ConfigInit
        \/ part = "saves" /\ Saves!ConfigInit
  \/ /\ NoRates /\ NoCards /\ NoCustomers /\ NoCalendar /\ NoPages /\ NoSettings /\ NoFigures
     /\ part = "mailform" /\ Account!MailFormInit
  \/ /\ NoRates /\ NoCards /\ NoCustomers /\ NoCalendar /\ NoPages /\ NoSettings /\ NoMailing
     /\ part = "reports" /\ Reporting!ReportsInit

AdminNext ==
  \/ /\ UNCHANGED <<cards, customers, calendar, pages, settings, mailing, figures>>
     /\ \/ part = "saving" /\ Saving!RatesNext
        \/ part = "pulling" /\ Pulling!RatesNext
  \/ /\ UNCHANGED <<fx, customers, calendar, pages, settings, mailing, figures>>
     /\ \/ part = "package" /\ Package!CardNext
        \/ part = "tax" /\ Tax!CardNext
  \/ /\ UNCHANGED <<fx, cards, calendar, pages, settings, mailing, figures>>
     /\ \/ part = "selling" /\ Selling!ContactsNext
        \/ part = "amending" /\ Amending!ContactsNext
        \/ part = "importing" /\ Importing!ContactsNext
  \/ /\ UNCHANGED <<fx, cards, customers, pages, settings, mailing, figures>>
     /\ \/ part = "adding" /\ Adding!ShowsNext
        \/ part = "copying" /\ Copying!ShowsNext
  \/ /\ UNCHANGED <<fx, cards, customers, calendar, settings, mailing, figures>>
     /\ \/ part = "deciding" /\ Deciding!PagesNext
        \/ part = "keeping" /\ Keeping!PagesNext
  \/ /\ UNCHANGED <<fx, cards, customers, calendar, pages, mailing, figures>>
     /\ \/ part = "settled" /\ Settled!ConfigNext
        \/ part = "saves" /\ Saves!ConfigNext
  \/ /\ UNCHANGED <<fx, cards, customers, calendar, pages, settings, figures>>
     /\ part = "mailform" /\ Account!MailFormNext
  \/ /\ UNCHANGED <<fx, cards, customers, calendar, pages, settings, mailing>>
     /\ part = "reports" /\ Reporting!ReportsNext

-----------------------------------------------------------------------------
AdminTypeOK ==
  /\ part \in {"saving", "pulling"} => Saving!RatesTypeOK
  /\ part = "package" => Package!CardTypeOK
  /\ part = "tax" => Tax!CardTypeOK
  /\ part = "selling" => Selling!ContactsTypeOK
  /\ part = "amending" => Amending!ContactsTypeOK
  /\ part = "importing" => Importing!ContactsTypeOK
  /\ part = "adding" => Adding!ShowsTypeOK
  /\ part = "copying" => Copying!ShowsTypeOK
  /\ part = "deciding" => Deciding!PagesTypeOK
  /\ part = "keeping" => Keeping!PagesTypeOK
  /\ part = "settled" => Settled!ConfigTypeOK
  /\ part = "saves" => Saves!ConfigTypeOK
  /\ part = "mailform" => Account!MailFormTypeOK
  /\ part = "reports" => Reporting!ReportsTypeOK

(* The rates in force are the newest snapshot (updateSettings); the audit  *)
(* trail tells what a catalogue row now says (updatePackage, updateTax); a *)
(* file's good rows are in the book (importCsv); nobody is left on         *)
(* commission alone without one (updateUser, one request at a time); and   *)
(* the settings decided on are those stored (update, one save at a time),  *)
(* the client documents go through made of them (getClient, however saves  *)
(* cross); a mail account that looks configured is (MailAccountForm,       *)
(* MailAccountService.update); and the reports agree with one another      *)
(* (byDimension, packages, retentionRows, receivablesRows, repRows), no    *)
(* score above its weights (scoreParts).                                   *)
AdministrationHolds ==
  /\ part = "saving" => Saving!RatesAreTheNewest
  /\ part = "package" => Package!AuditTellsTheRow
  /\ part = "tax" => Tax!AuditTellsTheRow
  /\ part = "importing" => Importing!GoodRowsAreIn
  /\ part = "keeping" => Keeping!PaidSomehow
  /\ part = "settled" => Settled!HeldIsStored
  /\ part = "settled" => Settled!ClientIsInForce
  /\ part = "saves" => Saves!ClientIsInForce
  /\ part = "mailform" => Account!LooksAsItIs
  /\ part = "reports" =>
       /\ Reporting!ReportsAgree /\ Reporting!PeriodsAddUp /\ Reporting!OwedIsListed
       /\ Reporting!ScoreIsBounded /\ Reporting!RepeatIsReturning

(* The figures of a period that is over stay (resolveFxRates); a contact   *)
(* is written over by who may see it (resolveContact); a form adds the     *)
(* shows it says (createEvents, updateEvent); and lets in the role shown   *)
(* (approveUser); and what the settings' form sends was typed in it        *)
(* (ConfigGroupCard).                                                      *)
AdministrationKeeps ==
  [][/\ part \in {"saving", "pulling"} => Saving!PastRatesStay
     /\ part = "selling" => Selling!OnlyTheirsIsWritten
     /\ part = "amending" => Amending!OnlyTheirsIsWritten
     /\ part = "adding" => Adding!AddedAsAnnounced
     /\ part = "copying" => Copying!AddedAsAnnounced
     /\ part = "deciding" => Deciding!ApprovedAsShown
     /\ part = "settled" => Settled!OnlyTypedIsSent
     /\ part = "saves" => Saves!OnlyTypedIsSent]_admin
=============================================================================
