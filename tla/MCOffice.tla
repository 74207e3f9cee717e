------------------------------ MODULE MCOffice ------------------------------
(***************************************************************************)
(* The office side for TLC: people and administration (MCAdmin), Payroll   *)
(* and its pages (PayrollPage), OAuthTokens and MailAccounts.  A behaviour *)
(* follows one part from its start.                                        *)
(***************************************************************************)
EXTENDS MCAdmin

CONSTANTS
  owner,
  Realms, MaxStarted, MaxTokens, MoreTokens, \* OAuthTokens
  Mailers, MaxPasswords, MaxWrites                         \* MailAccounts

VARIABLES
  period, sales, hours, payType, tiers, reimbursed, testMode, inv, judged, claim, \* Payroll
  sheet, desk, dialog, cell, tierRows,                                         \* PayrollPage
  row, pending, started, adopted, issued, good, call,                          \* OAuthTokens
  rows, cache, version, transport, write                                       \* MailAccounts

pay == <<period, sales, hours, payType, tiers, reimbursed, testMode, inv, judged, claim>>
earnings == <<sheet, desk, dialog, cell, tierRows>>
tokens == <<row, pending, started, adopted, issued, good, call>>
mailboxes == <<rows, cache, version, transport, write>>
office == <<pay, earnings, tokens, mailboxes>>

-----------------------------------------------------------------------------
(* One statement, one request at a time: sales and claims, corrections and *)
(* reviews; tiers that change; the timesheet and the pay basis.            *)
Claims == INSTANCE Payroll WITH
  req <- claim,
  Owner <- owner, Approvers <- {boss}, Reqs <- {r1},
  Ops <- {"sales", "submit", "edit", "review", "reimburse"},
  Thresholds <- {0}, MaxPct <- 1, MaxSales <- 1, MaxHours <- 0, BaseRate <- 1, Amounts <- {0, 2}

Tiers == INSTANCE Payroll WITH
  req <- claim,
  Owner <- owner, Approvers <- {boss}, Reqs <- {r1},
  Ops <- {"sales", "tiers", "submit"},
  Thresholds <- {0, 1, 2}, MaxPct <- 1, MaxSales <- 2, MaxHours <- 0, BaseRate <- 1, Amounts <- {0}

Basis == INSTANCE Payroll WITH
  req <- claim,
  Owner <- owner, Approvers <- {boss}, Reqs <- {r1},
  Ops <- {"hours", "pay", "submit", "edit", "review", "switch"},
  Thresholds <- {}, MaxPct <- 0, MaxSales <- 0, MaxHours <- 2, BaseRate <- 2, Amounts <- {0, 1}

(* The pages: claims made and judged with nobody claiming under the queue, *)
(* and crossing it; reimbursements in the run; the table of tiers.         *)
Judging == INSTANCE PayrollPage WITH
  req <- claim, rows <- tierRows,
  Owner <- owner, Approvers <- {boss}, Reqs <- {r1},
  Ops <- {"submit", "edit", "approve", "reject", "sales"},
  Thresholds <- {0}, MaxPct <- 1, MaxSales <- 1, MaxHours <- 0, BaseRate <- 1, Amounts <- {2}

Hurried == INSTANCE PayrollPage WITH
  req <- claim, rows <- tierRows,
  Owner <- owner, Approvers <- {boss}, Reqs <- {r1},
  Ops <- {"submit", "edit", "approve", "sales", "cross"},
  Thresholds <- {0}, MaxPct <- 1, MaxSales <- 1, MaxHours <- 0, BaseRate <- 1, Amounts <- {2}

Repaying == INSTANCE PayrollPage WITH
  req <- claim, rows <- tierRows,
  Owner <- owner, Approvers <- {boss}, Reqs <- {r1},
  Ops <- {"submit", "approve", "reject", "reimburse"},
  Thresholds <- {}, MaxPct <- 0, MaxSales <- 0, MaxHours <- 0, BaseRate <- 1, Amounts <- {0, 2}

Table == INSTANCE PayrollPage WITH
  req <- claim, rows <- tierRows,
  Owner <- owner, Approvers <- {boss}, Reqs <- {r1}, Ops <- {"tiers"},
  Thresholds <- {0, 1}, MaxPct <- 1, MaxSales <- 0, MaxHours <- 0, BaseRate <- 1, Amounts <- {0}

(* QuickBooks, one request at a time, with no answer lost and with some;   *)
(* two callbacks or refreshes crossing; and DocuSign, crossing.            *)
Alone == INSTANCE OAuthTokens WITH
  Provider <- "qbo", Users <- Deputies, Reqs <- {r1},
  Ops <- {"connect", "disconnect", "use"}, MaxLinks <- MaxStarted, req <- call

Lossy == INSTANCE OAuthTokens WITH
  Provider <- "qbo", Users <- Deputies, Reqs <- {r1},
  Ops <- {"connect", "disconnect", "use", "lost"}, MaxLinks <- MaxStarted, req <- call

Racing == INSTANCE OAuthTokens WITH
  Provider <- "qbo", Users <- Deputies,
  Ops <- {"connect", "disconnect", "use"}, MaxLinks <- 1, MaxTokens <- MoreTokens, req <- call

Docusign == INSTANCE OAuthTokens WITH
  Provider <- "docusign", Users <- Deputies,
  Ops <- {"connect", "disconnect", "use"}, MaxLinks <- 1, req <- call

(* Mailboxes, one request at a time.                                       *)
Mailboxes == INSTANCE MailAccounts WITH
  Accounts <- Mailers, Reqs <- {r1}, Ops <- {"create", "update", "activate", "remove", "send"},
  MaxSecrets <- MaxPasswords, req <- write

-----------------------------------------------------------------------------
NoPay ==
  /\ period = None /\ sales = None /\ hours = None /\ payType = None /\ tiers = None
  /\ reimbursed = None /\ testMode = None /\ inv = None /\ judged = None /\ claim = None

NoEarnings == sheet = None /\ desk = None /\ dialog = None /\ cell = None /\ tierRows = None

NoTokens ==
  /\ row = None /\ pending = None /\ started = None /\ adopted = None
  /\ issued = None /\ good = None /\ call = None

NoMailboxes ==
  /\ rows = None /\ cache = None /\ version = None /\ transport = None /\ write = None

NoOffice == NoPay /\ NoEarnings /\ NoTokens /\ NoMailboxes

OfficeInit ==
  \/ /\ NoEarnings /\ NoTokens /\ NoMailboxes
     /\ \/ part = "claims" /\ Claims!Init
        \/ part = "tiers" /\ Tiers!Init
        \/ part = "basis" /\ Basis!Init
  \/ /\ NoTokens /\ NoMailboxes
     /\ \/ part = "judging" /\ Judging!PageInit
        \/ part = "hurried" /\ Hurried!PageInit
        \/ part = "repaying" /\ Repaying!PageInit
        \/ part = "table" /\ Table!PageInit
  \/ /\ NoPay /\ NoEarnings /\ NoMailboxes
     /\ \/ part = "alone" /\ Alone!Init
        \/ part = "lossy" /\ Lossy!Init
        \/ part = "racing" /\ Racing!Init
        \/ part = "docusign" /\ Docusign!Init
  \/ NoPay /\ NoEarnings /\ NoTokens /\ part = "mailboxes" /\ Mailboxes!Init

Init ==
  \/ NoOffice /\ NoAdmin /\ PeopleInit
  \/ NoOffice /\ NoPeople /\ AdminInit
  \/ NoPeople /\ NoAdmin /\ OfficeInit

OfficeNext ==
  \/ part = "claims" /\ Claims!Next /\ UNCHANGED <<earnings, tokens, mailboxes>>
  \/ part = "tiers" /\ Tiers!Next /\ UNCHANGED <<earnings, tokens, mailboxes>>
  \/ part = "basis" /\ Basis!Next /\ UNCHANGED <<earnings, tokens, mailboxes>>
  \/ part = "judging" /\ Judging!PageNext /\ UNCHANGED <<tokens, mailboxes>>
  \/ part = "hurried" /\ Hurried!PageNext /\ UNCHANGED <<tokens, mailboxes>>
  \/ part = "repaying" /\ Repaying!PageNext /\ UNCHANGED <<tokens, mailboxes>>
  \/ part = "table" /\ Table!PageNext /\ UNCHANGED <<tokens, mailboxes>>
  \/ part = "alone" /\ Alone!Next /\ UNCHANGED <<pay, earnings, mailboxes>>
  \/ part = "lossy" /\ Lossy!Next /\ UNCHANGED <<pay, earnings, mailboxes>>
  \/ part = "racing" /\ Racing!Next /\ UNCHANGED <<pay, earnings, mailboxes>>
  \/ part = "docusign" /\ Docusign!Next /\ UNCHANGED <<pay, earnings, mailboxes>>
  \/ part = "mailboxes" /\ Mailboxes!Next /\ UNCHANGED <<pay, earnings, tokens>>

Next ==
  /\ UNCHANGED part
  /\ \/ PeopleNext /\ UNCHANGED <<admin, office>>
     \/ AdminNext /\ UNCHANGED <<people, office>>
     \/ OfficeNext /\ UNCHANGED <<people, admin>>

Spec == Init /\ [][Next]_<<part, people, admin, office>>

-----------------------------------------------------------------------------
Paying == part \in {"claims", "tiers", "basis"}
Showing == part \in {"judging", "hurried", "repaying", "table"}
Connecting == part \in {"alone", "lossy", "racing", "docusign"}

OfficeTypeOK ==
  /\ PeopleTypeOK /\ AdminTypeOK
  /\ part = "claims" => Claims!PayrollTypeOK
  /\ part = "tiers" => Tiers!PayrollTypeOK
  /\ part = "basis" => Basis!PayrollTypeOK
  /\ part \in {"judging", "hurried"} => Judging!PageTypeOK
  /\ part = "repaying" => Repaying!PageTypeOK
  /\ part = "table" => Table!PageTypeOK
  /\ part \in {"alone", "lossy"} => Alone!TokensTypeOK
  /\ part \in {"racing", "docusign"} => Racing!TokensTypeOK
  /\ part = "mailboxes" => Mailboxes!MailTypeOK

(* The bonus is a bracket's (computeTierBonus), and the parts of a claim   *)
(* add up to its gross, whatever is corrected (submitMine, editInvoice);   *)
(* what is approved is what its reviewer had before them (approveInvoice), *)
(* at the handler and on the screen; and what the screens offer, the       *)
(* server takes (Payroll.tsx).                                             *)
StatementsHold ==
  /\ part = "tiers" => Tiers!TierBonusIsProgressive
  /\ Paying => Claims!GrossAddsUp /\ Claims!ApprovedAsRead
  /\ Showing => Judging!GrossAddsUp /\ Judging!PageOffersAreTaken
  /\ part = "judging" => Judging!ApprovedAsShown

(* Nothing approved moves again, nor what it was reimbursed, nor whether   *)
(* it is test data (submitMine, editInvoice, setReimbursement); on the     *)
(* screen a correction moves what was typed (InvoiceActionModal).          *)
ApprovedIsFrozen ==
  [][/\ Paying \/ Showing => Claims!KeepsApproved /\ Claims!KeepsReimbursement /\ Claims!KeepsFlag
     /\ part = "judging" => Judging!CorrectsWhatIsTyped
     /\ part = "hurried" => Hurried!CorrectsWhatIsTyped]_<<pay, earnings>>

(* A handshake is finished once, by who began it (handleCallback); tokens  *)
(* and name are those of the company connected; and, at rest, the token    *)
(* kept is one the provider takes (ensureFreshToken).                      *)
ConnectionHolds ==
  /\ Connecting => Alone!LinkRedeemedOnce /\ Alone!TokenMatchesRealm /\ Alone!NameMatchesRealm
  /\ part = "alone" => Alone!ConnectionHolds

(* One mailbox sends (activate, remove), what is decided on is what is     *)
(* stored (bump), and mail goes out of the mailbox shown, with the         *)
(* password it has (transportFor).                                         *)
MailboxHolds == part = "mailboxes" => Mailboxes!MailboxHolds

(* Wherever rates come from, those in force are the newest snapshot        *)
(* (reports.service.ts: "they never disagree").                            *)
RatesNeverDisagree == part = "pulling" => Pulling!RatesAreTheNewest

(* A voided sale "leaves normal lists and reports" (submissions.service.ts,*)
(* void).                                                                  *)
VoidedSalesAreHidden == part = "reports" => Reporting!VoidedIsHidden

Symmetry == Permutations(Reqs) \cup Permutations(Deputies) \cup Permutations(Realms)
=============================================================================
