---------------------------- MODULE MCDeliveries ----------------------------
(***************************************************************************)
(* What must arrive in the end, one part of which a behaviour follows from *)
(* its start: the outcome of an envelope (Signatures), the number of an    *)
(* approved sale (InvoiceNumbers), received mail (InboundMail), reminders  *)
(* (Reminders) and card payments (Ledger).  The state of the other parts   *)
(* stays where it began.                                                   *)
(***************************************************************************)
EXTENDS Signatures, TLC

CONSTANTS
  r1, r2, s1, s2, vfw, gfc, Blank, slot,
  Last, Polls,                                   \* InboundMail
  Subjects, Runs, Troubles, Cooldown, MaxMails, \* Reminders
  Few                                            \* the subjects that fall due when something goes wrong

VARIABLES
  part,
  settings, sale, asking,                      \* InvoiceNumbers
  inbox, arrived, rows, polling, poll,         \* InboundMail
  due, reminding, log, delivered, skipped, run, \* Reminders
  money, inst, session, ledger, paying         \* Ledger

invoices == <<settings, sale, asking>>
inbound == <<inbox, arrived, rows, polling, poll>>
reminders == <<due, reminding, log, delivered, skipped, run>>
books == <<money, inst, session, ledger, paying>>
state == <<part, vars, invoices, inbound, reminders, books>>

-----------------------------------------------------------------------------
(* Two sales that bill as one brand, one handler at a time.                *)
Invoices == INSTANCE InvoiceNumbers WITH
  Sales <- {s1, s2}, BrandOf <- (s1 :> "VFW" @@ s2 :> "VFW"),
  Prefixes <- {vfw, gfc}, FirstPrefix <- ("VFW" :> vfw @@ "GFC" :> gfc),
  HandSeqs <- {2}, MaxSequence <- 9, Reqs <- {slot},
  Ops <- {"create", "approve", "void", "generate", "number"}, req <- asking

(* Messages, and servers that poll one mailbox and may stop.               *)
Inbound == INSTANCE InboundMail WITH Bad <- {}, Ops <- {"crash", "second"}, running <- polling

(* Invoices, when nothing goes wrong; when mail is refused; and when a run *)
(* stops, another server runs too, or the log fails.                       *)
Remind == INSTANCE Reminders WITH Ops <- Troubles, running <- reminding

Reminding == {"smooth", "bounced", "stopped"}

Works(r) ==
  \/ \E s \in Subjects : Remind!LookUp(r, s)
  \/ Remind!Deliver(r) \/ Remind!Record(r) \/ Remind!Done(r)

Orderly ==
  \/ (part = "stopped" \/ ~reminding) /\ \E r \in Runs : Remind!Tick(r)
  \/ \E r \in Runs : Works(r)
  \/ \E s \in Subjects : Remind!FallDue(s) \/ Remind!Settle(s) \/ Remind!OtherMail(s)
  \/ Remind!DayPasses

Remembers ==
  /\ \/ Orderly
     \/ part = "bounced" /\ \E r \in Runs : Remind!Refused(r)
     \/ part = "stopped" /\ (Remind!Crash \/ \E r \in Runs : Remind!RecordFails(r))
  /\ part = "smooth" \/ due' \subseteq Few

(* Card payments, and voids in between.                                    *)
Cards == INSTANCE Ledger WITH
  Prices <- {[total |-> 300, deposit |-> 100]},
  HandAmounts <- {100}, Parts <- {100}, Sessions <- {s1}, Unit <- 1,
  Ops <- {"checkout", "webhook", "void"}, MaxInsts <- 0, MaxEntries <- 1,
  sale <- money, req <- paying

NoBooks == money = None /\ inst = None /\ session = None /\ ledger = None /\ paying = None

DeliveriesInit ==
  /\ \/ part \in {"signatures", "invoices", "inbound", "smooth", "bounced", "stopped"} /\ NoBooks
     \/ part = "cards" /\ Cards!Init
  /\ Init /\ Invoices!Init /\ Inbound!Init /\ Remind!Init

(* A step of one part leaves the others alone.                             *)
Within(p) ==
  /\ UNCHANGED part
  /\ p = "signatures" \/ UNCHANGED vars
  /\ p = "invoices" \/ UNCHANGED invoices
  /\ p = "inbound" \/ UNCHANGED inbound
  /\ p \in Reminding \/ UNCHANGED reminders
  /\ p = "cards" \/ UNCHANGED books

DeliveriesNext ==
  \/ part = "signatures" /\ Next /\ Within(part)
  \/ part = "invoices" /\ Invoices!Next /\ Within(part)
  \/ part = "inbound" /\ Inbound!Next /\ Within(part)
  \/ part \in Reminding /\ Remembers /\ Within(part)
  \/ part = "cards" /\ Cards!Next /\ Within(part)

(* The fairness of the part that runs: the first and the second thing that *)
(* is tried again until it succeeds about the k-th event, message or sale. *)
(* Of an envelope's events only those that end it need arrive.             *)
Status(k) == <<"completed", "declined", "voided">>[k]
Slot(i) == <<r1, r2>>[i]
Billed(k) == <<s1, s2>>[k]

Taken(k) ==
  \/ /\ part = "signatures"
     /\ \E r \in Reqs, n \in Events :
          n.status = Status(k) /\ n \notin answered /\ Receive(r, n)
  \/ /\ part = "inbound" /\ k \in Inbound!Messages
     /\ \E p \in Polls : Inbound!Comes(p, k) /\ Inbound!Look(p)
  \/ /\ part = "invoices" /\ k \in 1 .. 2
     /\ Invoices!ReadForNumber(slot, "generate", Billed(k))
  \/ /\ part = "invoices" /\ k = 3
     /\ Invoices!Asked(s1, slot) /\ Invoices!TakeNumber(slot)
  \/ /\ part = "cards" /\ k = 1 /\ session[s1].stripe = "charged"
     /\ \E r \in Reqs : Cards!Deliver(r, s1)

Carried(k) ==
  \/ /\ part = "signatures"
     /\ \E r \in Reqs, n \in Events : n.status = Status(k) /\ Carries(r, n) /\ Claims(r)
  \/ /\ part = "inbound" /\ k \in Inbound!Messages
     /\ \E p \in Polls : Inbound!Comes(p, k) /\ Inbound!Store(p)
  \/ /\ part = "invoices" /\ k \in 1 .. 2
     /\ Invoices!Asked(Billed(k), slot) /\ Invoices!CommitNumber(slot)
  \/ /\ part = "invoices" /\ k = 3
     /\ Invoices!Asked(s2, slot) /\ Invoices!TakeNumber(slot)
  \/ /\ part = "cards" /\ k = 1 /\ \E r \in Reqs : Cards!ClaimSession(r)
  \/ /\ part = "cards" /\ k = 2 /\ \E r \in Reqs : Cards!CommitSession(r)

Begun(i) ==
  \/ part = "inbound" /\ Inbound!Tick(i)
  \/ part = "smooth" /\ Remind!Tick(i)

GoesOn(i) ==
  \/ part = "signatures" /\ Goes(Slot(i))
  \/ part = "cards" /\ Cards!Goes(Slot(i))
  \/ part = "invoices" /\ i = 1 /\ Invoices!Goes(slot)
  \/ part = "inbound" /\ Inbound!Ends(i)
  \/ part = "smooth" /\ Works(i)

DeliveriesFairness ==
  /\ \A k \in 1 .. 3 : SF_state(Taken(k) /\ Within(part)) /\ SF_state(Carried(k) /\ Within(part))
  /\ \A i \in 1 .. 2 : WF_state(Begun(i) /\ Within(part)) /\ WF_state(GoesOn(i) /\ Within(part))

DeliveriesSpec == DeliveriesInit /\ [][DeliveriesNext]_state /\ DeliveriesFairness

-----------------------------------------------------------------------------
(* Envelopes, rows, polls and runs keep their types, whichever part runs.  *)
DeliveriesTypeOK ==
  /\ TypeOK
  /\ Inbound!InboundTypeOK
  /\ Remind!RemindersTypeOK

(* A message becomes one row, though two polls pull it at once and either  *)
(* may stop (persist); one reminder goes out within the cooldown, though   *)
(* mail is refused, and whoever is passed over did get one, though runs    *)
(* stop or their log fails (remindOne).                                    *)
OnceEach ==
  /\ Inbound!StoredOnce
  /\ part # "stopped" => Remind!OncePerCooldown
  /\ part # "bounced" => Remind!OnlyRemindedSkipped

(* What is tried again and again is done in the end: an approved sale      *)
(* whose invoice Accounting keeps asking for is numbered (allocateInvoice, *)
(* advanceSequencePast), mail that arrives is stored though polls break    *)
(* off (pollOnce), who stays due is reminded (runOverduePaymentReminders), *)
(* and a contact whose card was charged is credited (handleWebhook).       *)
NothingIsStuck ==
  /\ Invoices!ApprovedIsInvoiced
  /\ Inbound!MailIsStored
  /\ \A s \in Subjects :
       part = "smooth" /\ s \in due ~> (s \notin due \/ Remind!DeliveredTo(s) # {})
  /\ part = "cards" /\ session[s1].stripe = "charged"
       ~> part = "cards" /\ ledger.ofSession[s1] = session[s1].amount
=============================================================================
