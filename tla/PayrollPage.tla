----------------------------- MODULE PayrollPage ----------------------------
(***************************************************************************)
(* The Earnings screen (Payroll.tsx) before two people, over the handlers  *)
(* of Payroll: the owner's own statement, and an approver's run, queue of  *)
(* claims and table of tiers.  What is fetched stays on the screen while   *)
(* others act; after a request of its own a page fetches again.  Requests  *)
(* are answered at once here: Payroll follows those that cross.            *)
(***************************************************************************)
EXTENDS Payroll

VARIABLES
  sheet,  \* the statement on the owner's screen, None before it came
  desk,   \* what the approver's screen has: the claim, the reimbursement, the tiers
  dialog, \* the decision or correction the approver has open, and what they typed in it
  cell,   \* the reimbursement as typed, None while it is not edited
  rows    \* each tier's row, as typed

screens == <<sheet, desk, dialog, cell, rows>>

Sheet(i) == [pay |-> Statement(Earned), inv |-> i]

(* pending, the run and listTiers, as they now answer.                     *)
Awaiting(i) == IF i # None /\ i.status = "SUBMITTED" THEN i ELSE None
Desk(i, owed, table) == [list |-> Awaiting(i), owed |-> owed, table |-> table]

(* A figure may be typed as it is stored, or padded ("5.00" for "5").      *)
Row(t, pct, padded) == [at |-> t, pct |-> pct, padded |-> padded]
Stored(t, pct) == Row(t, pct, FALSE)
AsStored(table) == [t \in DOMAIN table |-> Stored(t, table[t])]

PageInit ==
  /\ Init
  /\ sheet = None /\ desk = Desk(inv, reimbursed, tiers)
  /\ dialog = None /\ cell = None /\ rows = AsStored(tiers)

-----------------------------------------------------------------------------
(* The owner's page: a period is opened, and left for one that is no range;*)
(* claims that cross what the approver's queue shows are those of "cross". *)
OpenSheet ==
  /\ sheet # Sheet(inv)
  /\ sheet' = Sheet(inv)
  /\ UNCHANGED <<vars, desk, dialog, cell, rows>>

LeaveSheet ==
  /\ sheet # None
  /\ sheet' = None
  /\ UNCHANGED <<vars, desk, dialog, cell, rows>>

Locked(s) == s # None /\ s.inv # None /\ s.inv.status = "APPROVED"

(* Mutants: an approved statement, or an unfinished period, is offered.    *)
OffersSubmit_Approved(s) == period # "before"
OffersSubmit_Early(s) == ~ Locked(s)

OffersSubmit(s) == period # "before" /\ ~ Locked(s)

TakesSubmit == period # "before" /\ ~Decided

Claim(f) ==
  [status |-> "SUBMITTED", reviewer |-> None, isTestData |-> Flag,
   base |-> f.base, commission |-> f.commission, tierBonus |-> f.tierBonus,
   reimbursement |-> f.reimbursement, gross |-> f.gross]

PressSubmit ==
  /\ "submit" \in Ops /\ ("cross" \in Ops \/ desk.list = None)
  /\ OffersSubmit(sheet) /\ TakesSubmit
  /\ inv' = Claim(Statement(Earned)) /\ judged' = None
  /\ sheet' = Sheet(inv')
  /\ UNCHANGED <<world, req, desk, dialog, cell, rows>>

-----------------------------------------------------------------------------
(* The approver's queue: a claim is opened to be corrected, approved or    *)
(* rejected.  A correction starts from the figures that were fetched.      *)
(* Mutant: the commission is left for the approver to fill in.             *)
Opened_Blank(kind, i) ==
  [kind |-> kind, on |-> i, base |-> i.base, commission |-> 0, note |-> FALSE,
   typed |-> {}]

Opened(kind, i) ==
  [kind |-> kind, on |-> i, base |-> i.base, commission |-> i.commission, note |-> FALSE,
   typed |-> {}]

FetchDesk ==
  /\ desk # Desk(inv, reimbursed, tiers)
  /\ desk' = Desk(inv, reimbursed, tiers)
  /\ rows' = [t \in DOMAIN tiers |-> IF t \in DOMAIN rows THEN rows[t] ELSE Stored(t, tiers[t])]
  /\ UNCHANGED <<vars, sheet, dialog, cell>>

OpenDialog(kind) ==
  /\ kind \in Ops /\ dialog = None /\ desk.list # None
  /\ dialog' = Opened(kind, desk.list)
  /\ UNCHANGED <<vars, sheet, desk, cell, rows>>

TypeInDialog(d) ==
  /\ dialog # None /\ dialog' = d /\ d # dialog
  /\ UNCHANGED <<vars, sheet, desk, cell, rows>>

TypeFigure(k, a) ==
  /\ dialog.kind = "edit"
  /\ TypeInDialog([dialog EXCEPT ![k] = 100 * a, !.typed = @ \cup {k}])
WriteNote == dialog.kind # "approve" /\ TypeInDialog([dialog EXCEPT !.note = TRUE])

CloseDialog ==
  /\ dialog # None
  /\ dialog' = None
  /\ UNCHANGED <<vars, sheet, desk, cell, rows>>

Ready(d) == d.kind = "approve" \/ d.note

Takes(d) == IF d.kind = "edit" THEN Editable ELSE inv # None /\ inv.status = "SUBMITTED"

Reviewed(d, by) ==
  LET figures == Corrected(inv, d.base, d.commission) IN
  CASE d.kind = "edit" ->
         [inv EXCEPT !.base = figures.base, !.commission = figures.commission, !.gross = figures.gross]
    [] d.kind = "approve" -> [inv EXCEPT !.status = "APPROVED", !.reviewer = by]
    [] d.kind = "reject" -> [inv EXCEPT !.status = "REJECTED", !.reviewer = by]

(* Mutant: the queue is not fetched again.                                 *)
Refreshed_Not(i) == desk

Refreshed(i) == Desk(i, reimbursed, tiers)

(* What is refused leaves the dialog open.                                 *)
Confirm(by) ==
  /\ dialog # None /\ Ready(dialog) /\ Takes(dialog)
  /\ inv' = Reviewed(dialog, by)
  /\ judged' = IF dialog.kind = "edit" THEN judged ELSE Figures(dialog.on)
  /\ desk' = Refreshed(inv') /\ dialog' = None
  /\ UNCHANGED <<world, req, sheet, cell, rows>>

-----------------------------------------------------------------------------
(* A reimbursement in the run: typed in place, and saved as it is left.    *)
OpenCell ==
  /\ "reimburse" \in Ops /\ cell = None
  /\ cell' = desk.owed
  /\ UNCHANGED <<vars, sheet, desk, dialog, rows>>

TypeCell(a) ==
  /\ cell # None /\ cell # a
  /\ cell' = a
  /\ UNCHANGED <<vars, sheet, desk, dialog, rows>>

CloseCell ==
  /\ cell # None
  /\ cell' = None
  /\ UNCHANGED <<vars, sheet, desk, dialog, rows>>

(* What the screen had is not sent again.                                  *)
CommitCell ==
  /\ cell # None /\ cell # desk.owed /\ ~Decided
  /\ reimbursed' = cell
  /\ desk' = Desk(inv, cell, tiers) /\ cell' = None
  /\ UNCHANGED <<period, sources, testMode, inv, judged, req, sheet, dialog, rows>>

-----------------------------------------------------------------------------
(* The tiers: a row keeps what is typed, also when it is saved; only the   *)
(* table is fetched again.                                                 *)
TypeRow(t, row) ==
  /\ "tiers" \in Ops /\ t \in DOMAIN rows /\ rows[t] # row
  /\ rows' = [rows EXCEPT ![t] = row]
  /\ UNCHANGED <<vars, sheet, desk, dialog, cell>>

(* Mutant: a row may be saved as it was.                                   *)
Dirty_Always(t) == t \in DOMAIN desk.table

Dirty(t) == t \in DOMAIN desk.table /\ rows[t] # Stored(t, desk.table[t])

(* The row goes on under its new threshold, the others as they are typed.  *)
SaveRow(t) ==
  /\ t \in DOMAIN rows /\ Dirty(t)
  /\ UpdateTier(t, rows[t].at, rows[t].pct)
  /\ desk' = [desk EXCEPT !.table = tiers']
  /\ rows' = [v \in DOMAIN tiers' |-> IF v = rows[t].at THEN rows[t] ELSE rows[v]]
  /\ UNCHANGED <<sheet, dialog, cell>>

RemoveRow(t) ==
  /\ t \in DOMAIN rows
  /\ DeleteTier(t)
  /\ desk' = [desk EXCEPT !.table = tiers']
  /\ rows' = [v \in DOMAIN tiers' |-> rows[v]]
  /\ UNCHANGED <<sheet, dialog, cell>>

AddRow(t, pct) ==
  /\ CreateTier(t, pct)
  /\ desk' = [desk EXCEPT !.table = tiers']
  /\ rows' = [v \in DOMAIN tiers' |-> IF v = t THEN Stored(t, pct) ELSE rows[v]]
  /\ UNCHANGED <<sheet, dialog, cell>>

-----------------------------------------------------------------------------
Owners == OpenSheet \/ LeaveSheet \/ PressSubmit

Reviewers ==
  \/ FetchDesk \/ CloseDialog
  \/ \E kind \in {"edit", "approve", "reject"} : OpenDialog(kind)
  \/ dialog # None /\ (WriteNote \/ \E k \in {"base", "commission"}, a \in Amounts : TypeFigure(k, a))
  \/ \E by \in Approvers : Confirm(by)
  \/ OpenCell \/ CloseCell \/ CommitCell \/ \E a \in Amounts : TypeCell(a)

Administrators ==
  \E t \in Thresholds :
    \/ SaveRow(t) \/ RemoveRow(t)
    \/ \E pct \in 0 .. MaxPct : \/ AddRow(t, pct)
                                \/ \E u \in Thresholds, padded \in BOOLEAN : TypeRow(t, Row(u, pct, padded))

(* What a statement is worked out from moves under the screens.            *)
Moves ==
  /\ \/ DayPasses
     \/ \E c \in BOOLEAN : ApproveSale(c) \/ VoidSale(c)
  /\ UNCHANGED screens

PageNext == Owners \/ Reviewers \/ Administrators \/ Moves

PageSpec == PageInit /\ [][PageNext]_<<vars, screens>>

-----------------------------------------------------------------------------
PageTypeOK ==
  /\ PayrollTypeOK
  /\ sheet # None => sheet.pay.gross = Gross(sheet.pay)
  /\ dialog # None => dialog.kind \in {"edit", "approve", "reject"} /\ dialog.on.status = "SUBMITTED"
  /\ cell \in Amounts \cup {0, None}
  /\ DOMAIN rows = DOMAIN desk.table

(* What the screens offer on figures that are up to date, the server takes:*)
(* a claim, a decision, a correction; and a tier's row has changed unless  *)
(* it was only padded (submitMine, approveInvoice, editInvoice,            *)
(* updateTier).                                                            *)
PageOffersAreTaken ==
  /\ sheet = Sheet(inv) => (OffersSubmit(sheet) => TakesSubmit)
  /\ desk.list = Awaiting(inv) /\ dialog # None /\ dialog.on = desk.list => Takes(dialog)
  /\ desk.table = tiers =>
       \A t \in DOMAIN rows :
         Dirty(t) /\ ~ rows[t].padded => <<rows[t].at, rows[t].pct>> # <<t, tiers[t]>>

(* "This locks the figures above": while nobody claims anew what the queue *)
(* shows, what is approved is what the dialog showed, even right after a  *)
(* correction of one's own (InvoiceActionModal, refresh).                  *)
ApprovedAsShown == "cross" \notin Ops => ApprovedAsRead

(* A correction moves the figures that were typed and no other, while      *)
(* nobody claims anew what it shows; whatever is claimed, it leaves the bonus   *)
(* and the reimbursement as they were claimed (InvoiceActionModal).        *)
CorrectsWhatIsTyped ==
  inv # None /\ dialog # None /\ dialog.kind = "edit" /\ inv' # inv /\ dialog' = None =>
    /\ inv'.tierBonus = inv.tierBonus /\ inv'.reimbursement = inv.reimbursement
    /\ "cross" \notin Ops =>
         \A k \in {"base", "commission"} \ dialog.typed : inv'[k] = inv[k]
=============================================================================
