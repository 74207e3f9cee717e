------------------------------ MODULE SalePage ------------------------------
(***************************************************************************)
(* The page of one sale, with its cards and dialogs (SubmissionDetail.tsx, *)
(* InstallmentsCard.tsx), and the approval queue (Queue.tsx), open before  *)
(* several people at once, over the handlers they call.  A page offers     *)
(* what the record it last fetched allows; a dialog keeps what it was      *)
(* opened on until it is confirmed or closed.  Every request is answered   *)
(* at once here: SaleLifecycle and Ledger follow those that cross.         *)
(***************************************************************************)
EXTENDS Installments, SequencesExt

CONSTANTS
  Owner,       \* the sale's representative
  Accounting,  \* who holds the accounting and approval permissions
  Managers,    \* who sees every sale, and edits only their own
  Terms,       \* what it is sold for: [total, off, custom]
  Limits,      \* the discounts past which two people sign
  Amounts,     \* the amounts typed
  Numbers,     \* the invoice numbers typed
  Ops,         \* what is asked for in this instance, and whether plans are redrawn
               \* ("draw") and the threshold moves ("limit")
  MaxInsts, MaxLines, MaxPaid, \* bounds: instalments ever made, lines, money either way
  None

VARIABLES
  record,  \* the sale as the server has it
  limit,   \* the threshold in the Settings
  page,    \* the record each person's browser has, None before it came
  shown,   \* the threshold it has
  dialog   \* the dialog each has open

vars == <<record, limit, page, shown, dialog>>

People == {Owner} \cup Accounting \cup Managers
Insts == 1 .. MaxInsts

OpenForEdit == {"PENDING", "RETURNED"}
Decided == {"APPROVED", "EXPORTED"}
Settled == {"REJECTED", "VOIDED"}
Statuses == OpenForEdit \cup Decided \cup Settled

Balance(r) == r.terms.total - r.paid
Pending(r) == {i \in Insts: r.inst[i].status = "PENDING"}
Paid(r) == {i \in Insts: r.inst[i].status = "PAID"}

(* Only the plan and the decision look back at the record.                 *)
Dialog(kind, r) ==
  [kind |-> kind, on |-> IF kind \in {"plan", "approve"} THEN r ELSE None, inst |-> 0, amount |-> 0, lines |-> <<>>, number |-> None,
   terms |-> r.terms, ack |-> FALSE]

SalePageTypeOK ==
  /\ record.status \in Statuses /\ (record.from # None <=> record.status = "VOIDED")
  /\ record.askedBy \in Accounting \cup {None}
  /\ record.terms \in Terms /\ record.paid \in Int
  /\ \A i \in Insts: record.inst[i].status \in {"none", "PENDING", "PAID", "gone"}
  /\ limit \in Limits /\ shown \in [People -> Limits]
  /\ \A u \in People: dialog[u] # None => page[u] # None /\ dialog[u].kind \in Ops

Init ==
  /\ \E t \in Terms:
       record = [status |-> "PENDING", from |-> None, askedBy |-> None, terms |-> t, paid |-> 0,
                 invoice |-> None, inst |-> [i \in Insts |-> [status |-> "none", amount |-> 0]]]
  /\ limit \in Limits
  /\ page = [u \in People |-> None]
  /\ shown = [u \in People |-> limit]
  /\ dialog = [u \in People |-> None]

-----------------------------------------------------------------------------
(* What the pages offer u for a record r.                                  *)
MayEditSale(u, r) == u \in Accounting \/ u = Owner

OffersEdit(u, r) ==
  \/ r.status \in OpenForEdit /\ MayEditSale(u, r)
  \/ r.status \in Decided /\ u \in Accounting

(* Mutant: the owner keeps the number once the sale is decided.            *)
OffersNumber_Owner(u, r) == r.status \notin Settled /\ MayEditSale(u, r)

OffersNumber(u, r) ==
  /\ r.status \notin Settled
  /\ IF r.status \in Decided THEN u \in Accounting ELSE MayEditSale(u, r)

Over(r, l) == r.terms.off > l

(* The queue keeps its own request from the one who made it.  Mutant: it   *)
(* is offered for confirmation like any other.                             *)
OffersApproval_Own(u, r) == r.status = "PENDING" /\ u \in Accounting

OffersApproval(u, r) == r.status = "PENDING" /\ u \in Accounting /\ r.askedBy # u

(* Payments received.                                                      *)
OffersPayment(u, r) == u \in Accounting /\ r.status # "REJECTED"

OffersOnSale(u, r, kind) ==
  CASE kind = "edit" -> OffersEdit(u, r)
    [] kind = "number" -> OffersNumber(u, r)
    [] kind = "generate" -> u \in Accounting /\ r.status = "APPROVED" /\ r.invoice = None
    [] kind = "export" -> u \in Accounting /\ r.status = "APPROVED"
    [] kind = "void" -> u \in Accounting /\ r.status # "VOIDED"
    [] kind = "unvoid" -> u \in Accounting /\ r.status = "VOIDED"
    [] kind = "pay" -> OffersPayment(u, r)

OffersOnPlan(r, kind) ==
  /\ r.status \notin Settled
  /\ kind \in {"clear", "mark"} => Pending(r) # {}
  /\ kind = "unmark" => Paid(r) # {}

OffersInQueue(u, r, kind) ==
  IF kind = "approve" THEN OffersApproval(u, r) ELSE u \in Accounting /\ r.status = "PENDING"

PlanKinds == {"plan", "clear", "mark", "unmark"}
QueueKinds == {"approve", "return", "reject"}

Offers(u, r, kind) ==
  CASE kind \in PlanKinds -> OffersOnPlan(r, kind)
    [] kind \in QueueKinds -> OffersInQueue(u, r, kind)
    [] OTHER -> OffersOnSale(u, r, kind)

(* The plan's dialog starts from what is unpaid, or from an even split.    *)
SeededLines(r) ==
  LET unpaid == SetToSortSeq(Pending(r), <)
  IN IF unpaid # <<>> THEN [k \in DOMAIN unpaid |-> r.inst[unpaid[k]].amount]
     ELSE SplitEvenly(Balance(r), MaxLines)

(* The dialogs, filled as they open.                                       *)
MarkDialogs(r) == {[Dialog("mark", r) EXCEPT !.inst = i, !.amount = r.inst[i].amount]: i \in Pending(r)}
UndoDialogs(r) == {[Dialog("unmark", r) EXCEPT !.inst = i, !.amount = -r.inst[i].amount]: i \in Paid(r)}
PlanDialog(r) == [Dialog("plan", r) EXCEPT !.lines = SeededLines(r)]
PaymentDialog(r) == [Dialog("pay", r) EXCEPT !.amount = Balance(r)]
NumberDialogs(r) == {[Dialog("number", r) EXCEPT !.number = n]: n \in Numbers \ {r.invoice}}
DecisionDialogs(r) == {[Dialog("approve", r) EXCEPT !.ack = a]: a \in {FALSE, r.terms.custom}}

Opened(u, r, kind) ==
  CASE kind = "mark" -> MarkDialogs(r)
    [] kind = "unmark" -> UndoDialogs(r)
    [] kind = "plan" -> {PlanDialog(r)}
    [] kind = "pay" -> {PaymentDialog(r)}
    [] kind = "number" -> NumberDialogs(r)
    [] kind = "approve" -> DecisionDialogs(r)
    [] kind = "edit" -> {[Dialog(kind, r) EXCEPT !.terms = t]: t \in Terms}
    [] OTHER -> {Dialog(kind, r)}

-----------------------------------------------------------------------------
(* When a dialog can be confirmed.  The queue's judges the discount by the *)
(* record it was opened on, and the threshold the page has.                *)
Requesting(d, l) == Over(d.on, l) /\ d.on.askedBy = None
SelfBlocked(u, d, l) == Over(d.on, l) /\ d.on.askedBy = u
Remaining(d) == Balance(d.on) - Scheduled(d.lines)

(* Mutant: a plan may run over the balance.                                *)
TiesOut_Over(d) == d.lines # <<>> /\ Remaining(d) <= 0

TiesOut(d) == d.lines # <<>> /\ Remaining(d) = 0

Ready(u, d) ==
  CASE d.kind = "plan" -> TiesOut(d)
    [] d.kind = "approve" ->
         /\ ~ SelfBlocked(u, d, shown[u])
         /\ d.on.terms.custom => d.ack \/ Requesting(d, shown[u])
    [] OTHER -> TRUE

(* What the server takes.                                                  *)
MayEdit(u) ==
  /\ MayEditSale(u, record)
  /\ record.status \in Decided => u \in Accounting
  /\ record.status \notin Settled

MaySetNumber(u) ==
  IF record.status \in Decided THEN u \in Accounting
  ELSE record.status \notin Settled /\ MayEditSale(u, record)

FirstTouch == Over(record, limit) /\ record.askedBy = None

(* Mutant: the acknowledgement is asked before the sign-off.               *)
MayApprove_AckFirst(u, d) ==
  /\ u \in Accounting /\ record.status = "PENDING"
  /\ Over(record, limit) => record.askedBy # u
  /\ record.terms.custom => d.ack

MayApprove(u, d) ==
  /\ u \in Accounting /\ record.status = "PENDING"
  /\ Over(record, limit) => record.askedBy # u
  /\ ~ FirstTouch /\ record.terms.custom => d.ack

Covers(lines) ==
  /\ Balance(record) > 0
  /\ \A k \in DOMAIN lines: lines[k] > 0
  /\ Scheduled(lines) = Balance(record)

MayInvoice(u) == u \in Accounting /\ record.status \in Decided /\ record.invoice = None

AcceptsPlan(d) ==
  /\ record.status \notin Settled
  /\ d.kind = "plan" => Covers(d.lines)
  /\ d.kind = "clear" => Pending(record) # {}
  /\ d.kind = "mark" => d.inst \in Pending(record)
  /\ d.kind = "unmark" => d.inst \in Paid(record)

Accepted(u, d) ==
  CASE d.kind \in PlanKinds -> AcceptsPlan(d)
    [] d.kind = "edit" -> MayEdit(u)
    [] d.kind = "number" -> MaySetNumber(u)
    [] d.kind = "generate" -> MayInvoice(u)
    [] d.kind = "export" -> u \in Accounting /\ record.status = "APPROVED"
    [] d.kind = "void" -> u \in Accounting /\ record.status # "VOIDED"
    [] d.kind = "unvoid" -> u \in Accounting /\ record.status = "VOIDED"
    [] d.kind = "pay" -> u \in Accounting /\ record.status # "REJECTED"
    [] d.kind = "approve" -> MayApprove(u, d)
    [] d.kind \in {"return", "reject"} -> u \in Accounting /\ record.status = "PENDING"

-----------------------------------------------------------------------------
(* What the server does.  Deciding, returning and repricing a sale end     *)
(* what was asked of it.                                                   *)
Freed == {i \in Insts: record.inst[i].status = "none"}
Nth(k) == Min(Freed) + k - 1

Cleared == [i \in Insts |-> IF i \in Pending(record) THEN [record.inst[i] EXCEPT !.status = "gone"]
                            ELSE record.inst[i]]

(* Mutant: the lines are written over the rows that were there.            *)
Replanned_InPlace(lines) ==
  LET old == SetToSortSeq(Pending(record), <)
      row(k) == IF k <= Len(old) THEN old[k] ELSE Nth(k - Len(old))
  IN [i \in Insts |->
        IF \E k \in DOMAIN lines: row(k) = i
        THEN [status |-> "PENDING", amount |-> lines[CHOOSE k \in DOMAIN lines: row(k) = i]]
        ELSE Cleared[i]]

(* The outstanding lines are deleted and the new ones made.                *)
Replanned(lines) ==
  [i \in Insts |->
     IF \E k \in DOMAIN lines: Nth(k) = i
     THEN [status |-> "PENDING", amount |-> lines[CHOOSE k \in DOMAIN lines: Nth(k) = i]]
     ELSE Cleared[i]]

Decide(s) == [record EXCEPT !.status = s, !.askedBy = None]

Approved(u) == IF FirstTouch THEN [record EXCEPT !.askedBy = u] ELSE Decide("APPROVED")

Edited(d) ==
  [record EXCEPT !.terms = d.terms, !.askedBy = None,
                 !.status = IF @ \in Decided THEN @ ELSE "PENDING"]

Marked(i) == [record EXCEPT !.inst[i].status = "PAID", !.paid = @ + record.inst[i].amount]
Unmarked(i) == [record EXCEPT !.inst[i].status = "PENDING", !.paid = @ - record.inst[i].amount]

Taken(u, d) ==
  CASE d.kind = "edit" -> Edited(d)
    [] d.kind = "number" -> [record EXCEPT !.invoice = d.number]
    [] d.kind = "generate" -> [record EXCEPT !.invoice = "next"]
    [] d.kind = "export" ->
         [record EXCEPT !.status = "EXPORTED", !.invoice = IF @ = None THEN "next" ELSE @]
    [] d.kind = "void" -> [record EXCEPT !.status = "VOIDED", !.from = record.status]
    [] d.kind = "unvoid" -> [record EXCEPT !.status = record.from, !.from = None]
    [] d.kind = "pay" -> [record EXCEPT !.paid = @ + d.amount]
    [] d.kind = "plan" -> [record EXCEPT !.inst = Replanned(d.lines)]
    [] d.kind = "clear" -> [record EXCEPT !.inst = Cleared]
    [] d.kind = "mark" -> Marked(d.inst)
    [] d.kind = "unmark" -> Unmarked(d.inst)
    [] d.kind = "approve" -> Approved(u)
    [] d.kind = "return" -> Decide("RETURNED")
    [] d.kind = "reject" -> Decide("REJECTED")

-----------------------------------------------------------------------------
(* The record is fetched: when the page opens, and again after a request   *)
(* of one's own, not of another's.                                         *)
Fetch(u) ==
  /\ page[u] # record
  /\ page' = [page EXCEPT ![u] = record]
  /\ UNCHANGED <<record, limit, shown, dialog>>

(* The page is loaded anew: only then is the threshold.                    *)
Reload(u) ==
  /\ shown[u] # limit
  /\ shown' = [shown EXCEPT ![u] = limit]
  /\ page' = [page EXCEPT ![u] = None]
  /\ dialog' = [dialog EXCEPT ![u] = None]
  /\ UNCHANGED <<record, limit>>

OpenDialog(u, kind) ==
  /\ page[u] # None /\ dialog[u] = None
  /\ Offers(u, page[u], kind)
  /\ \E d \in Opened(u, page[u], kind): dialog' = [dialog EXCEPT ![u] = d]
  /\ UNCHANGED <<record, limit, page, shown>>

Close(u) ==
  /\ dialog[u] # None
  /\ dialog' = [dialog EXCEPT ![u] = None]
  /\ UNCHANGED <<record, limit, page, shown>>

(* The plan's rows: split anew, typed, topped up, added and removed.       *)
Redraws(u, lines) ==
  /\ dialog[u].lines # lines
  /\ dialog' = [dialog EXCEPT ![u].lines = lines]
  /\ UNCHANGED <<record, limit, page, shown>>

Planning(u) == "draw" \in Ops /\ dialog[u] # None /\ dialog[u].kind = "plan"

Split(u, n) == Planning(u) /\ Redraws(u, SplitEvenly(Balance(dialog[u].on), n))

TypeLine(u, k, a) ==
  Planning(u) /\ k \in DOMAIN dialog[u].lines /\ Redraws(u, [dialog[u].lines EXCEPT ![k] = a])

Absorb(u, k) ==
  /\ Planning(u) /\ k \in DOMAIN dialog[u].lines /\ Remaining(dialog[u]) # 0
  /\ Redraws(u, [dialog[u].lines EXCEPT ![k] = @ + Remaining(dialog[u])])

AddLine(u) ==
  /\ Planning(u) /\ Len(dialog[u].lines) < MaxLines
  /\ Redraws(u, Append(dialog[u].lines, Max({0, Remaining(dialog[u])})))

RemoveLine(u, k) ==
  /\ Planning(u) /\ k \in DOMAIN dialog[u].lines /\ Len(dialog[u].lines) > 1
  /\ Redraws(u, RemoveAt(dialog[u].lines, k))

TypeAmount(u, a) ==
  /\ dialog[u] # None /\ dialog[u].kind = "pay" /\ dialog[u].amount # a
  /\ dialog' = [dialog EXCEPT ![u].amount = a]
  /\ UNCHANGED <<record, limit, page, shown>>

(* Confirmed and taken.  What is refused leaves everything as it is, the   *)
(* dialog open.                                                            *)
Confirm(u) ==
  /\ dialog[u] # None
  /\ Ready(u, dialog[u]) /\ Accepted(u, dialog[u])
  /\ dialog[u].kind = "plan" => Freed # {} /\ Nth(Len(dialog[u].lines)) <= MaxInsts
  /\ record' = Taken(u, dialog[u])
  /\ record'.paid \in -MaxPaid .. MaxPaid
  /\ dialog' = [dialog EXCEPT ![u] = None]
  /\ UNCHANGED <<limit, page, shown>>

LimitChanges ==
  /\ "limit" \in Ops
  /\ limit' \in Limits \ {limit}
  /\ UNCHANGED <<record, page, shown, dialog>>

Next ==
  \/ LimitChanges
  \/ \E u \in People:
       \/ Fetch(u) \/ Reload(u) \/ Close(u) \/ Confirm(u) \/ AddLine(u)
       \/ \E kind \in Ops \ {"limit", "draw"}: OpenDialog(u, kind)
       \/ \E n \in 1 .. MaxLines: Split(u, n)
       \/ \E k \in 1 .. MaxLines: Absorb(u, k) \/ RemoveLine(u, k)
       \/ \E k \in 1 .. MaxLines, a \in Amounts: TypeLine(u, k, a)
       \/ \E a \in Amounts: TypeAmount(u, a)

Spec == Init /\ [][Next]_vars

-----------------------------------------------------------------------------
(* What a page offers on the record as it is, the server takes: the        *)
(* browser's copies of the rules agree with the server's, permission by    *)
(* permission and state by state.  A plan is the exception the dialog      *)
(* leaves open: of a settled balance, or with a line that is not positive. *)
Offered(u, kind) == {d \in Opened(u, page[u], kind): Offers(u, page[u], kind) /\ Ready(u, d)}

Fair(d) == d.kind # "plan" \/ (Balance(record) > 0 /\ \A k \in DOMAIN d.lines: d.lines[k] > 0)

OffersAreTaken ==
  \A u \in People:
    /\ page[u] = record /\ shown[u] = limit =>
         \A kind \in Ops \ {"limit", "draw"}: \A d \in Offered(u, kind): Fair(d) => Accepted(u, d)
    /\ dialog[u] # None /\ dialog[u].kind = "plan" /\ dialog[u].on = record /\ Ready(u, dialog[u]) /\ Fair(dialog[u]) =>
         Accepted(u, dialog[u])

(* What is marked, undone or recorded posts the amount that its dialog     *)
(* showed, however the sale was replanned since: an instalment's row is    *)
(* replaced, never rewritten.                                              *)
PostsWhatItShows ==
  \A u \in People:
    dialog[u] # None /\ dialog[u].kind \in {"mark", "unmark", "pay"} /\ dialog'[u] = None =>
      record'.paid - record.paid \in {0, dialog[u].amount}

(* "It will NOT approve the sale": a dialog that says it only asks for a   *)
(* second sign-off does not decide, even with the threshold of the day.    *)
RequestOnlyAsks ==
  \A u \in People:
    shown[u] = limit /\ dialog[u] # None /\ dialog[u].kind = "approve" /\ Requesting(dialog[u], shown[u])
      /\ dialog'[u] = None => record'.status = record.status
=============================================================================
