------------------------------ MODULE Payroll ------------------------------
(***************************************************************************)
(* One person's earnings for one period: PayrollService derives the live   *)
(* statement from sales, timesheet, pay basis, commission tiers and        *)
(* reimbursement, and freezes it in a PayrollInvoice that Accounting       *)
(* reviews.  AttendanceService keeps the timesheet.                        *)
(*                                                                         *)
(* Amounts are whole units; a tier's bonus counts in hundredths of one,    *)
(* and so do the figures it is added to.  Every sale is of one unit.       *)
(***************************************************************************)
EXTENDS Integers, FiniteSets, FiniteSetsExt

CONSTANTS
  Owner,       \* whose statement it is
  Approvers,   \* those with payroll.approve
  Reqs,        \* request slots
  Ops,         \* the operations offered
  None,        \* no statement, no reviewer, a free slot
  Thresholds,  \* where a tier may start
  MaxPct,      \* bound on a tier's percentage
  MaxSales,    \* bound on the sales approved in the period
  MaxHours,    \* bound on the hours recorded
  BaseRate,    \* the account's rate
  Amounts      \* the reimbursements and corrections that may be typed

VARIABLES
  period,     \* where today is: before its last day, on it, or after it
  sales,      \* sales approved in the period, by whether they carry commission
  hours,      \* hours on the timesheet
  payType,    \* SALARY, HOURLY or COMMISSION_ONLY
  tiers,      \* the CommissionTier table: threshold to percentage
  reimbursed, \* the PayrollReimbursement of the period
  testMode,   \* Settings.testDataMode
  inv,        \* the PayrollInvoice row of the period
  judged,     \* the figures its last reviewer had read
  req         \* the requests in flight

vars == <<period, sales, hours, payType, tiers, reimbursed, testMode, inv, judged, req>>
sources == <<sales, hours, payType, tiers>>
world == <<period, sources, reimbursed, testMode>>

PayTypes == {"SALARY", "HOURLY", "COMMISSION_ONLY"}
Tables == UNION {[T -> 0 .. MaxPct] : T \in SUBSET Thresholds}

At(r, step) == req[r] # None /\ req[r].at = step
Begin(r, call) == req' = [req EXCEPT ![r] = call]
Finish(r) == req' = [req EXCEPT ![r] = None]

Init ==
  /\ period = "before"
  /\ sales = [c \in BOOLEAN |-> 0] /\ hours = 0 /\ payType = "SALARY"
  /\ tiers \in Tables /\ reimbursed = 0 /\ testMode = FALSE
  /\ inv = None /\ judged = None
  /\ req = [r \in Reqs |-> None]

-----------------------------------------------------------------------------
(* What the statement is derived from.                                     *)
Revenue == sales[TRUE] + sales[FALSE]
Commission == 100 * sales[TRUE]

BasePay == 100 * CASE payType = "SALARY" -> BaseRate
                   [] payType = "HOURLY" -> BaseRate * hours
                   [] payType = "COMMISSION_ONLY" -> 0

(* computeTierBonus: each tier pays on the revenue from its own threshold  *)
(* to the next, or to the revenue where that is less.                      *)
BracketTop(t, revenue) ==
  Min({revenue} \cup {u \in DOMAIN tiers : u > t})

(* Mutant: a cliff - the highest tier reached pays on all the revenue.     *)
TierBonus_Cliff(revenue) ==
  LET reached == {t \in DOMAIN tiers : t < revenue} IN
  IF reached = {} THEN 0 ELSE revenue * tiers[Max(reached)]

TierBonus(revenue) ==
  MapThenSumSet(LAMBDA t : (BracketTop(t, revenue) - t) * tiers[t],
                {t \in DOMAIN tiers : t < revenue})

Gross(f) == f.base + f.commission + f.tierBonus + f.reimbursement

(* statement: the sales, the timesheet and the account are read first, the *)
(* tiers and the reimbursement after them.                                 *)
Earned == [base |-> BasePay, commission |-> Commission, revenue |-> Revenue]

Statement(e) ==
  LET bonus == TierBonus(e.revenue)
      owed == 100 * reimbursed
  IN [base |-> e.base, commission |-> e.commission, tierBonus |-> bonus, reimbursement |-> owed,
      gross |-> e.base + e.commission + bonus + owed]

Figures(i) == [base |-> i.base, commission |-> i.commission, tierBonus |-> i.tierBonus,
               reimbursement |-> i.reimbursement, gross |-> i.gross]

(* Sales are approved, voided and brought back while the period lasts (and *)
(* voided after it); the timesheet, the pay basis and the calendar move.   *)
ApproveSale(c) ==
  /\ "sales" \in Ops /\ period # "over" /\ Revenue < MaxSales
  /\ sales' = [sales EXCEPT ![c] = @ + 1]
  /\ UNCHANGED <<period, hours, payType, tiers, reimbursed, testMode, inv, judged, req>>

VoidSale(c) ==
  /\ "sales" \in Ops /\ sales[c] > 0
  /\ sales' = [sales EXCEPT ![c] = @ - 1]
  /\ UNCHANGED <<period, hours, payType, tiers, reimbursed, testMode, inv, judged, req>>

(* AttendanceService.upsert and remove: what the days now sum to.          *)
MarkDay(h) ==
  /\ "hours" \in Ops /\ h # hours
  /\ hours' = h
  /\ UNCHANGED <<period, sales, payType, tiers, reimbursed, testMode, inv, judged, req>>

SetPayType(p) ==
  /\ "pay" \in Ops /\ p # payType
  /\ payType' = p
  /\ UNCHANGED <<period, sales, hours, tiers, reimbursed, testMode, inv, judged, req>>

DayPasses ==
  /\ period # "over"
  /\ period' = IF period = "before" THEN "last" ELSE "over"
  /\ UNCHANGED <<sources, reimbursed, testMode, inv, judged, req>>

ToggleTestData ==
  /\ "switch" \in Ops
  /\ testMode' = ~testMode
  /\ UNCHANGED <<period, sources, reimbursed, inv, judged, req>>

-----------------------------------------------------------------------------
(* The commission-tier table: one tier per threshold (a unique column).    *)
CreateTier(t, pct) ==
  /\ "tiers" \in Ops /\ t \notin DOMAIN tiers
  /\ tiers' = [v \in DOMAIN tiers \cup {t} |-> IF v = t THEN pct ELSE tiers[v]]
  /\ UNCHANGED <<period, sales, hours, payType, reimbursed, testMode, inv, judged, req>>

UpdateTier(t, u, pct) ==
  /\ "tiers" \in Ops /\ t \in DOMAIN tiers
  /\ u = t \/ u \notin DOMAIN tiers
  /\ <<u, pct>> # <<t, tiers[t]>>
  /\ tiers' = [v \in (DOMAIN tiers \ {t}) \cup {u} |-> IF v = u THEN pct ELSE tiers[v]]
  /\ UNCHANGED <<period, sales, hours, payType, reimbursed, testMode, inv, judged, req>>

DeleteTier(t) ==
  /\ "tiers" \in Ops /\ t \in DOMAIN tiers
  /\ tiers' = [v \in DOMAIN tiers \ {t} |-> tiers[v]]
  /\ UNCHANGED <<period, sales, hours, payType, reimbursed, testMode, inv, judged, req>>

(* setReimbursement, submitMine: refused for an approved statement.        *)
(* Mutant: an approved statement does not refuse them.                     *)
Decided_Never == FALSE

Decided == inv # None /\ inv.status = "APPROVED"

ReadForReimbursement(r, a) ==
  /\ "reimburse" \in Ops /\ req[r] = None
  /\ ~Decided
  /\ Begin(r, [at |-> "reimburse", amount |-> a])
  /\ UNCHANGED <<world, inv, judged>>

SetReimbursement(r) ==
  /\ At(r, "reimburse")
  /\ reimbursed' = req[r].amount
  /\ Finish(r)
  /\ UNCHANGED <<period, sources, testMode, inv, judged>>

-----------------------------------------------------------------------------
(* submitMine: the period must have come to its last day; the statement is *)
(* worked out, and written over whatever claim there is.                   *)
ReadForSubmit(r) ==
  /\ "submit" \in Ops /\ req[r] = None
  /\ period # "before"
  /\ ~Decided
  /\ Begin(r, [at |-> "figures", earned |-> Earned])
  /\ UNCHANGED <<world, inv, judged>>

ReadFigures(r) ==
  /\ At(r, "figures")
  /\ Begin(r, [at |-> "submit", figures |-> Statement(req[r].earned)])
  /\ UNCHANGED <<world, inv, judged>>

(* Mutant: a resubmission is flagged by the switch as it is then.          *)
Flag_Restamped == testMode

(* The test-data flag of the row: set when it is created, then kept.       *)
Flag == IF inv = None THEN testMode ELSE inv.isTestData

Submit(r) ==
  /\ At(r, "submit")
  /\ LET f == req[r].figures IN
     inv' = [status |-> "SUBMITTED", reviewer |-> None, isTestData |-> Flag,
             base |-> f.base, commission |-> f.commission, tierBonus |-> f.tierBonus,
             reimbursement |-> f.reimbursement, gross |-> f.gross]
  /\ judged' = None
  /\ Finish(r)
  /\ UNCHANGED world

(* editInvoice: base and commission as typed or as read; the tier bonus    *)
(* and the reimbursement as read only enter the gross.                     *)
(* Mutant: an approved statement may be corrected.                         *)
Editable_Always == inv # None

Editable == inv # None /\ inv.status # "APPROVED"

(* Mutant: the gross forgets what is not edited.                           *)
Corrected_ForgetsBonus(i, base, commission) ==
  [base |-> base, commission |-> commission, gross |-> base + commission]

Corrected(i, base, commission) ==
  [base |-> base, commission |-> commission,
   gross |-> base + commission + i.tierBonus + i.reimbursement]

ReadForEdit(r, a) ==
  /\ "edit" \in Ops /\ req[r] = None
  /\ Editable
  /\ \E typed \in {"base", "commission"} :
       Begin(r, [at |-> "edit",
                 figures |-> IF typed = "base" THEN Corrected(inv, 100 * a, inv.commission)
                                               ELSE Corrected(inv, inv.base, 100 * a)])
  /\ UNCHANGED <<world, inv, judged>>

Edit(r) ==
  /\ At(r, "edit")
  /\ LET f == req[r].figures IN
     inv' = [inv EXCEPT !.base = f.base, !.commission = f.commission, !.gross = f.gross]
  /\ Finish(r)
  /\ UNCHANGED <<world, judged>>

(* approveInvoice, rejectInvoice: a submitted statement, when it is read.  *)
ReadForReview(r, by, verdict) ==
  /\ "review" \in Ops /\ req[r] = None
  /\ by \in Approvers
  /\ inv # None /\ inv.status = "SUBMITTED"
  /\ Begin(r, [at |-> "review", by |-> by, verdict |-> verdict, seen |-> Figures(inv)])
  /\ UNCHANGED <<world, inv, judged>>

Review(r) ==
  /\ At(r, "review")
  /\ inv' = [inv EXCEPT !.status = req[r].verdict, !.reviewer = req[r].by]
  /\ judged' = req[r].seen
  /\ Finish(r)
  /\ UNCHANGED world

(* A request ends at an await.                                             *)
Fail(r) ==
  /\ req[r] # None
  /\ Finish(r)
  /\ UNCHANGED <<world, inv, judged>>

Step(r) ==
  \/ \E a \in Amounts : ReadForReimbursement(r, a) \/ ReadForEdit(r, a)
  \/ SetReimbursement(r) \/ ReadForSubmit(r) \/ ReadFigures(r) \/ Submit(r) \/ Edit(r)
  \/ \E by \in Approvers, v \in {"APPROVED", "REJECTED"} : ReadForReview(r, by, v)
  \/ Review(r) \/ Fail(r)

Next ==
  \/ \E r \in Reqs : Step(r)
  \/ \E c \in BOOLEAN : ApproveSale(c) \/ VoidSale(c)
  \/ \E h \in 0 .. MaxHours : MarkDay(h)
  \/ \E p \in PayTypes : SetPayType(p)
  \/ \E t \in Thresholds : \/ DeleteTier(t)
                           \/ \E pct \in 0 .. MaxPct : \/ CreateTier(t, pct)
                                                       \/ \E u \in Thresholds : UpdateTier(t, u, pct)
  \/ DayPasses \/ ToggleTestData

Spec == Init /\ [][Next]_vars

-----------------------------------------------------------------------------
Settled == inv # None /\ inv.status = "APPROVED"

PayrollTypeOK ==
  /\ period \in {"before", "last", "over"}
  /\ sales \in [BOOLEAN -> 0 .. MaxSales] /\ hours \in 0 .. MaxHours /\ payType \in PayTypes
  /\ tiers \in Tables /\ reimbursed \in Amounts \cup {0} /\ testMode \in BOOLEAN
  /\ inv # None => /\ inv.status \in {"SUBMITTED", "APPROVED", "REJECTED"}
                   /\ inv.reviewer \in Approvers \cup {None}
                   /\ \A k \in DOMAIN Figures(inv) : inv[k] \in Nat

(* The tier bonus is progressive: every unit of revenue earns the rate of  *)
(* the highest tier that starts below it ("like a tax bracket, not a       *)
(* cliff", computeTierBonus), so more revenue is never less pay.           *)
TierBonusIsProgressive == \A revenue \in 0 .. MaxSales + 1 :
  LET Under(unit) == {t \in DOMAIN tiers : t < unit} IN
  TierBonus(revenue) =
    MapThenSumSet(LAMBDA unit : IF Under(unit) = {} THEN 0 ELSE tiers[Max(Under(unit))],
                  1 .. revenue)

(* The parts of a frozen statement add up to its gross, whatever was       *)
(* edited on the way (submitMine, editInvoice).                            *)
GrossAddsUp == inv # None => inv.gross = Gross(inv)

(* What was approved is what its reviewer had before them.                 *)
ApprovedAsRead == Settled => judged = Figures(inv)

(* An approved statement is "a decided, frozen record": no figure of it    *)
(* moves again, nor its reviewer (submitMine's comment).                   *)
KeepsApproved == Settled => inv' = inv

(* "Approved pay is not edited from here": the reimbursement an approved   *)
(* statement was frozen with is the one on record for its period or was    *)
(* changed before the approval, never after it (setReimbursement).         *)
KeepsReimbursement == Settled => reimbursed' = reimbursed

(* A real period resubmitted during a demo is still a real period.         *)
KeepsFlag == inv # None => inv'.isTestData = inv.isTestData

(* What requests keep that follow one another; KeepsFlag, whatever they do.*)
ApprovedIsFrozen == [][KeepsApproved /\ KeepsReimbursement /\ KeepsFlag]_vars

(* "You cannot submit earnings for a period that has not finished yet."    *)
FinishedWhenClaimed == inv # None => period = "over"
=============================================================================
