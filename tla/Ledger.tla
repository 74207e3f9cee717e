------------------------------- MODULE Ledger -------------------------------
(***************************************************************************)
(* The money on one sale: its ledger of payments, the balance derived from *)
(* it, the payment plan, and the Stripe checkout sessions that pay it from *)
(* the contact portal (SubmissionsService.addPayment and recomputeMoney,   *)
(* InstallmentsService, PaymentsService).                                  *)
(*                                                                         *)
(* A handler reads the sale, checks it, and then opens a transaction that  *)
(* posts a payment, sums the ledger and writes the balance.  Postgres runs *)
(* it READ COMMITTED: the sum sees the payments committed by then and its  *)
(* own, and the write lands later.  A request is therefore read, posted    *)
(* (uncommitted: the row it claimed is locked) and committed; anything may *)
(* happen in between, and a request may fail at any point.                 *)
(*                                                                         *)
(* Amounts are in hundredths.  The ledger is kept by its sums: over all    *)
(* entries, over those of each instalment, over those of each session.     *)
(* What moves a sale between its states is SaleLifecycle's subject; here   *)
(* it is only LIVE, REJECTED or VOIDED.                                    *)
(***************************************************************************)
EXTENDS Integers, Sequences, FiniteSetsExt

CONSTANTS
  None,        \* SQL NULL
  Prices,      \* what the sale can cost: [total |-> amount, deposit |-> amount]
  HandAmounts, \* the amounts Accounting keys in
  Parts,       \* what the first line of a two-line plan can be
  Sessions,    \* Stripe Checkout Sessions
  Unit,        \* the currency's smallest chargeable amount: 1, or 100 for JPY
  Reqs,        \* request slots
  Ops,         \* the operations offered in this instance
  MaxInsts,    \* bound on the instalments ever created
  MaxEntries   \* bound on the ledger: beyond it only sessions post

AllOps == {"pay", "plan", "clear", "mark", "unmark", "checkout", "webhook",
           "update", "reject", "void", "unvoid"}

ASSUME PricesAssumption == Prices \subseteq [total : Nat, deposit : Nat]
ASSUME AmountsAssumption == HandAmounts \subseteq Int /\ Parts \subseteq Nat \ {0}
ASSUME UnitAssumption == Unit \in Nat \ {0}
ASSUME BoundsAssumption == MaxInsts \in Nat /\ MaxEntries \in Nat
ASSUME LedgerOpsAssumption == Ops \subseteq AllOps
ASSUME LedgerNoneAssumption ==
  None \notin Sessions /\ None \notin Prices /\ None \notin {"LIVE", "REJECTED"}

Insts == 1..MaxInsts
Amount == Int

VARIABLES
  sale,     \* the money columns of the Submission row, and its state
  inst,     \* the Installment rows by id; "none" not created yet, "gone" deleted
  session,  \* the StripeCheckoutSession rows, and what Stripe knows of each
  ledger,   \* the Payment rows, by their sums
  req       \* the requests in flight

vars == <<sale, inst, session, ledger, req>>
records == <<sale, inst, session, ledger>>

-----------------------------------------------------------------------------
Sale == [state : {"LIVE", "REJECTED", "VOIDED"},
         voidedFrom : {"LIVE", "REJECTED", None},
         total : Amount, deposit : Amount, paid : Amount, balance : Amount]

Installment == [status : {"none", "PENDING", "PAID", "gone"}, seq : Nat,
                amount : Amount, linked : BOOLEAN]

Session == [status : {"none", "PENDING", "COMPLETED"}, amount : Amount,
            charge : Amount, stripe : {"none", "open", "charged", "acked"}]

Ledger == [sum : Int, entries : Nat, ofInst : [Insts -> Int],
           ofSession : [Sessions -> Int]]

Request ==
  [op : AllOps, at : {"read", "numbered", "posted", "answer"},
   inst : Insts \cup {None}, sess : Sessions \cup {None},
   price : Prices \cup {None}, amount : Amount, first : Nat,
   paid : Amount, balance : Amount]

Idle == None
ASSUME IdleAssumption == Idle \notin Request

At(r, op, step) == req[r] # Idle /\ req[r].op = op /\ req[r].at = step

Begin(op) ==
  [op |-> op, at |-> "read", inst |-> None, sess |-> None, price |-> None,
   amount |-> 0, first |-> 0, paid |-> 0, balance |-> 0]

Open(r, op) == op \in Ops /\ req[r] = Idle
Start(r, q) == req' = [req EXCEPT ![r] = q] /\ UNCHANGED records
Finish(r) == req' = [req EXCEPT ![r] = Idle]

(* The row locks a claim holds until its transaction ends.                 *)
LockedInst(i) == \E r \in Reqs : req[r] # Idle /\ req[r].at = "posted" /\ req[r].inst = i
LockedSession(s) == \E r \in Reqs : req[r] # Idle /\ req[r].at = "posted" /\ req[r].sess = s

Pending == {i \in Insts : inst[i].status = "PENDING"}
Paid == {i \in Insts : inst[i].status = "PAID"}

-----------------------------------------------------------------------------
(* Mutant: the fraction that no card is charged for is cut off.            *)
Charge_CutOff(a) == (a \div Unit) * Unit

(* toStripeMinorUnits, back in hundredths.                                 *)
Charge(a) == ((a + Unit \div 2) \div Unit) * Unit

Init ==
  /\ \E p \in Prices :
       sale = [state |-> "LIVE", voidedFrom |-> None, total |-> p.total,
               deposit |-> p.deposit, paid |-> p.deposit,
               balance |-> p.total - p.deposit]
  /\ inst = [i \in Insts |-> [status |-> "none", seq |-> 0, amount |-> 0,
                              linked |-> FALSE]]
  /\ session = [s \in Sessions |-> [status |-> "none", amount |-> 0, charge |-> 0,
                                    stripe |-> "none"]]
  /\ ledger = [sum |-> 0, entries |-> 0, ofInst |-> [i \in Insts |-> 0],
               ofSession |-> [s \in Sessions |-> 0]]
  /\ req = [r \in Reqs |-> Idle]

(* Mutant: the deposit is left out of the sum.                             *)
Posted_NoDeposit(q, a) ==
  LET paid == ledger.sum + a
  IN  [q EXCEPT !.at = "posted", !.amount = a, !.paid = paid,
                !.balance = sale.total - paid]

(* The payment is inserted, and recomputeMoney prices the sale from what   *)
(* the transaction sees of the ledger.                                     *)
Posted(q, a) ==
  LET paid == sale.deposit + ledger.sum + a
  IN  [q EXCEPT !.at = "posted", !.amount = a, !.paid = paid,
                !.balance = sale.total - paid]

Room == ledger.entries < MaxEntries

(* recomputeMoney's write, as the transaction commits.                     *)
Balanced(q) == [sale EXCEPT !.paid = q.paid, !.balance = q.balance]
Entered(q) == [ledger EXCEPT !.sum = @ + q.amount, !.entries = @ + 1]

-----------------------------------------------------------------------------
(* Mutant: a rejected sale takes payments too.                             *)
ReadForPayment_Any(r, a) ==
  /\ Open(r, "pay")
  /\ Start(r, [Begin("pay") EXCEPT !.amount = a])

(* addPayment: a correction is a negative amount.                          *)
ReadForPayment(r, a) ==
  /\ Open(r, "pay")
  /\ sale.state # "REJECTED"
  /\ Start(r, [Begin("pay") EXCEPT !.amount = a])

InsertPayment(r) ==
  /\ At(r, "pay", "read")
  /\ Room
  /\ Start(r, Posted(req[r], req[r].amount))

CommitPayment(r) ==
  /\ At(r, "pay", "posted")
  /\ sale' = Balanced(req[r])
  /\ ledger' = Entered(req[r])
  /\ Finish(r)
  /\ UNCHANGED <<inst, session>>

-----------------------------------------------------------------------------
(* setPlan: the lines must cover the balance read; the numbers start after *)
(* the paid instalments read next; both may be stale when the rows are     *)
(* written.  A number already taken fails on the unique index.             *)
ReadForPlan(r) ==
  /\ Open(r, "plan")
  /\ sale.state = "LIVE"
  /\ sale.balance > 0
  /\ Start(r, [Begin("plan") EXCEPT !.balance = sale.balance])

NumberPlan(r) ==
  /\ At(r, "plan", "read")
  /\ \E last \in {0} \cup {inst[i].seq : i \in Paid} :
       /\ \A i \in Paid : inst[i].seq <= last
       /\ Start(r, [req[r] EXCEPT !.at = "numbered", !.first = last + 1])

Lines(balance) == {<<balance>>} \cup {<<p, balance - p>> : p \in {p \in Parts : p < balance}}

(* The ids up to used have been given out.                                 *)
Used(used) == \A i \in Insts : i > used <=> inst[i].status = "none"

(* The rows with dead deleted and lines created under the next ids.        *)
Replanned(dead, lines, first, used) ==
  [i \in Insts |->
     IF i \in dead THEN [inst[i] EXCEPT !.status = "gone"]
     ELSE IF i \in used + 1 .. used + Len(lines)
     THEN [status |-> "PENDING", seq |-> first + i - used - 1,
           amount |-> lines[i - used], linked |-> FALSE]
     ELSE inst[i]]

(* Mutants: the old lines stay; the paid ones go as well.                  *)
WritePlan_KeepsOld(r) ==
  /\ At(r, "plan", "numbered")
  /\ \E lines \in Lines(req[r].balance), used \in 0..MaxInsts :
       /\ Used(used) /\ used + Len(lines) <= MaxInsts
       /\ inst' = Replanned({}, lines, req[r].first, used)
  /\ Finish(r)
  /\ UNCHANGED <<sale, session, ledger>>

WritePlan_DropsPaid(r) ==
  /\ At(r, "plan", "numbered")
  /\ \E lines \in Lines(req[r].balance), used \in 0..MaxInsts :
       /\ Used(used) /\ used + Len(lines) <= MaxInsts
       /\ inst' = Replanned(Pending \cup Paid, lines, req[r].first, used)
  /\ Finish(r)
  /\ UNCHANGED <<sale, session, ledger>>

WritePlan(r) ==
  /\ At(r, "plan", "numbered")
  /\ \A i \in Pending : ~LockedInst(i)
  /\ \E lines \in Lines(req[r].balance), used \in 0..MaxInsts :
       /\ Used(used) /\ used + Len(lines) <= MaxInsts
       /\ \A i \in Paid : inst[i].seq \notin req[r].first .. req[r].first + Len(lines) - 1
       /\ inst' = Replanned(Pending, lines, req[r].first, used)
  /\ Finish(r)
  /\ UNCHANGED <<sale, session, ledger>>

ReadForClear(r) ==
  /\ Open(r, "clear")
  /\ sale.state = "LIVE"
  /\ Start(r, Begin("clear"))

WriteClear(r) ==
  /\ At(r, "clear", "read")
  /\ Pending # {}
  /\ \A i \in Pending : ~LockedInst(i)
  /\ inst' = [i \in Insts |-> IF i \in Pending THEN [inst[i] EXCEPT !.status = "gone"]
                              ELSE inst[i]]
  /\ Finish(r)
  /\ UNCHANGED <<sale, session, ledger>>

-----------------------------------------------------------------------------
ReadForMark(r, i) ==
  /\ Open(r, "mark")
  /\ sale.state = "LIVE"
  /\ inst[i].status = "PENDING"
  /\ Start(r, [Begin("mark") EXCEPT !.inst = i])

(* Mutant: the instalment is not claimed, the earlier check is trusted.    *)
ClaimInstalment_Unchecked(r) ==
  /\ At(r, "mark", "read")
  /\ Room
  /\ Start(r, Posted(req[r], inst[req[r].inst].amount))

(* mark: updateMany claims the row if it is still PENDING, waiting for any *)
(* transaction that holds it; the loser gets a conflict (Fail).            *)
ClaimInstalment(r) ==
  /\ At(r, "mark", "read")
  /\ ~LockedInst(req[r].inst)
  /\ inst[req[r].inst].status = "PENDING"
  /\ Room
  /\ Start(r, Posted(req[r], inst[req[r].inst].amount))

CommitMark(r) ==
  LET i == req[r].inst
  IN  /\ At(r, "mark", "posted")
      /\ inst' = [inst EXCEPT ![i].status = "PAID", ![i].linked = TRUE]
      /\ sale' = Balanced(req[r])
      /\ ledger' = [Entered(req[r]) EXCEPT !.ofInst[i] = @ + req[r].amount]
      /\ Finish(r)
      /\ UNCHANGED session

ReadForUnmark(r, i) ==
  /\ Open(r, "unmark")
  /\ sale.state = "LIVE"
  /\ inst[i].status = "PAID"
  /\ Start(r, [Begin("unmark") EXCEPT
                 !.inst = i, !.amount = IF inst[i].linked THEN -inst[i].amount ELSE 0])

(* unmark: the row is released if it is still PAID; the reversal posts the *)
(* amount read, and nothing if no payment was linked.                      *)
ReleaseInstalment(r) ==
  /\ At(r, "unmark", "read")
  /\ ~LockedInst(req[r].inst)
  /\ inst[req[r].inst].status = "PAID"
  /\ Room
  /\ Start(r, Posted(req[r], req[r].amount))

CommitUnmark(r) ==
  LET i == req[r].inst
  IN  /\ At(r, "unmark", "posted")
      /\ inst' = [inst EXCEPT ![i].status = "PENDING", ![i].linked = FALSE]
      /\ sale' = Balanced(req[r])
      /\ ledger' = [Entered(req[r]) EXCEPT !.ofInst[i] = @ + req[r].amount]
      /\ Finish(r)
      /\ UNCHANGED session

-----------------------------------------------------------------------------
(* createCheckoutSession: only a voided sale is refused.                   *)
ReadForCheckout(r) ==
  /\ Open(r, "checkout")
  /\ sale.state # "VOIDED"
  /\ sale.balance > 0
  /\ Start(r, [Begin("checkout") EXCEPT !.balance = sale.balance])

(* Stripe opens the session and the row is stored; without the row the     *)
(* contact never gets the page.                                            *)
OpenSession(r, s) ==
  /\ At(r, "checkout", "read")
  /\ session[s].status = "none"
  /\ session' = [session EXCEPT ![s] =
                   [status |-> "PENDING", amount |-> req[r].balance,
                    charge |-> Charge(req[r].balance), stripe |-> "open"]]
  /\ Finish(r)
  /\ UNCHANGED <<sale, inst, ledger>>

(* Stripe: the contact's card is charged.                                  *)
ContactPays(s) ==
  /\ session[s].stripe = "open"
  /\ session' = [session EXCEPT ![s].stripe = "charged"]
  /\ UNCHANGED <<sale, inst, ledger, req>>

(* handleWebhook: Stripe may deliver the event more than once, and does so *)
(* until it is acknowledged.  postPayment first refuses an amount it did   *)
(* not ask for, answering without posting.                                 *)
Deliver(r, s) ==
  /\ Open(r, "webhook")
  /\ session[s].stripe \in {"charged", "acked"}
  /\ Start(r, [Begin("webhook") EXCEPT
                 !.sess = s,
                 !.at = IF /\ session[s].status = "PENDING"
                           /\ session[s].charge # Charge(session[s].amount)
                        THEN "answer" ELSE "read"])

(* Mutants: the event is posted without a claim; the balance of the moment *)
(* is posted; the claim is committed before the payment is.                *)
ClaimSession_Unclaimed(r) ==
  /\ At(r, "webhook", "read")
  /\ Room
  /\ Start(r, Posted(req[r], session[req[r].sess].amount))

ClaimSession_PostsBalance(r) ==
  LET s == req[r].sess
  IN  /\ At(r, "webhook", "read")
      /\ ~LockedSession(s)
      /\ Start(r, IF session[s].status = "PENDING" THEN Posted(req[r], sale.balance)
                  ELSE [req[r] EXCEPT !.at = "answer"])

ClaimSession_CommitsFirst(r) ==
  LET s == req[r].sess
  IN  /\ At(r, "webhook", "read")
      /\ ~LockedSession(s)
      /\ req' = [req EXCEPT ![r] = IF session[s].status = "PENDING"
                                   THEN Posted(req[r], session[s].amount)
                                   ELSE [req[r] EXCEPT !.at = "answer"]]
      /\ session' = [session EXCEPT ![s].status = "COMPLETED"]
      /\ UNCHANGED <<sale, inst, ledger>>

(* postPayment: updateMany claims the row if it is still PENDING; a replay *)
(* claims nothing and is answered.                                         *)
ClaimSession(r) ==
  LET s == req[r].sess
  IN  /\ At(r, "webhook", "read")
      /\ ~LockedSession(s)
      /\ Start(r, IF session[s].status = "PENDING" THEN Posted(req[r], session[s].amount)
                  ELSE [req[r] EXCEPT !.at = "answer"])

CommitSession(r) ==
  LET s == req[r].sess
  IN  /\ At(r, "webhook", "posted")
      /\ session' = [session EXCEPT ![s].status = "COMPLETED"]
      /\ sale' = Balanced(req[r])
      /\ ledger' = [Entered(req[r]) EXCEPT !.ofSession[s] = @ + req[r].amount]
      /\ req' = [req EXCEPT ![r].at = "answer"]
      /\ UNCHANGED inst

Acknowledge(r) ==
  /\ At(r, "webhook", "answer")
  /\ session' = [session EXCEPT ![req[r].sess].stripe = "acked"]
  /\ Finish(r)
  /\ UNCHANGED <<sale, inst, ledger>>

-----------------------------------------------------------------------------
(* update re-prices the sale from what the caller sent, deposit included,  *)
(* payments not.                                                           *)
ReadForUpdate(r, p) ==
  /\ Open(r, "update")
  /\ sale.state = "LIVE"
  /\ Start(r, [Begin("update") EXCEPT !.price = p])

WriteUpdate(r) ==
  LET p == req[r].price
  IN  /\ At(r, "update", "read")
      /\ sale' = [sale EXCEPT !.total = p.total, !.deposit = p.deposit,
                              !.paid = p.deposit, !.balance = p.total - p.deposit]
      /\ Finish(r)
      /\ UNCHANGED <<inst, session, ledger>>

(* reject, void and unvoid, here each in one step of a slot of its own.    *)
Reject(r) ==
  /\ Open(r, "reject")
  /\ sale.state = "LIVE"
  /\ sale' = [sale EXCEPT !.state = "REJECTED"]
  /\ UNCHANGED <<inst, session, ledger, req>>

Void(r) ==
  /\ Open(r, "void")
  /\ sale.state # "VOIDED"
  /\ sale' = [sale EXCEPT !.state = "VOIDED", !.voidedFrom = sale.state]
  /\ UNCHANGED <<inst, session, ledger, req>>

(* Mutant: a sale that is not voided is restored too.                      *)
Unvoid_Unchecked(r) ==
  /\ Open(r, "unvoid")
  /\ sale' = [sale EXCEPT !.state = sale.voidedFrom, !.voidedFrom = None]
  /\ UNCHANGED <<inst, session, ledger, req>>

Unvoid(r) ==
  /\ Open(r, "unvoid")
  /\ sale.state = "VOIDED"
  /\ sale' = [sale EXCEPT !.state = sale.voidedFrom, !.voidedFrom = None]
  /\ UNCHANGED <<inst, session, ledger, req>>

(* A handler refuses, conflicts, throws or loses its process: whatever its *)
(* transaction did is rolled back.                                         *)
Fail(r) ==
  /\ req[r] # Idle
  /\ Finish(r)
  /\ UNCHANGED records

-----------------------------------------------------------------------------
Begins(r) ==
  \/ \E a \in HandAmounts : ReadForPayment(r, a)
  \/ ReadForPlan(r)
  \/ ReadForClear(r)
  \/ \E i \in Insts : ReadForMark(r, i) \/ ReadForUnmark(r, i)
  \/ ReadForCheckout(r)
  \/ \E s \in Sessions : Deliver(r, s)
  \/ \E p \in Prices : ReadForUpdate(r, p)
  \/ Reject(r)
  \/ Void(r)
  \/ Unvoid(r)

Goes(r) ==
  \/ InsertPayment(r) \/ CommitPayment(r)
  \/ NumberPlan(r) \/ WritePlan(r)
  \/ WriteClear(r)
  \/ ClaimInstalment(r) \/ CommitMark(r)
  \/ ReleaseInstalment(r) \/ CommitUnmark(r)
  \/ \E s \in Sessions : OpenSession(r, s)
  \/ ClaimSession(r) \/ CommitSession(r) \/ Acknowledge(r)
  \/ WriteUpdate(r)
  \/ Fail(r)

Next ==
  \/ \E r \in Reqs : Begins(r) \/ Goes(r)
  \/ \E s \in Sessions : ContactPays(s)

Spec == Init /\ [][Next]_vars

(* A handler that has begun goes on or fails.  Stripe delivers an event    *)
(* until it is answered, and a delivery tried again and again gets through *)
(* each of its steps in the end.                                           *)
Fairness ==
  /\ \A r \in Reqs : WF_vars(Goes(r))
  /\ \A r \in Reqs, s \in Sessions :
       /\ SF_vars(session[s].stripe = "charged" /\ Deliver(r, s))
       /\ SF_vars(req[r] # Idle /\ req[r].sess = s /\ ClaimSession(r))
       /\ SF_vars(req[r] # Idle /\ req[r].sess = s /\ CommitSession(r))

FairSpec == Spec /\ Fairness

-----------------------------------------------------------------------------
TypeOK ==
  /\ sale \in Sale
  /\ inst \in [Insts -> Installment]
  /\ session \in [Sessions -> Session]
  /\ ledger \in Ledger
  /\ req \in [Reqs -> Request \cup {Idle}]

(* Whoever else is marking, undoing, planning or clearing: the ledger      *)
(* holds an instalment's amount exactly once while it is marked done, and  *)
(* on balance nothing of it otherwise (mark and unmark, each a claim).     *)
InstalmentPostedOnce ==
  \A i \in Insts :
    ledger.ofInst[i] = IF inst[i].status = "PAID" THEN inst[i].amount ELSE 0

(* However often and however concurrently Stripe delivers it, a completed  *)
(* session posts the amount stored with it exactly once, and a session     *)
(* that is not completed has posted nothing (postPayment: "exactly once"). *)
SessionPostedOnce ==
  \A s \in Sessions :
    ledger.ofSession[s] = IF session[s].status = "COMPLETED" THEN session[s].amount ELSE 0

(* An instalment marked done survives every plan write: it keeps its       *)
(* number and amount, and only an undo that reverses it reopens it         *)
(* (setPlan: "Instalments already marked paid are untouched").             *)
PaidInstalmentsAreKept ==
  [][\A i \in Insts : inst[i].status = "PAID" =>
       /\ inst'[i].seq = inst[i].seq
       /\ inst'[i].amount = inst[i].amount
       /\ \/ inst'[i].status = "PAID"
          \/ inst'[i].status = "PENDING" /\ ledger'.ofInst[i] = 0]_vars

(* When no handler is at work, the paid amount and the balance are what    *)
(* the deposit and the whole ledger make them (recomputeMoney: "from       *)
(* whatever is on the ledger right now").                                  *)
MoneyFollowsLedger ==
  (\A r \in Reqs : req[r] = Idle) =>
    /\ sale.paid = sale.deposit + ledger.sum
    /\ sale.balance = sale.total - sale.paid

(* When no handler is at work, a plan covers what is still owed            *)
(* (InstallmentsService: "The pending instalments sum to the balance").    *)
PlanCoversBalance ==
  (\A r \in Reqs : req[r] = Idle) /\ Pending # {} =>
    SumFunctionOnSet([i \in Insts |-> inst[i].amount], Pending) = sale.balance

(* Nothing is posted to a rejected sale (addPayment: "A rejected           *)
(* submission cannot take payments").                                      *)
RejectedTakesNoPayment ==
  [][sale.state = "REJECTED" => ledger' = ledger]_vars

(* What a completed session put on the ledger is what the card was charged *)
(* (postPayment: no "figure nobody actually confirmed"), however the sale  *)
(* was edited or paid in between.  A card is charged whole units of its    *)
(* currency and the ledger books the balance as it was: where the unit is  *)
(* the yen the two are at most half of one apart.                          *)
ChargedIsBooked ==
  \A s \in Sessions : session[s].status = "COMPLETED" =>
    /\ session[s].charge % Unit = 0
    /\ LET apart == session[s].charge - ledger.ofSession[s]
       IN 2 * apart <= Unit /\ 2 * apart > -Unit

(* A contact whose card was charged is credited in the end.                *)
ChargedIsPosted ==
  \A s \in Sessions :
    session[s].stripe = "charged" ~> ledger.ofSession[s] = session[s].amount

=============================================================================
