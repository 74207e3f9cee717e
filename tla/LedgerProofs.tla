---------------------------- MODULE LedgerProofs ----------------------------
(* Proofs about Ledger: type correctness; that whatever the handlers'      *)
(* interleaving, however many of them there are, an instalment and a       *)
(* checkout session are each posted to the ledger exactly once; and that   *)
(* handlers served one at a time keep the balance and the plan true.       *)
EXTENDS MCLedger, FiniteSetTheorems, WellFoundedInduction, TLAPS

-----------------------------------------------------------------------------
(* What the operators return.                                              *)
LEMMA ChargeType == ASSUME NEW a \in Int PROVE Charge(a) \in Int
<1>1. Unit \in Int /\ Unit > 0
  BY UnitAssumption
<1>2. Unit \div 2 \in Int
  BY <1>1
<1>3. (a + Unit \div 2) \div Unit \in Int
  BY <1>1, <1>2
<1>. QED
  BY <1>1, <1>3 DEF Charge

LEMMA LinesType ==
  ASSUME NEW b \in Int, NEW lines \in Lines(b)
  PROVE  /\ Len(lines) \in Nat
         /\ \A k \in 1..Len(lines) : lines[k] \in Int
<1>1. CASE lines = <<b>>
  BY <1>1
<1>2. ASSUME NEW p \in Parts, lines = <<p, b - p>>
      PROVE  /\ Len(lines) \in Nat
             /\ \A k \in 1..Len(lines) : lines[k] \in Int
  <2>1. p \in Int /\ b - p \in Int
    BY AmountsAssumption
  <2>. QED
    BY <2>1, <1>2
<1>. QED
  BY <1>1, <1>2 DEF Lines

(* A write of a plan leaves every row but the deleted and the new as it is *)
(* and every row a row.                                                    *)
LEMMA ReplannedRows ==
  ASSUME inst \in [Insts -> Installment],
         NEW dead \in SUBSET Insts, NEW b \in Int, NEW lines \in Lines(b),
         NEW first \in Nat, NEW used \in 0..MaxInsts, Used(used),
         NEW new, new = Replanned(dead, lines, first, used)
  PROVE  /\ new \in [Insts -> Installment]
         /\ \A i \in dead : new[i] = [inst[i] EXCEPT !.status = "gone"]
         /\ \A i \in Insts \ dead :
              \/ new[i] = inst[i]
              \/ inst[i].status = "none" /\ new[i].status = "PENDING"
<1>. DEFINE fresh(i) == i \in used + 1 .. used + Len(lines)
            row(i) == [status |-> "PENDING", seq |-> first + i - used - 1,
                       amount |-> lines[i - used], linked |-> FALSE]
<1>1. Len(lines) \in Nat /\ \A k \in 1..Len(lines) : lines[k] \in Int
  BY LinesType
<1>2. used \in Nat /\ Insts \subseteq Nat
  BY BoundsAssumption DEF Insts
<1>3. ASSUME NEW i \in Insts, fresh(i) PROVE row(i) \in Installment
  <2>1. first + i - used - 1 \in Nat
    BY <1>1, <1>2, <1>3
  <2>2. lines[i - used] \in Int
    BY <1>1, <1>2, <1>3
  <2>. QED
    BY <2>1, <2>2 DEF Installment, Amount
<1>4. ASSUME NEW i \in Insts, fresh(i) PROVE inst[i].status = "none"
  <2>1. i > used
    BY <1>1, <1>2, <1>4
  <2>. QED
    BY <2>1 DEF Used
<1>5. \A i \in Insts : [inst[i] EXCEPT !.status = "gone"] \in Installment
  BY DEF Installment
<1>6. new = [i \in Insts |-> IF i \in dead THEN [inst[i] EXCEPT !.status = "gone"]
                             ELSE IF fresh(i) THEN row(i) ELSE inst[i]]
  BY DEF Replanned
<1>. HIDE DEF fresh
<1>7. new \in [Insts -> Installment]
  BY <1>3, <1>5, <1>6
<1>8. \A i \in dead : new[i] = [inst[i] EXCEPT !.status = "gone"]
  BY <1>6
<1>9. ASSUME NEW i \in Insts \ dead
      PROVE  \/ new[i] = inst[i]
             \/ inst[i].status = "none" /\ new[i].status = "PENDING"
  BY <1>4, <1>6
<1>. QED
  BY <1>7, <1>8, <1>9

(* A posted request is a request, and the payment it carries is a.         *)
LEMMA PostedType ==
  ASSUME TypeOK, NEW q \in Request, NEW a \in Int
  PROVE  /\ Posted(q, a) \in Request
         /\ Posted(q, a).op = q.op /\ Posted(q, a).at = "posted"
         /\ Posted(q, a).inst = q.inst /\ Posted(q, a).sess = q.sess
         /\ Posted(q, a).amount = a
<1>. DEFINE paid == sale.deposit + ledger.sum + a
            left == sale.total - paid
<1>1. paid \in Int /\ left \in Int
  BY DEF TypeOK, Sale, Amount, Ledger
<1>2. Posted(q, a) = [q EXCEPT !.at = "posted", !.amount = a, !.paid = paid, !.balance = left]
  BY DEF Posted
<1>. HIDE DEF paid, left
<1>. QED
  BY <1>1, <1>2 DEF Request, Amount

LEMMA BalancedType ==
  ASSUME TypeOK, NEW q \in Request
  PROVE  Balanced(q) \in Sale
  BY DEF TypeOK, Balanced, Sale, Request, Amount

LEMMA EnteredType ==
  ASSUME TypeOK, NEW q \in Request
  PROVE  /\ Entered(q) \in Ledger
         /\ Entered(q).ofInst = ledger.ofInst /\ Entered(q).ofSession = ledger.ofSession
<1>. DEFINE sum == ledger.sum + q.amount
            entries == ledger.entries + 1
<1>1. sum \in Int /\ entries \in Nat /\ ledger \in Ledger
  BY DEF TypeOK, Ledger, Request, Amount
<1>2. Entered(q) = [ledger EXCEPT !.sum = sum, !.entries = entries]
  BY <1>1 DEF Entered, Ledger
<1>. HIDE DEF sum, entries
<1>. QED
  BY <1>1, <1>2 DEF Ledger

LEMMA OfInstType ==
  ASSUME NEW l \in Ledger, NEW i \in Insts, NEW a \in Int
  PROVE  /\ [l EXCEPT !.ofInst[i] = @ + a] \in Ledger
         /\ [l EXCEPT !.ofInst[i] = @ + a].ofInst = [l.ofInst EXCEPT ![i] = @ + a]
         /\ [l EXCEPT !.ofInst[i] = @ + a].ofSession = l.ofSession
<1>1. l.ofInst \in [Insts -> Int]
  BY DEF Ledger
<1>2. [l.ofInst EXCEPT ![i] = @ + a] \in [Insts -> Int]
  BY <1>1
<1>. QED
  BY <1>2 DEF Ledger

LEMMA OfSessionType ==
  ASSUME NEW l \in Ledger, NEW s \in Sessions, NEW a \in Int
  PROVE  /\ [l EXCEPT !.ofSession[s] = @ + a] \in Ledger
         /\ [l EXCEPT !.ofSession[s] = @ + a].ofSession = [l.ofSession EXCEPT ![s] = @ + a]
         /\ [l EXCEPT !.ofSession[s] = @ + a].ofInst = l.ofInst
<1>1. l.ofSession \in [Sessions -> Int]
  BY DEF Ledger
<1>2. [l.ofSession EXCEPT ![s] = @ + a] \in [Sessions -> Int]
  BY <1>1
<1>. QED
  BY <1>2 DEF Ledger

-----------------------------------------------------------------------------
(* A voided sale remembers what it was.                                    *)
OriginKept == sale.state = "VOIDED" => sale.voidedFrom # None

(* A request names the row it is about.                                    *)
Aimed(q) ==
  /\ q.op \in {"mark", "unmark"} => q.inst \in Insts
  /\ q.op = "webhook" => q.sess \in Sessions
  /\ q.op = "update" => q.price \in Prices

AllAimed == \A r \in Reqs : req[r] # Idle => Aimed(req[r])

LEMMA TypeInit == Init => TypeOK
<1>. SUFFICES ASSUME Init PROVE TypeOK
  OBVIOUS
<1>1. sale \in Sale
  BY PricesAssumption DEF Init, Sale, Amount
<1>2. inst \in [Insts -> Installment]
  BY DEF Init, Installment, Amount
<1>3. session \in [Sessions -> Session]
  BY DEF Init, Session, Amount
<1>4. ledger \in Ledger
  BY DEF Init, Ledger
<1>. QED
  BY <1>1, <1>2, <1>3, <1>4 DEF Init, TypeOK

(* A slot gets a request, or is idle again.                                *)
LEMMA StartType ==
  ASSUME TypeOK, NEW r \in Reqs, NEW q \in Request, Start(r, q)
  PROVE  TypeOK'
  BY DEF TypeOK, Start, records

LEMMA FinishType ==
  ASSUME TypeOK, NEW r \in Reqs, Finish(r)
  PROVE  req' \in [Reqs -> Request \cup {Idle}]
  BY DEF TypeOK, Finish

LEMMA BeginType ==
  ASSUME NEW op \in AllOps
  PROVE  Begin(op) \in Request
  BY DEF Begin, Request, Amount

(* Every step of a handler preserves the types.                            *)
LEMMA BeginsType ==
  ASSUME NEW r \in Reqs, TypeOK, OriginKept, Begins(r)
  PROVE  TypeOK' /\ OriginKept'
<1>t. sale \in Sale /\ inst \in [Insts -> Installment]
  BY DEF TypeOK
<1>1. ASSUME NEW a \in HandAmounts, ReadForPayment(r, a) PROVE TypeOK' /\ UNCHANGED sale
  <2>1. [Begin("pay") EXCEPT !.amount = a] \in Request
    BY AmountsAssumption DEF Begin, Request, Amount, AllOps
  <2>. QED
    BY <1>1, <2>1, StartType DEF ReadForPayment, Start, records
<1>2. ASSUME ReadForPlan(r) PROVE TypeOK' /\ UNCHANGED sale
  <2>1. [Begin("plan") EXCEPT !.balance = sale.balance] \in Request
    BY <1>t DEF Begin, Request, Amount, AllOps, Sale
  <2>. QED
    BY <1>2, <2>1, StartType DEF ReadForPlan, Start, records
<1>3. ASSUME ReadForClear(r) PROVE TypeOK' /\ UNCHANGED sale
  <2>1. Begin("clear") \in Request
    BY BeginType DEF AllOps
  <2>. QED
    BY <1>3, <2>1, StartType DEF ReadForClear, Start, records
<1>4. ASSUME NEW i \in Insts, ReadForMark(r, i) PROVE TypeOK' /\ UNCHANGED sale
  <2>1. [Begin("mark") EXCEPT !.inst = i] \in Request
    BY DEF Begin, Request, Amount, AllOps
  <2>. QED
    BY <1>4, <2>1, StartType DEF ReadForMark, Start, records
<1>5. ASSUME NEW i \in Insts, ReadForUnmark(r, i) PROVE TypeOK' /\ UNCHANGED sale
  <2>. DEFINE a == IF inst[i].linked THEN -inst[i].amount ELSE 0
  <2>1. a \in Int
    BY <1>t DEF Installment, Amount
  <2>2. ASSUME NEW b \in Int
        PROVE  [Begin("unmark") EXCEPT !.inst = i, !.amount = b] \in Request
    <3>1. Begin("unmark") \in Request
      BY BeginType DEF AllOps
    <3>2. ASSUME NEW q \in Request
          PROVE  [q EXCEPT !.inst = i, !.amount = b] \in Request
      BY DEF Request, Amount
    <3>. QED
      BY <3>1, <3>2
  <2>. QED
    BY <1>5, <2>1, <2>2, StartType DEF ReadForUnmark, Start, records
<1>6. ASSUME ReadForCheckout(r) PROVE TypeOK' /\ UNCHANGED sale
  <2>1. [Begin("checkout") EXCEPT !.balance = sale.balance] \in Request
    BY <1>t DEF Begin, Request, Amount, AllOps, Sale
  <2>. QED
    BY <1>6, <2>1, StartType DEF ReadForCheckout, Start, records
<1>7. ASSUME NEW s \in Sessions, Deliver(r, s) PROVE TypeOK' /\ UNCHANGED sale
  <2>1. /\ [Begin("webhook") EXCEPT !.sess = s, !.at = "read"] \in Request
        /\ [Begin("webhook") EXCEPT !.sess = s, !.at = "answer"] \in Request
    <3>1. Begin("webhook") \in Request
      BY BeginType DEF AllOps
    <3>2. ASSUME NEW q \in Request, NEW step \in {"read", "answer"}
          PROVE  [q EXCEPT !.sess = s, !.at = step] \in Request
      BY DEF Request
    <3>. QED
      BY <3>1, <3>2
  <2>. QED
    BY <1>7, <2>1, StartType DEF Deliver, Start, records
<1>8. ASSUME NEW p \in Prices, ReadForUpdate(r, p) PROVE TypeOK' /\ UNCHANGED sale
  <2>1. [Begin("update") EXCEPT !.price = p] \in Request
    BY DEF Begin, Request, Amount, AllOps
  <2>. QED
    BY <1>8, <2>1, StartType DEF ReadForUpdate, Start, records
<1>9. CASE Reject(r)
  BY <1>9 DEF Reject, TypeOK, Sale, OriginKept
<1>10. CASE Void(r)
  BY <1>10, LedgerNoneAssumption DEF Void, TypeOK, Sale, OriginKept
<1>11. CASE Unvoid(r)
  BY <1>11 DEF Unvoid, TypeOK, Sale, OriginKept
<1>. QED
  BY <1>1, <1>2, <1>3, <1>4, <1>5, <1>6, <1>7, <1>8, <1>9, <1>10, <1>11
  DEF Begins, OriginKept

LEMMA GoesType ==
  ASSUME NEW r \in Reqs, TypeOK, OriginKept, AllAimed, Goes(r)
  PROVE  TypeOK' /\ OriginKept'
<1>t. /\ sale \in Sale /\ inst \in [Insts -> Installment] /\ ledger \in Ledger
      /\ session \in [Sessions -> Session] /\ req \in [Reqs -> Request \cup {Idle}]
  BY DEF TypeOK
<1>q. ASSUME req[r] # Idle
      PROVE  req[r] \in Request /\ Balanced(req[r]) \in Sale /\ Entered(req[r]) \in Ledger
  BY <1>t, <1>q, BalancedType, EnteredType
<1>k. ASSUME req[r] # Idle, sale' = Balanced(req[r]) PROVE OriginKept'
  BY <1>t, <1>k DEF Balanced, OriginKept, Sale
<1>s. ASSUME req[r] # Idle, NEW a \in Int, Start(r, Posted(req[r], a))
      PROVE  TypeOK' /\ OriginKept'
  BY <1>q, <1>s, PostedType, StartType DEF Start, records, OriginKept
<1>1. CASE InsertPayment(r)
  <2>1. req[r] # Idle /\ req[r].amount \in Int
    BY <1>1, <1>q DEF InsertPayment, At, Request, Amount
  <2>. QED
    BY <1>1, <2>1, <1>s DEF InsertPayment
<1>2. CASE CommitPayment(r)
  BY <1>2, <1>q, <1>k, FinishType DEF CommitPayment, At, TypeOK
<1>3. CASE NumberPlan(r)
  <2>1. req[r] \in Request
    BY <1>3, <1>q DEF NumberPlan, At
  <2>2. PICK last \in {0} \cup {inst[i].seq : i \in Paid} :
          Start(r, [req[r] EXCEPT !.at = "numbered", !.first = last + 1])
    BY <1>3 DEF NumberPlan
  <2>3. last + 1 \in Nat
    BY <1>t DEF Paid, Installment
  <2>4. [req[r] EXCEPT !.at = "numbered", !.first = last + 1] \in Request
    BY <2>1, <2>3 DEF Request
  <2>. QED
    BY <2>2, <2>4, StartType DEF Start, records, OriginKept
<1>4. CASE WritePlan(r)
  <2>1. req[r].balance \in Int /\ req[r].first \in Nat
    BY <1>4, <1>q DEF WritePlan, At, Request, Amount
  <2>2. Pending \in SUBSET Insts
    BY DEF Pending
  <2>3. PICK lines \in Lines(req[r].balance), used \in 0..MaxInsts :
          Used(used) /\ inst' = Replanned(Pending, lines, req[r].first, used)
    BY <1>4 DEF WritePlan
  <2>4. inst' \in [Insts -> Installment]
    BY <1>t, <2>1, <2>2, <2>3, ReplannedRows
  <2>. QED
    BY <1>4, <2>4, FinishType DEF WritePlan, TypeOK, OriginKept
<1>5. CASE WriteClear(r)
  <2>1. inst' \in [Insts -> Installment]
    BY <1>5, <1>t DEF WriteClear, Installment
  <2>. QED
    BY <1>5, <2>1, FinishType DEF WriteClear, TypeOK, OriginKept
<1>6. CASE ClaimInstalment(r)
  <2>1. req[r] # Idle /\ inst[req[r].inst].amount \in Int
    BY <1>6, <1>t DEF ClaimInstalment, At, AllAimed, Aimed, Installment, Amount
  <2>. QED
    BY <1>6, <2>1, <1>s DEF ClaimInstalment
<1>7. CASE CommitMark(r)
  <2>1. req[r] # Idle /\ req[r].inst \in Insts /\ req[r].amount \in Int
    BY <1>7, <1>q DEF CommitMark, At, AllAimed, Aimed, Request, Amount
  <2>2. inst' \in [Insts -> Installment]
    BY <1>7, <1>t, <2>1 DEF CommitMark, Installment
  <2>3. ledger' \in Ledger
    BY <1>7, <1>q, <2>1, OfInstType DEF CommitMark
  <2>. QED
    BY <1>7, <1>q, <1>k, <2>1, <2>2, <2>3, FinishType DEF CommitMark, TypeOK
<1>8. CASE ReleaseInstalment(r)
  <2>1. req[r] # Idle /\ req[r].amount \in Int
    BY <1>8, <1>q DEF ReleaseInstalment, At, Request, Amount
  <2>. QED
    BY <1>8, <2>1, <1>s DEF ReleaseInstalment
<1>9. CASE CommitUnmark(r)
  <2>1. req[r] # Idle /\ req[r].inst \in Insts /\ req[r].amount \in Int
    BY <1>9, <1>q DEF CommitUnmark, At, AllAimed, Aimed, Request, Amount
  <2>2. inst' \in [Insts -> Installment]
    BY <1>9, <1>t, <2>1 DEF CommitUnmark, Installment
  <2>3. ledger' \in Ledger
    BY <1>9, <1>q, <2>1, OfInstType DEF CommitUnmark
  <2>. QED
    BY <1>9, <1>q, <1>k, <2>1, <2>2, <2>3, FinishType DEF CommitUnmark, TypeOK
<1>10. ASSUME NEW s \in Sessions, OpenSession(r, s) PROVE TypeOK' /\ OriginKept'
  <2>1. req[r].balance \in Int /\ Charge(req[r].balance) \in Int
    BY <1>10, <1>q, ChargeType DEF OpenSession, At, Request, Amount
  <2>2. session' \in [Sessions -> Session]
    BY <1>10, <1>t, <2>1 DEF OpenSession, Session, Amount
  <2>. QED
    BY <1>10, <2>2, FinishType DEF OpenSession, TypeOK, OriginKept
<1>11. CASE ClaimSession(r)
  <2>1. req[r] # Idle /\ session[req[r].sess].amount \in Int
    BY <1>11, <1>t DEF ClaimSession, At, AllAimed, Aimed, Session, Amount
  <2>2. [req[r] EXCEPT !.at = "answer"] \in Request
    BY <2>1, <1>q DEF Request
  <2>. QED
    BY <1>11, <2>1, <2>2, <1>s, StartType DEF ClaimSession, Start, records, OriginKept
<1>12. CASE CommitSession(r)
  <2>1. req[r] # Idle /\ req[r].sess \in Sessions /\ req[r].amount \in Int
    BY <1>12, <1>q DEF CommitSession, At, AllAimed, Aimed, Request, Amount
  <2>2. session' \in [Sessions -> Session]
    BY <1>12, <1>t, <2>1 DEF CommitSession, Session
  <2>3. ledger' \in Ledger
    BY <1>12, <1>q, <2>1, OfSessionType DEF CommitSession
  <2>4. [req[r] EXCEPT !.at = "answer"] \in Request
    BY <2>1, <1>q DEF Request
  <2>5. req' \in [Reqs -> Request \cup {Idle}]
    BY <1>12, <1>t, <2>4 DEF CommitSession
  <2>. QED
    BY <1>12, <1>q, <1>k, <2>1, <2>2, <2>3, <2>5 DEF CommitSession, TypeOK
<1>13. CASE Acknowledge(r)
  <2>1. session' \in [Sessions -> Session]
    BY <1>13, <1>t DEF Acknowledge, Session
  <2>. QED
    BY <1>13, <2>1, FinishType DEF Acknowledge, TypeOK, OriginKept
<1>14. CASE WriteUpdate(r)
  <2>1. req[r].price \in [total : Nat, deposit : Nat]
    BY <1>14, PricesAssumption DEF WriteUpdate, At, AllAimed, Aimed
  <2>2. ASSUME NEW p \in [total : Nat, deposit : Nat]
        PROVE  LET new == [sale EXCEPT !.total = p.total, !.deposit = p.deposit,
                                       !.paid = p.deposit, !.balance = p.total - p.deposit]
               IN  new \in Sale /\ new.state = sale.state /\ new.voidedFrom = sale.voidedFrom
    <3>1. p.total \in Int /\ p.deposit \in Int /\ p.total - p.deposit \in Int
      OBVIOUS
    <3>. DEFINE left == p.total - p.deposit
    <3>. HIDE DEF left
    <3>2. left \in Int
      BY <3>1 DEF left
    <3>3. LET new == [sale EXCEPT !.total = p.total, !.deposit = p.deposit,
                                  !.paid = p.deposit, !.balance = left]
          IN  new \in Sale /\ new.state = sale.state /\ new.voidedFrom = sale.voidedFrom
      BY <1>t, <3>1, <3>2 DEF Sale, Amount
    <3>. QED
      BY <3>3 DEF left
  <2>3. sale' \in Sale /\ OriginKept'
    BY <1>14, <2>1, <2>2 DEF WriteUpdate, OriginKept
  <2>. QED
    BY <1>14, <2>3, FinishType DEF WriteUpdate, TypeOK
<1>15. CASE Fail(r)
  BY <1>15, FinishType DEF Fail, records, TypeOK, OriginKept
<1>. QED
  BY <1>1, <1>2, <1>3, <1>4, <1>5, <1>6, <1>7, <1>8, <1>9, <1>10, <1>11, <1>12,
     <1>13, <1>14, <1>15 DEF Goes

(* A step changes its own slot only, and a request stays aimed.            *)
LEMMA OtherSlots ==
  ASSUME NEW r \in Reqs, TypeOK, Begins(r) \/ Goes(r), NEW o \in Reqs, o # r
  PROVE  req'[o] = req[o]
<1>1. CASE Begins(r)
  BY <1>1 DEF TypeOK, Begins, ReadForPayment, ReadForPlan, ReadForClear, ReadForMark, ReadForUnmark,
     ReadForCheckout, Deliver, ReadForUpdate, Reject, Void, Unvoid, Start
<1>2. CASE Goes(r)
  BY <1>2 DEF TypeOK, Goes, InsertPayment, CommitPayment, NumberPlan, WritePlan, WriteClear,
     ClaimInstalment, CommitMark, ReleaseInstalment, CommitUnmark, OpenSession,
     ClaimSession, CommitSession, Acknowledge, WriteUpdate, Fail, Start, Finish
<1>. QED
  BY <1>1, <1>2

(* What a handler that goes on leaves in its slot: nothing, or the same    *)
(* request further on.                                                     *)
LEMMA SameRequest ==
  ASSUME NEW r \in Reqs, TypeOK, Goes(r), req'[r] # Idle
  PROVE  /\ req[r] # Idle
         /\ req'[r].op = req[r].op /\ req'[r].inst = req[r].inst
         /\ req'[r].sess = req[r].sess /\ req'[r].price = req[r].price
<1>. DEFINE Same(q) == /\ req[r] # Idle
                       /\ q.op = req[r].op /\ q.inst = req[r].inst
                       /\ q.sess = req[r].sess /\ q.price = req[r].price
<1>t. req \in [Reqs -> Request \cup {Idle}]
  BY DEF TypeOK
<1>p. ASSUME req[r] # Idle, NEW a, Start(r, Posted(req[r], a)) PROVE Same(req'[r])
  BY <1>t, <1>p DEF Start, Posted, Request
<1>f. ~Finish(r)
  BY <1>t DEF Finish
<1>1. CASE InsertPayment(r)
  BY <1>1, <1>p DEF InsertPayment, At
<1>2. CASE NumberPlan(r)
  BY <1>2, <1>t DEF NumberPlan, At, Start, Request
<1>3. CASE ClaimInstalment(r)
  BY <1>3, <1>p DEF ClaimInstalment, At
<1>4. CASE ReleaseInstalment(r)
  BY <1>4, <1>p DEF ReleaseInstalment, At
<1>5. CASE ClaimSession(r)
  <2>1. ASSUME Start(r, [req[r] EXCEPT !.at = "answer"]), req[r] # Idle PROVE Same(req'[r])
    BY <1>t, <2>1 DEF Start, Request
  <2>. QED
    BY <1>5, <1>p, <2>1 DEF ClaimSession, At
<1>6. CASE CommitSession(r)
  BY <1>6, <1>t DEF CommitSession, At, Request
<1>. QED
  BY <1>f, <1>1, <1>2, <1>3, <1>4, <1>5, <1>6 DEF Goes, CommitPayment, WritePlan, WriteClear,
     CommitMark, CommitUnmark, OpenSession, Acknowledge, WriteUpdate, Fail

LEMMA AimedStep ==
  ASSUME NEW r \in Reqs, TypeOK, AllAimed, Begins(r) \/ Goes(r)
  PROVE  AllAimed'
<1>. SUFFICES ASSUME req'[r] # Idle PROVE Aimed(req'[r])
  BY OtherSlots DEF AllAimed, Aimed
<1>t. req \in [Reqs -> Request \cup {Idle}]
  BY DEF TypeOK
<1>1. CASE Begins(r)
  <2>1. ASSUME NEW a \in HandAmounts, ReadForPayment(r, a) PROVE Aimed(req'[r])
    BY <2>1, <1>t DEF ReadForPayment, Start, Begin, Aimed
  <2>2. CASE ReadForPlan(r) \/ ReadForClear(r) \/ ReadForCheckout(r)
    BY <2>2, <1>t DEF ReadForPlan, ReadForClear, ReadForCheckout, Start, Begin, Aimed
  <2>3. ASSUME NEW i \in Insts, ReadForMark(r, i) \/ ReadForUnmark(r, i) PROVE Aimed(req'[r])
    BY ZenonT(60), <2>3, <1>t DEF ReadForMark, ReadForUnmark, Start, Begin, Aimed
  <2>4. ASSUME NEW s \in Sessions, Deliver(r, s) PROVE Aimed(req'[r])
    BY <2>4, <1>t DEF Deliver, Start, Begin, Aimed
  <2>5. ASSUME NEW p \in Prices, ReadForUpdate(r, p) PROVE Aimed(req'[r])
    BY <2>5, <1>t DEF ReadForUpdate, Start, Begin, Aimed
  <2>6. CASE Reject(r) \/ Void(r) \/ Unvoid(r)
    BY <2>6, <1>t DEF Reject, Void, Unvoid, AllAimed
  <2>. QED
    BY <1>1, <2>1, <2>2, <2>3, <2>4, <2>5, <2>6 DEF Begins
<1>2. CASE Goes(r)
  BY <1>2, SameRequest DEF Aimed, AllAimed
<1>. QED
  BY <1>1, <1>2

Shaped == TypeOK /\ OriginKept /\ AllAimed

LEMMA ShapedInit == Init => Shaped
  BY TypeInit DEF Init, Shaped, OriginKept, AllAimed

LEMMA ShapedStep == Shaped /\ [Next]_vars => Shaped'
<1>. SUFFICES ASSUME Shaped, [Next]_vars PROVE Shaped'
  OBVIOUS
<1>1. ASSUME NEW r \in Reqs, Begins(r) \/ Goes(r) PROVE Shaped'
  BY <1>1, BeginsType, GoesType, AimedStep DEF Shaped
<1>2. ASSUME NEW s \in Sessions, ContactPays(s) PROVE Shaped'
  BY <1>2 DEF ContactPays, Shaped, TypeOK, OriginKept, AllAimed, Session
<1>3. CASE UNCHANGED vars
  BY <1>3 DEF vars, Shaped, TypeOK, OriginKept, AllAimed
<1>. QED
  BY <1>1, <1>2, <1>3 DEF Next

(* The money columns, the instalments, the sessions, the ledger's sums and *)
(* the requests are always well formed, a voided sale restorable.          *)
THEOREM LedgerTypeCorrect == Spec => []TypeOK
<1>1. Shaped => TypeOK
  BY DEF Shaped
<1>. QED
  BY <1>1, ShapedInit, ShapedStep, PTL DEF Spec

-----------------------------------------------------------------------------
(* What a request about an instalment knows of its row: one that has       *)
(* posted holds the row in the state it claimed it in, and an undo carries *)
(* the exact reversal, for a row's amount never changes.                   *)
About(q) == q # Idle /\ q.op \in {"mark", "unmark"}

Knows(q, rows) ==
  About(q) =>
    /\ q.op = "mark" /\ q.at = "posted" =>
         rows[q.inst].status = "PENDING" /\ q.amount = rows[q.inst].amount
    /\ q.op = "unmark" => rows[q.inst].status # "none" /\ q.amount = -rows[q.inst].amount
    /\ q.op = "unmark" /\ q.at = "posted" => rows[q.inst].status = "PAID"

Holds(q, i) == About(q) /\ q.at = "posted" /\ q.inst = i

PostedInv ==
  /\ InstalmentPostedOnce
  /\ \A i \in Insts : inst[i].status = "PAID" => inst[i].linked
  /\ \A r \in Reqs : Knows(req[r], inst)
  /\ \A r, o \in Reqs, i \in Insts : Holds(req[r], i) /\ Holds(req[o], i) => r = o

LEMMA PostedInit == Init => PostedInv
  BY DEF Init, PostedInv, InstalmentPostedOnce, Knows, Holds, About

(* A step that leaves rows and ledger alone only has its own slot to show. *)
LEMMA PostedFrame ==
  ASSUME NEW r \in Reqs, TypeOK, PostedInv, Begins(r) \/ Goes(r),
         inst' = inst, ledger'.ofInst = ledger.ofInst,
         Knows(req'[r], inst),
         \A i \in Insts : Holds(req'[r], i) => Holds(req[r], i) \/ ~LockedInst(i)
  PROVE  PostedInv'
<1>1. InstalmentPostedOnce' /\ \A i \in Insts : inst'[i].status = "PAID" => inst'[i].linked
  BY DEF PostedInv, InstalmentPostedOnce
<1>2. \A o \in Reqs : Knows(req'[o], inst')
  BY OtherSlots DEF PostedInv
<1>3. ASSUME NEW o \in Reqs, NEW i \in Insts, o # r, Holds(req[o], i) PROVE LockedInst(i)
  BY <1>3 DEF Holds, About, LockedInst
<1>4. \A o \in Reqs, i \in Insts : o # r => (Holds(req'[o], i) <=> Holds(req[o], i))
  BY OtherSlots
<1>5. ASSUME NEW p \in Reqs, NEW o \in Reqs, NEW i \in Insts, Holds(req'[p], i), Holds(req'[o], i)
      PROVE  p = o
  <2>1. CASE p # r /\ o # r
    BY <2>1, <1>4, <1>5 DEF PostedInv
  <2>2. CASE p = r /\ o # r
    BY <2>2, <1>3, <1>4, <1>5 DEF PostedInv
  <2>3. CASE p # r /\ o = r
    BY <2>3, <1>3, <1>4, <1>5 DEF PostedInv
  <2>. QED
    BY <2>1, <2>2, <2>3
<1>6. \A o \in Reqs : Knows(req[o], inst)'
  BY <1>2 DEF Knows, About
<1>7. \A p, o \in Reqs, i \in Insts : (Holds(req[p], i) /\ Holds(req[o], i))' => p = o
  BY <1>5 DEF Holds, About
<1>. QED
  BY <1>1, <1>6, <1>7 DEF PostedInv

LEMMA PostedBegins ==
  ASSUME NEW r \in Reqs, TypeOK, PostedInv, Begins(r)
  PROVE  PostedInv'
<1>t. req \in [Reqs -> Request \cup {Idle}] /\ inst \in [Insts -> Installment]
  BY DEF TypeOK
<1>. DEFINE Mine == /\ inst' = inst /\ ledger' = ledger
                    /\ Knows(req'[r], inst)
                    /\ \A i \in Insts : Holds(req'[r], i) => Holds(req[r], i)
<1>1. ASSUME NEW a \in HandAmounts, ReadForPayment(r, a) PROVE Mine
  BY <1>1, <1>t DEF ReadForPayment, Start, records, Begin, Knows, Holds, About
<1>2. ASSUME ReadForPlan(r) \/ ReadForClear(r) \/ ReadForCheckout(r) PROVE Mine
  BY <1>2, <1>t DEF ReadForPlan, ReadForClear, ReadForCheckout, Start, records, Begin,
     Knows, Holds, About
<1>3. ASSUME NEW i \in Insts, ReadForMark(r, i) PROVE Mine
  BY <1>3, <1>t DEF ReadForMark, Start, records, Begin, Knows, Holds, About
<1>4. ASSUME NEW i \in Insts, ReadForUnmark(r, i) PROVE Mine
  <2>1. inst[i].status = "PAID" /\ inst[i].linked
    BY <1>4 DEF ReadForUnmark, PostedInv
  <2>. DEFINE q == [Begin("unmark") EXCEPT !.inst = i, !.amount = -inst[i].amount]
  <2>2. q.op = "unmark" /\ q.at = "read" /\ q.inst = i /\ q.amount = -inst[i].amount
    BY DEF Begin
  <2>3. req'[r] = q /\ inst' = inst /\ ledger' = ledger
    BY <1>4, <1>t, <2>1 DEF ReadForUnmark, Start, records
  <2>. QED
    BY <2>1, <2>2, <2>3 DEF Knows, Holds
<1>5. ASSUME NEW s \in Sessions, Deliver(r, s) PROVE Mine
  BY <1>5, <1>t DEF Deliver, Start, records, Begin, Knows, Holds, About
<1>6. ASSUME NEW p \in Prices, ReadForUpdate(r, p) PROVE Mine
  BY <1>6, <1>t DEF ReadForUpdate, Start, records, Begin, Knows, Holds, About
<1>7. ASSUME Reject(r) \/ Void(r) \/ Unvoid(r) PROVE Mine
  BY <1>7 DEF Reject, Void, Unvoid, PostedInv
<1>8. Mine
  BY <1>1, <1>2, <1>3, <1>4, <1>5, <1>6, <1>7 DEF Begins
<1>. QED
  BY <1>8, PostedFrame

(* A plan written or cleared touches no row that is paid or claimed.       *)
LEMMA PostedReplan ==
  ASSUME NEW r \in Reqs, TypeOK, PostedInv, Goes(r), Finish(r), ledger' = ledger,
         \A i \in Pending : ~LockedInst(i),
         \A i \in Pending : inst'[i] = [inst[i] EXCEPT !.status = "gone"],
         \A i \in Insts \ Pending :
           \/ inst'[i] = inst[i]
           \/ inst[i].status = "none" /\ inst'[i].status = "PENDING",
         AllAimed
  PROVE  PostedInv'
<1>t. req \in [Reqs -> Request \cup {Idle}] /\ inst \in [Insts -> Installment]
  BY DEF TypeOK
<1>1. ASSUME NEW i \in Insts
      PROVE  /\ inst[i].status = "PAID" \/ inst'[i].status = "PAID" => inst'[i] = inst[i]
             /\ inst[i].status # "none" =>
                  inst'[i].status # "none" /\ inst'[i].amount = inst[i].amount
             /\ LockedInst(i) /\ inst[i].status # "none" => inst'[i] = inst[i]
  <2>1. CASE i \in Pending
    <3>1. inst[i].status = "PENDING" /\ ~LockedInst(i)
      BY <2>1 DEF Pending
    <3>2. inst[i] \in Installment
      BY <1>t
    <3>3. inst'[i] = [inst[i] EXCEPT !.status = "gone"]
      BY <2>1
    <3>4. inst'[i].status = "gone" /\ inst'[i].amount = inst[i].amount
      BY ONLY <3>2, <3>3 DEF Installment
    <3>. QED
      BY <3>1, <3>4
  <2>2. CASE i \notin Pending
    BY <2>2
  <2>. QED
    BY <2>1, <2>2
<1>2. InstalmentPostedOnce' /\ (\A i \in Insts : inst[i].status = "PAID" => inst[i].linked)'
  BY <1>1 DEF PostedInv, InstalmentPostedOnce
<1>3. req'[r] = Idle
  BY <1>t DEF Finish
<1>4. ASSUME NEW o \in Reqs, About(req'[o]) PROVE Knows(req'[o], inst')
  <2>1. req'[o] = req[o] /\ About(req[o]) /\ Knows(req[o], inst) /\ req[o].inst \in Insts
    BY <1>3, <1>4, OtherSlots DEF About, PostedInv, AllAimed, Aimed
  <2>2. req[o].at = "posted" => LockedInst(req[o].inst)
    BY <2>1 DEF LockedInst, About
  <2>. QED
    BY <1>1, <2>1, <2>2 DEF Knows, About
<1>5. (\A o \in Reqs : Knows(req[o], inst))'
  BY <1>4 DEF Knows, About
<1>6. \A o \in Reqs, i \in Insts : Holds(req[o], i)' => Holds(req[o], i)
  BY <1>3, OtherSlots DEF Holds, About
<1>. QED
  BY <1>2, <1>5, <1>6 DEF PostedInv

(* A claim that commits turns its own row, and the ledger with it.         *)
LEMMA PostedCommit ==
  ASSUME NEW r \in Reqs, TypeOK, PostedInv, Goes(r), Finish(r), AllAimed,
         NEW i \in Insts, Holds(req[r], i), NEW a \in Int, NEW status, NEW linked,
         inst' = [inst EXCEPT ![i].status = status, ![i].linked = linked],
         ledger'.ofInst = [ledger.ofInst EXCEPT ![i] = @ + a],
         \/ status = "PAID" /\ linked /\ ledger.ofInst[i] = 0 /\ a = inst[i].amount
         \/ status = "PENDING" /\ ledger.ofInst[i] + a = 0
  PROVE  PostedInv'
<1>t. /\ req \in [Reqs -> Request \cup {Idle}] /\ inst \in [Insts -> Installment]
      /\ ledger.ofInst \in [Insts -> Int]
  BY DEF TypeOK, Ledger
<1>1. /\ \A j \in Insts \ {i} : inst'[j] = inst[j] /\ ledger'.ofInst[j] = ledger.ofInst[j]
      /\ inst'[i].status = status /\ inst'[i].linked = linked /\ inst'[i].amount = inst[i].amount
      /\ ledger'.ofInst[i] = ledger.ofInst[i] + a
  BY <1>t DEF Installment
<1>2. InstalmentPostedOnce' /\ (\A j \in Insts : inst[j].status = "PAID" => inst[j].linked)'
  <2>1. ASSUME NEW j \in Insts
        PROVE  /\ ledger'.ofInst[j] = IF inst'[j].status = "PAID" THEN inst'[j].amount ELSE 0
               /\ inst'[j].status = "PAID" => inst'[j].linked
    <3>1. CASE j = i
      BY <1>t, <1>1, <3>1 DEF Installment, Amount
    <3>2. CASE j # i
      BY <1>1, <3>2 DEF PostedInv, InstalmentPostedOnce
    <3>. QED
      BY <3>1, <3>2
  <2>. QED
    BY <2>1 DEF InstalmentPostedOnce
<1>3. req'[r] = Idle
  BY <1>t DEF Finish
<1>4. ASSUME NEW o \in Reqs, About(req'[o]) PROVE Knows(req'[o], inst')
  <2>1. /\ o # r /\ req'[o] = req[o] /\ About(req[o]) /\ Knows(req[o], inst)
        /\ req[o].inst \in Insts
    BY <1>3, <1>4, OtherSlots DEF About, PostedInv, AllAimed, Aimed
  <2>2. req[o].at = "posted" => req[o].inst # i
    BY <2>1 DEF Holds, PostedInv
  <2>3. status # "none" /\ inst'[req[o].inst].amount = inst[req[o].inst].amount
    BY <1>1, <2>1
  <2>4. CASE req[o].inst = i
    <3>1. inst'[req[o].inst].status # "none" /\ req[o].at # "posted"
      BY <1>1, <2>2, <2>3, <2>4
    <3>. QED
      BY <2>1, <2>3, <3>1 DEF Knows
  <2>5. CASE req[o].inst # i
    <3>1. inst'[req[o].inst] = inst[req[o].inst]
      BY <1>1, <2>1, <2>5
    <3>. QED
      BY <2>1, <3>1 DEF Knows
  <2>. QED
    BY <2>4, <2>5
<1>5. (\A o \in Reqs : Knows(req[o], inst))'
  BY <1>4 DEF Knows, About
<1>6. \A o \in Reqs, j \in Insts : Holds(req[o], j)' => Holds(req[o], j)
  BY <1>3, OtherSlots DEF Holds, About
<1>. QED
  BY <1>2, <1>5, <1>6 DEF PostedInv

LEMMA PostedGoes ==
  ASSUME NEW r \in Reqs, Shaped, PostedInv, Goes(r)
  PROVE  PostedInv'
<1>. USE DEF Shaped
<1>t. /\ req \in [Reqs -> Request \cup {Idle}] /\ inst \in [Insts -> Installment]
      /\ ledger \in Ledger
  BY DEF TypeOK
<1>q. ASSUME req[r] # Idle
      PROVE  req[r] \in Request /\ Aimed(req[r]) /\ req[r].amount \in Int
  BY <1>t, <1>q DEF AllAimed, Request, Amount
(* A step of a request that is not about an instalment.                    *)
<1>o. ASSUME inst' = inst, ledger'.ofInst = ledger.ofInst, ~About(req'[r]) PROVE PostedInv'
  <2>1. Knows(req'[r], inst) /\ \A i \in Insts : ~Holds(req'[r], i)
    BY <1>o DEF Knows, Holds
  <2>. QED
    BY <1>o, <2>1, PostedFrame
<1>n. ASSUME req[r] # Idle, req[r].op \notin {"mark", "unmark"} PROVE ~About(req'[r])
  BY <1>n, SameRequest DEF About
<1>f. Finish(r) => ~About(req'[r])
  BY <1>t DEF Finish, About
<1>1. CASE InsertPayment(r)
  BY <1>1, <1>o, <1>n DEF InsertPayment, At, Start, records
<1>2. CASE CommitPayment(r)
  BY <1>2, <1>o, <1>n, <1>q, EnteredType DEF CommitPayment, At
<1>3. CASE NumberPlan(r)
  BY <1>3, <1>o, <1>n DEF NumberPlan, At, Start, records
<1>4. CASE WritePlan(r)
  <2>1. req[r].balance \in Int /\ req[r].first \in Nat
    BY <1>4, <1>q DEF WritePlan, At, Request, Amount
  <2>2. Pending \in SUBSET Insts
    BY DEF Pending
  <2>3. PICK lines \in Lines(req[r].balance), used \in 0..MaxInsts :
          Used(used) /\ inst' = Replanned(Pending, lines, req[r].first, used)
    BY <1>4 DEF WritePlan
  <2>4. /\ \A i \in Pending : inst'[i] = [inst[i] EXCEPT !.status = "gone"]
        /\ \A i \in Insts \ Pending :
             \/ inst'[i] = inst[i]
             \/ inst[i].status = "none" /\ inst'[i].status = "PENDING"
    <3>. DEFINE new == inst'
    <3>1. new = Replanned(Pending, lines, req[r].first, used)
      BY <2>3
    <3>. HIDE DEF new
    <3>2. /\ \A i \in Pending : new[i] = [inst[i] EXCEPT !.status = "gone"]
          /\ \A i \in Insts \ Pending :
               \/ new[i] = inst[i]
               \/ inst[i].status = "none" /\ new[i].status = "PENDING"
      BY <1>t, <2>1, <2>2, <2>3, <3>1, ReplannedRows
    <3>. QED
      BY <3>2 DEF new
  <2>. QED
    BY <1>4, <2>4, PostedReplan DEF WritePlan
<1>5. CASE WriteClear(r)
  <2>1. /\ \A i \in Pending : inst'[i] = [inst[i] EXCEPT !.status = "gone"]
        /\ \A i \in Insts \ Pending : inst'[i] = inst[i]
    BY <1>5 DEF WriteClear, Pending
  <2>. QED
    BY <1>5, <2>1, PostedReplan DEF WriteClear
<1>6. CASE ClaimInstalment(r)
  <2>1. /\ req[r] \in Request /\ req[r].op = "mark" /\ req[r].inst \in Insts
        /\ inst[req[r].inst].amount \in Int
    BY <1>6, <1>q, <1>t DEF ClaimInstalment, At, Aimed, Installment, Amount
  <2>2. /\ req'[r] = Posted(req[r], inst[req[r].inst].amount)
        /\ inst' = inst /\ ledger' = ledger
        /\ ~LockedInst(req[r].inst) /\ inst[req[r].inst].status = "PENDING"
    BY <1>6, <1>t DEF ClaimInstalment, Start, records
  <2>3. /\ req'[r].op = "mark" /\ req'[r].inst = req[r].inst
        /\ req'[r].amount = inst[req[r].inst].amount
    BY <2>1, <2>2, PostedType
  <2>4. Knows(req'[r], inst)
    BY <2>2, <2>3 DEF Knows
  <2>5. \A i \in Insts : Holds(req'[r], i) => ~LockedInst(i)
    BY <2>2, <2>3 DEF Holds
  <2>. QED
    BY <2>2, <2>4, <2>5, PostedFrame
<1>7. CASE CommitMark(r)
  <2>1. req[r] # Idle /\ req[r].inst \in Insts /\ Holds(req[r], req[r].inst) /\ Knows(req[r], inst)
    BY <1>7, <1>q DEF CommitMark, At, Aimed, Holds, About, PostedInv
  <2>2. /\ ledger.ofInst[req[r].inst] = 0 /\ req[r].amount = inst[req[r].inst].amount
        /\ req[r].amount \in Int
    BY <1>7, <1>q, <2>1 DEF CommitMark, At, Knows, About, PostedInv, InstalmentPostedOnce
  <2>3. ledger'.ofInst = [ledger.ofInst EXCEPT ![req[r].inst] = @ + req[r].amount]
    BY <1>7, <1>q, <2>1, <2>2, EnteredType, OfInstType DEF CommitMark
  <2>. QED
    BY <1>7, <2>1, <2>2, <2>3, PostedCommit DEF CommitMark
<1>8. CASE ReleaseInstalment(r)
  <2>1. /\ req[r] \in Request /\ req[r].op = "unmark" /\ req[r].inst \in Insts
        /\ req[r].amount \in Int /\ Knows(req[r], inst) /\ req[r] # Idle
    BY <1>8, <1>q DEF ReleaseInstalment, At, Aimed, PostedInv
  <2>2. /\ req'[r] = Posted(req[r], req[r].amount)
        /\ inst' = inst /\ ledger' = ledger
        /\ ~LockedInst(req[r].inst) /\ inst[req[r].inst].status = "PAID"
    BY <1>8, <1>t DEF ReleaseInstalment, Start, records
  <2>3. /\ req'[r].op = "unmark" /\ req'[r].inst = req[r].inst
        /\ req'[r].amount = -inst[req[r].inst].amount
    BY <2>1, <2>2, PostedType DEF Knows, About
  <2>4. Knows(req'[r], inst)
    BY <2>2, <2>3 DEF Knows
  <2>5. \A i \in Insts : Holds(req'[r], i) => ~LockedInst(i)
    BY <2>2, <2>3 DEF Holds
  <2>. QED
    BY <2>2, <2>4, <2>5, PostedFrame
<1>9. CASE CommitUnmark(r)
  <2>1. req[r] # Idle /\ req[r].inst \in Insts /\ Holds(req[r], req[r].inst) /\ Knows(req[r], inst)
    BY <1>9, <1>q DEF CommitUnmark, At, Aimed, Holds, About, PostedInv
  <2>2. /\ ledger.ofInst[req[r].inst] = inst[req[r].inst].amount
        /\ req[r].amount = -inst[req[r].inst].amount
    BY <1>9, <2>1 DEF CommitUnmark, At, Knows, About, PostedInv, InstalmentPostedOnce
  <2>3. ledger.ofInst[req[r].inst] + req[r].amount = 0 /\ req[r].amount \in Int
    BY <1>t, <1>q, <2>1, <2>2 DEF Installment, Amount
  <2>4. ledger'.ofInst = [ledger.ofInst EXCEPT ![req[r].inst] = @ + req[r].amount]
    BY <1>9, <1>q, <2>1, <2>3, EnteredType, OfInstType DEF CommitUnmark
  <2>. QED
    BY <1>9, <2>1, <2>3, <2>4, PostedCommit DEF CommitUnmark
<1>10. ASSUME NEW s \in Sessions, OpenSession(r, s) PROVE PostedInv'
  BY <1>10, <1>o, <1>f DEF OpenSession
<1>11. CASE ClaimSession(r)
  BY <1>11, <1>o, <1>n DEF ClaimSession, At, Start, records
<1>12. CASE CommitSession(r)
  <2>1. req[r] # Idle /\ req[r].op = "webhook" /\ req[r].sess \in Sessions /\ req[r].amount \in Int
    BY <1>12, <1>q DEF CommitSession, At, Aimed
  <2>2. ledger'.ofInst = ledger.ofInst
    BY <1>12, <1>q, <2>1, EnteredType, OfSessionType DEF CommitSession
  <2>. QED
    BY <1>12, <2>1, <2>2, <1>o, <1>n DEF CommitSession
<1>13. CASE Acknowledge(r)
  BY <1>13, <1>o, <1>f DEF Acknowledge
<1>14. CASE WriteUpdate(r)
  BY <1>14, <1>o, <1>f DEF WriteUpdate
<1>15. CASE Fail(r)
  BY <1>15, <1>o, <1>f DEF Fail, records
<1>. QED
  BY <1>1, <1>2, <1>3, <1>4, <1>5, <1>6, <1>7, <1>8, <1>9, <1>10, <1>11, <1>12,
     <1>13, <1>14, <1>15 DEF Goes

LEMMA PostedStep == Shaped /\ PostedInv /\ [Next]_vars => PostedInv'
<1>. SUFFICES ASSUME Shaped, PostedInv, [Next]_vars PROVE PostedInv'
  OBVIOUS
<1>1. ASSUME NEW r \in Reqs, Begins(r) PROVE PostedInv'
  BY <1>1, PostedBegins DEF Shaped
<1>2. ASSUME NEW r \in Reqs, Goes(r) PROVE PostedInv'
  BY <1>2, PostedGoes
<1>3. ASSUME UNCHANGED <<inst, ledger, req>> PROVE PostedInv'
  BY <1>3 DEF PostedInv, InstalmentPostedOnce, Knows, Holds, About
<1>. QED
  BY <1>1, <1>2, <1>3 DEF Next, ContactPays, vars

(* Whoever else is marking, undoing, planning or clearing, and with any    *)
(* number of them: an instalment's amount is on the ledger exactly once    *)
(* while it is marked done, and on balance not at all otherwise.           *)
THEOREM InstalmentAlwaysPostedOnce == Spec => []InstalmentPostedOnce
<1>1. PostedInv => InstalmentPostedOnce
  BY DEF PostedInv
<1>. QED
  BY <1>1, ShapedInit, ShapedStep, PostedInit, PostedStep, PTL DEF Spec

LEMMA PaidStep ==
  ASSUME Shaped, PostedInv, [Next]_vars, NEW i \in Insts, inst[i].status = "PAID"
  PROVE  /\ inst'[i].seq = inst[i].seq
         /\ inst'[i].amount = inst[i].amount
         /\ \/ inst'[i].status = "PAID"
            \/ inst'[i].status = "PENDING" /\ ledger'.ofInst[i] = 0
<1>t. /\ req \in [Reqs -> Request \cup {Idle}] /\ inst \in [Insts -> Installment]
  BY DEF Shaped, TypeOK
<1>1. CASE inst' = inst
  BY <1>1
<1>2. ASSUME NEW r \in Reqs, WritePlan(r) PROVE inst'[i] = inst[i]
  <2>1. req[r].balance \in Int /\ req[r].first \in Nat
    BY <1>t, <1>2 DEF WritePlan, At, Request, Amount
  <2>2. Pending \in SUBSET Insts /\ i \notin Pending
    BY DEF Pending
  <2>3. PICK lines \in Lines(req[r].balance), used \in 0..MaxInsts :
          Used(used) /\ inst' = Replanned(Pending, lines, req[r].first, used)
    BY <1>2 DEF WritePlan
  <2>. DEFINE new == inst'
  <2>4. new = Replanned(Pending, lines, req[r].first, used)
    BY <2>3
  <2>. HIDE DEF new
  <2>5. \A j \in Insts \ Pending :
          \/ new[j] = inst[j]
          \/ inst[j].status = "none" /\ new[j].status = "PENDING"
    BY <1>t, <2>1, <2>2, <2>3, <2>4, ReplannedRows
  <2>6. new[i] = inst[i]
    BY <2>2, <2>5
  <2>. QED
    BY <2>6 DEF new
<1>3. ASSUME NEW r \in Reqs, WriteClear(r) PROVE inst'[i] = inst[i]
  BY <1>3 DEF WriteClear, Pending
<1>4. ASSUME NEW r \in Reqs, CommitMark(r) PROVE inst'[i] = inst[i]
  <2>1. req[r].inst \in Insts /\ inst[req[r].inst].status = "PENDING"
    BY <1>4 DEF CommitMark, At, Shaped, AllAimed, Aimed, PostedInv, Knows, About
  <2>. QED
    BY <1>4, <1>t, <2>1 DEF CommitMark
<1>5. ASSUME NEW r \in Reqs, CommitUnmark(r)
      PROVE  /\ inst'[i].seq = inst[i].seq /\ inst'[i].amount = inst[i].amount
             /\ inst'[i].status \in {"PAID", "PENDING"}
  BY <1>5, <1>t DEF CommitUnmark, Installment
<1>6. inst'[i].status = "PENDING" => ledger'.ofInst[i] = 0
  BY PostedStep DEF PostedInv, InstalmentPostedOnce
<1>7. CASE UNCHANGED inst
  BY <1>7
<1>8. \/ UNCHANGED inst
      \/ \E r \in Reqs : WritePlan(r) \/ WriteClear(r) \/ CommitMark(r) \/ CommitUnmark(r)
  <2>1. ASSUME NEW r \in Reqs, Begins(r) PROVE UNCHANGED inst
    BY <2>1 DEF Begins, ReadForPayment, ReadForPlan, ReadForClear, ReadForMark, ReadForUnmark,
       ReadForCheckout, Deliver, ReadForUpdate, Reject, Void, Unvoid, Start, records
  <2>2. ASSUME NEW r \in Reqs, Goes(r)
        PROVE  UNCHANGED inst \/ WritePlan(r) \/ WriteClear(r) \/ CommitMark(r) \/ CommitUnmark(r)
    BY <2>2 DEF Goes, InsertPayment, CommitPayment, NumberPlan, ClaimInstalment,
       ReleaseInstalment, OpenSession, ClaimSession, CommitSession, Acknowledge,
       WriteUpdate, Fail, Start, records
  <2>. QED
    BY <2>1, <2>2 DEF Next, ContactPays, vars
<1>. QED
  BY <1>2, <1>3, <1>4, <1>5, <1>6, <1>7, <1>8

(* However plans are rewritten around it, an instalment marked done keeps  *)
(* its number and its amount, and is reopened only by an undo that takes   *)
(* its payment back off the ledger.                                        *)
THEOREM PaidInstalmentsAlwaysKept == Spec => PaidInstalmentsAreKept
<1>1. Shaped /\ PostedInv /\ [Next]_vars
        => [\A i \in Insts : inst[i].status = "PAID" =>
              /\ inst'[i].seq = inst[i].seq
              /\ inst'[i].amount = inst[i].amount
              /\ \/ inst'[i].status = "PAID"
                 \/ inst'[i].status = "PENDING" /\ ledger'.ofInst[i] = 0]_vars
  BY PaidStep
<1>. QED
  BY <1>1, ShapedInit, ShapedStep, PostedInit, PostedStep, PTL DEF Spec, PaidInstalmentsAreKept

-----------------------------------------------------------------------------
(* A delivery that has posted holds its session pending, with the amount   *)
(* stored with it.                                                         *)
Carries(q, rows) ==
  q # Idle /\ q.op = "webhook" /\ q.at = "posted" =>
    rows[q.sess].status = "PENDING" /\ q.amount = rows[q.sess].amount

HoldsSession(q, s) == q # Idle /\ q.op = "webhook" /\ q.at = "posted" /\ q.sess = s

SessionInv ==
  /\ SessionPostedOnce
  /\ \A r \in Reqs : Carries(req[r], session)
  /\ \A r, o \in Reqs, s \in Sessions :
       HoldsSession(req[r], s) /\ HoldsSession(req[o], s) => r = o

LEMMA SessionInit == Init => SessionInv
  BY DEF Init, SessionInv, SessionPostedOnce, Carries, HoldsSession

(* A step of a request that holds no session when it is done, and touches  *)
(* none that is held.                                                      *)
LEMMA SessionFrame ==
  ASSUME NEW r \in Reqs, TypeOK, AllAimed, SessionInv, Begins(r) \/ Goes(r),
         \A s \in Sessions : ~HoldsSession(req'[r], s),
         req'[r] # Idle => Aimed(req'[r]),
         \A o \in Reqs : o # r => Carries(req[o], session'),
         SessionPostedOnce'
  PROVE  SessionInv'
<1>1. Carries(req'[r], session')
  BY DEF HoldsSession, Carries, Aimed
<1>2. ASSUME NEW o \in Reqs PROVE Carries(req'[o], session')
  BY <1>1, OtherSlots
<1>3. \A o \in Reqs, s \in Sessions : HoldsSession(req'[o], s) => HoldsSession(req[o], s)
  BY OtherSlots
<1>4. (\A o \in Reqs : Carries(req[o], session))'
  BY <1>2 DEF Carries
<1>5. \A o \in Reqs, s \in Sessions : HoldsSession(req[o], s)' => HoldsSession(req[o], s)
  BY <1>3 DEF HoldsSession
<1>. QED
  BY <1>4, <1>5 DEF SessionInv

LEMMA SessionBegins ==
  ASSUME NEW r \in Reqs, Shaped, SessionInv, Begins(r)
  PROVE  SessionInv'
<1>t. req \in [Reqs -> Request \cup {Idle}]
  BY DEF Shaped, TypeOK
<1>. DEFINE Quiet == /\ session' = session /\ ledger' = ledger
                     /\ req'[r] # Idle => req'[r].at \in {"read", "answer"} \/ req' = req
<1>1. ASSUME NEW a \in HandAmounts, ReadForPayment(r, a) PROVE Quiet
  BY <1>1, <1>t DEF ReadForPayment, Start, records, Begin
<1>2. ASSUME ReadForPlan(r) \/ ReadForClear(r) \/ ReadForCheckout(r) PROVE Quiet
  BY <1>2, <1>t DEF ReadForPlan, ReadForClear, ReadForCheckout, Start, records, Begin
<1>3. ASSUME NEW i \in Insts, ReadForMark(r, i) \/ ReadForUnmark(r, i) PROVE Quiet
  BY <1>3, <1>t DEF ReadForMark, ReadForUnmark, Start, records, Begin
<1>4. ASSUME NEW s \in Sessions, Deliver(r, s) PROVE Quiet
  BY <1>4, <1>t DEF Deliver, Start, records, Begin
<1>5. ASSUME NEW p \in Prices, ReadForUpdate(r, p) PROVE Quiet
  BY <1>5, <1>t DEF ReadForUpdate, Start, records, Begin
<1>6. ASSUME Reject(r) \/ Void(r) \/ Unvoid(r) PROVE Quiet
  BY <1>6 DEF Reject, Void, Unvoid
<1>7. Quiet
  BY <1>1, <1>2, <1>3, <1>4, <1>5, <1>6 DEF Begins
<1>8. SessionPostedOnce'
  BY <1>7 DEF SessionInv, SessionPostedOnce
<1>9. CASE req' = req
  BY <1>7, <1>8, <1>9 DEF SessionInv, Carries, HoldsSession
<1>10. CASE req' # req
  <2>1. \A s \in Sessions : ~HoldsSession(req'[r], s)
    BY <1>7, <1>10 DEF HoldsSession
  <2>2. req'[r] # Idle => Aimed(req'[r])
    BY AimedStep DEF Shaped, AllAimed, Aimed
  <2>. QED
    BY <1>7, <1>8, <2>1, <2>2, SessionFrame DEF Shaped, SessionInv
<1>. QED
  BY <1>9, <1>10

LEMMA SessionGoes ==
  ASSUME NEW r \in Reqs, Shaped, SessionInv, Goes(r)
  PROVE  SessionInv'
<1>. USE DEF Shaped
<1>t. /\ req \in [Reqs -> Request \cup {Idle}] /\ session \in [Sessions -> Session]
      /\ ledger \in Ledger
  BY DEF TypeOK
<1>q. ASSUME req[r] # Idle
      PROVE  req[r] \in Request /\ Aimed(req[r]) /\ req[r].amount \in Int
  BY <1>t, <1>q DEF AllAimed, Request, Amount
<1>a. req'[r] # Idle => Aimed(req'[r])
  BY AimedStep DEF AllAimed, Aimed
(* A step of a request that is not a delivery.                             *)
<1>o. ASSUME session' = session, ledger'.ofSession = ledger.ofSession,
             \A s \in Sessions : ~HoldsSession(req'[r], s)
      PROVE  SessionInv'
  <2>1. SessionPostedOnce' /\ \A o \in Reqs : Carries(req[o], session')
    BY <1>o DEF SessionInv, SessionPostedOnce
  <2>. QED
    BY <1>o, <1>a, <2>1, SessionFrame
<1>n. ASSUME req[r] # Idle, req[r].op # "webhook" PROVE \A s \in Sessions : ~HoldsSession(req'[r], s)
  BY <1>n, SameRequest DEF HoldsSession
<1>f. Finish(r) => \A s \in Sessions : ~HoldsSession(req'[r], s)
  BY <1>t DEF Finish, HoldsSession
<1>1. CASE InsertPayment(r)
  BY <1>1, <1>o, <1>n DEF InsertPayment, At, Start, records
<1>2. CASE CommitPayment(r)
  BY <1>2, <1>o, <1>n, <1>q, EnteredType DEF CommitPayment, At
<1>3. CASE NumberPlan(r)
  BY <1>3, <1>o, <1>n DEF NumberPlan, At, Start, records
<1>4. CASE WritePlan(r) \/ WriteClear(r) \/ WriteUpdate(r) \/ Fail(r)
  BY <1>4, <1>o, <1>f DEF WritePlan, WriteClear, WriteUpdate, Fail, records
<1>5. CASE ClaimInstalment(r)
  BY <1>5, <1>o, <1>n DEF ClaimInstalment, At, Start, records
<1>6. CASE ReleaseInstalment(r)
  BY <1>6, <1>o, <1>n DEF ReleaseInstalment, At, Start, records
<1>7. CASE CommitMark(r)
  <2>1. ledger'.ofSession = ledger.ofSession
    BY <1>7, <1>q, EnteredType, OfInstType DEF CommitMark, At, Aimed
  <2>. QED
    BY <1>7, <2>1, <1>o, <1>f DEF CommitMark
<1>8. CASE CommitUnmark(r)
  <2>1. ledger'.ofSession = ledger.ofSession
    BY <1>8, <1>q, EnteredType, OfInstType DEF CommitUnmark, At, Aimed
  <2>. QED
    BY <1>8, <2>1, <1>o, <1>f DEF CommitUnmark
<1>9. ASSUME NEW s \in Sessions, OpenSession(r, s) PROVE SessionInv'
  <2>1. /\ session[s].status = "none" /\ session'[s].status = "PENDING" /\ ledger' = ledger
        /\ \A x \in Sessions \ {s} : session'[x] = session[x]
    BY <1>9, <1>t DEF OpenSession
  <2>2. SessionPostedOnce'
    BY <2>1 DEF SessionInv, SessionPostedOnce
  <2>3. ASSUME NEW o \in Reqs PROVE Carries(req[o], session')
    BY <2>1 DEF SessionInv, Carries, AllAimed, Aimed
  <2>. QED
    BY <1>9, <1>a, <1>f, <2>2, <2>3, SessionFrame DEF OpenSession
<1>10. CASE ClaimSession(r)
  <2>. DEFINE s == req[r].sess
  <2>1. /\ req[r] # Idle /\ req[r] \in Request /\ req[r].op = "webhook" /\ s \in Sessions
        /\ session' = session /\ ledger' = ledger /\ ~LockedSession(s)
    BY <1>10, <1>q DEF ClaimSession, At, Aimed, Start, records
  <2>2. CASE session[s].status # "PENDING"
    <3>1. req'[r].at = "answer"
      BY <1>10, <1>t, <2>1, <2>2 DEF ClaimSession, Start, Request
    <3>. QED
      BY <2>1, <3>1, <1>o DEF HoldsSession
  <2>3. CASE session[s].status = "PENDING"
    <3>1. session[s].amount \in Int /\ req'[r] = Posted(req[r], session[s].amount)
      BY <1>10, <1>t, <2>1, <2>3 DEF ClaimSession, Start, Session, Amount
    <3>2. req'[r].sess = s /\ req'[r].amount = session[s].amount
      BY <2>1, <3>1, PostedType
    <3>3. Carries(req'[r], session)
      BY <2>3, <3>2 DEF Carries
    <3>4. ASSUME NEW o \in Reqs PROVE Carries(req'[o], session')
      BY <2>1, <3>3, OtherSlots DEF SessionInv
    <3>5. ASSUME NEW p \in Reqs, NEW o \in Reqs, NEW x \in Sessions,
                 HoldsSession(req'[p], x), HoldsSession(req'[o], x)
          PROVE  p = o
      <4>1. ASSUME NEW k \in Reqs, k # r, HoldsSession(req'[k], x)
            PROVE  HoldsSession(req[k], x) /\ x # s
        BY <2>1, <4>1, OtherSlots DEF HoldsSession, LockedSession
      <4>2. HoldsSession(req'[r], x) => x = s
        BY <3>2 DEF HoldsSession
      <4>. QED
        BY <3>5, <4>1, <4>2 DEF SessionInv
    <3>6. (\A o \in Reqs : Carries(req[o], session))'
      BY <3>4 DEF Carries
    <3>7. \A p, o \in Reqs, x \in Sessions :
            (HoldsSession(req[p], x) /\ HoldsSession(req[o], x))' => p = o
      BY <3>5 DEF HoldsSession
    <3>8. SessionPostedOnce'
      BY <2>1 DEF SessionInv, SessionPostedOnce
    <3>. QED
      BY <3>6, <3>7, <3>8 DEF SessionInv
  <2>. QED
    BY <2>2, <2>3
<1>11. CASE CommitSession(r)
  <2>. DEFINE s == req[r].sess
  <2>1. /\ req[r] # Idle /\ req[r] \in Request /\ req[r].op = "webhook" /\ s \in Sessions
        /\ req[r].amount \in Int /\ HoldsSession(req[r], s) /\ Carries(req[r], session)
    BY <1>11, <1>q DEF CommitSession, At, Aimed, HoldsSession, SessionInv
  <2>2. /\ session'[s].status = "COMPLETED" /\ session'[s].amount = session[s].amount
        /\ \A x \in Sessions \ {s} : session'[x] = session[x]
    BY <1>11, <1>t, <2>1 DEF CommitSession, Session
  <2>3. ledger'.ofSession = [ledger.ofSession EXCEPT ![s] = @ + req[r].amount]
    BY <1>11, <1>q, <2>1, EnteredType, OfSessionType DEF CommitSession
  <2>4. /\ session[s].status = "PENDING" /\ req[r].amount = session[s].amount
        /\ ledger.ofSession[s] = 0
    BY <2>1 DEF Carries, HoldsSession, SessionInv, SessionPostedOnce
  <2>5. ledger.ofSession \in [Sessions -> Int]
    BY <1>t DEF Ledger
  <2>6. ASSUME NEW x \in Sessions
        PROVE  ledger'.ofSession[x] = IF session'[x].status = "COMPLETED" THEN session'[x].amount ELSE 0
    <3>1. CASE x = s
      BY <2>1, <2>2, <2>3, <2>4, <2>5, <3>1
    <3>2. CASE x # s
      BY <2>2, <2>3, <2>5, <3>2 DEF SessionInv, SessionPostedOnce
    <3>. QED
      BY <3>1, <3>2
  <2>7. SessionPostedOnce'
    BY <2>6 DEF SessionPostedOnce
  <2>8. ASSUME NEW o \in Reqs, o # r PROVE Carries(req[o], session')
    <3>1. ~HoldsSession(req[o], s)
      BY <2>1, <2>8 DEF SessionInv
    <3>. QED
      BY <2>2, <3>1 DEF SessionInv, Carries, HoldsSession, AllAimed, Aimed
  <2>9. req'[r].at = "answer"
    BY <1>11, <1>t, <2>1 DEF CommitSession, Request
  <2>. QED
    BY <1>a, <2>7, <2>8, <2>9, SessionFrame DEF HoldsSession
<1>12. CASE Acknowledge(r)
  <2>1. req[r].sess \in Sessions /\ ledger' = ledger
    BY <1>12, <1>q DEF Acknowledge, At, Aimed
  <2>2. \A x \in Sessions : session'[x].status = session[x].status /\ session'[x].amount = session[x].amount
    BY <1>12, <1>t, <2>1 DEF Acknowledge, Session
  <2>3. SessionPostedOnce' /\ \A o \in Reqs : Carries(req[o], session')
    BY <2>1, <2>2 DEF SessionInv, SessionPostedOnce, Carries, AllAimed, Aimed
  <2>. QED
    BY <1>12, <1>a, <1>f, <2>3, SessionFrame DEF Acknowledge
<1>. QED
  BY <1>1, <1>2, <1>3, <1>4, <1>5, <1>6, <1>7, <1>8, <1>9, <1>10, <1>11, <1>12 DEF Goes

LEMMA SessionStep == Shaped /\ SessionInv /\ [Next]_vars => SessionInv'
<1>. SUFFICES ASSUME Shaped, SessionInv, [Next]_vars PROVE SessionInv'
  OBVIOUS
<1>1. ASSUME NEW r \in Reqs, Begins(r) PROVE SessionInv'
  BY <1>1, SessionBegins
<1>2. ASSUME NEW r \in Reqs, Goes(r) PROVE SessionInv'
  BY <1>2, SessionGoes
<1>3. ASSUME NEW s \in Sessions, ContactPays(s) PROVE SessionInv'
  <2>1. /\ ledger' = ledger /\ req' = req
        /\ \A x \in Sessions : session'[x].status = session[x].status /\ session'[x].amount = session[x].amount
    BY <1>3 DEF ContactPays, Shaped, TypeOK, Session
  <2>. QED
    BY <2>1 DEF SessionInv, SessionPostedOnce, Carries, HoldsSession, Shaped, AllAimed, Aimed
<1>4. CASE UNCHANGED vars
  BY <1>4 DEF vars, SessionInv, SessionPostedOnce, Carries, HoldsSession
<1>. QED
  BY <1>1, <1>2, <1>3, <1>4 DEF Next

(* However often Stripe delivers its event, and however many deliveries    *)
(* are handled at once, a completed session is on the ledger exactly once, *)
(* with the amount stored when it was opened; any other is not on it.      *)
THEOREM SessionAlwaysPostedOnce == Spec => []SessionPostedOnce
<1>1. SessionInv => SessionPostedOnce
  BY DEF SessionInv
<1>. QED
  BY <1>1, ShapedInit, ShapedStep, SessionInit, SessionStep, PTL DEF Spec

-----------------------------------------------------------------------------
(* The charge of a session is the amount it was opened for, rounded to     *)
(* what the currency can charge.                                           *)
ChargeInv ==
  \A s \in Sessions :
    session[s].status # "none" => session[s].charge = Charge(session[s].amount)

LEMMA ChargeInit == Init => ChargeInv
  BY DEF Init, ChargeInv

(* What a step leaves of a session's charge, amount and existence.         *)
SameCharge(s) ==
  /\ session'[s].amount = session[s].amount
  /\ session'[s].charge = session[s].charge
  /\ session'[s].status = "none" <=> session[s].status = "none"

LEMMA ChargeBegins ==
  ASSUME NEW r \in Reqs, Begins(r)
  PROVE  session' = session
<1>1. ASSUME NEW a \in HandAmounts, ReadForPayment(r, a) PROVE session' = session
  BY <1>1 DEF ReadForPayment, Start, records
<1>2. ASSUME ReadForPlan(r) \/ ReadForClear(r) \/ ReadForCheckout(r) PROVE session' = session
  BY <1>2 DEF ReadForPlan, ReadForClear, ReadForCheckout, Start, records
<1>3. ASSUME NEW i \in Insts, ReadForMark(r, i) \/ ReadForUnmark(r, i)
      PROVE  session' = session
  BY <1>3 DEF ReadForMark, ReadForUnmark, Start, records
<1>4. ASSUME NEW s \in Sessions, Deliver(r, s) PROVE session' = session
  BY <1>4 DEF Deliver, Start, records
<1>5. ASSUME NEW p \in Prices, ReadForUpdate(r, p) PROVE session' = session
  BY <1>5 DEF ReadForUpdate, Start, records
<1>6. ASSUME Reject(r) \/ Void(r) \/ Unvoid(r) PROVE session' = session
  BY <1>6 DEF Reject, Void, Unvoid
<1>. QED
  BY <1>1, <1>2, <1>3, <1>4, <1>5, <1>6 DEF Begins

(* Only the opening of a session sets them, and nothing but the commit of  *)
(* a delivery finishes one that exists.                                    *)
LEMMA ChargeGoes ==
  ASSUME NEW r \in Reqs, Shaped, SessionInv, ChargeInv, Goes(r)
  PROVE  ChargeInv'
<1>. USE DEF Shaped
<1>t. /\ req \in [Reqs -> Request \cup {Idle}] /\ session \in [Sessions -> Session]
  BY DEF TypeOK
<1>q. ASSUME req[r] # Idle PROVE req[r] \in Request /\ Aimed(req[r])
  BY <1>t, <1>q DEF AllAimed
<1>s. ASSUME \A s \in Sessions : SameCharge(s) PROVE ChargeInv'
  BY <1>s DEF ChargeInv, SameCharge
<1>i. ASSUME session' = session PROVE ChargeInv'
  BY <1>i DEF ChargeInv
<1>1. CASE InsertPayment(r) \/ NumberPlan(r) \/ ClaimInstalment(r)
           \/ ReleaseInstalment(r) \/ ClaimSession(r)
  BY <1>1, <1>i
  DEF InsertPayment, NumberPlan, ClaimInstalment, ReleaseInstalment, ClaimSession, Start, records
<1>2. CASE CommitPayment(r) \/ WritePlan(r) \/ WriteClear(r) \/ CommitMark(r)
           \/ CommitUnmark(r) \/ WriteUpdate(r) \/ Fail(r)
  BY <1>2, <1>i
  DEF CommitPayment, WritePlan, WriteClear, CommitMark, CommitUnmark, WriteUpdate, Fail, records
<1>3. ASSUME NEW s \in Sessions, OpenSession(r, s) PROVE ChargeInv'
  <2>. DEFINE opened == [status |-> "PENDING", amount |-> req[r].balance,
                         charge |-> Charge(req[r].balance), stripe |-> "open"]
  <2>1. session' = [session EXCEPT ![s] = opened]
    BY <1>3 DEF OpenSession
  <2>2. session'[s] = opened /\ \A x \in Sessions \ {s} : session'[x] = session[x]
    BY <1>t, <2>1
  <2>3. session'[s].charge = Charge(session'[s].amount)
    BY <2>2
  <2>. QED
    BY <2>2, <2>3 DEF ChargeInv
<1>4. CASE CommitSession(r)
  <2>1. req[r].sess \in Sessions /\ session[req[r].sess].status = "PENDING"
    BY <1>4, <1>q DEF CommitSession, At, Aimed, SessionInv, Carries
  <2>2. session' = [session EXCEPT ![req[r].sess].status = "COMPLETED"]
    BY <1>4 DEF CommitSession
  <2>3. \A s \in Sessions : SameCharge(s)
    BY <1>t, <2>1, <2>2 DEF SameCharge, Session
  <2>. QED
    BY <2>3, <1>s
<1>5. CASE Acknowledge(r)
  <2>1. req[r].sess \in Sessions
    BY <1>5, <1>q DEF Acknowledge, At, Aimed
  <2>2. session' = [session EXCEPT ![req[r].sess].stripe = "acked"]
    BY <1>5 DEF Acknowledge
  <2>3. \A s \in Sessions : SameCharge(s)
    BY <1>t, <2>1, <2>2 DEF SameCharge, Session
  <2>. QED
    BY <2>3, <1>s
<1>. QED
  BY <1>1, <1>2, <1>3, <1>4, <1>5 DEF Goes

LEMMA ChargeStep == Shaped /\ SessionInv /\ ChargeInv /\ [Next]_vars => ChargeInv'
<1>. SUFFICES ASSUME Shaped, SessionInv, ChargeInv, [Next]_vars PROVE ChargeInv'
  OBVIOUS
<1>1. ASSUME NEW r \in Reqs, Begins(r) PROVE ChargeInv'
  BY <1>1, ChargeBegins DEF ChargeInv
<1>2. ASSUME NEW r \in Reqs, Goes(r) PROVE ChargeInv'
  BY <1>2, ChargeGoes
<1>3. ASSUME NEW s \in Sessions, ContactPays(s) PROVE ChargeInv'
  <2>1. \A x \in Sessions : SameCharge(x)
    BY <1>3 DEF ContactPays, Shaped, TypeOK, Session, SameCharge
  <2>. QED
    BY <2>1 DEF ChargeInv, SameCharge
<1>4. CASE UNCHANGED vars
  BY <1>4 DEF vars, ChargeInv
<1>. QED
  BY <1>1, <1>2, <1>3, <1>4 DEF Next

(* In any currency, the card of a completed session was charged what the   *)
(* ledger shows for it, rounded to the smallest amount the currency has.   *)
THEOREM BookedIsTheChargeRounded ==
  Spec => [](\A s \in Sessions : session[s].status = "COMPLETED" =>
               session[s].charge = Charge(ledger.ofSession[s]))
<1>1. SessionInv /\ ChargeInv =>
        \A s \in Sessions : session[s].status = "COMPLETED" =>
          session[s].charge = Charge(ledger.ofSession[s])
  BY DEF SessionInv, SessionPostedOnce, ChargeInv
<1>. QED
  BY <1>1, ShapedInit, ShapedStep, SessionInit, SessionStep, ChargeInit, ChargeStep, PTL DEF Spec

LEMMA MultipleIsWhole ==
  ASSUME NEW k \in Int, NEW u \in Int, u > 0 PROVE k * u \in Int /\ (k * u) % u = 0
<1>. DEFINE m == (k * u) \div u
            r == (k * u) % u
            d == k - m
<1>1. k * u \in Int /\ m \in Int /\ r \in Int /\ k * u = u * m + r /\ 0 <= r /\ r < u
  OBVIOUS
<1>. HIDE DEF m, r
<1>2. d \in Int /\ d * u = r
  BY <1>1
<1>. HIDE DEF d
<1>3. CASE d >= 1
  <2>1. (d - 1) * u >= 0
    BY <1>2, <1>3
  <2>. QED
    BY <1>1, <1>2, <2>1
<1>4. CASE d <= -1
  <2>1. (d + 1) * u <= 0
    BY <1>2, <1>4
  <2>. QED
    BY <1>1, <1>2, <2>1
<1>5. CASE d = 0
  BY <1>1, <1>2, <1>5 DEF r
<1>. QED
  BY <1>2, <1>3, <1>4, <1>5

(* Rounding to a whole number of units moves an amount by half a unit.     *)
LEMMA ChargeRounds ==
  ASSUME NEW a \in Int
  PROVE  /\ Charge(a) \in Int /\ Charge(a) % Unit = 0
         /\ 2 * (Charge(a) - a) <= Unit /\ 2 * (Charge(a) - a) > -Unit
<1>. DEFINE h == Unit \div 2
            k == (a + h) \div Unit
<1>1. Unit \in Int /\ Unit > 0
  BY UnitAssumption
<1>2. h \in Int /\ 2 * h <= Unit /\ Unit <= 2 * h + 1
  BY <1>1
<1>3. k \in Int /\ k * Unit <= a + h /\ a + h < k * Unit + Unit
  BY <1>1, <1>2
<1>4. Charge(a) = k * Unit
  BY DEF Charge
<1>5. k * Unit \in Int /\ (k * Unit) % Unit = 0
  BY <1>1, <1>3, MultipleIsWhole
<1>. HIDE DEF h, k
<1>. QED
  BY <1>1, <1>2, <1>3, <1>4, <1>5

(* In any currency and however edits and payments cross it, what a         *)
(* completed session put on the ledger is what the card was charged, to    *)
(* half of the smallest amount that the currency can charge.               *)
THEOREM ChargedAlwaysBooked == Spec => []ChargedIsBooked
<1>2. TypeOK /\ SessionInv /\ ChargeInv => ChargedIsBooked
  <2>. SUFFICES ASSUME TypeOK, SessionInv, ChargeInv, NEW s \in Sessions,
                       session[s].status = "COMPLETED"
                PROVE  /\ session[s].charge % Unit = 0
                       /\ 2 * (session[s].charge - ledger.ofSession[s]) <= Unit
                       /\ 2 * (session[s].charge - ledger.ofSession[s]) > -Unit
    BY DEF ChargedIsBooked
  <2>1. session[s].amount \in Int
    BY DEF TypeOK, Session, Amount
  <2>2. ledger.ofSession[s] = session[s].amount
    BY DEF SessionInv, SessionPostedOnce
  <2>3. session[s].charge = Charge(session[s].amount)
    BY DEF ChargeInv
  <2>. QED
    BY <2>1, <2>2, <2>3, ChargeRounds
<1>3. Shaped => TypeOK
  BY DEF Shaped
<1>. QED
  BY <1>2, <1>3, ShapedInit, ShapedStep, SessionInit, SessionStep, ChargeInit, ChargeStep, PTL
  DEF Spec

-----------------------------------------------------------------------------
(* One handler at a time: after a step of r, no other is at work.          *)
OthersRest(r) == \A o \in Reqs : o # r => req'[o] = Idle

(* The sale's figures are those of its ledger, and a transaction that is   *)
(* about to commit carries the figures of the ledger it leaves.            *)
MoneyInv ==
  /\ sale.paid = sale.deposit + ledger.sum
  /\ sale.balance = sale.total - sale.paid
  /\ \A r \in Reqs :
       req[r] # Idle =>
         /\ req[r].op # "update"
         /\ req[r].at = "posted" =>
              /\ req[r].paid = sale.deposit + ledger.sum + req[r].amount
              /\ req[r].balance = sale.total - req[r].paid

LEMMA MoneyInit == Init => MoneyInv
<1>. SUFFICES ASSUME Init PROVE MoneyInv
  OBVIOUS
<1>1. PICK p \in Prices :
        sale = [state |-> "LIVE", voidedFrom |-> None, total |-> p.total,
                deposit |-> p.deposit, paid |-> p.deposit,
                balance |-> p.total - p.deposit]
  BY DEF Init
<1>2. p.total \in Int /\ p.deposit \in Int
  BY PricesAssumption
<1>. QED
  BY <1>1, <1>2 DEF Init, MoneyInv

(* The one request, after a step that leaves the money alone.              *)
LEMMA MoneyFrame ==
  ASSUME TypeOK, MoneyInv, NEW r \in Reqs, OthersRest(r),
         sale'.paid = sale.paid, sale'.balance = sale.balance,
         sale'.deposit = sale.deposit, sale'.total = sale.total,
         ledger'.sum = ledger.sum,
         req'[r] # Idle => req'[r].op # "update" /\ req'[r].at # "posted"
  PROVE  MoneyInv'
<1>1. ASSUME NEW o \in Reqs
      PROVE  req'[o] # Idle => req'[o].op # "update" /\ req'[o].at # "posted"
  <2>1. req'[o] # Idle => o = r
    BY DEF OthersRest
  <2>. QED
    BY <2>1
<1>. QED
  BY <1>1 DEF MoneyInv

(* The one request posts.                                                  *)
LEMMA MoneyPosts ==
  ASSUME TypeOK, MoneyInv, NEW r \in Reqs, OthersRest(r), req[r] # Idle,
         NEW a \in Int, Start(r, Posted(req[r], a))
  PROVE  MoneyInv'
<1>1. req[r] \in Request /\ sale \in Sale /\ ledger \in Ledger
  BY DEF TypeOK
<1>2. UNCHANGED records /\ req'[r] = Posted(req[r], a)
  BY DEF Start, TypeOK
<1>3. /\ Posted(req[r], a).op = req[r].op
      /\ Posted(req[r], a).amount = a
      /\ Posted(req[r], a).paid = sale.deposit + ledger.sum + a
      /\ Posted(req[r], a).balance = sale.total - (sale.deposit + ledger.sum + a)
  BY <1>1 DEF Posted, Request
<1>4. ASSUME NEW o \in Reqs
      PROVE  req'[o] # Idle =>
               /\ req'[o].op # "update"
               /\ req'[o].at = "posted" =>
                    /\ req'[o].paid = sale.deposit + ledger.sum + req'[o].amount
                    /\ req'[o].balance = sale.total - req'[o].paid
  <2>1. req'[o] # Idle => o = r
    BY DEF OthersRest
  <2>. QED
    BY <1>2, <1>3, <2>1 DEF MoneyInv
<1>. QED
  BY <1>2, <1>4 DEF MoneyInv, records

(* The one request commits what it posted.                                 *)
LEMMA MoneyCommits ==
  ASSUME TypeOK, MoneyInv, NEW r \in Reqs, OthersRest(r), req[r] # Idle, req[r].at = "posted",
         sale' = Balanced(req[r]), ledger'.sum = ledger.sum + req[r].amount,
         req'[r] # Idle => req'[r].op # "update" /\ req'[r].at # "posted"
  PROVE  MoneyInv'
<1>1. req[r] \in Request /\ sale \in Sale /\ ledger \in Ledger
  BY DEF TypeOK
<1>2. /\ req[r].amount \in Int /\ ledger.sum \in Int /\ sale.deposit \in Int
  BY <1>1 DEF Request, Sale, Ledger, Amount
<1>3. /\ sale'.paid = req[r].paid /\ sale'.balance = req[r].balance
      /\ sale'.deposit = sale.deposit /\ sale'.total = sale.total
  BY <1>1 DEF Balanced, Sale
<1>4. /\ req[r].paid = sale.deposit + ledger.sum + req[r].amount
      /\ req[r].balance = sale.total - req[r].paid
  BY DEF MoneyInv
<1>5. ASSUME NEW o \in Reqs
      PROVE  req'[o] # Idle => req'[o].op # "update" /\ req'[o].at # "posted"
  <2>1. req'[o] # Idle => o = r
    BY DEF OthersRest
  <2>. QED
    BY <2>1
<1>6. sale'.paid = sale'.deposit + ledger'.sum
  BY <1>2, <1>3, <1>4
<1>. QED
  BY <1>3, <1>4, <1>5, <1>6 DEF MoneyInv

LEMMA MoneyBegins ==
  ASSUME NEW r \in Reqs, Shaped, MoneyInv, Begins(r), Serves(NoUpdate)'
  PROVE  MoneyInv'
<1>t. req \in [Reqs -> Request \cup {Idle}] /\ sale \in Sale
  BY DEF Shaped, TypeOK
<1>. DEFINE Fresh == UNCHANGED records /\ req'[r].at # "posted"
<1>1. ASSUME NEW a \in HandAmounts, ReadForPayment(r, a) PROVE Fresh
  BY <1>1, <1>t DEF ReadForPayment, Start, Begin
<1>2. ASSUME ReadForPlan(r) \/ ReadForClear(r) \/ ReadForCheckout(r) PROVE Fresh
  BY <1>2, <1>t DEF ReadForPlan, ReadForClear, ReadForCheckout, Start, Begin
<1>3. ASSUME NEW i \in Insts, ReadForMark(r, i) \/ ReadForUnmark(r, i) PROVE Fresh
  BY <1>3, <1>t DEF ReadForMark, ReadForUnmark, Start, Begin
<1>4. ASSUME NEW s \in Sessions, Deliver(r, s) PROVE Fresh
  BY <1>4, <1>t DEF Deliver, Start, Begin
<1>5. ASSUME NEW p \in Prices, ReadForUpdate(r, p) PROVE Fresh
  BY <1>5, <1>t DEF ReadForUpdate, Start, Begin
<1>6. ASSUME Reject(r) \/ Void(r) \/ Unvoid(r) PROVE MoneyInv'
  <2>1. /\ sale'.paid = sale.paid /\ sale'.balance = sale.balance
        /\ sale'.deposit = sale.deposit /\ sale'.total = sale.total
        /\ ledger' = ledger /\ req' = req
    BY <1>6, <1>t DEF Reject, Void, Unvoid, Sale
  <2>. QED
    BY <2>1 DEF MoneyInv
<1>7. ASSUME Fresh PROVE MoneyInv'
  <2>1. \A o \in Reqs \ {r} : req'[o] = req[o]
    BY OtherSlots DEF Shaped
  <2>2. req'[r] # Idle => req'[r].op # "update"
    BY DEF Serves, NoUpdate
  <2>. QED
    BY <1>7, <2>1, <2>2 DEF MoneyInv, records
<1>. QED
  BY <1>1, <1>2, <1>3, <1>4, <1>5, <1>6, <1>7 DEF Begins

LEMMA MoneyGoes ==
  ASSUME NEW r \in Reqs, Shaped, MoneyInv, OneAtATime, Goes(r)
  PROVE  MoneyInv'
<1>. USE DEF Shaped
<1>t. /\ req \in [Reqs -> Request \cup {Idle}] /\ inst \in [Insts -> Installment]
      /\ session \in [Sessions -> Session] /\ ledger \in Ledger
  BY DEF TypeOK
<1>q. ASSUME req[r] # Idle
      PROVE  /\ req[r] \in Request /\ Aimed(req[r]) /\ req[r].amount \in Int
             /\ req[r].op # "update" /\ Entered(req[r]) \in Ledger
             /\ Entered(req[r]).sum = ledger.sum + req[r].amount
  <2>1. req[r] \in Request /\ req[r].op # "update" /\ Entered(req[r]) \in Ledger
    BY <1>t, <1>q, EnteredType DEF MoneyInv
  <2>2. Entered(req[r]).sum = ledger.sum + req[r].amount
    BY <1>t DEF Entered, Ledger
  <2>. QED
    BY <1>q, <2>1, <2>2 DEF AllAimed, Request, Amount
<1>r. OthersRest(r)
  <2>1. req[r] # Idle
    BY DEF Goes, InsertPayment, CommitPayment, NumberPlan, WritePlan, WriteClear,
       ClaimInstalment, CommitMark, ReleaseInstalment, CommitUnmark, OpenSession,
       ClaimSession, CommitSession, Acknowledge, WriteUpdate, Fail, At
  <2>. QED
    BY <2>1, OtherSlots DEF OneAtATime, OthersRest
<1>f. ASSUME Finish(r), UNCHANGED sale, ledger'.sum = ledger.sum PROVE MoneyInv'
  <2>1. req'[r] = Idle
    BY <1>t, <1>f DEF Finish
  <2>. QED
    BY <1>f, <2>1, <1>r, MoneyFrame
<1>c. ASSUME req[r] # Idle, req[r].at = "posted", sale' = Balanced(req[r]),
             ledger'.sum = Entered(req[r]).sum, Finish(r)
      PROVE  MoneyInv'
  <2>1. req'[r] = Idle
    BY <1>t, <1>c DEF Finish
  <2>. QED
    BY <1>c, <1>q, <2>1, <1>r, MoneyCommits
<1>1. CASE InsertPayment(r)
  BY <1>1, <1>q, <1>r, MoneyPosts DEF InsertPayment, At
<1>2. CASE CommitPayment(r)
  BY <1>2, <1>c DEF CommitPayment, At
<1>3. CASE NumberPlan(r)
  <2>1. UNCHANGED records /\ req[r] # Idle
    BY <1>3 DEF NumberPlan, At, Start
  <2>2. req'[r].op # "update" /\ req'[r].at # "posted"
    BY <1>3, <1>t, <1>q, <2>1 DEF NumberPlan, Start, Request
  <2>. QED
    BY <2>1, <2>2, <1>r, MoneyFrame DEF records
<1>4. CASE WritePlan(r) \/ WriteClear(r) \/ Fail(r)
  BY <1>4, <1>f DEF WritePlan, WriteClear, Fail, records
<1>5. CASE ClaimInstalment(r)
  <2>1. req[r] # Idle /\ inst[req[r].inst].amount \in Int
    BY <1>5, <1>t, <1>q DEF ClaimInstalment, At, Aimed, Installment, Amount
  <2>. QED
    BY <1>5, <2>1, <1>r, MoneyPosts DEF ClaimInstalment
<1>6. CASE CommitMark(r)
  <2>1. ledger'.sum = Entered(req[r]).sum
    BY <1>6, <1>q DEF CommitMark, At, Ledger
  <2>. QED
    BY <1>6, <2>1, <1>c DEF CommitMark, At
<1>7. CASE ReleaseInstalment(r)
  BY <1>7, <1>q, <1>r, MoneyPosts DEF ReleaseInstalment, At
<1>8. CASE CommitUnmark(r)
  <2>1. ledger'.sum = Entered(req[r]).sum
    BY <1>8, <1>q DEF CommitUnmark, At, Ledger
  <2>. QED
    BY <1>8, <2>1, <1>c DEF CommitUnmark, At
<1>9. ASSUME NEW s \in Sessions, OpenSession(r, s) PROVE MoneyInv'
  BY <1>9, <1>f DEF OpenSession
<1>10. CASE ClaimSession(r)
  <2>1. /\ req[r] # Idle /\ req[r].sess \in Sessions /\ req[r].op = "webhook"
    BY <1>10, <1>q DEF ClaimSession, At, Aimed
  <2>2. CASE session[req[r].sess].status = "PENDING"
    <3>1. session[req[r].sess].amount \in Int
      BY <1>t, <2>1 DEF Session, Amount
    <3>2. Start(r, Posted(req[r], session[req[r].sess].amount))
      BY <1>10, <2>2 DEF ClaimSession
    <3>. QED
      BY <2>1, <3>1, <3>2, <1>r, MoneyPosts
  <2>3. CASE session[req[r].sess].status # "PENDING"
    <3>1. Start(r, [req[r] EXCEPT !.at = "answer"])
      BY <1>10, <2>3 DEF ClaimSession
    <3>2. req'[r].op # "update" /\ req'[r].at # "posted"
      BY <1>t, <1>q, <2>1, <3>1 DEF Start, Request
    <3>. QED
      BY <3>1, <3>2, <1>r, MoneyFrame DEF Start, records
  <2>. QED
    BY <2>2, <2>3
<1>11. CASE CommitSession(r)
  <2>1. /\ req[r] # Idle /\ req[r].at = "posted" /\ req[r].op = "webhook"
        /\ sale' = Balanced(req[r])
    BY <1>11 DEF CommitSession, At
  <2>2. ledger'.sum = Entered(req[r]).sum
    BY <1>11, <1>q, <2>1 DEF CommitSession, Ledger
  <2>3. req'[r].op # "update" /\ req'[r].at # "posted"
    BY <1>11, <1>t, <1>q, <2>1 DEF CommitSession, Request
  <2>. QED
    BY <1>q, <2>1, <2>2, <2>3, <1>r, MoneyCommits
<1>12. CASE Acknowledge(r)
  BY <1>12, <1>f DEF Acknowledge
<1>13. CASE WriteUpdate(r)
  BY <1>13, <1>q DEF WriteUpdate, At
<1>. QED
  BY <1>1, <1>2, <1>3, <1>4, <1>5, <1>6, <1>7, <1>8, <1>9, <1>10, <1>11, <1>12, <1>13 DEF Goes

LEMMA MoneyStep ==
  Shaped /\ MoneyInv /\ OneAtATime /\ Serves(NoUpdate)' /\ [Next]_vars => MoneyInv'
<1>. SUFFICES ASSUME Shaped, MoneyInv, OneAtATime, Serves(NoUpdate)', [Next]_vars PROVE MoneyInv'
  OBVIOUS
<1>1. ASSUME NEW r \in Reqs, Begins(r) PROVE MoneyInv'
  BY <1>1, MoneyBegins
<1>2. ASSUME NEW r \in Reqs, Goes(r) PROVE MoneyInv'
  BY <1>2, MoneyGoes
<1>3. ASSUME NEW s \in Sessions, ContactPays(s) PROVE MoneyInv'
  BY <1>3 DEF ContactPays, MoneyInv
<1>4. CASE UNCHANGED vars
  BY <1>4 DEF vars, MoneyInv
<1>. QED
  BY <1>1, <1>2, <1>3, <1>4 DEF Next

-----------------------------------------------------------------------------
(* The sum of a function over a finite set, whatever order it is taken in. *)
OneOf(s) == CHOOSE x \in s : TRUE
SumOf(f, g, s) == IF s = {} THEN 0 ELSE f[OneOf(s)] + g[s \ {OneOf(s)}]
Sums(f, S) == CHOOSE g : g = [s \in SUBSET S |-> SumOf(f, g, s)]

(* g holds the sum of f over every part of S.                              *)
Solves(g, f, S) == \A s \in SUBSET S : g[s] = SumOf(f, g, s)

Summable(f, S) == IsFiniteSet(S) /\ \A x \in S : f[x] \in Int

LEMMA SumIs == ASSUME NEW f, NEW S PROVE SumFunctionOnSet(f, S) = Sums(f, S)[S]
BY DEF SumFunctionOnSet, FoldFunctionOnSet, MapThenFoldSet, Sums, SumOf, OneOf

(* A set of numbers has a least one.                                       *)
LEMMA Least == ASSUME NEW A \in SUBSET Nat, A # {} PROVE \E n \in A : \A m \in A : n <= m
<1>. DEFINE R == {p \in Nat \X Nat : p[1] < p[2]}
<1>1. IsWellFoundedOn(R, Nat)
  BY NatLessThanWellFounded DEF OpToRel
<1>2. PICK n \in A : \A m \in A : ~ (<<m, n>> \in R)
  <2>. HIDE DEF R
  <2>. QED
    BY <1>1, WFMin
<1>3. ASSUME NEW m \in A PROVE n <= m
  <2>1. ~(m < n)
    BY <1>2
  <2>. QED
    BY <2>1
<1>. QED
  BY <1>3

LEMMA Taken ==
  ASSUME NEW S, IsFiniteSet(S), NEW s \in SUBSET S
  PROVE  /\ IsFiniteSet(s) /\ Cardinality(s) \in Nat
         /\ \A x \in s : s \ {x} \in SUBSET S /\ Cardinality(s \ {x}) = Cardinality(s) - 1
         /\ s # {} => OneOf(s) \in s /\ Cardinality(s) >= 1
<1>1. IsFiniteSet(s) /\ Cardinality(s) \in Nat
  BY FS_Subset, FS_CardinalityType
<1>2. \A x \in s : Cardinality(s \ {x}) = Cardinality(s) - 1
  BY <1>1, FS_RemoveElement
<1>3. s # {} => Cardinality(s) # 0
  BY <1>1, FS_EmptySet
<1>4. s # {} => OneOf(s) \in s
  BY DEF OneOf
<1>. QED
  BY <1>1, <1>2, <1>3, <1>4

(* There are sums of parts of any size, and so of all of S.                *)
LEMMA PartialSums ==
  ASSUME NEW f, NEW S, Summable(f, S), NEW n \in Nat
  PROVE  \E g \in [SUBSET S -> Int] :
           \A s \in SUBSET S : Cardinality(s) <= n => g[s] = SumOf(f, g, s)
<1>. DEFINE Fits(g, k) == \A s \in SUBSET S : Cardinality(s) <= k => g[s] = SumOf(f, g, s)
            Bad == {k \in Nat : ~ \E g \in [SUBSET S -> Int] : Fits(g, k)}
<1>f. IsFiniteSet(S) /\ \A x \in S : f[x] \in Int
  BY DEF Summable
<1>1. SUFFICES ASSUME Bad # {} PROVE FALSE
  OBVIOUS
<1>2. PICK k \in Bad : \A m \in Bad : k <= m
  <2>. Bad \in SUBSET Nat
    OBVIOUS
  <2>. HIDE DEF Bad
  <2>. QED
    BY <1>1, Least
<1>3. ASSUME NEW g \in [SUBSET S -> Int], k = 0 \/ Fits(g, k - 1) PROVE FALSE
  <2>. DEFINE h == [s \in SUBSET S |-> SumOf(f, g, s)]
  <2>1. ASSUME NEW s \in SUBSET S PROVE SumOf(f, g, s) \in Int
    <3>1. s # {} => f[OneOf(s)] \in Int /\ g[s \ {OneOf(s)}] \in Int
      BY <1>f, Taken
    <3>. QED
      BY <3>1 DEF SumOf
  <2>2. h \in [SUBSET S -> Int]
    BY <2>1
  <2>3. ASSUME NEW s \in SUBSET S, Cardinality(s) <= k PROVE h[s] = SumOf(f, h, s)
    <3>1. CASE s = {}
      BY <3>1 DEF SumOf
    <3>2. CASE s # {}
      <4>. DEFINE t == s \ {OneOf(s)}
      <4>1. t \in SUBSET S /\ Cardinality(t) <= k - 1 /\ k # 0
        BY <1>f, <2>3, <3>2, Taken
      <4>2. g[t] = SumOf(f, g, t)
        BY <1>3, <4>1
      <4>3. h[t] = g[t] /\ h[s] = SumOf(f, g, s)
        BY <4>1, <4>2
      <4>. QED
        BY <3>2, <4>3 DEF SumOf
    <3>. QED
      BY <3>1, <3>2
  <2>. QED
    <3>. HIDE DEF h
    <3>. QED
      BY <2>2, <2>3
<1>4. CASE k = 0
  BY <1>3, <1>4, [s \in SUBSET S |-> 0] \in [SUBSET S -> Int]
<1>5. CASE k # 0
  <2>1. k \in Nat /\ k - 1 \in Nat /\ ~(k <= k - 1)
    BY <1>5
  <2>2. k - 1 \notin Bad
    <3>. HIDE DEF Bad
    <3>. QED
      BY <1>2, <2>1
  <2>3. \E g \in [SUBSET S -> Int] : Fits(g, k - 1)
    BY <2>1, <2>2
  <2>. QED
    BY <1>3, <2>3
<1>. QED
  BY <1>4, <1>5

(* There is one such sum, whatever set the parts are parts of.             *)
LEMMA SumsAgree ==
  ASSUME NEW f, NEW S, IsFiniteSet(S), NEW g, NEW h, Solves(g, f, S), Solves(h, f, S)
  PROVE  \A s \in SUBSET S : g[s] = h[s]
<1>. USE DEF Solves
<1>. DEFINE Bad == {k \in Nat : \E s \in SUBSET S : Cardinality(s) = k /\ g[s] # h[s]}
<1>1. SUFFICES ASSUME NEW s \in SUBSET S, g[s] # h[s] PROVE FALSE
  OBVIOUS
<1>2. Bad \in SUBSET Nat /\ Bad # {}
  BY <1>1, Taken
<1>3. PICK k \in Bad : \A m \in Bad : k <= m
  <2>. HIDE DEF Bad
  <2>. QED
    BY <1>2, Least
<1>4. PICK t \in SUBSET S : Cardinality(t) = k /\ g[t] # h[t]
  BY <1>3
<1>5. t # {}
  BY <1>4 DEF SumOf
<1>6. g[t \ {OneOf(t)}] # h[t \ {OneOf(t)}]
  BY <1>4, <1>5 DEF SumOf
<1>7. t \ {OneOf(t)} \in SUBSET S /\ Cardinality(t \ {OneOf(t)}) = k - 1 /\ k - 1 \in Nat
  BY <1>4, <1>5, Taken
<1>8. k - 1 \in Bad
  BY <1>6, <1>7
<1>. QED
  <2>1. k \in Nat /\ k <= k - 1
    BY <1>3, <1>8
  <2>. QED
    BY <2>1

LEMMA SumsAre ==
  ASSUME NEW f, NEW S, Summable(f, S)
  PROVE  \A s \in SUBSET S : Sums(f, S)[s] \in Int /\ Sums(f, S)[s] = SumOf(f, Sums(f, S), s)
<1>1. Cardinality(S) \in Nat /\ IsFiniteSet(S)
  BY FS_CardinalityType DEF Summable
<1>2. PICK g \in [SUBSET S -> Int] :
        \A s \in SUBSET S : Cardinality(s) <= Cardinality(S) => g[s] = SumOf(f, g, s)
  <2>1. \A n \in Nat : \E g \in [SUBSET S -> Int] :
          \A s \in SUBSET S : Cardinality(s) <= n => g[s] = SumOf(f, g, s)
    BY PartialSums
  <2>. QED
    BY <1>1, <2>1, Zenon
<1>3. \A s \in SUBSET S : Cardinality(s) <= Cardinality(S)
  BY FS_Subset DEF Summable
<1>4. g = [s \in SUBSET S |-> SumOf(f, g, s)]
  BY <1>2, <1>3
<1>5. Sums(f, S) = [s \in SUBSET S |-> SumOf(f, Sums(f, S), s)]
  BY <1>4, Zenon DEF Sums
<1>. DEFINE h == Sums(f, S)
<1>6. \A s \in SUBSET S : h[s] = SumOf(f, h, s)
  <2>. HIDE DEF h
  <2>. QED
    BY <1>5 DEF h
<1>. HIDE DEF h
<1>7. Solves(g, f, S) /\ Solves(h, f, S)
  BY <1>2, <1>3, <1>6 DEF Solves
<1>8. \A s \in SUBSET S : g[s] = h[s]
  BY <1>1, <1>7, SumsAgree
<1>9. \A s \in SUBSET S : h[s] \in Int
  BY <1>8
<1>. QED
  BY <1>6, <1>9 DEF h

(* A sum is an integer, and some member may be taken off it first.         *)
LEMMA SumStep ==
  ASSUME NEW f, NEW S, Summable(f, S)
  PROVE  /\ SumFunctionOnSet(f, S) \in Int
         /\ S = {} => SumFunctionOnSet(f, S) = 0
         /\ S # {} => SumFunctionOnSet(f, S) = f[OneOf(S)] + SumFunctionOnSet(f, S \ {OneOf(S)})
<1>. DEFINE g == Sums(f, S)  T == S \ {OneOf(S)}  h == Sums(f, T)
<1>1. \A s \in SUBSET S : g[s] \in Int /\ g[s] = SumOf(f, g, s)
  BY SumsAre
<1>2. IsFiniteSet(T) /\ Summable(f, T)
  BY FS_Subset DEF Summable
<1>3. \A s \in SUBSET T : h[s] = SumOf(f, h, s)
  BY <1>2, SumsAre
<1>4. SumFunctionOnSet(f, S) = g[S] /\ SumFunctionOnSet(f, T) = h[T]
  BY SumIs
<1>. HIDE DEF g, h
<1>5. g[T] = h[T]
  <2>1. T \in SUBSET S /\ \A s \in SUBSET T : s \in SUBSET S
    OBVIOUS
  <2>2. Solves(g, f, T) /\ Solves(h, f, T)
    BY <1>1, <1>3, <2>1 DEF Solves
  <2>. HIDE DEF T
  <2>3. \A s \in SUBSET T : g[s] = h[s]
    BY <1>2, <2>2, SumsAgree
  <2>. QED
    BY <2>3
<1>. QED
  BY <1>1, <1>4, <1>5 DEF SumOf

(* Any member may be taken off a sum first.                                *)
LEMMA SumTakes ==
  ASSUME NEW f, NEW S, Summable(f, S), NEW x \in S
  PROVE  SumFunctionOnSet(f, S) = f[x] + SumFunctionOnSet(f, S \ {x})
<1>. DEFINE Sum(s) == SumFunctionOnSet(f, s)
            Bad == {k \in Nat : \E s \in SUBSET S : \E y \in s :
                      Cardinality(s) = k /\ Sum(s) # f[y] + Sum(s \ {y})}
<1>f. IsFiniteSet(S) /\ \A s \in SUBSET S : Summable(f, s)
  BY FS_Subset DEF Summable
<1>s. \A s \in SUBSET S : /\ Sum(s) \in Int
                          /\ s # {} => Sum(s) = f[OneOf(s)] + Sum(s \ {OneOf(s)})
  BY <1>f, SumStep
<1>. HIDE DEF Sum
<1>1. SUFFICES ASSUME Bad # {} PROVE FALSE
  <2>1. Cardinality(S) \in Nat
    BY <1>f, FS_CardinalityType
  <2>2. ASSUME Sum(S) # f[x] + Sum(S \ {x}) PROVE FALSE
    <3>1. Cardinality(S) \in Bad
      BY <2>1, <2>2
    <3>. QED
      BY <1>1, <3>1
  <2>. QED
    BY <2>2 DEF Sum
<1>2. PICK k \in Bad : \A m \in Bad : k <= m
  <2>. Bad \in SUBSET Nat
    OBVIOUS
  <2>. HIDE DEF Bad
  <2>. QED
    BY <1>1, Least
<1>p. PICK s \in SUBSET S : \E y \in s : Cardinality(s) = k /\ Sum(s) # f[y] + Sum(s \ {y})
  BY <1>2
<1>3. PICK y \in s : Cardinality(s) = k /\ Sum(s) # f[y] + Sum(s \ {y})
  BY <1>p
<1>. DEFINE c == OneOf(s)
<1>4. c \in s /\ Sum(s) = f[c] + Sum(s \ {c}) /\ c # y
  BY <1>f, <1>s, <1>3, Taken
<1>. HIDE DEF c
<1>5. ASSUME NEW d \in s, NEW e \in s \ {d}
      PROVE  Sum(s \ {d}) = f[e] + Sum((s \ {d}) \ {e})
  <2>1. s \ {d} \in SUBSET S /\ Cardinality(s \ {d}) = k - 1 /\ k \in Nat /\ k >= 1
    BY <1>f, <1>3, Taken
  <2>2. k - 1 \in Nat /\ k - 1 \notin Bad
    <3>. HIDE DEF Bad
    <3>. QED
      BY <1>2, <2>1
  <2>. QED
    BY <2>1, <2>2
<1>6. (s \ {c}) \ {y} = (s \ {y}) \ {c}
  OBVIOUS
<1>7. Sum(s \ {c}) = f[y] + Sum((s \ {c}) \ {y}) /\ Sum(s \ {y}) = f[c] + Sum((s \ {y}) \ {c})
  BY <1>3, <1>4, <1>5
<1>8. /\ f[c] \in Int /\ f[y] \in Int /\ Sum((s \ {c}) \ {y}) \in Int
  <2>1. (s \ {c}) \ {y} \in SUBSET S
    OBVIOUS
  <2>. QED
    BY <1>f, <1>s, <1>4, <2>1 DEF Summable
<1>. QED
  <2>. DEFINE rest == Sum((s \ {c}) \ {y})
  <2>1. Sum(s) = f[c] + (f[y] + rest) /\ Sum(s \ {y}) = f[c] + rest /\ rest \in Int
    BY <1>4, <1>6, <1>7, <1>8
  <2>. HIDE DEF rest
  <2>2. Sum(s) = f[y] + Sum(s \ {y})
    BY <1>8, <2>1
  <2>. QED
    BY <1>3, <2>2

LEMMA SumOne ==
  ASSUME NEW f, NEW x, f[x] \in Int
  PROVE  SumFunctionOnSet(f, {x}) = f[x]
<1>1. IsFiniteSet({x}) /\ IsFiniteSet({})
  BY FS_Singleton, FS_EmptySet
<1>2. Summable(f, {x}) /\ Summable(f, {})
  BY <1>1 DEF Summable
<1>3. SumFunctionOnSet(f, {x}) = f[x] + SumFunctionOnSet(f, {x} \ {x})
  BY <1>2, SumTakes
<1>4. {x} \ {x} = {} /\ SumFunctionOnSet(f, {}) = 0
  BY <1>2, SumStep
<1>. QED
  BY <1>3, <1>4

LEMMA SumTwo ==
  ASSUME NEW f, NEW x, NEW y, x # y, f[x] \in Int, f[y] \in Int
  PROVE  SumFunctionOnSet(f, {x, y}) = f[x] + f[y]
<1>1. IsFiniteSet({x, y})
  <2>1. IsFiniteSet({y}) /\ {x, y} = {y} \cup {x}
    BY FS_Singleton
  <2>. QED
    BY <2>1, FS_AddElement
<1>2. Summable(f, {x, y})
  BY <1>1 DEF Summable
<1>3. SumFunctionOnSet(f, {x, y}) = f[x] + SumFunctionOnSet(f, {x, y} \ {x})
  BY <1>2, SumTakes
<1>4. {x, y} \ {x} = {y}
  OBVIOUS
<1>. QED
  BY <1>3, <1>4, SumOne

-----------------------------------------------------------------------------
Amounts == [i \in Insts |-> inst[i].amount]
Planned == \E i \in Insts : inst[i].status \in {"PENDING", "PAID"}

(* What a request has read of the sale or of its instalment still stands.  *)
Current(q) ==
  /\ q.op = "plan" => q.balance = sale.balance
  /\ q.op = "mark" /\ q.at = "posted" =>
       inst[q.inst].status = "PENDING" /\ q.amount = inst[q.inst].amount
  /\ q.op = "unmark" => inst[q.inst].status = "PAID" /\ q.amount = -inst[q.inst].amount

(* While one instalment is left, pending or paid, the pending ones sum to  *)
(* the balance, to 0 once all are paid; a paid one has its payment.        *)
PlanInv ==
  /\ Planned => SumFunctionOnSet(Amounts, Pending) = sale.balance
  /\ \A i \in Paid : inst[i].linked
  /\ \A r \in Reqs : req[r] # Idle => Current(req[r])

LEMMA AmountsSum == ASSUME TypeOK, NEW s \in SUBSET Insts PROVE Summable(Amounts, s)
<1>1. IsFiniteSet(Insts)
  BY FS_Interval, BoundsAssumption DEF Insts
<1>2. IsFiniteSet(s)
  BY <1>1, FS_Subset
<1>3. \A i \in s : Amounts[i] \in Int
  BY DEF TypeOK, Installment, Amount, Amounts
<1>. QED
  BY <1>2, <1>3 DEF Summable

LEMMA PlanInit == Init => PlanInv
BY DEF Init, PlanInv, Planned, Paid

(* A step that leaves the balance and the instalments.                     *)
LEMMA PlanFrame ==
  ASSUME PlanInv, NEW r \in Reqs, UNCHANGED inst, sale'.balance = sale.balance,
         \A o \in Reqs : o # r => req'[o] = req[o],
         (req[r] # Idle => Current(req[r]))'
  PROVE  PlanInv'
<1>1. ASSUME NEW o \in Reqs, o # r, req'[o] # Idle PROVE Current(req[o])'
  BY <1>1 DEF PlanInv, Current
<1>2. Pending' = Pending /\ Paid' = Paid /\ Amounts' = Amounts /\ Planned' = Planned
  BY DEF Pending, Paid, Amounts, Planned
<1>. QED
  BY <1>1, <1>2 DEF PlanInv

LEMMA PlanBegins ==
  ASSUME NEW r \in Reqs, Shaped, PlanInv, Begins(r)
  PROVE  PlanInv'
<1>t. req \in [Reqs -> Request \cup {Idle}] /\ sale \in Sale
  BY DEF Shaped, TypeOK
<1>o. \A o \in Reqs : o # r => req'[o] = req[o]
  BY OtherSlots DEF Shaped
<1>. DEFINE Fresh == UNCHANGED records /\ Current(req[r])'
<1>1. ASSUME NEW a \in HandAmounts, ReadForPayment(r, a) PROVE Fresh
  BY <1>1, <1>t DEF ReadForPayment, Start, Begin, Current
<1>2. ASSUME ReadForPlan(r) \/ ReadForClear(r) \/ ReadForCheckout(r) PROVE Fresh
  BY <1>2, <1>t DEF ReadForPlan, ReadForClear, ReadForCheckout, Start, Begin, Current, records
<1>3. ASSUME NEW i \in Insts, ReadForMark(r, i) PROVE Fresh
  BY <1>3, <1>t DEF ReadForMark, Start, Begin, Current
<1>4. ASSUME NEW i \in Insts, ReadForUnmark(r, i) PROVE Fresh
  <2>1. inst[i].linked
    BY <1>4 DEF PlanInv, Paid, ReadForUnmark
  <2>. QED
    BY <1>4, <1>t, <2>1 DEF ReadForUnmark, Start, Begin, Current, records
<1>5. ASSUME NEW s \in Sessions, Deliver(r, s) PROVE Fresh
  BY <1>5, <1>t DEF Deliver, Start, Begin, Current
<1>6. ASSUME NEW p \in Prices, ReadForUpdate(r, p) PROVE Fresh
  BY <1>6, <1>t DEF ReadForUpdate, Start, Begin, Current
<1>7. ASSUME Reject(r) \/ Void(r) \/ Unvoid(r) PROVE PlanInv'
  <2>1. sale'.balance = sale.balance /\ UNCHANGED <<inst, req>>
    BY <1>7, <1>t DEF Reject, Void, Unvoid, Sale
  <2>2. req'[r] # Idle => Current(req[r])'
    BY <2>1 DEF PlanInv, Current
  <2>. QED
    BY <1>o, <2>1, <2>2, PlanFrame
<1>8. ASSUME Fresh PROVE PlanInv'
  BY <1>8, <1>o, PlanFrame DEF records
<1>. QED
  BY <1>1, <1>2, <1>3, <1>4, <1>5, <1>6, <1>7, <1>8 DEF Begins

(* A new plan sums to the balance it was made for.                         *)
LEMMA PlanCovers ==
  ASSUME NEW r \in Reqs, Shaped, WritePlan(r)
  PROVE  /\ SumFunctionOnSet(Amounts, Pending)' = req[r].balance
         /\ Paid' = Paid /\ \A i \in Paid : inst'[i] = inst[i]
<1>t. inst \in [Insts -> Installment] /\ req[r] \in Request
  BY DEF Shaped, TypeOK, WritePlan, At
<1>. DEFINE b == req[r].balance  f == Amounts'
<1>b. b \in Int /\ req[r].first \in Nat
  BY <1>t DEF Request, Amount
<1>1. PICK lines \in Lines(b), used \in 0..MaxInsts :
        /\ Used(used) /\ used + Len(lines) <= MaxInsts
        /\ inst' = Replanned(Pending, lines, req[r].first, used)
  BY DEF WritePlan
<1>2. Shaped' /\ MaxInsts \in Nat /\ used \in Nat
  BY ShapedStep, BoundsAssumption DEF Next, Goes
<1>3. Len(lines) \in Nat /\ \A k \in 1..Len(lines) : lines[k] \in Int
  BY <1>b, LinesType
<1>. DEFINE new == used + 1 .. used + Len(lines)
<1>4. new \subseteq Insts
  BY <1>1, <1>2, <1>3 DEF Insts
<1>5. \A i \in new : i \notin Pending /\ i \notin Paid
  BY <1>1, <1>2, <1>3, <1>4 DEF Used, Pending, Paid, Insts
<1>6. ASSUME NEW i \in Insts
      PROVE  /\ i \in Pending => inst'[i].status = "gone"
             /\ i \in new => inst'[i].status = "PENDING" /\ inst'[i].amount = lines[i - used]
             /\ i \notin Pending /\ i \notin new => inst'[i] = inst[i]
  <2>1. i \in Pending => inst'[i] = [inst[i] EXCEPT !.status = "gone"]
    BY <1>1 DEF Replanned
  <2>2. i \in new => inst'[i] = [status |-> "PENDING", seq |-> req[r].first + i - used - 1,
                                 amount |-> lines[i - used], linked |-> FALSE]
    BY <1>1, <1>5 DEF Replanned
  <2>3. i \notin Pending /\ i \notin new => inst'[i] = inst[i]
    BY <1>1 DEF Replanned
  <2>. QED
    BY <1>t, <2>1, <2>2, <2>3 DEF Installment
<1>7. Pending' = new
  BY <1>4, <1>6 DEF Pending
<1>8. Paid' = Paid /\ \A i \in Paid : inst'[i] = inst[i]
  BY <1>4, <1>5, <1>6 DEF Pending, Paid
<1>9. \A i \in new : f[i] = lines[i - used] /\ f[i] \in Int
  BY <1>2, <1>3, <1>4, <1>6 DEF Amounts
<1>. HIDE DEF f
<1>10. ASSUME lines = <<b>> PROVE SumFunctionOnSet(Amounts, Pending)' = b
  <2>1. new = {used + 1} /\ f[used + 1] = b
    BY <1>2, <1>9, <1>10
  <2>2. SumFunctionOnSet(f, new) = b
    BY <1>b, <2>1, SumOne
  <2>. QED
    BY <1>7, <2>2 DEF f
<1>11. ASSUME NEW p \in Parts, lines = <<p, b - p>>
       PROVE  SumFunctionOnSet(Amounts, Pending)' = b
  <2>1. p \in Int
    BY AmountsAssumption
  <2>2. /\ new = {used + 1, used + 2} /\ used + 1 # used + 2
        /\ f[used + 1] = p /\ f[used + 2] = b - p
    BY <1>2, <1>9, <1>11
  <2>3. SumFunctionOnSet(f, new) = p + (b - p)
    <3>1. f[used + 1] \in Int /\ f[used + 2] \in Int
      BY <1>b, <2>1, <2>2
    <3>2. SumFunctionOnSet(f, {used + 1, used + 2}) = f[used + 1] + f[used + 2]
      BY <2>2, <3>1, SumTwo
    <3>. QED
      BY <2>2, <3>2
  <2>4. SumFunctionOnSet(f, new) = b
    BY <1>b, <2>1, <2>3
  <2>. QED
    BY <1>7, <2>4 DEF f
<1>. QED
  BY <1>8, <1>10, <1>11 DEF Lines

LEMMA PlanGoes ==
  ASSUME NEW r \in Reqs, Shaped, MoneyInv, PlanInv, OneAtATime, Serves(PlanOps), Goes(r)
  PROVE  PlanInv'
<1>. USE DEF Shaped
<1>t. /\ req \in [Reqs -> Request \cup {Idle}] /\ inst \in [Insts -> Installment]
      /\ sale \in Sale /\ ledger \in Ledger
  BY DEF TypeOK
<1>o. \A o \in Reqs : o # r => req'[o] = req[o]
  BY OtherSlots
<1>q. /\ req[r] # Idle /\ req[r] \in Request /\ req[r].op \in PlanOps
      /\ Aimed(req[r]) /\ Current(req[r]) /\ req[r].amount \in Int
  <2>1. req[r] # Idle
    BY DEF Goes, InsertPayment, CommitPayment, NumberPlan, WritePlan, WriteClear,
       ClaimInstalment, CommitMark, ReleaseInstalment, CommitUnmark, OpenSession,
       ClaimSession, CommitSession, Acknowledge, WriteUpdate, Fail, At
  <2>. QED
    BY <1>t, <2>1 DEF Serves, AllAimed, PlanInv, Request, Amount
<1>r. OthersRest(r)
  BY <1>o, <1>q DEF OneAtATime, OthersRest
<1>n. \A i \in Insts : inst[i].amount \in Int
  BY <1>t DEF Installment, Amount
(* The figures a posted request commits are the balance less its amount.   *)
<1>b. ASSUME req[r].at = "posted", sale' = Balanced(req[r])
      PROVE  sale'.balance = sale.balance - req[r].amount
  <2>1. /\ req[r].paid = sale.deposit + ledger.sum + req[r].amount
        /\ req[r].balance = sale.total - req[r].paid
        /\ sale.balance = sale.total - (sale.deposit + ledger.sum)
    BY <1>b, <1>q DEF MoneyInv
  <2>2. sale'.balance = req[r].balance
    BY <1>t, <1>b DEF Balanced, Sale
  <2>. QED
    BY <1>t, <1>q, <2>1, <2>2 DEF Sale, Ledger, Amount
<1>s. ASSUME NEW a \in Int, Start(r, Posted(req[r], a)), req[r].op # "plan",
             req[r].op = "mark" =>
               inst[req[r].inst].status = "PENDING" /\ a = inst[req[r].inst].amount,
             req[r].op = "unmark" => a = req[r].amount
      PROVE  PlanInv'
  <2>1. UNCHANGED records /\ req'[r] = Posted(req[r], a)
    BY <1>t, <1>s DEF Start
  <2>2. /\ req'[r].op = req[r].op /\ req'[r].inst = req[r].inst /\ req'[r].amount = a
    BY <1>q, <2>1, PostedType
  <2>3. Current(req[r])'
    BY <1>q, <1>s, <2>1, <2>2 DEF Current, records
  <2>. QED
    BY <1>o, <2>1, <2>3, PlanFrame DEF records
<1>f. ASSUME Finish(r), UNCHANGED <<sale, inst>> PROVE PlanInv'
  <2>1. req'[r] = Idle
    BY <1>t, <1>f DEF Finish
  <2>. QED
    BY <1>o, <1>f, <2>1, PlanFrame
(* A row marked or undone, with its amount taken off the balance or back.  *)
<1>c. ASSUME Finish(r), NEW i \in Insts, NEW to \in {"PENDING", "PAID"}, NEW link,
             inst' = [inst EXCEPT ![i].status = to, ![i].linked = link]
      PROVE  /\ \A o \in Reqs : req'[o] = Idle
             /\ Amounts' = Amounts
             /\ Pending' = IF to = "PENDING" THEN Pending \cup {i} ELSE Pending \ {i}
             /\ \A x \in Paid' : x # i => x \in Paid /\ inst'[x] = inst[x]
             /\ inst'[i].status = to /\ inst'[i].linked = link
  <2>1. \A o \in Reqs : req'[o] = Idle
    BY <1>t, <1>c, <1>r DEF Finish, OthersRest
  <2>2. \A x \in Insts : x # i => inst'[x] = inst[x]
    BY <1>c, <1>t
  <2>3. inst'[i].status = to /\ inst'[i].linked = link /\ inst'[i].amount = inst[i].amount
    BY <1>c, <1>t DEF Installment
  <2>4. Amounts' = Amounts
    <3>1. \A x \in Insts : inst'[x].amount = inst[x].amount
      BY <2>2, <2>3
    <3>. QED
      BY <3>1 DEF Amounts
  <2>5. Pending' = IF to = "PENDING" THEN Pending \cup {i} ELSE Pending \ {i}
    <3>1. \A x \in Insts : inst'[x].status = "PENDING" <=>
                             IF x = i THEN to = "PENDING" ELSE inst[x].status = "PENDING"
      BY <2>2, <2>3
    <3>. QED
      BY <3>1 DEF Pending
  <2>6. \A x \in Paid' : x # i => x \in Paid /\ inst'[x] = inst[x]
    BY <2>2 DEF Paid
  <2>. QED
    BY <2>1, <2>3, <2>4, <2>5, <2>6
<1>1. CASE NumberPlan(r)
  <2>1. UNCHANGED records
    BY <1>1 DEF NumberPlan, Start
  <2>2. req'[r].op = req[r].op /\ req'[r].balance = req[r].balance
    BY <1>1, <1>t, <1>q DEF NumberPlan, Start, Request
  <2>3. req[r].op = "plan"
    BY <1>1 DEF NumberPlan, At
  <2>4. Current(req[r])'
    BY <1>q, <2>1, <2>2, <2>3 DEF Current, records
  <2>. QED
    BY <1>o, <2>1, <2>4, PlanFrame DEF records
<1>2. CASE WritePlan(r)
  <2>1. /\ SumFunctionOnSet(Amounts, Pending)' = req[r].balance
        /\ Paid' = Paid /\ \A i \in Paid : inst'[i] = inst[i]
    BY <1>2, PlanCovers
  <2>2. req[r].balance = sale.balance /\ UNCHANGED sale /\ Finish(r)
    BY <1>2, <1>q DEF Current, WritePlan, At
  <2>3. \A o \in Reqs : req'[o] = Idle
    BY <1>t, <1>r, <2>2 DEF Finish, OthersRest
  <2>4. (\A i \in Paid : inst[i].linked)'
    BY <2>1 DEF PlanInv
  <2>. QED
    BY <2>1, <2>2, <2>3, <2>4 DEF PlanInv
<1>3. CASE ClaimInstalment(r)
  <2>1. req[r].op = "mark" /\ req[r].inst \in Insts
    BY <1>3, <1>q DEF ClaimInstalment, At, Aimed
  <2>. QED
    BY <1>3, <1>n, <1>s, <2>1 DEF ClaimInstalment
<1>4. CASE CommitMark(r)
  <2>. DEFINE i == req[r].inst
  <2>1. /\ req[r].op = "mark" /\ req[r].at = "posted" /\ i \in Insts /\ sale' = Balanced(req[r])
        /\ inst[i].status = "PENDING" /\ req[r].amount = inst[i].amount
        /\ inst' = [inst EXCEPT ![i].status = "PAID", ![i].linked = TRUE]
        /\ Finish(r)
    BY <1>4, <1>q DEF CommitMark, At, Aimed, Current
  <2>2. /\ \A o \in Reqs : req'[o] = Idle
        /\ Amounts' = Amounts
        /\ Pending' = Pending \ {i}
        /\ \A x \in Paid' : x # i => x \in Paid /\ inst'[x] = inst[x]
        /\ inst'[i].status = "PAID" /\ inst'[i].linked = TRUE
    <3>. HIDE DEF i
    <3>. QED
      BY <1>c, <2>1
  <2>3. i \in Pending /\ Pending \in SUBSET Insts /\ Planned
    BY <2>1 DEF Pending, Planned
  <2>4. /\ SumFunctionOnSet(Amounts, Pending) = Amounts[i] + SumFunctionOnSet(Amounts, Pending \ {i})
        /\ SumFunctionOnSet(Amounts, Pending \ {i}) \in Int
    <3>1. Summable(Amounts, Pending) /\ Summable(Amounts, Pending \ {i})
      BY <2>3, AmountsSum
    <3>2. SumFunctionOnSet(Amounts, Pending \ {i}) \in Int
      BY <3>1, SumStep
    <3>. QED
      BY <2>3, <3>1, <3>2, SumTakes
  <2>5. Amounts[i] = inst[i].amount /\ inst[i].amount \in Int
    BY <1>n, <2>1 DEF Amounts
  <2>6. SumFunctionOnSet(Amounts, Pending) = sale.balance
    BY <2>3 DEF PlanInv
  <2>7. SumFunctionOnSet(Amounts, Pending \ {i}) = sale'.balance
    <3>1. sale'.balance = sale.balance - inst[i].amount
      BY <1>b, <2>1
    <3>. QED
      BY <2>4, <2>5, <2>6, <3>1
  <2>8. SumFunctionOnSet(Amounts, Pending)' = sale'.balance
    BY <2>2, <2>7
  <2>9. (\A x \in Paid : inst[x].linked)'
    BY <2>2 DEF PlanInv
  <2>. QED
    BY <2>2, <2>8, <2>9 DEF PlanInv
<1>5. CASE ReleaseInstalment(r)
  <2>1. req[r].op = "unmark"
    BY <1>5 DEF ReleaseInstalment, At
  <2>. QED
    BY <1>5, <1>q, <1>s, <2>1 DEF ReleaseInstalment
<1>6. CASE CommitUnmark(r)
  <2>. DEFINE i == req[r].inst
  <2>1. /\ req[r].op = "unmark" /\ req[r].at = "posted" /\ i \in Insts /\ sale' = Balanced(req[r])
        /\ inst[i].status = "PAID" /\ req[r].amount = -inst[i].amount
        /\ inst' = [inst EXCEPT ![i].status = "PENDING", ![i].linked = FALSE]
        /\ Finish(r)
    BY <1>6, <1>q DEF CommitUnmark, At, Aimed, Current
  <2>2. /\ \A o \in Reqs : req'[o] = Idle
        /\ Amounts' = Amounts
        /\ Pending' = Pending \cup {i}
        /\ \A x \in Paid' : x # i => x \in Paid /\ inst'[x] = inst[x]
        /\ inst'[i].status = "PENDING"
    <3>. HIDE DEF i
    <3>. QED
      BY <1>c, <2>1
  <2>3. i \notin Pending /\ Pending \cup {i} \in SUBSET Insts /\ Planned
    BY <2>1 DEF Pending, Planned
  <2>. DEFINE all == Pending \cup {i}
  <2>4. SumFunctionOnSet(Amounts, all) = Amounts[i] + SumFunctionOnSet(Amounts, all \ {i})
    <3>1. Summable(Amounts, all) /\ i \in all
      BY <2>3, AmountsSum
    <3>. QED
      BY <3>1, SumTakes
  <2>5. Amounts[i] = inst[i].amount /\ inst[i].amount \in Int /\ sale.balance \in Int
    BY <1>n, <1>t, <2>1 DEF Amounts, Sale, Amount
  <2>6. all \ {i} = Pending /\ SumFunctionOnSet(Amounts, Pending) = sale.balance
    BY <2>3 DEF PlanInv
  <2>7. SumFunctionOnSet(Amounts, all) = sale'.balance
    <3>1. sale'.balance = sale.balance - req[r].amount
      BY <1>b, <2>1
    <3>2. SumFunctionOnSet(Amounts, all) = inst[i].amount + sale.balance
      BY <2>4, <2>5, <2>6
    <3>. QED
      BY <2>1, <2>5, <3>1, <3>2
  <2>8. SumFunctionOnSet(Amounts, Pending)' = sale'.balance
    BY <2>2, <2>7
  <2>9. (\A x \in Paid : inst[x].linked)'
    BY <2>2 DEF PlanInv, Paid
  <2>. QED
    BY <2>2, <2>8, <2>9 DEF PlanInv
<1>7. CASE Fail(r)
  BY <1>7, <1>f DEF Fail, records
<1>8. /\ ~InsertPayment(r) /\ ~CommitPayment(r) /\ ~WriteClear(r) /\ ~ClaimSession(r)
      /\ ~CommitSession(r) /\ ~Acknowledge(r) /\ ~WriteUpdate(r)
      /\ \A s \in Sessions : ~OpenSession(r, s)
  BY <1>q DEF PlanOps, InsertPayment, CommitPayment, WriteClear, ClaimSession, CommitSession,
     Acknowledge, WriteUpdate, OpenSession, At
<1>. QED
  BY <1>1, <1>2, <1>3, <1>4, <1>5, <1>6, <1>7, <1>8 DEF Goes

LEMMA PlanStep ==
  Shaped /\ MoneyInv /\ PlanInv /\ OneAtATime /\ Serves(PlanOps) /\ [Next]_vars => PlanInv'
<1>. SUFFICES ASSUME Shaped, MoneyInv, PlanInv, OneAtATime, Serves(PlanOps), [Next]_vars
              PROVE  PlanInv'
  OBVIOUS
<1>1. ASSUME NEW r \in Reqs, Begins(r) PROVE PlanInv'
  BY <1>1, PlanBegins
<1>2. ASSUME NEW r \in Reqs, Goes(r) PROVE PlanInv'
  BY <1>2, PlanGoes
<1>3. ASSUME UNCHANGED <<sale, inst, req>> PROVE PlanInv'
  BY <1>3 DEF PlanInv, Planned, Pending, Paid, Amounts, Current
<1>. QED
  BY <1>1, <1>2, <1>3 DEF Next, ContactPays, vars

-----------------------------------------------------------------------------
(* What the parts of the run that serve one handler at a time keep.        *)
AddsUp ==
  /\ part \in {"alone", "plan"} => Shaped /\ MoneyInv /\ OneAtATime
  /\ part = "plan" => PlanInv /\ Serves(PlanOps)

LEMMA AddsUpInit == LedgerInit => AddsUp
<1>1. Init => OneAtATime /\ Serves(PlanOps)
  BY DEF Init, OneAtATime, Serves
<1>. QED
  BY <1>1, ShapedInit, MoneyInit, PlanInit DEF LedgerInit, AddsUp

LEMMA AddsUpStep == AddsUp /\ [LedgerNext]_state => AddsUp'
<1>. SUFFICES ASSUME AddsUp, [LedgerNext]_state PROVE AddsUp'
  OBVIOUS
<1>1. part' = part
  BY DEF LedgerNext, state
<1>2. ASSUME part \in {"alone", "plan"}
      PROVE  /\ Shaped' /\ MoneyInv' /\ OneAtATime'
             /\ part = "plan" => PlanInv' /\ Serves(PlanOps)'
  <2>1. Shaped /\ MoneyInv /\ OneAtATime
    BY <1>2 DEF AddsUp
  <2>2. CASE UNCHANGED state
    <3>1. UNCHANGED vars
      BY <2>2 DEF state, vars
    <3>2. OneAtATime' /\ (part = "plan" => Serves(PlanOps)')
      BY <1>2, <2>1, <2>2 DEF state, AddsUp, OneAtATime, Serves
    <3>3. MoneyInv'
      BY <2>1, <2>2 DEF state, MoneyInv
    <3>4. part = "plan" => PlanInv'
      BY <2>1, <3>1, PlanStep DEF AddsUp
    <3>. QED
      BY <2>1, <3>1, <3>2, <3>3, <3>4, ShapedStep
  <2>3. CASE LedgerNext
    <3>1. /\ Next /\ OneAtATime' /\ Serves(NoUpdate)'
          /\ part = "plan" => Serves(PlanOps)'
      <4>1. Serves(PlanOps)' => Serves(NoUpdate)'
        BY DEF Serves, PlanOps, NoUpdate, AllOps
      <4>. QED
        BY <1>2, <2>3, <4>1 DEF LedgerNext
    <3>2. MoneyInv'
      BY <2>1, <3>1, MoneyStep
    <3>3. part = "plan" => PlanInv'
      BY <2>1, <3>1, PlanStep DEF AddsUp
    <3>. QED
      BY <2>1, <3>1, <3>2, <3>3, ShapedStep
  <2>. QED
    BY <2>2, <2>3
<1>. QED
  BY <1>1, <1>2 DEF AddsUp

(* Handlers that run one after the other, however many payments, plans,    *)
(* marks, undos and card payments they make, leave the sale with a paid    *)
(* amount and a balance that the deposit and the whole ledger make, as     *)
(* long as nobody amends the sale (recomputeMoney); and as long as they    *)
(* only plan, mark and undo, what a plan still asks for is exactly what is *)
(* still owed (setPlan).                                                   *)
THEOREM AloneAlwaysAddsUp == LedgerSpec => []AloneMoneyAddsUp
<1>1. AddsUp => AloneMoneyAddsUp
  <2>1. Pending # {} => Planned
    BY DEF Pending, Planned
  <2>. QED
    BY <2>1 DEF AddsUp, AloneMoneyAddsUp, MoneyInv, MoneyFollowsLedger, PlanInv,
       PlanCoversBalance, Amounts
<1>. QED
  BY <1>1, AddsUpInit, AddsUpStep, PTL DEF LedgerSpec

=============================================================================
