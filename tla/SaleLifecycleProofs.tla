------------------------ MODULE SaleLifecycleProofs ------------------------
(***************************************************************************)
(* Proofs about SaleLifecycle, for any number of users, figures, request   *)
(* slots and documents.                                                    *)
(***************************************************************************)
EXTENDS MCSale, TLAPS

USE FiguresAssumption, ThresholdsAssumption, UsersAssumption, OpsAssumption,
    ConnectionsAssumption, TestDataAssumption, MaxDocsAssumption, NoneAssumption

(* Every handler of the sale keeps the row, the audit rows and the         *)
(* requests in flight well formed.                                         *)
LEMMA TypeInit == Init => TypeOK
  BY DEF Init, TypeOK, Sale, Status, Companies, Idle

(* A request that moves to another step is still a request.                *)
LEMMA GotoType ==
  ASSUME NEW r \in Reqs, NEW s \in Steps \ {"ask", "sign"}, TypeOK, req[r] # Idle, Goto(r, s)
  PROVE  req' \in [Reqs -> Request \cup {Idle}]
<1>1. req[r] \in Request
  BY DEF TypeOK
<1>2. [req[r] EXCEPT !.at = s] \in Request
  BY <1>1 DEF Request, RequestRecord
<1>. QED
  BY <1>2 DEF Goto, TypeOK

(* A slot that finishes is idle again.                                     *)
LEMMA FinishType ==
  ASSUME NEW r \in Reqs, TypeOK, Finish(r)
  PROVE  req' \in [Reqs -> Request \cup {Idle}]
  BY DEF Finish, TypeOK

(* Signing an approval writes a well formed audit row.                     *)
LEMMA SignedRow ==
  ASSUME NEW r \in Reqs, TypeOK, SignApproval(r)
  PROVE  approval' \in Approval
<1>1. req[r] \in Request /\ req[r].op = "approve" /\ req[r].at = "sign"
  BY DEF SignApproval, At, TypeOK
<1>2. /\ req[r].user \in Accts
      /\ req[r].askedBy \in Accts \cup {None}
      /\ req[r].fig \in Figures
      /\ req[r].limit \in Thresholds
      /\ req[r].ack \in BOOLEAN
  BY <1>1 DEF Request, RequestRecord
<1>3. Exceeds(req[r].fig, req[r].limit) \in BOOLEAN
  BY <1>2 DEF Exceeds
<1>. QED
  BY <1>2, <1>3 DEF SignApproval, TypeOK, Approval, Sale

(* Every step of a handler preserves the types.                            *)
LEMMA HandlerType ==
  ASSUME NEW r \in Reqs, TypeOK, Handler(r)
  PROVE  TypeOK'
<1>1. ASSUME NEW u \in Accts, ReadForApprove(r, u) PROVE TypeOK'
  BY ZenonT(60), <1>1 DEF ReadForApprove, TypeOK, Begin, Request, RequestRecord, records, Users, AllOps, Steps, Sale
<1>2. ASSUME NEW u \in Accts, NEW op \in {"reject", "return"}, ReadForDecision(r, op, u)
      PROVE  TypeOK'
  BY <1>2 DEF ReadForDecision, TypeOK, Begin, Request, RequestRecord, records, Users, AllOps, Steps, Sale
<1>3. ASSUME NEW u \in Accts, ReadForVoid(r, u) PROVE TypeOK'
  BY ZenonT(60), <1>3 DEF ReadForVoid, TypeOK, Begin, Request, RequestRecord, records, Users, AllOps, Steps, Sale
<1>4. ASSUME NEW u \in Accts, ReadForUnvoid(r, u) PROVE TypeOK'
  <2>. DEFINE to == IF sale.voidedFrom = None THEN "DRAFT" ELSE sale.voidedFrom
  <2>1. to \in Status
    BY DEF TypeOK, Sale, Status
  <2>2. [Begin("unvoid", u) EXCEPT !.status = to] \in Request
    BY ZenonT(60), <2>1 DEF Begin, Request, RequestRecord, Users, AllOps, Steps
  <2>. QED
    BY <1>4, <2>2 DEF ReadForUnvoid, TypeOK, records
<1>5. ASSUME NEW u \in Accts, ReadForExport(r, u) PROVE TypeOK'
  BY <1>5 DEF ReadForExport, TypeOK, Begin, Request, RequestRecord, records, Users, AllOps, Steps, Sale
<1>6. ASSUME NEW u \in Users, NEW f \in Figures, ReadForUpdate(r, u, f) PROVE TypeOK'
  <2>1. sale.status \in Status
    BY DEF TypeOK, Sale
  <2>2. [Begin("update", u) EXCEPT !.status = sale.status, !.fig = f] \in Request
    BY <2>1 DEF Begin, Request, RequestRecord, AllOps, Steps
  <2>. QED
    BY <1>6, <2>2 DEF ReadForUpdate, TypeOK, records
<1>7. ASSUME NEW ack \in BOOLEAN, DecideApprove(r, ack) PROVE TypeOK'
  <2>1. req[r] \in Request /\ req[r].op = "approve"
    BY <1>7 DEF DecideApprove, At, TypeOK
  <2>2. Verdict(req[r], threshold, ack) \in RequestRecord
    BY <2>1 DEF Verdict, Request, RequestRecord, Steps, TypeOK
  <2>3. /\ Verdict(req[r], threshold, ack).op = "approve"
        /\ Verdict(req[r], threshold, ack).user = req[r].user
        /\ Verdict(req[r], threshold, ack).fig = req[r].fig
        /\ Verdict(req[r], threshold, ack).limit = threshold
    BY <2>1 DEF Verdict, Request, RequestRecord
  <2>4. Verdict(req[r], threshold, ack) \in Request
    BY <2>1, <2>2, <2>3 DEF Request, TypeOK
  <2>. QED
    BY <1>7, <2>4 DEF DecideApprove, TypeOK, records
<1>8. CASE AskForSecondSignOff(r)
  <2>1. req[r] \in Request /\ req[r].op = "approve" /\ req[r].at = "ask"
    BY <1>8 DEF AskForSecondSignOff, At, TypeOK
  <2>2. req[r].fig \in Figures
    BY <2>1 DEF Request
  <2>3. req[r].user \in Accts
    BY <2>1 DEF Request
  <2>4. sale' \in Sale
    BY <1>8, <2>3 DEF AskForSecondSignOff, TypeOK, Sale
  <2>5. asks' \subseteq Ask
    BY <1>8, <2>2, <2>3 DEF AskForSecondSignOff, TypeOK, Ask
  <2>. QED
    BY <1>8, <2>4, <2>5, FinishType DEF AskForSecondSignOff, TypeOK
<1>9. CASE SignApproval(r)
  <2>1. sale' \in Sale
    BY <1>9 DEF SignApproval, TypeOK, Sale, Status
  <2>. QED
    BY <1>9, <2>1, FinishType, SignedRow DEF SignApproval, TypeOK
<1>10. CASE WriteReject(r)
  BY <1>10, FinishType DEF WriteReject, TypeOK, Sale, Status
<1>11. CASE WriteReturn(r)
  BY <1>11, FinishType DEF WriteReturn, TypeOK, Sale, Status
<1>12. CASE WriteUpdate(r)
  BY <1>12, FinishType DEF WriteUpdate, TypeOK, Sale, Status, At, Request, RequestRecord, Decided
<1>13. CASE WriteVoid(r)
  BY <1>13, FinishType DEF WriteVoid, TypeOK, Sale, Status, At, Request, RequestRecord
<1>14. CASE WriteUnvoid(r)
  BY <1>14, FinishType DEF WriteUnvoid, TypeOK, Sale, Status, At, Request, RequestRecord
<1>15. CASE CheckConnection(r)
  BY <1>15, GotoType DEF CheckConnection, TypeOK, At, records, Steps
<1>16. CASE CheckEnvironment(r)
  BY <1>16, GotoType DEF CheckEnvironment, TypeOK, At, records, Steps
<1>17. CASE StubExport(r)
  BY <1>17, FinishType DEF StubExport, TypeOK, Sale, Status
<1>18. CASE PostDocument(r)
  BY <1>18, GotoType DEF PostDocument, TypeOK, At, Steps, Companies
<1>19. CASE PostRefused(r)
  BY <1>19, GotoType DEF PostRefused, TypeOK, At, records, Steps
<1>20. CASE RecordExport(r)
  BY <1>20, FinishType DEF RecordExport, TypeOK, Sale, Status
<1>21. CASE RecordingFails(r)
  BY <1>21, GotoType DEF RecordingFails, TypeOK, At, records, Steps
<1>22. CASE RecordFailure(r)
  BY <1>22, FinishType DEF RecordFailure, TypeOK, Sale
<1>23. CASE Fail(r)
  BY <1>23, FinishType DEF Fail, TypeOK, records
<1>. QED
  BY <1>1, <1>2, <1>3, <1>4, <1>5, <1>6, <1>7, <1>8, <1>9, <1>10, <1>11,
     <1>12, <1>13, <1>14, <1>15, <1>16, <1>17, <1>18, <1>19, <1>20, <1>21,
     <1>22, <1>23 DEF Handler

LEMMA TypeStep == TypeOK /\ [Next]_vars => TypeOK'
<1>. SUFFICES ASSUME TypeOK, [Next]_vars PROVE TypeOK'
  OBVIOUS
<1>1. ASSUME NEW r \in Reqs, Handler(r) PROVE TypeOK'
  BY <1>1, HandlerType
<1>2. ASSUME NEW t \in Thresholds, UpdateSettings(t) PROVE TypeOK'
  BY <1>2 DEF UpdateSettings, TypeOK
<1>3. ASSUME NEW c \in Connections, SwitchCompany(c) PROVE TypeOK'
  BY <1>3 DEF SwitchCompany, TypeOK
<1>4. CASE UNCHANGED vars
  BY <1>4 DEF vars, TypeOK
<1>. QED
  BY <1>1, <1>2, <1>3, <1>4 DEF Next

(* The row, the audit rows and the requests are always well formed.        *)
THEOREM TypeCorrect == Spec => []TypeOK
  BY TypeInit, TypeStep, PTL DEF Spec

-----------------------------------------------------------------------------
(* The step a request takes changes only its own slot.                     *)
LEMMA OtherSlots ==
  ASSUME NEW r \in Reqs, TypeOK, Handler(r), NEW s \in Reqs, s # r
  PROVE  req'[s] = req[s]
  BY DEF TypeOK, Handler, ReadForApprove, ReadForDecision, ReadForVoid, ReadForUnvoid,
     ReadForExport, ReadForUpdate, DecideApprove, AskForSecondSignOff, SignApproval,
     WriteReject, WriteReturn, WriteUpdate, WriteVoid, WriteUnvoid, CheckConnection,
     CheckEnvironment, StubExport, PostDocument, PostRefused, RecordExport,
     RecordingFails, RecordFailure, Fail, Goto, Finish

(* An approval leaves a row.  What a request remembers of a decided sale,  *)
(* and an export under way, are backed by one too.                         *)
Backed(q) == q.status \in Decided \/ q.op = "export" => approval # None

BackedInv ==
  /\ ApprovalOnRecord
  /\ \A r \in Reqs : req[r] # Idle => Backed(req[r])

LEMMA BackedInit == Init => BackedInv
  BY DEF Init, BackedInv, ApprovalOnRecord, Decided, Companies, Status, Idle

LEMMA BackedHandler ==
  ASSUME NEW r \in Reqs, TypeOK, BackedInv, Handler(r)
  PROVE  BackedInv'
<1>. DEFINE Mine == req'[r] # Idle => Backed(req[r])'
<1>. SUFFICES /\ approval # None => approval' # None
              /\ ApprovalOnRecord'
              /\ Mine
  BY OtherSlots DEF BackedInv, Backed
<1>. USE DEF BackedInv
<1>t. req \in [Reqs -> Request \cup {Idle}]
  BY DEF TypeOK
<1>n. None \notin Status /\ Decided \subseteq Status
  BY DEF Status, Decided
<1>1. ASSUME NEW u \in Accts, ReadForApprove(r, u)
      PROVE  ApprovalOnRecord' /\ Mine /\ approval' = approval
  BY <1>1, <1>t, <1>n DEF ReadForApprove, Begin, records, Backed, ApprovalOnRecord
<1>2. ASSUME NEW u \in Accts, NEW op \in {"reject", "return"}, ReadForDecision(r, op, u)
      PROVE  ApprovalOnRecord' /\ Mine /\ approval' = approval
  BY <1>2, <1>t, <1>n DEF ReadForDecision, Begin, records, Backed, ApprovalOnRecord
<1>3. ASSUME NEW u \in Accts, ReadForVoid(r, u)
      PROVE  ApprovalOnRecord' /\ Mine /\ approval' = approval
  BY <1>3, <1>t, <1>n DEF ReadForVoid, Begin, records, Backed, ApprovalOnRecord
<1>4. ASSUME NEW u \in Accts, ReadForUnvoid(r, u)
      PROVE  ApprovalOnRecord' /\ Mine /\ approval' = approval
  BY <1>4, <1>t, <1>n DEF ReadForUnvoid, Begin, records, Backed, ApprovalOnRecord, Decided
<1>5. ASSUME NEW u \in Accts, ReadForExport(r, u)
      PROVE  ApprovalOnRecord' /\ Mine /\ approval' = approval
  BY <1>5, <1>t, <1>n DEF ReadForExport, Begin, records, Backed, ApprovalOnRecord, Decided
<1>6. ASSUME NEW u \in Users, NEW f \in Figures, ReadForUpdate(r, u, f)
      PROVE  ApprovalOnRecord' /\ Mine /\ approval' = approval
  BY <1>6, <1>t, <1>n DEF ReadForUpdate, Begin, records, Backed, ApprovalOnRecord
<1>7. ASSUME NEW ack \in BOOLEAN, DecideApprove(r, ack)
      PROVE  ApprovalOnRecord' /\ Mine /\ approval' = approval
  <2>1. req[r] \in RequestRecord /\ req[r].op = "approve"
    BY <1>7, <1>t DEF DecideApprove, At, Request
  <2>2. /\ Verdict(req[r], threshold, ack).op = "approve"
        /\ Verdict(req[r], threshold, ack).status = req[r].status
    BY <2>1 DEF Verdict, RequestRecord
  <2>. QED
    BY <1>7, <1>t, <2>1, <2>2 DEF DecideApprove, records, Backed, ApprovalOnRecord, At
<1>8. CASE AskForSecondSignOff(r)
  BY <1>8, <1>t DEF AskForSecondSignOff, TypeOK, Sale, Finish, ApprovalOnRecord
<1>9. CASE SignApproval(r)
  <2>1. approval' # None
    BY <1>9, SignedRow, NoneAssumption
  <2>. QED
    BY <1>9, <1>t, <2>1 DEF SignApproval, Finish, ApprovalOnRecord
<1>10. CASE WriteReject(r)
  BY <1>10, <1>t DEF WriteReject, TypeOK, Sale, Finish, ApprovalOnRecord, Decided
<1>11. CASE WriteReturn(r)
  BY <1>11, <1>t DEF WriteReturn, TypeOK, Sale, Finish, ApprovalOnRecord, Decided
<1>12. CASE WriteUpdate(r)
  BY <1>12, <1>t DEF WriteUpdate, TypeOK, Sale, Finish, ApprovalOnRecord, Decided, Backed, At
<1>13. CASE WriteVoid(r)
  BY <1>13, <1>t DEF WriteVoid, TypeOK, Sale, Finish, ApprovalOnRecord, Decided, Backed, At
<1>14. CASE WriteUnvoid(r)
  BY <1>14, <1>t, <1>n DEF WriteUnvoid, TypeOK, Sale, Finish, ApprovalOnRecord, Backed, At
<1>15. CASE CheckConnection(r) \/ CheckEnvironment(r) \/ PostRefused(r) \/ RecordingFails(r)
  BY <1>15, <1>t DEF CheckConnection, CheckEnvironment, PostRefused, RecordingFails, Goto,
     records, At, Backed, ApprovalOnRecord, Request, RequestRecord
<1>16. CASE StubExport(r)
  BY <1>16, <1>t DEF StubExport, TypeOK, Sale, Finish, ApprovalOnRecord, Backed, At
<1>17. CASE PostDocument(r)
  BY <1>17, <1>t DEF PostDocument, Goto, ApprovalOnRecord, Backed, At, Request, RequestRecord
<1>18. CASE RecordExport(r)
  BY <1>18, <1>t DEF RecordExport, TypeOK, Sale, Finish, ApprovalOnRecord, Backed, At
<1>19. CASE RecordFailure(r)
  BY <1>19, <1>t DEF RecordFailure, TypeOK, Sale, Finish, ApprovalOnRecord, Backed, At
<1>20. CASE Fail(r)
  BY <1>20, <1>t DEF Fail, Finish, records, ApprovalOnRecord
<1>. QED
  BY <1>1, <1>2, <1>3, <1>4, <1>5, <1>6, <1>7, <1>8, <1>9, <1>10, <1>11, <1>12, <1>13,
     <1>14, <1>15, <1>16, <1>17, <1>18, <1>19, <1>20 DEF Handler

LEMMA BackedStep == TypeOK /\ BackedInv /\ [Next]_vars => BackedInv'
<1>. SUFFICES ASSUME TypeOK, BackedInv, [Next]_vars PROVE BackedInv'
  OBVIOUS
<1>1. ASSUME NEW r \in Reqs, Handler(r) PROVE BackedInv'
  BY <1>1, BackedHandler
<1>2. ASSUME NEW t \in Thresholds, UpdateSettings(t) PROVE BackedInv'
  BY <1>2 DEF UpdateSettings, BackedInv, Backed, ApprovalOnRecord
<1>3. ASSUME NEW c \in Connections, SwitchCompany(c) PROVE BackedInv'
  BY <1>3 DEF SwitchCompany, BackedInv, Backed, ApprovalOnRecord
<1>4. CASE UNCHANGED vars
  BY <1>4 DEF vars, BackedInv, Backed, ApprovalOnRecord
<1>. QED
  BY <1>1, <1>2, <1>3, <1>4 DEF Next

(* However the handlers interleave, nothing counts as approved or exported *)
(* and nothing is in QuickBooks without an APPROVED row in the audit trail *)
(* (approve, update, unvoid, export).                                      *)
THEOREM ApprovalAlwaysOnRecord == Spec => []ApprovalOnRecord
<1>1. BackedInv => ApprovalOnRecord
  BY DEF BackedInv
<1>. QED
  BY <1>1, BackedInit, BackedStep, TypeCorrect, PTL DEF Spec

-----------------------------------------------------------------------------
(* The requester on the row, and the one an approval in flight remembers,  *)
(* logged a request; one about to sign over the threshold is not the same  *)
(* person.                                                                 *)
Logged(u) == \E a \in asks : a.by = u

SignOffHeld(q) ==
  q.op = "approve" =>
    /\ q.askedBy # None => Logged(q.askedBy)
    /\ q.at = "sign" /\ Exceeds(q.fig, q.limit) => q.askedBy \notin {None, q.user}

MakerInv ==
  /\ OverrideNamesTwoPeople
  /\ sale.askedBy # None => Logged(sale.askedBy)
  /\ \A r \in Reqs : req[r] # Idle => SignOffHeld(req[r])

LEMMA MakerInit == Init => MakerInv
  BY DEF Init, MakerInv, OverrideNamesTwoPeople

LEMMA MakerHandler ==
  ASSUME NEW r \in Reqs, TypeOK, MakerInv, Handler(r)
  PROVE  MakerInv'
<1>. DEFINE Mine == req'[r] # Idle => SignOffHeld(req[r])'
            Row == OverrideNamesTwoPeople'
            Marker == sale'.askedBy # None => Logged(sale.askedBy)'
            Quiet == approval' = approval /\ asks' = asks
<1>t. req \in [Reqs -> Request \cup {Idle}] /\ sale \in Sale
  BY DEF TypeOK
<1>a. ASSUME asks \subseteq asks', Row, Marker, Mine
      PROVE  MakerInv'
  BY <1>a, OtherSlots DEF MakerInv, SignOffHeld, Logged
<1>b. Quiet => Row /\ asks \subseteq asks'
  BY DEF MakerInv, OverrideNamesTwoPeople
<1>c. Quiet /\ sale'.askedBy \in {None, sale.askedBy} => Marker
  BY DEF MakerInv, Logged
<1>1. ASSUME NEW u \in Accts, ReadForApprove(r, u) PROVE MakerInv'
  BY <1>1, <1>t, <1>a, <1>b, <1>c DEF ReadForApprove, Begin, records, MakerInv, SignOffHeld, Logged
<1>2. ASSUME NEW u \in Accts, NEW op \in {"reject", "return"}, ReadForDecision(r, op, u)
      PROVE  MakerInv'
  BY <1>2, <1>t, <1>a, <1>b, <1>c DEF ReadForDecision, Begin, records, SignOffHeld
<1>3. ASSUME NEW u \in Accts, ReadForVoid(r, u) \/ ReadForUnvoid(r, u) \/ ReadForExport(r, u)
      PROVE  MakerInv'
  BY <1>3, <1>t, <1>a, <1>b, <1>c DEF ReadForVoid, ReadForUnvoid, ReadForExport, Begin, records,
     SignOffHeld
<1>4. ASSUME NEW u \in Users, NEW f \in Figures, ReadForUpdate(r, u, f) PROVE MakerInv'
  BY <1>4, <1>t, <1>a, <1>b, <1>c DEF ReadForUpdate, Begin, records, SignOffHeld
<1>5. ASSUME NEW ack \in BOOLEAN, DecideApprove(r, ack) PROVE MakerInv'
  <2>1. req[r] \in RequestRecord /\ req[r].op = "approve" /\ req[r].askedBy # None => Logged(req[r].askedBy)
    BY <1>5, <1>t DEF DecideApprove, At, Request, MakerInv, SignOffHeld
  <2>. DEFINE v == Verdict(req[r], threshold, ack)
  <2>2. /\ v.askedBy \in {None, req[r].askedBy}
        /\ v.at = "sign" /\ Exceeds(v.fig, v.limit) => v.askedBy # None
    BY <1>5, <1>t DEF Verdict, DecideApprove, At, Request, RequestRecord
  <2>3. v.askedBy # None => Logged(v.askedBy)
    BY <1>5, <1>t, <2>2 DEF DecideApprove, At, MakerInv, SignOffHeld
  <2>4. req'[r] = v /\ v.askedBy # v.user
    BY <1>5, <1>t DEF DecideApprove
  <2>. QED
    BY <1>5, <1>a, <1>b, <1>c, <2>2, <2>3, <2>4 DEF DecideApprove, records, SignOffHeld, Logged
<1>6. CASE AskForSecondSignOff(r)
  <2>. DEFINE row == [by |-> req[r].user, fig |-> req[r].fig]
  <2>3. row \in asks' /\ row.by = req[r].user
    BY <1>6 DEF AskForSecondSignOff
  <2>4. sale'.askedBy = req[r].user
    BY <1>6, <1>t DEF AskForSecondSignOff, Sale
  <2>1. Marker
    BY <2>3, <2>4 DEF Logged
  <2>2. Row /\ asks \subseteq asks' /\ Mine
    BY <1>6, <1>t DEF AskForSecondSignOff, MakerInv, OverrideNamesTwoPeople, Finish
  <2>. QED
    BY <2>1, <2>2, <1>a
<1>7. CASE SignApproval(r)
  <2>1. Row
    BY <1>7, <1>t DEF SignApproval, At, MakerInv, SignOffHeld, OverrideNamesTwoPeople, Logged
  <2>2. Marker /\ Mine /\ asks \subseteq asks'
    BY <1>7, <1>t DEF SignApproval, Sale, Finish
  <2>. QED
    BY <2>1, <2>2, <1>a
<1>8. CASE WriteReject(r) \/ WriteReturn(r) \/ WriteUpdate(r) \/ WriteVoid(r) \/ WriteUnvoid(r)
           \/ StubExport(r) \/ RecordExport(r) \/ RecordFailure(r) \/ Fail(r)
  BY <1>8, <1>t, <1>a, <1>b, <1>c DEF WriteReject, WriteReturn, WriteUpdate, WriteVoid,
     WriteUnvoid, StubExport, RecordExport, RecordFailure, Fail, records, Finish, Sale
<1>9. CASE CheckConnection(r) \/ CheckEnvironment(r) \/ PostRefused(r) \/ RecordingFails(r)
           \/ PostDocument(r)
  BY <1>9, <1>t, <1>a, <1>b, <1>c DEF CheckConnection, CheckEnvironment, PostRefused,
     RecordingFails, PostDocument, Goto, records, At, SignOffHeld, Request, RequestRecord
<1>. QED
  BY <1>1, <1>2, <1>3, <1>4, <1>5, <1>6, <1>7, <1>8, <1>9 DEF Handler

LEMMA MakerStep == TypeOK /\ MakerInv /\ [Next]_vars => MakerInv'
<1>. SUFFICES ASSUME TypeOK, MakerInv, [Next]_vars PROVE MakerInv'
  OBVIOUS
<1>. USE DEF MakerInv, SignOffHeld, Logged, OverrideNamesTwoPeople
<1>1. ASSUME NEW r \in Reqs, Handler(r) PROVE MakerInv'
  BY <1>1, MakerHandler
<1>2. ASSUME NEW t \in Thresholds, UpdateSettings(t) PROVE MakerInv'
  BY <1>2 DEF UpdateSettings
<1>3. ASSUME NEW c \in Connections, SwitchCompany(c) PROVE MakerInv'
  BY <1>3 DEF SwitchCompany
<1>4. CASE UNCHANGED vars
  BY <1>4 DEF vars
<1>. QED
  BY <1>1, <1>2, <1>3, <1>4 DEF Next

(* However the handlers interleave, an approval recorded as a discount     *)
(* override names two different people, and the requester did log a        *)
(* request (approve's maker/checker split).                                *)
THEOREM OverrideAlwaysNamesTwoPeople == Spec => []OverrideNamesTwoPeople
<1>1. MakerInv => OverrideNamesTwoPeople
  BY DEF MakerInv
<1>. QED
  BY <1>1, MakerInit, MakerStep, TypeCorrect, PTL DEF Spec

-----------------------------------------------------------------------------
(* A void in flight remembers, and an unvoid in flight will restore, a     *)
(* status a live sale can have.                                            *)
Live == Status \ {"DRAFT", "VOIDED"}

OriginInv ==
  /\ sale.status \in Live \cup {"VOIDED"}
  /\ sale.voidedFrom \in Live \cup {None}
  /\ sale.status = "VOIDED" => sale.voidedFrom # None
  /\ \A r \in Reqs : req[r] # Idle /\ req[r].op \in {"void", "unvoid"} =>
       req[r].status \in Live

LEMMA OriginInit == Init => OriginInv
  BY DEF Init, OriginInv, Live, Status

LEMMA OriginHandler ==
  ASSUME NEW r \in Reqs, TypeOK, OriginInv, Handler(r)
  PROVE  OriginInv'
<1>. DEFINE Mine == req'[r] # Idle /\ req'[r].op \in {"void", "unvoid"} => req'[r].status \in Live
            Row == /\ sale'.status \in Live \cup {"VOIDED"}
                   /\ sale'.voidedFrom \in Live \cup {None}
                   /\ sale'.status = "VOIDED" => sale'.voidedFrom # None
<1>. SUFFICES Row /\ Mine
  BY OtherSlots DEF OriginInv
<1>t. req \in [Reqs -> Request \cup {Idle}] /\ sale \in Sale
  BY DEF TypeOK
<1>n. None \notin Live
  BY DEF Live
<1>k. sale' = sale => Row
  BY DEF OriginInv
<1>1. ASSUME NEW u \in Accts, ReadForApprove(r, u) PROVE Row /\ Mine
  BY <1>1, <1>t, <1>k DEF ReadForApprove, Begin, records
<1>2. ASSUME NEW u \in Accts, NEW op \in {"reject", "return"}, ReadForDecision(r, op, u)
      PROVE  Row /\ Mine
  BY <1>2, <1>t, <1>k DEF ReadForDecision, Begin, records
<1>3. ASSUME NEW u \in Accts, ReadForVoid(r, u) PROVE Row /\ Mine
  BY <1>3, <1>t, <1>k DEF ReadForVoid, Begin, records, OriginInv
<1>4. ASSUME NEW u \in Accts, ReadForUnvoid(r, u) PROVE Row /\ Mine
  BY <1>4, <1>t, <1>k DEF ReadForUnvoid, Begin, records, OriginInv
<1>5. ASSUME NEW u \in Accts, ReadForExport(r, u) PROVE Row /\ Mine
  BY <1>5, <1>t, <1>k DEF ReadForExport, Begin, records
<1>6. ASSUME NEW u \in Users, NEW f \in Figures, ReadForUpdate(r, u, f) PROVE Row /\ Mine
  BY <1>6, <1>t, <1>k DEF ReadForUpdate, Begin, records
<1>7. ASSUME NEW ack \in BOOLEAN, DecideApprove(r, ack) PROVE Row /\ Mine
  <2>1. req[r] \in RequestRecord /\ req[r].op = "approve"
    BY <1>7, <1>t DEF DecideApprove, At, Request
  <2>2. Verdict(req[r], threshold, ack).op = "approve"
    BY <2>1 DEF Verdict, RequestRecord
  <2>. QED
    BY <1>7, <1>t, <1>k, <2>2 DEF DecideApprove, records
<1>8. CASE AskForSecondSignOff(r) \/ RecordFailure(r)
  BY <1>8, <1>t, <1>n DEF AskForSecondSignOff, RecordFailure, Finish, Sale, OriginInv
<1>9. CASE Fail(r)
  BY <1>9, <1>t, <1>k, <1>n DEF Fail, records, Finish
<1>10. CASE SignApproval(r)
  BY <1>10, <1>t, <1>n DEF SignApproval, Finish, Sale, OriginInv, Live, Status
<1>11. CASE WriteReject(r)
  BY <1>11, <1>t, <1>n DEF WriteReject, Finish, Sale, OriginInv, Live, Status
<1>12. CASE WriteReturn(r)
  BY <1>12, <1>t, <1>n DEF WriteReturn, Finish, Sale, OriginInv, Live, Status
<1>13. CASE StubExport(r)
  BY <1>13, <1>t, <1>n DEF StubExport, Finish, Sale, OriginInv, Live, Status
<1>14. CASE RecordExport(r)
  BY <1>14, <1>t, <1>n DEF RecordExport, Finish, Sale, OriginInv, Live, Status
<1>15. CASE WriteUpdate(r)
  BY <1>15, <1>t, <1>n DEF WriteUpdate, Finish, Sale, OriginInv, Live, Status, Decided
<1>16. CASE WriteVoid(r)
  BY <1>16, <1>t, <1>n DEF WriteVoid, Finish, Sale, OriginInv, At
<1>17. CASE WriteUnvoid(r)
  BY <1>17, <1>t, <1>n DEF WriteUnvoid, Finish, Sale, OriginInv, At, Live
<1>18. CASE CheckConnection(r) \/ CheckEnvironment(r) \/ PostRefused(r) \/ RecordingFails(r)
           \/ PostDocument(r)
  BY <1>18, <1>t, <1>k DEF CheckConnection, CheckEnvironment, PostRefused, RecordingFails,
     PostDocument, Goto, records, At, Request, RequestRecord
<1>. QED
  BY <1>1, <1>2, <1>3, <1>4, <1>5, <1>6, <1>7, <1>8, <1>9, <1>10, <1>11, <1>13, <1>12, <1>14,
     <1>15, <1>16, <1>17, <1>18 DEF Handler

LEMMA OriginStep == TypeOK /\ OriginInv /\ [Next]_vars => OriginInv'
<1>. SUFFICES ASSUME TypeOK, OriginInv, [Next]_vars PROVE OriginInv'
  OBVIOUS
<1>1. ASSUME NEW r \in Reqs, Handler(r) PROVE OriginInv'
  BY <1>1, OriginHandler
<1>2. ASSUME NEW t \in Thresholds, UpdateSettings(t) PROVE OriginInv'
  BY <1>2 DEF UpdateSettings, OriginInv
<1>3. ASSUME NEW c \in Connections, SwitchCompany(c) PROVE OriginInv'
  BY <1>3 DEF SwitchCompany, OriginInv
<1>4. CASE UNCHANGED vars
  BY <1>4 DEF vars, OriginInv
<1>. QED
  BY <1>1, <1>2, <1>3, <1>4 DEF Next

(* However the handlers interleave, a voided sale remembers a status to be *)
(* restored to, so the DRAFT fallback of unvoid is never taken.            *)
THEOREM VoidAlwaysRemembersOrigin == Spec => []VoidRemembersOrigin
<1>1. OriginInv => VoidRemembersOrigin
  BY DEF OriginInv, VoidRemembersOrigin, Live, Status
<1>. QED
  BY <1>1, OriginInit, OriginStep, TypeCorrect, PTL DEF Spec

(* The three together, the property that the run checks.                   *)
THEOREM StatusAlwaysAccountedFor == Spec => []StatusIsAccountedFor
<1>1. ApprovalOnRecord /\ OverrideNamesTwoPeople /\ VoidRemembersOrigin => StatusIsAccountedFor
  BY DEF StatusIsAccountedFor
<1>. QED
  BY <1>1, ApprovalAlwaysOnRecord, OverrideAlwaysNamesTwoPeople, VoidAlwaysRemembersOrigin, PTL

-----------------------------------------------------------------------------
(* A QuickBooks id on the sale, and an answer under way to it, stand for a *)
(* document.                                                               *)
HasDocument == \E c \in Companies : books[c] > 0

Answered(q) == q.op = "export" /\ q.at = "posted" => HasDocument

DocumentInv ==
  /\ QboIdIsBacked
  /\ \A r \in Reqs : req[r] # Idle => Answered(req[r])

LEMMA DocumentInit == Init => DocumentInv
  BY DEF Init, DocumentInv, QboIdIsBacked

(* No handler takes a document out of QuickBooks.                          *)
LEMMA DocumentsStay ==
  ASSUME NEW r \in Reqs, TypeOK, Handler(r)
  PROVE  /\ HasDocument => HasDocument'
         /\ books' = books \/ PostDocument(r)
<1>1. books' = books \/ PostDocument(r)
  BY DEF Handler, ReadForApprove, ReadForDecision, ReadForVoid, ReadForUnvoid,
     ReadForExport, ReadForUpdate, DecideApprove, AskForSecondSignOff, SignApproval,
     WriteReject, WriteReturn, WriteUpdate, WriteVoid, WriteUnvoid, CheckConnection,
     CheckEnvironment, StubExport, PostRefused, RecordExport, RecordingFails,
     RecordFailure, Fail, records
<1>2. ASSUME PostDocument(r), NEW c \in Companies, books[c] > 0
      PROVE  books'[c] > 0
  BY <1>2 DEF PostDocument, TypeOK, Companies
<1>. QED
  BY <1>1, <1>2 DEF HasDocument

LEMMA DocumentHandler ==
  ASSUME NEW r \in Reqs, TypeOK, DocumentInv, Handler(r)
  PROVE  DocumentInv'
<1>. DEFINE Mine == req'[r] # Idle => Answered(req[r])'
            Kept == sale'.qboId = sale.qboId
<1>t. req \in [Reqs -> Request \cup {Idle}] /\ sale \in Sale
  BY DEF TypeOK
<1>a. ASSUME Kept, Mine PROVE DocumentInv'
  BY <1>a, OtherSlots, DocumentsStay DEF DocumentInv, QboIdIsBacked, Answered, HasDocument
<1>0. ASSUME NEW u \in Accts, ReadForApprove(r, u) PROVE DocumentInv'
  BY <1>0, <1>t, <1>a DEF ReadForApprove, Begin, records, Answered
<1>1. ASSUME NEW u \in Accts, ReadForVoid(r, u) \/ ReadForUnvoid(r, u) \/ ReadForExport(r, u)
      PROVE  DocumentInv'
  BY <1>1, <1>t, <1>a DEF ReadForVoid, ReadForUnvoid, ReadForExport, Begin, records, Answered
<1>d. ASSUME NEW u \in Accts, NEW op \in {"reject", "return"}, ReadForDecision(r, op, u)
      PROVE  DocumentInv'
  BY <1>d, <1>t, <1>a DEF ReadForDecision, Begin, records, Answered
<1>2. ASSUME NEW u \in Users, NEW f \in Figures, ReadForUpdate(r, u, f) PROVE DocumentInv'
  BY <1>2, <1>t, <1>a DEF ReadForUpdate, Begin, records, Answered
<1>3. ASSUME NEW ack \in BOOLEAN, DecideApprove(r, ack) PROVE DocumentInv'
  <2>1. req[r] \in RequestRecord /\ req[r].op = "approve"
    BY <1>3, <1>t DEF DecideApprove, At, Request
  <2>2. Verdict(req[r], threshold, ack).op = "approve"
    BY <2>1 DEF Verdict, RequestRecord
  <2>. QED
    BY <1>3, <1>t, <1>a, <2>2 DEF DecideApprove, records, Answered
<1>4. CASE AskForSecondSignOff(r) \/ SignApproval(r) \/ WriteReject(r) \/ WriteReturn(r)
           \/ WriteUpdate(r) \/ WriteVoid(r) \/ WriteUnvoid(r) \/ StubExport(r)
           \/ RecordFailure(r) \/ Fail(r)
  BY ZenonT(60), <1>4, <1>t, <1>a DEF AskForSecondSignOff, SignApproval, WriteReject, WriteReturn,
     WriteUpdate, WriteVoid, WriteUnvoid, StubExport, RecordFailure, Fail, records, Finish, Sale
<1>5. CASE CheckConnection(r) \/ CheckEnvironment(r) \/ PostRefused(r) \/ RecordingFails(r)
  <2>1. ASSUME NEW s \in Steps \ {"posted"}, Goto(r, s), req[r] # Idle, UNCHANGED records,
               s = "post" => (sale.isTest => qbo # "production")
        PROVE  DocumentInv'
    <3>1. req[r] \in RequestRecord
      BY <2>1, <1>t DEF Request
    <3>2. req'[r].at = s
      BY <2>1, <3>1, <1>t DEF Goto, RequestRecord
    <3>. QED
      BY <2>1, <3>2, <1>a DEF records, Answered
  <2>2. CASE CheckConnection(r)
    <3>. DEFINE to == CASE qbo = "none" -> "stub"
                        [] qbo # "none" /\ sale.isTest -> "checked"
                        [] OTHER -> "post"
    <3>1. /\ to \in Steps \ {"posted"}
          /\ to = "post" => (sale.isTest => qbo # "production")
      BY DEF Steps
    <3>2. Goto(r, to) /\ req[r] # Idle /\ UNCHANGED records
      BY <2>2 DEF CheckConnection, At
    <3>. QED
      BY <2>1, <3>1, <3>2
  <2>3. CASE CheckEnvironment(r)
    BY <2>3, <2>1 DEF CheckEnvironment, At, Steps
  <2>4. CASE PostRefused(r)
    BY <2>4, <2>1 DEF PostRefused, At, Steps
  <2>5. CASE RecordingFails(r)
    BY <2>5, <2>1 DEF RecordingFails, At, Steps
  <2>. QED
    BY <1>5, <2>2, <2>3, <2>4, <2>5
<1>6. CASE PostDocument(r)
  <2>1. qbo \in Companies
    BY <1>6 DEF PostDocument, TypeOK
  <2>3. books[qbo] \in 0 .. MaxDocs /\ books'[qbo] = books[qbo] + 1
    BY <1>6, <2>1 DEF PostDocument, TypeOK
  <2>4. books'[qbo] > 0
    BY <2>3
  <2>2. HasDocument'
    BY <2>1, <2>4 DEF HasDocument
  <2>. QED
    BY <1>6, <2>2, <1>a DEF PostDocument, Answered
<1>7. CASE RecordExport(r)
  <2>1. HasDocument /\ books' = books
    BY <1>7, <1>t DEF RecordExport, At, DocumentInv, Answered
  <2>. QED
    BY <2>1, <1>7, <1>t, OtherSlots, DocumentsStay DEF RecordExport, Finish, DocumentInv, QboIdIsBacked, Answered,
       HasDocument
<1>. QED
  BY <1>0, <1>1, <1>d, <1>2, <1>3, <1>4, <1>5, <1>6, <1>7 DEF Handler

LEMMA DocumentStep == TypeOK /\ DocumentInv /\ [Next]_vars => DocumentInv'
<1>. SUFFICES ASSUME TypeOK, DocumentInv, [Next]_vars PROVE DocumentInv'
  OBVIOUS
<1>. USE DEF DocumentInv, QboIdIsBacked, Answered, HasDocument
<1>1. ASSUME NEW r \in Reqs, Handler(r) PROVE DocumentInv'
  BY <1>1, DocumentHandler
<1>2. ASSUME NEW t \in Thresholds, UpdateSettings(t) PROVE DocumentInv'
  BY <1>2 DEF UpdateSettings
<1>3. ASSUME NEW c \in Connections, SwitchCompany(c) PROVE DocumentInv'
  BY <1>3 DEF SwitchCompany
<1>4. CASE UNCHANGED vars
  BY <1>4 DEF vars
<1>. QED
  BY <1>1, <1>2, <1>3, <1>4 DEF Next

(* However the handlers interleave, fail or lose QuickBooks' answer, an id *)
(* on the sale stands for a document (export, phase 3).                    *)
THEOREM QboIdAlwaysBacked == Spec => []QboIdIsBacked
<1>1. DocumentInv => QboIdIsBacked
  BY DEF DocumentInv
<1>. QED
  BY <1>1, DocumentInit, DocumentStep, TypeCorrect, PTL DEF Spec

-----------------------------------------------------------------------------
(* An export that is about to post test data has seen that the company is  *)
(* not a production one; while nobody connects another, it still is not.   *)
Checked(q) == q.op = "export" /\ q.at = "post" /\ sale.isTest => qbo # "production"

SandboxInv ==
  /\ TestDataNeverInProduction
  /\ \A r \in Reqs : req[r] # Idle => Checked(req[r])

LEMMA SandboxInit == Init => SandboxInv
  BY DEF Init, SandboxInv, TestDataNeverInProduction, Companies

LEMMA SandboxHandler ==
  ASSUME NEW r \in Reqs, TypeOK, SandboxInv, Handler(r)
  PROVE  SandboxInv'
<1>. DEFINE Mine == req'[r] # Idle => Checked(req[r])'
            Kept == sale'.isTest = sale.isTest /\ qbo' = qbo
<1>t. req \in [Reqs -> Request \cup {Idle}] /\ sale \in Sale
  BY DEF TypeOK
<1>a. ASSUME Kept, Mine, books' = books PROVE SandboxInv'
  BY <1>a, OtherSlots DEF SandboxInv, TestDataNeverInProduction, Checked
<1>0. ASSUME NEW u \in Accts, ReadForApprove(r, u) PROVE SandboxInv'
  BY <1>0, <1>t, <1>a DEF ReadForApprove, Begin, records, Checked
<1>1. ASSUME NEW u \in Accts, ReadForVoid(r, u) \/ ReadForUnvoid(r, u) \/ ReadForExport(r, u)
      PROVE  SandboxInv'
  BY <1>1, <1>t, <1>a DEF ReadForVoid, ReadForUnvoid, ReadForExport, Begin, records, Checked
<1>d. ASSUME NEW u \in Accts, NEW op \in {"reject", "return"}, ReadForDecision(r, op, u)
      PROVE  SandboxInv'
  BY <1>d, <1>t, <1>a DEF ReadForDecision, Begin, records, Checked
<1>2. ASSUME NEW u \in Users, NEW f \in Figures, ReadForUpdate(r, u, f) PROVE SandboxInv'
  BY <1>2, <1>t, <1>a DEF ReadForUpdate, Begin, records, Checked
<1>3. ASSUME NEW ack \in BOOLEAN, DecideApprove(r, ack) PROVE SandboxInv'
  <2>1. req[r] \in RequestRecord /\ req[r].op = "approve"
    BY <1>3, <1>t DEF DecideApprove, At, Request
  <2>2. Verdict(req[r], threshold, ack).op = "approve"
    BY <2>1 DEF Verdict, RequestRecord
  <2>. QED
    BY <1>3, <1>t, <1>a, <2>2 DEF DecideApprove, records, Checked
<1>4. CASE AskForSecondSignOff(r) \/ SignApproval(r) \/ WriteReject(r) \/ WriteReturn(r)
           \/ WriteUpdate(r) \/ WriteVoid(r) \/ WriteUnvoid(r) \/ StubExport(r)
           \/ RecordExport(r) \/ RecordFailure(r) \/ Fail(r)
  BY <1>4, <1>t, <1>a DEF AskForSecondSignOff, SignApproval, WriteReject, WriteReturn,
     WriteUpdate, WriteVoid, WriteUnvoid, StubExport, RecordExport, RecordFailure, Fail,
     records, Finish, Sale
<1>5. CASE CheckConnection(r) \/ CheckEnvironment(r) \/ PostRefused(r) \/ RecordingFails(r)
  <2>1. ASSUME NEW s \in Steps \ {"posted"}, Goto(r, s), req[r] # Idle, UNCHANGED records,
               s = "post" => (sale.isTest => qbo # "production")
        PROVE  SandboxInv'
    <3>1. req[r] \in RequestRecord
      BY <2>1, <1>t DEF Request
    <3>2. req'[r].at = s
      BY <2>1, <3>1, <1>t DEF Goto, RequestRecord
    <3>. QED
      BY <2>1, <3>2, <1>a DEF records, Checked
  <2>2. CASE CheckConnection(r)
    <3>. DEFINE to == CASE qbo = "none" -> "stub"
                        [] qbo # "none" /\ sale.isTest -> "checked"
                        [] OTHER -> "post"
    <3>1. /\ to \in Steps \ {"posted"}
          /\ to = "post" => (sale.isTest => qbo # "production")
      BY DEF Steps
    <3>2. Goto(r, to) /\ req[r] # Idle /\ UNCHANGED records
      BY <2>2 DEF CheckConnection, At
    <3>. QED
      BY <2>1, <3>1, <3>2
  <2>3. CASE CheckEnvironment(r)
    BY <2>3, <2>1 DEF CheckEnvironment, At, Steps
  <2>4. CASE PostRefused(r)
    BY <2>4, <2>1 DEF PostRefused, At, Steps
  <2>5. CASE RecordingFails(r)
    BY <2>5, <2>1 DEF RecordingFails, At, Steps
  <2>. QED
    BY <1>5, <2>2, <2>3, <2>4, <2>5
<1>6. CASE PostDocument(r)
  <2>1. sale.isTest => qbo # "production"
    BY <1>6, <1>t DEF PostDocument, At, SandboxInv, Checked
  <2>2. sale.isTest => books'["production"] = books["production"]
    BY <1>6, <2>1 DEF PostDocument, TypeOK, Companies
  <2>3. Mine
    BY <1>6, <1>t DEF PostDocument, Goto, Request, RequestRecord, Checked
  <2>. QED
    BY <1>6, <2>2, <2>3, OtherSlots DEF PostDocument, SandboxInv, TestDataNeverInProduction, Checked
<1>. QED
  BY <1>0, <1>1, <1>d, <1>2, <1>3, <1>4, <1>5, <1>6 DEF Handler

LEMMA SandboxStep ==
  ASSUME "connect" \notin Ops
  PROVE  TypeOK /\ SandboxInv /\ [Next]_vars => SandboxInv'
<1>. SUFFICES ASSUME TypeOK, SandboxInv, [Next]_vars PROVE SandboxInv'
  OBVIOUS
<1>. USE DEF SandboxInv, TestDataNeverInProduction, Checked
<1>1. ASSUME NEW r \in Reqs, Handler(r) PROVE SandboxInv'
  BY <1>1, SandboxHandler
<1>2. ASSUME NEW t \in Thresholds, UpdateSettings(t) PROVE SandboxInv'
  BY <1>2 DEF UpdateSettings
<1>3. ~ \E c \in Connections : SwitchCompany(c)
  BY DEF SwitchCompany
<1>4. CASE UNCHANGED vars
  BY <1>4 DEF vars
<1>. QED
  BY <1>1, <1>2, <1>3, <1>4 DEF Next

(* While nobody connects another company, test data never reaches a        *)
(* production one, and what is in the books belongs there (export); a      *)
(* company connected between the check and the post is why the hypothesis  *)
(* is needed.                                                              *)
THEOREM BooksAreAlwaysSound ==
  ASSUME "connect" \notin Ops
  PROVE  Spec => []BooksAreSound
<1>1. SandboxInv /\ QboIdIsBacked => BooksAreSound
  BY DEF SandboxInv, BooksAreSound
<1>. QED
  BY <1>1, SandboxInit, SandboxStep, TypeCorrect, QboIdAlwaysBacked, PTL DEF Spec

-----------------------------------------------------------------------------
(* Handlers that run one at a time: beside the slot that takes a step the  *)
(* others are idle.                                                        *)
OthersIdle(r) == \A s \in Reqs \ {r} : req[s] = Idle /\ req'[s] = Idle

(* A slot that begins holds a request of the operation begun.              *)
LEMMA ReadsBegin ==
  ASSUME TypeOK, NEW r \in Reqs,
         \/ \E u \in Accts :
              \/ ReadForApprove(r, u)
              \/ \E op \in {"reject", "return"} : ReadForDecision(r, op, u)
              \/ ReadForVoid(r, u)
              \/ ReadForUnvoid(r, u)
              \/ ReadForExport(r, u)
  PROVE  req'[r] \in RequestRecord /\ req'[r].op # "update"
<1>. USE DEF TypeOK, Sale, Begin, RequestRecord, Users, AllOps, Steps
<1>1. ASSUME NEW u \in Accts, ReadForApprove(r, u)
      PROVE  req'[r] \in RequestRecord /\ req'[r].op # "update"
  BY <1>1 DEF ReadForApprove
<1>2. ASSUME NEW u \in Accts, NEW op \in {"reject", "return"}, ReadForDecision(r, op, u)
      PROVE  req'[r] \in RequestRecord /\ req'[r].op # "update"
  BY <1>2 DEF ReadForDecision
<1>3. ASSUME NEW u \in Accts, ReadForVoid(r, u)
      PROVE  req'[r] \in RequestRecord /\ req'[r].op # "update"
  BY <1>3 DEF ReadForVoid
<1>4. ASSUME NEW u \in Accts, ReadForUnvoid(r, u)
      PROVE  req'[r] \in RequestRecord /\ req'[r].op # "update"
  <2>. DEFINE to == IF sale.voidedFrom = None THEN "DRAFT" ELSE sale.voidedFrom
  <2>1. to \in Status
    BY DEF Status
  <2>2. req'[r] = [Begin("unvoid", u) EXCEPT !.status = to]
    BY <1>4 DEF ReadForUnvoid
  <2>. HIDE DEF to
  <2>. QED
    BY ZenonT(60), <2>1, <2>2
<1>5. ASSUME NEW u \in Accts, ReadForExport(r, u)
      PROVE  req'[r] \in RequestRecord /\ req'[r].op # "update"
  BY <1>5 DEF ReadForExport
<1>. QED
  BY <1>1, <1>2, <1>3, <1>4, <1>5

LEMMA UpdateBegins ==
  ASSUME TypeOK, NEW r \in Reqs, NEW u \in Users, NEW f \in Figures, ReadForUpdate(r, u, f)
  PROVE  req'[r] \in RequestRecord
  BY DEF ReadForUpdate, TypeOK, Sale, Begin, RequestRecord, Users, AllOps, Steps

LEMMA AloneInSlot ==
  ASSUME NEW r \in Reqs, TypeOK, Handler(r), OneAtATime, OneAtATime'
  PROVE  OthersIdle(r)
<1>1. CASE req[r] # Idle
  BY <1>1, OtherSlots DEF OthersIdle, OneAtATime
<1>2. CASE req[r] = Idle
  <2>1. \/ \E u \in Accts :
              \/ ReadForApprove(r, u)
              \/ \E op \in {"reject", "return"} : ReadForDecision(r, op, u)
              \/ ReadForVoid(r, u)
              \/ ReadForUnvoid(r, u)
              \/ ReadForExport(r, u)
        \/ \E u \in Users, f \in Figures : ReadForUpdate(r, u, f)
    BY <1>2 DEF Handler, DecideApprove, AskForSecondSignOff, SignApproval, WriteReject,
       WriteReturn, WriteUpdate, WriteVoid, WriteUnvoid, CheckConnection, CheckEnvironment,
       StubExport, PostDocument, PostRefused, RecordExport, RecordingFails, RecordFailure,
       Fail, At
  <2>2. req'[r] \in RequestRecord
    BY <2>1, ReadsBegin, UpdateBegins
  <2>3. req'[r] # Idle
    BY <2>2 DEF Idle
  <2>. QED
    BY <2>3, OtherSlots DEF OthersIdle, OneAtATime
<1>. QED
  BY <1>1, <1>2

(* The row that a handler writes is then the row it read and judged.       *)
Here(q) ==
  /\ q.op = "approve" =>
       /\ sale.status = "PENDING" /\ q.fig = sale.fig
       /\ q.at = "read" => q.askedBy = sale.askedBy
       /\ q.at = "ask" => Exceeds(q.fig, q.limit) /\ sale.askedBy = None
       /\ q.at = "sign" => /\ q.fig.custom => q.ack
                           /\ Exceeds(q.fig, q.limit) => q.askedBy = sale.askedBy
  /\ q.op \in {"reject", "return"} => sale.status = "PENDING"
  /\ q.op = "export" => sale.status = "APPROVED"
  /\ q.op = "update" => q.status = sale.status /\ sale.status \notin {"REJECTED", "VOIDED"}
  /\ q.op = "void" => q.status = sale.status /\ sale.status # "VOIDED"
  /\ q.op = "unvoid" => q.status = sale.voidedFrom /\ sale.status = "VOIDED"

RowIsSound ==
  /\ RequestIsForTheseFigures
  /\ NoRequestOnceDecided
  /\ SyncErrorMeansNotExported
  /\ sale.voidedFrom # None <=> sale.status = "VOIDED"

JudgedInv ==
  /\ SignedAsJudged
  /\ RowIsSound
  /\ \A r \in Reqs : req[r] # Idle => Here(req[r])

LEMMA JudgedInit == Init => JudgedInv
  BY DEF Init, JudgedInv, SignedAsJudged, RowIsSound, RequestIsForTheseFigures,
     NoRequestOnceDecided, SyncErrorMeansNotExported, Status

(* Starting a handler, and each step that writes no row.                   *)
LEMMA JudgedSlot ==
  ASSUME NEW r \in Reqs, OthersIdle(r), TypeOK, JudgedInv, UNCHANGED records,
         req'[r] # Idle => Here(req'[r])
  PROVE  JudgedInv'
<1>1. SignedAsJudged' /\ RowIsSound'
  BY DEF JudgedInv, records, SignedAsJudged, RowIsSound, RequestIsForTheseFigures,
     NoRequestOnceDecided, SyncErrorMeansNotExported
<1>2. req'[r] # Idle => Here(req[r])'
  BY DEF Here, records
<1>. QED
  BY <1>1, <1>2 DEF JudgedInv, OthersIdle

LEMMA JudgedReads ==
  ASSUME NEW r \in Reqs, OthersIdle(r), TypeOK, OriginInv, JudgedInv,
         \/ \E u \in Accts :
              \/ ReadForApprove(r, u)
              \/ \E op \in {"reject", "return"} : ReadForDecision(r, op, u)
              \/ ReadForVoid(r, u)
              \/ ReadForUnvoid(r, u)
              \/ ReadForExport(r, u)
         \/ \E u \in Users, f \in Figures : ReadForUpdate(r, u, f)
  PROVE  JudgedInv'
<1>t. req \in [Reqs -> Request \cup {Idle}] /\ sale \in Sale
  BY DEF TypeOK
<1>1. ASSUME NEW u \in Accts, ReadForApprove(r, u) PROVE JudgedInv'
  BY <1>1, <1>t, JudgedSlot DEF ReadForApprove, Begin, Here
<1>2. ASSUME NEW u \in Accts, NEW op \in {"reject", "return"}, ReadForDecision(r, op, u)
      PROVE  JudgedInv'
  BY <1>2, <1>t, JudgedSlot DEF ReadForDecision, Begin, Here
<1>3. ASSUME NEW u \in Accts, ReadForVoid(r, u) PROVE JudgedInv'
  BY <1>3, <1>t, JudgedSlot DEF ReadForVoid, Begin, Here
<1>4. ASSUME NEW u \in Accts, ReadForUnvoid(r, u) PROVE JudgedInv'
  BY <1>4, <1>t, JudgedSlot DEF ReadForUnvoid, Begin, Here, OriginInv
<1>5. ASSUME NEW u \in Accts, ReadForExport(r, u) PROVE JudgedInv'
  BY <1>5, <1>t, JudgedSlot DEF ReadForExport, Begin, Here
<1>6. ASSUME NEW u \in Users, NEW f \in Figures, ReadForUpdate(r, u, f) PROVE JudgedInv'
  BY <1>6, <1>t, JudgedSlot DEF ReadForUpdate, Begin, Here
<1>. QED
  BY <1>1, <1>2, <1>3, <1>4, <1>5, <1>6

(* The decision of approve is about the row as it is.                      *)
LEMMA JudgedDecision ==
  ASSUME NEW r \in Reqs, OthersIdle(r), TypeOK, JudgedInv, NEW ack \in BOOLEAN, DecideApprove(r, ack)
  PROVE  JudgedInv'
<1>. DEFINE q == req[r]
            v == Verdict(q, threshold, ack)
<1>t. req \in [Reqs -> Request \cup {Idle}]
  BY DEF TypeOK
<1>1. q \in RequestRecord /\ q.op = "approve" /\ q.at = "read" /\ q # Idle /\ Here(q)
  BY <1>t DEF DecideApprove, At, Request, JudgedInv
<1>2. /\ v.op = "approve" /\ v.fig = q.fig /\ v.limit = threshold /\ v.ack = ack
      /\ v.at = IF Exceeds(q.fig, threshold) /\ q.askedBy = None THEN "ask" ELSE "sign"
      /\ v.askedBy = IF Exceeds(q.fig, threshold) THEN q.askedBy ELSE None
  BY <1>1 DEF Verdict, RequestRecord
<1>3. v.at = "sign" /\ v.fig.custom => ack
  BY DEF DecideApprove
<1>4. Here(v)
  BY <1>1, <1>2, <1>3 DEF Here
<1>5. req'[r] = v
  BY <1>t DEF DecideApprove
<1>. QED
  BY <1>4, <1>5, JudgedSlot DEF DecideApprove

(* A slot that finishes leaves only the row and the audit to look at.      *)
LEMMA JudgedFinish ==
  ASSUME NEW r \in Reqs, OthersIdle(r), TypeOK, Finish(r), SignedAsJudged', RowIsSound'
  PROVE  JudgedInv'
  BY DEF Finish, TypeOK, JudgedInv, OthersIdle

LEMMA JudgedWrites ==
  ASSUME NEW r \in Reqs, OthersIdle(r), TypeOK, OriginInv, JudgedInv,
         \/ AskForSecondSignOff(r) \/ SignApproval(r) \/ WriteReject(r) \/ WriteReturn(r)
         \/ WriteUpdate(r) \/ WriteVoid(r) \/ WriteUnvoid(r) \/ StubExport(r)
         \/ RecordExport(r) \/ RecordFailure(r)
  PROVE  JudgedInv'
<1>. DEFINE q == req[r]
<1>t. req \in [Reqs -> Request \cup {Idle}] /\ sale \in Sale
  BY DEF TypeOK
<1>h. q # Idle /\ q \in RequestRecord /\ Here(q)
  BY <1>t DEF AskForSecondSignOff, SignApproval, WriteReject, WriteReturn, WriteUpdate,
     WriteVoid, WriteUnvoid, StubExport, RecordExport, RecordFailure, At, JudgedInv, Request
<1>s. RowIsSound /\ SignedAsJudged
  BY DEF JudgedInv
<1>n. None \notin Status /\ None \notin {"PENDING", "EXPORTED"}
  BY DEF Status
<1>k. approval' = approval => SignedAsJudged'
  BY DEF JudgedInv, SignedAsJudged
<1>. USE DEF RowIsSound, RequestIsForTheseFigures, NoRequestOnceDecided, SyncErrorMeansNotExported
<1>1. CASE AskForSecondSignOff(r)
  <2>1. sale.status = "PENDING" /\ q.fig = sale.fig
    BY <1>1, <1>h DEF AskForSecondSignOff, At, Here
  <2>2. sale' = [sale EXCEPT !.askedBy = q.user] /\ [by |-> q.user, fig |-> q.fig] \in asks'
    BY <1>1 DEF AskForSecondSignOff
  <2>3. RowIsSound'
    BY <2>1, <2>2, <1>t, <1>s DEF Sale
  <2>. QED
    BY <1>1, <2>3, <1>k, JudgedFinish DEF AskForSecondSignOff
<1>2. CASE SignApproval(r)
  <2>1. /\ sale.status = "PENDING" /\ q.fig = sale.fig
        /\ q.fig.custom => q.ack
    BY <1>2, <1>h DEF SignApproval, At, Here
  <2>2. SignedAsJudged'
    BY <1>2, <2>1 DEF SignApproval, SignedAsJudged
  <2>3. RowIsSound'
    BY <1>2, <2>1, <1>t, <1>s, <1>n DEF SignApproval, Sale
  <2>. QED
    BY <1>2, <2>2, <2>3, JudgedFinish DEF SignApproval
<1>3. CASE WriteReject(r) \/ WriteReturn(r)
  <2>1. sale.status = "PENDING"
    BY <1>3, <1>h DEF WriteReject, WriteReturn, At, Here
  <2>2. RowIsSound'
    BY ZenonT(60), <1>3, <2>1, <1>t, <1>s DEF WriteReject, WriteReturn, Sale
  <2>. QED
    BY <1>3, <2>2, <1>k, JudgedFinish DEF WriteReject, WriteReturn
<1>4. CASE WriteUpdate(r)
  <2>1. q.status = sale.status /\ sale.status \notin {"REJECTED", "VOIDED"}
    BY <1>4, <1>h DEF WriteUpdate, At, Here
  <2>2. RowIsSound'
    BY <1>4, <2>1, <1>t, <1>s DEF WriteUpdate, Sale, Decided
  <2>. QED
    BY <1>4, <2>2, <1>k, JudgedFinish DEF WriteUpdate
<1>5. CASE WriteVoid(r)
  <2>1. q.status = sale.status /\ sale.status # "VOIDED"
    BY <1>5, <1>h DEF WriteVoid, At, Here
  <2>3. /\ sale'.status = "VOIDED" /\ sale'.voidedFrom = sale.status
        /\ sale'.askedBy = sale.askedBy /\ sale'.syncError = sale.syncError
        /\ sale'.fig = sale.fig /\ asks' = asks
    BY <1>5, <2>1, <1>t DEF WriteVoid, Sale
  <2>4. sale.status \in Status
    BY <1>t DEF Sale
  <2>2. RowIsSound'
    BY <2>1, <2>3, <2>4, <1>s, <1>n
  <2>. QED
    BY <1>5, <2>2, <1>k, JudgedFinish DEF WriteVoid
<1>6. CASE WriteUnvoid(r)
  <2>1. q.status = sale.voidedFrom /\ sale.status = "VOIDED" /\ q.status \in Live
    BY <1>6, <1>h DEF WriteUnvoid, At, Here, OriginInv
  <2>3. /\ sale'.status = sale.voidedFrom /\ sale'.voidedFrom = None
        /\ sale'.askedBy = sale.askedBy /\ sale'.syncError = sale.syncError
        /\ sale'.fig = sale.fig /\ asks' = asks
    BY <1>6, <2>1, <1>t DEF WriteUnvoid, Sale
  <2>2. RowIsSound'
    BY <2>1, <2>3, <1>s, <1>n DEF Live, Status
  <2>. QED
    BY <1>6, <2>2, <1>k, JudgedFinish DEF WriteUnvoid
<1>7. CASE StubExport(r) \/ RecordExport(r) \/ RecordFailure(r)
  <2>1. sale.status = "APPROVED"
    BY <1>7, <1>h DEF StubExport, RecordExport, RecordFailure, At, Here
  <2>3. /\ sale'.voidedFrom = sale.voidedFrom /\ sale'.askedBy = sale.askedBy
        /\ sale'.fig = sale.fig /\ asks' = asks
        /\ \/ sale'.status = "EXPORTED" /\ sale'.syncError = FALSE
           \/ sale'.status = sale.status /\ sale'.syncError = TRUE
    BY ZenonT(60), <1>7, <1>t DEF StubExport, RecordExport, RecordFailure, Sale
  <2>2. RowIsSound'
    BY <2>1, <2>3, <1>s, <1>n
  <2>. QED
    BY <1>7, <2>2, <1>k, JudgedFinish DEF StubExport, RecordExport, RecordFailure
<1>. QED
  BY <1>1, <1>2, <1>3, <1>4, <1>5, <1>6, <1>7

(* An export only moves to its next step, and Fail only finishes.          *)
LEMMA JudgedMoves ==
  ASSUME NEW r \in Reqs, OthersIdle(r), TypeOK, JudgedInv,
         \/ CheckConnection(r) \/ CheckEnvironment(r) \/ PostDocument(r) \/ PostRefused(r)
         \/ RecordingFails(r) \/ Fail(r)
  PROVE  JudgedInv'
<1>t. req \in [Reqs -> Request \cup {Idle}]
  BY DEF TypeOK
<1>1. CASE Fail(r)
  BY <1>1, <1>t, JudgedSlot DEF Fail, Finish
<1>2. CASE ~Fail(r)
  <2>1. req[r] # Idle /\ req[r] \in RequestRecord /\ req[r].op = "export" /\ Here(req[r])
    BY <1>2, <1>t DEF CheckConnection, CheckEnvironment, PostDocument, PostRefused,
       RecordingFails, At, Request, JudgedInv
  <2>2. /\ \E s \in Steps : Goto(r, s)
        /\ UNCHANGED <<sale, approval, asks>>
    BY <1>2 DEF CheckConnection, CheckEnvironment, PostDocument, PostRefused,
       RecordingFails, Steps, records
  <2>3. PICK s \in Steps : Goto(r, s)
    BY <2>2
  <2>4. req'[r].op = "export"
    BY <2>1, <2>3, <1>t DEF Goto, RequestRecord
  <2>5. Here(req[r])'
    BY <2>1, <2>2, <2>4 DEF Here
  <2>6. SignedAsJudged' /\ RowIsSound'
    BY <2>2 DEF JudgedInv, SignedAsJudged, RowIsSound, RequestIsForTheseFigures,
       NoRequestOnceDecided, SyncErrorMeansNotExported
  <2>. QED
    BY <2>5, <2>6 DEF JudgedInv, OthersIdle
<1>. QED
  BY <1>1, <1>2

LEMMA JudgedStep ==
  ASSUME TypeOK, OriginInv, JudgedInv, OneAtATime, OneAtATime', [Next]_vars
  PROVE  JudgedInv'
<1>1. ASSUME NEW r \in Reqs, Handler(r) PROVE JudgedInv'
  <2>. OthersIdle(r)
    BY <1>1, AloneInSlot
  <2>. QED
    BY <1>1, JudgedReads, JudgedDecision, JudgedWrites, JudgedMoves DEF Handler
<1>2. CASE UNCHANGED <<sale, approval, asks, req>>
  BY <1>2 DEF JudgedInv, SignedAsJudged, RowIsSound, RequestIsForTheseFigures,
     NoRequestOnceDecided, SyncErrorMeansNotExported, Here
<1>. QED
  BY <1>1, <1>2 DEF Next, UpdateSettings, SwitchCompany, vars

(* The whole invariant of the part that takes one handler at a time.       *)
AloneInv ==
  part = "alone" => TypeOK /\ OriginInv /\ MakerInv /\ JudgedInv /\ OneAtATime

LEMMA AloneInit == SaleInit => AloneInv
<1>. SUFFICES ASSUME SaleInit, part = "alone"
              PROVE  TypeOK /\ OriginInv /\ MakerInv /\ JudgedInv /\ OneAtATime
  BY DEF AloneInv
<1>1. Init
  BY DEF SaleInit
<1>2. OneAtATime
  BY <1>1 DEF Init, OneAtATime
<1>. QED
  BY <1>1, <1>2, TypeInit, OriginInit, MakerInit, JudgedInit

LEMMA AloneSteps ==
  ASSUME AloneInv, [SaleNext]_state
  PROVE  /\ AloneInv'
         /\ part = "alone" => [Next]_vars /\ AloneInv /\ AloneInv'
<1>1. CASE part = "alone" /\ SaleNext
  <2>1. Next /\ OneAtATime' /\ part' = part
    BY <1>1 DEF SaleNext
  <2>2. TypeOK /\ OriginInv /\ MakerInv /\ JudgedInv /\ OneAtATime
    BY <1>1 DEF AloneInv
  <2>3. TypeOK' /\ OriginInv' /\ MakerInv' /\ JudgedInv'
    BY <2>1, <2>2, TypeStep, OriginStep, MakerStep, JudgedStep
  <2>. QED
    BY <2>1, <2>3 DEF AloneInv
<1>2. CASE part = "alone" /\ UNCHANGED state
  <2>1. UNCHANGED <<part, vars>>
    BY <1>2 DEF state, vars
  <2>2. TypeOK /\ OriginInv /\ MakerInv /\ JudgedInv /\ OneAtATime
    BY <1>2 DEF AloneInv
  <2>3. TypeOK' /\ OriginInv' /\ MakerInv' /\ JudgedInv' /\ OneAtATime'
    <3>1. OneAtATime'
      BY <2>1, <2>2 DEF OneAtATime, vars
    <3>. QED
      BY <2>1, <2>2, <3>1, TypeStep, OriginStep, MakerStep, JudgedStep
  <2>. QED
    BY <2>1, <2>3 DEF AloneInv
<1>3. CASE part # "alone"
  BY <1>3 DEF SaleNext, state, AloneInv
<1>. QED
  BY <1>1, <1>2, <1>3

(* Handlers that run one at a time sign the figures they judged, keep a    *)
(* request only for the figures it was made for and only while the sale    *)
(* waits for its second sign-off, and show a sync error only on a sale     *)
(* that is not exported (approve, update, reject, returnToSales, export).  *)
THEOREM AloneAlwaysJudgesWhatItSigns == SaleSpec => []AloneJudgesWhatItSigns
<1>1. AloneInv => AloneJudgesWhatItSigns
  BY DEF AloneInv, AloneJudgesWhatItSigns, JudgedInv, RowIsSound
<1>. QED
  BY <1>1, AloneInit, AloneSteps, PTL DEF SaleSpec

-----------------------------------------------------------------------------
(* The limit of the contract is the one that the handler at work has read. *)
LEMMA LimitOfSlot ==
  ASSUME NEW r \in Reqs, OthersIdle(r), req[r] # Idle, req[r].limit # None
  PROVE  LimitInForce = req[r].limit
<1>1. {s \in Reqs : req[s] # Idle /\ req[s].limit # None} = {r}
  BY DEF OthersIdle
<1>. QED
  BY <1>1 DEF LimitInForce

LEMMA LimitType == TypeOK => LimitInForce \in Thresholds
<1>. SUFFICES ASSUME TypeOK PROVE LimitInForce \in Thresholds
  OBVIOUS
<1>. DEFINE decided == {r \in Reqs : req[r] # Idle /\ req[r].limit # None}
<1>1. \A r \in decided : req[r].limit \in Thresholds
  BY DEF TypeOK, Request, RequestRecord
<1>2. decided # {} => (CHOOSE r \in decided : TRUE) \in decided
  OBVIOUS
<1>3. LimitInForce = IF decided = {} THEN threshold ELSE req[CHOOSE r \in decided : TRUE].limit
  BY DEF LimitInForce
<1>. QED
  BY <1>1, <1>2, <1>3 DEF TypeOK

LEMMA LimitTypeNext == TypeOK' => LimitInForce' \in Thresholds
<1>1. (TypeOK => LimitInForce \in Thresholds)'
  BY LimitType, PTL
<1>. QED
  BY <1>1

LEMMA ContractInit == Init => Contract!Init
<1>. SUFFICES ASSUME Init PROVE Contract!Init
  OBVIOUS
<1>1. LimitInForce \in Thresholds
  BY TypeInit, LimitType
<1>. QED
  BY <1>1 DEF Init, Contract!Init

(* The row as the contract sees it, which most steps leave alone.          *)
row == <<sale.status, sale.voidedFrom, sale.fig, sale.askedBy>>

LEMMA ContractIdles ==
  ASSUME TypeOK', UNCHANGED row
  PROVE  Contract!Next
  BY LimitTypeNext DEF row, Contract!Next

(* Each write of the row is one step of the contract.                      *)
LEMMA ContractWrites ==
  ASSUME NEW r \in Reqs, OthersIdle(r), TypeOK, TypeOK', OriginInv, MakerInv, JudgedInv, Handler(r)
  PROVE  Contract!Next
<1>. DEFINE q == req[r]
<1>t. req \in [Reqs -> Request \cup {Idle}] /\ sale \in Sale
  BY DEF TypeOK
<1>l. LimitInForce' \in Thresholds
  BY LimitTypeNext
<1>h. q # Idle => q \in Request /\ Here(q) /\ SignOffHeld(q)
  BY <1>t DEF JudgedInv, MakerInv
<1>n. None \notin Thresholds
  BY NoneAssumption
<1>1. CASE AskForSecondSignOff(r)
  <2>1. /\ q # Idle /\ q.op = "approve" /\ q.at = "ask" /\ q \in Request /\ Here(q)
    BY <1>1, <1>h DEF AskForSecondSignOff, At
  <2>2. q.user \in Accts /\ q.limit \in Thresholds
    BY <2>1 DEF Request
  <2>3. LimitInForce = q.limit
    BY <2>1, <2>2, <1>n, LimitOfSlot
  <2>4. /\ sale.status = "PENDING" /\ sale.askedBy = None
        /\ sale.fig.disc > LimitInForce
    BY <2>1, <2>3 DEF Here, Exceeds
  <2>5. sale' = [sale EXCEPT !.askedBy = q.user]
    BY <1>1 DEF AskForSecondSignOff
  <2>6. Contract!Ask(q.user)
    BY <2>4, <2>5, <1>t DEF Contract!Ask, Contract!Deep, Sale
  <2>. QED
    BY <2>2, <2>6, <1>l DEF Contract!Next
<1>2. CASE SignApproval(r)
  <2>1. /\ q # Idle /\ q.op = "approve" /\ q.at = "sign" /\ q \in Request /\ Here(q)
        /\ SignOffHeld(q)
    BY <1>2, <1>h DEF SignApproval, At
  <2>2. q.user \in Accts /\ q.limit \in Thresholds
    BY <2>1 DEF Request
  <2>3. LimitInForce = q.limit
    BY <2>1, <2>2, <1>n, LimitOfSlot
  <2>4. /\ sale.status = "PENDING"
        /\ sale.fig.disc > LimitInForce => sale.askedBy \notin {None, q.user}
    BY <2>1, <2>3 DEF Here, SignOffHeld, Exceeds
  <2>5. sale' = [sale EXCEPT !.status = "APPROVED", !.askedBy = None]
    BY <1>2 DEF SignApproval
  <2>6. Contract!Approve(q.user)
    BY <2>4, <2>5, <1>t DEF Contract!Approve, Contract!Deep, Sale
  <2>. QED
    BY <2>2, <2>6, <1>l DEF Contract!Next
<1>3. CASE WriteReject(r)
  <2>1. sale.status = "PENDING"
    BY <1>3, <1>h DEF WriteReject, At, Here
  <2>2. Contract!Dismiss("REJECTED")
    BY <1>3, <2>1, <1>t DEF WriteReject, Contract!Dismiss, Sale
  <2>. QED
    BY <2>2, <1>l DEF Contract!Next
<1>4. CASE WriteReturn(r)
  <2>1. sale.status = "PENDING"
    BY <1>4, <1>h DEF WriteReturn, At, Here
  <2>2. Contract!Dismiss("RETURNED")
    BY <1>4, <2>1, <1>t DEF WriteReturn, Contract!Dismiss, Sale
  <2>. QED
    BY <2>2, <1>l DEF Contract!Next
<1>5. CASE WriteUpdate(r)
  <2>1. /\ q.status = sale.status /\ sale.status \notin {"REJECTED", "VOIDED"}
        /\ q.fig \in Figures
    BY <1>5, <1>h DEF WriteUpdate, At, Here, Request
  <2>2. Contract!Amend(q.fig)
    BY <1>5, <2>1, <1>t DEF WriteUpdate, Contract!Amend, Sale, Decided
  <2>. QED
    BY <2>1, <2>2, <1>l DEF Contract!Next
<1>6. CASE WriteVoid(r)
  <2>1. q.status = sale.status /\ sale.status # "VOIDED"
    BY <1>6, <1>h DEF WriteVoid, At, Here
  <2>2. Contract!Void
    BY <1>6, <2>1, <1>t DEF WriteVoid, Contract!Void, Sale
  <2>. QED
    BY <2>2, <1>l DEF Contract!Next
<1>7. CASE WriteUnvoid(r)
  <2>1. q.status = sale.voidedFrom /\ sale.status = "VOIDED"
    BY <1>7, <1>h DEF WriteUnvoid, At, Here
  <2>2. Contract!Restore
    BY <1>7, <2>1, <1>t DEF WriteUnvoid, Contract!Restore, Sale
  <2>. QED
    BY <2>2, <1>l DEF Contract!Next
<1>8. CASE StubExport(r) \/ RecordExport(r)
  <2>1. sale.status = "APPROVED"
    BY <1>8, <1>h DEF StubExport, RecordExport, At, Here
  <2>2. Contract!Export
    BY ZenonT(60), <1>8, <2>1, <1>t DEF StubExport, RecordExport, Contract!Export, Sale
  <2>. QED
    BY <2>2, <1>l DEF Contract!Next
<1>9. CASE RecordFailure(r)
  <2>1. UNCHANGED row
    BY <1>9, <1>t DEF RecordFailure, row, Sale
  <2>. QED
    BY <2>1, ContractIdles
<1>10. CASE UNCHANGED sale
  BY <1>10, ContractIdles DEF row
<1>11. UNCHANGED sale \/ AskForSecondSignOff(r) \/ SignApproval(r) \/ WriteReject(r)
       \/ WriteReturn(r) \/ WriteUpdate(r) \/ WriteVoid(r) \/ WriteUnvoid(r)
       \/ StubExport(r) \/ RecordExport(r) \/ RecordFailure(r)
  BY DEF Handler, ReadForApprove, ReadForDecision, ReadForVoid, ReadForUnvoid,
     ReadForExport, ReadForUpdate, DecideApprove, CheckConnection, CheckEnvironment,
     PostDocument, PostRefused, RecordingFails, Fail, records
<1>. QED
  BY <1>1, <1>2, <1>3, <1>4, <1>5, <1>6, <1>7, <1>8, <1>9, <1>10, <1>11

LEMMA ContractStep ==
  ASSUME TypeOK, TypeOK', OriginInv, MakerInv, JudgedInv, OneAtATime, OneAtATime', [Next]_vars
  PROVE  Contract!Next
<1>1. ASSUME NEW r \in Reqs, Handler(r) PROVE Contract!Next
  <2>. OthersIdle(r)
    BY <1>1, AloneInSlot
  <2>. QED
    BY <1>1, ContractWrites
<1>2. CASE UNCHANGED sale
  BY <1>2, ContractIdles DEF row
<1>. QED
  BY <1>1, <1>2 DEF Next, UpdateSettings, SwitchCompany, vars

(* Who amends a decided sale is Accounting: the status read with the       *)
(* request is the row's, and the request was let in with it.               *)
AmenderInv ==
  \A r \in Reqs : req[r] # Idle /\ req[r].op = "update" /\ req[r].status \in Decided =>
                    req[r].user \in Accts

LEMMA AmenderStep ==
  ASSUME TypeOK, AmenderInv, [Next]_vars
  PROVE  AmenderInv'
<1>t. req \in [Reqs -> Request \cup {Idle}]
  BY DEF TypeOK
<1>1. ASSUME NEW r \in Reqs, Handler(r) PROVE AmenderInv'
  <2>1. \A s \in Reqs : s # r => req'[s] = req[s]
    BY <1>1, OtherSlots
  <2>2. SUFFICES ASSUME req'[r] # Idle, req'[r].op = "update", req'[r].status \in Decided
                 PROVE  req'[r].user \in Accts
    BY <2>1 DEF AmenderInv
  <2>3. CASE \E u \in Users, f \in Figures : ReadForUpdate(r, u, f)
    <3>1. PICK u \in Users, f \in Figures : ReadForUpdate(r, u, f)
      BY <2>3
    <3>2. req'[r] = [Begin("update", u) EXCEPT !.status = sale.status, !.fig = f]
      BY <3>1, <1>t DEF ReadForUpdate
    <3>3. req'[r].status = sale.status /\ req'[r].user = u
      BY <3>2 DEF Begin
    <3>. QED
      BY <2>2, <3>1, <3>3 DEF ReadForUpdate
  <2>4. CASE \/ \E u \in Accts :
                  \/ ReadForApprove(r, u)
                  \/ \E op \in {"reject", "return"} : ReadForDecision(r, op, u)
                  \/ ReadForVoid(r, u)
                  \/ ReadForUnvoid(r, u)
                  \/ ReadForExport(r, u)
    BY <2>2, <2>4, ReadsBegin
  <2>5. CASE Fail(r) \/ AskForSecondSignOff(r) \/ SignApproval(r) \/ WriteReject(r)
             \/ WriteReturn(r) \/ WriteUpdate(r) \/ WriteVoid(r) \/ WriteUnvoid(r)
             \/ StubExport(r) \/ RecordExport(r) \/ RecordFailure(r)
    <3>1. req'[r] = Idle
      BY <2>5, <1>t DEF Fail, AskForSecondSignOff, SignApproval, WriteReject, WriteReturn,
         WriteUpdate, WriteVoid, WriteUnvoid, StubExport, RecordExport, RecordFailure, Finish
    <3>. QED
      BY <2>2, <3>1
  <2>6. CASE \E ack \in BOOLEAN : DecideApprove(r, ack)
    <3>1. PICK ack \in BOOLEAN : DecideApprove(r, ack)
      BY <2>6
    <3>2. req'[r] = Verdict(req[r], threshold, ack) /\ req[r].op = "approve" /\ req[r] \in RequestRecord
      BY <3>1, <1>t DEF DecideApprove, At, Request
    <3>3. req'[r].op = "approve"
      BY <3>2 DEF Verdict, RequestRecord
    <3>. QED
      BY <2>2, <3>3
  <2>7. CASE \/ CheckConnection(r) \/ CheckEnvironment(r) \/ PostDocument(r)
             \/ PostRefused(r) \/ RecordingFails(r)
    <3>1. (\E s \in Steps : Goto(r, s)) /\ req[r].op = "export" /\ req[r] \in RequestRecord
      BY <2>7, <1>t DEF CheckConnection, CheckEnvironment, PostDocument, PostRefused,
         RecordingFails, Steps, At, Request
    <3>2. req'[r].op = "export"
      BY <3>1, <1>t DEF Goto, RequestRecord
    <3>. QED
      BY <2>2, <3>2
  <2>. QED
    BY <1>1, <2>3, <2>4, <2>5, <2>6, <2>7 DEF Handler
<1>2. CASE UNCHANGED req
  BY <1>2 DEF AmenderInv
<1>. QED
  BY <1>1, <1>2 DEF Next, UpdateSettings, SwitchCompany, vars

LEMMA AmendedStep ==
  ASSUME TypeOK, JudgedInv, AmenderInv, [Next]_vars
  PROVE  Amended
<1>. SUFFICES ASSUME sale.status \in Decided, sale'.fig # sale.fig
              PROVE  \E r \in Reqs : At(r, "update", "read") /\ req[r].user \in Accts /\ req'[r] = Idle
  BY DEF Amended
<1>t. req \in [Reqs -> Request \cup {Idle}] /\ sale \in Sale
  BY DEF TypeOK
<1>1. PICK r \in Reqs : Handler(r)
  BY DEF Next, UpdateSettings, SwitchCompany, vars
<1>2. WriteUpdate(r)
  BY <1>1, <1>t DEF Handler, ReadForApprove, ReadForDecision, ReadForVoid, ReadForUnvoid,
     ReadForExport, ReadForUpdate, DecideApprove, CheckConnection, CheckEnvironment,
     PostDocument, PostRefused, RecordingFails, Fail, records, AskForSecondSignOff,
     SignApproval, WriteReject, WriteReturn, WriteVoid, WriteUnvoid, StubExport,
     RecordExport, RecordFailure, Sale
<1>3. At(r, "update", "read") /\ req'[r] = Idle
  BY <1>2, <1>t DEF WriteUpdate, Finish
<1>4. req[r].status = sale.status
  BY <1>3 DEF JudgedInv, Here, At
<1>. QED
  BY <1>3, <1>4 DEF AmenderInv, At

(* Handlers that run one at a time implement the contract that the         *)
(* comments of SubmissionsService state: a deep discount takes two people, *)
(* a request dies with its figures, a decision outlives an amendment,      *)
(* which is Accounting's, and a void is undone exactly.                    *)
THEOREM AloneAlwaysImplementsContract == SaleSpec => AloneImplementsContract
<1>. DEFINE Inv == AloneInv /\ (part = "alone" => AmenderInv)
            Step == part = "alone" => Amended /\ (Contract!Next \/ UNCHANGED Contract!vars)
<1>1. SaleInit => Inv /\ (part = "alone" => Contract!Init)
  <2>1. Init => AmenderInv
    BY DEF Init, AmenderInv
  <2>. QED
    BY <2>1, AloneInit, ContractInit DEF SaleInit
<1>2. Inv /\ [SaleNext]_state => Inv' /\ [Step]_state
  <2>. SUFFICES ASSUME Inv, [SaleNext]_state PROVE Inv' /\ Step
    OBVIOUS
  <2>1. AloneInv' /\ (part = "alone" => [Next]_vars) /\ part' = part
    <3>1. part' = part
      BY DEF SaleNext, state
    <3>. QED
      BY <3>1, AloneSteps
  <2>2. ASSUME part = "alone" PROVE AmenderInv' /\ Step
    <3>1. /\ TypeOK /\ OriginInv /\ MakerInv /\ JudgedInv /\ OneAtATime /\ AmenderInv
          /\ TypeOK' /\ OneAtATime' /\ [Next]_vars
      BY <2>1, <2>2 DEF AloneInv
    <3>2. AmenderInv' /\ Amended
      BY <3>1, AmenderStep, AmendedStep
    <3>3. Contract!Next
      BY <3>1, ContractStep
    <3>. QED
      BY <3>2, <3>3
  <2>. QED
    BY <2>1, <2>2
<1>. HIDE DEF Inv, Step
<1>3. SaleSpec => (part = "alone" => Contract!Init) /\ [][Step]_state
  BY <1>1, <1>2, PTL DEF SaleSpec
<1>. QED
  BY <1>3 DEF AloneImplementsContract, Step

=============================================================================
