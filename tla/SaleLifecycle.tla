--------------------------- MODULE SaleLifecycle ---------------------------
(***************************************************************************)
(* The life of one sale in SubmissionsService: submitted, approved with a  *)
(* maker/checker split on deep discounts, rejected, returned, amended,     *)
(* voided, restored and exported to QuickBooks.                            *)
(*                                                                         *)
(* A handler is not one step.  approve, reject, returnToSales and update   *)
(* read the row, await, and only then open the transaction that writes it; *)
(* void, unvoid and export read inside the transaction, but Postgres runs  *)
(* it READ COMMITTED and nothing locks the row, so the write may still     *)
(* land on a row that has moved on.  Every handler is therefore a request  *)
(* in a slot of Reqs: one action reads the row and passes the guards, a    *)
(* later one writes.  With one slot the handlers run one after the other;  *)
(* with two they interleave at every await.                                *)
(*                                                                         *)
(* Figures are abstracted to what sign-off can tell apart: the discount as *)
(* a share of the package price, and whether the package is customized.    *)
(***************************************************************************)
EXTENDS Integers, FiniteSets

CONSTANTS
  Owner,       \* the rep the sale belongs to; holds submission.editOwn only
  Accts,       \* Accounting and Admin; hold every permission used here
  None,        \* SQL NULL
  Figures,     \* what a sale can be priced at: [disc |-> percent, custom |-> BOOLEAN]
  Thresholds,  \* values of Settings.discountApprovalPct
  Reqs,        \* request slots
  Ops,         \* the operations offered in this instance
  Connections, \* the QuickBooks connections met: a company, or "none"
  TestData,    \* the values of isTestData met
  MaxDocs      \* bound on the documents QuickBooks holds for the sale

Companies == {"sandbox", "production"}
AllOps == {"approve", "reject", "return", "update", "void", "unvoid",
           "export", "settings", "connect"}

ASSUME FiguresAssumption == Figures \subseteq [disc : Nat, custom : BOOLEAN]
ASSUME ThresholdsAssumption == Thresholds \subseteq Nat
ASSUME UsersAssumption == Owner \notin Accts /\ None \notin Accts \cup {Owner}
ASSUME OpsAssumption == Ops \subseteq AllOps
ASSUME ConnectionsAssumption == Connections \subseteq Companies \cup {"none"}
ASSUME TestDataAssumption == TestData \subseteq BOOLEAN
ASSUME MaxDocsAssumption == MaxDocs \in Nat

VARIABLES
  sale,        \* the Submission row
  threshold,   \* Settings.discountApprovalPct
  qbo,         \* the connected QuickBooks company's environment, "none" if unconnected
  books,       \* documents QuickBooks holds for this sale, per environment
  approval,    \* the newest APPROVED audit row
  asks,        \* the DISCOUNT_OVERRIDE_REQUESTED audit rows
  req          \* the requests in flight

vars == <<sale, threshold, qbo, books, approval, asks, req>>

-----------------------------------------------------------------------------
Status == {"DRAFT", "PENDING", "RETURNED", "APPROVED", "EXPORTED",
           "REJECTED", "VOIDED"}
Decided == {"APPROVED", "EXPORTED"}
Users == Accts \cup {Owner}

Sale == [status : Status, voidedFrom : Status \cup {None}, fig : Figures,
         askedBy : Accts \cup {None}, syncError : BOOLEAN, qboId : BOOLEAN,
         isTest : BOOLEAN]

Approval == [by : Accts, override : BOOLEAN, requestedBy : Accts \cup {None},
             fig : Figures, limit : Thresholds, ack : BOOLEAN]

Ask == [by : Accts, fig : Figures]

(* A request: the operation, how far it has got, who makes it, what it     *)
(* remembers of the row it read (status, fig, askedBy; for update, fig is  *)
(* what the caller sent), and what approve made of it (limit, ack).        *)
Steps == {"read", "ask", "sign", "checked", "stub", "post",
          "posted", "failed"}

RequestRecord ==
  [op : AllOps, at : Steps, user : Users, status : Status \cup {None},
   fig : Figures \cup {None}, askedBy : Accts \cup {None},
   limit : Thresholds \cup {None}, ack : BOOLEAN]

Request ==
  {q \in RequestRecord :
     /\ q.op = "approve" => q.user \in Accts
     /\ q.op \in {"approve", "update"} => q.fig \in Figures
     /\ q.op \in {"update", "void", "unvoid"} => q.status \in Status
     /\ q.at \in {"ask", "sign"} => q.op = "approve" /\ q.limit \in Thresholds}

Idle == None

ASSUME NoneAssumption ==
  /\ None \notin Status /\ None \notin Figures /\ None \notin Thresholds
  /\ None \notin RequestRecord /\ None \notin Approval

(* The discount needs two people: PricingService.discountApproval.         *)
Exceeds(fig, limit) == fig.disc > limit

-----------------------------------------------------------------------------
Init ==
  /\ \E f \in Figures, t \in TestData :
       sale = [status |-> "PENDING", voidedFrom |-> None, fig |-> f,
               askedBy |-> None, syncError |-> FALSE, qboId |-> FALSE,
               isTest |-> t]
  /\ threshold \in Thresholds
  /\ qbo \in Connections
  /\ books = [c \in Companies |-> 0]
  /\ approval = None
  /\ asks = {}
  /\ req = [r \in Reqs |-> Idle]

Begin(op, u) ==
  [op |-> op, at |-> "read", user |-> u, status |-> None, fig |-> None,
   askedBy |-> None, limit |-> None, ack |-> FALSE]

Goto(r, step) == req' = [req EXCEPT ![r].at = step]
Finish(r) == req' = [req EXCEPT ![r] = Idle]

At(r, op, step) == req[r] # Idle /\ req[r].op = op /\ req[r].at = step

records == <<sale, threshold, qbo, books, approval, asks>>

-----------------------------------------------------------------------------
(* approve: the row, then Settings, then the decision, then the write.     *)
ReadForApprove(r, u) ==
  /\ "approve" \in Ops
  /\ req[r] = Idle
  /\ sale.status = "PENDING"
  /\ req' = [req EXCEPT ![r] = [Begin("approve", u) EXCEPT
                                  !.fig = sale.fig, !.askedBy = sale.askedBy]]
  /\ UNCHANGED records

(* What approve makes of the row it read, under the threshold t: over it,  *)
(* a first touch only asks; anything else is signed, naming the requester  *)
(* if the discount was over the threshold.                                 *)
Verdict(q, t, ack) ==
  LET deep == Exceeds(q.fig, t)
  IN  [q EXCEPT !.at = IF deep /\ q.askedBy = None THEN "ask" ELSE "sign",
                !.askedBy = IF deep THEN @ ELSE None,
                !.limit = t, !.ack = ack]

(* Mutants: the maker may confirm; the acknowledgement is not asked for;   *)
(* the threshold is not kept with the decision.                            *)
DecideApprove_SelfConfirm(r, ack) ==
  LET v == Verdict(req[r], threshold, ack)
  IN  /\ At(r, "approve", "read")
      /\ v.at = "sign" /\ v.fig.custom => ack
      /\ req' = [req EXCEPT ![r] = v]
      /\ UNCHANGED records

DecideApprove_NoAck(r, ack) ==
  LET v == Verdict(req[r], threshold, ack)
  IN  /\ At(r, "approve", "read")
      /\ v.askedBy # v.user
      /\ req' = [req EXCEPT ![r] = v]
      /\ UNCHANGED records

DecideApprove_ForgetsLimit(r, ack) ==
  LET v == Verdict(req[r], threshold, ack)
  IN  /\ At(r, "approve", "read")
      /\ v.askedBy # v.user
      /\ v.at = "sign" /\ v.fig.custom => ack
      /\ req' = [req EXCEPT ![r] = [v EXCEPT !.limit = None]]
      /\ UNCHANGED records

(* The maker is refused as checker, and a customized package must be       *)
(* acknowledged out loud; a refusal is Fail.                               *)
DecideApprove(r, ack) ==
  LET v == Verdict(req[r], threshold, ack)
  IN  /\ At(r, "approve", "read")
      /\ v.askedBy # v.user
      /\ v.at = "sign" /\ v.fig.custom => ack
      /\ req' = [req EXCEPT ![r] = v]
      /\ UNCHANGED records

AskForSecondSignOff(r) ==
  /\ At(r, "approve", "ask")
  /\ sale' = [sale EXCEPT !.askedBy = req[r].user]
  /\ asks' = asks \cup {[by |-> req[r].user, fig |-> req[r].fig]}
  /\ Finish(r)
  /\ UNCHANGED <<threshold, qbo, books, approval>>

(* Mutant: the APPROVED row is not written.                                *)
SignApproval_NoAudit(r) ==
  /\ At(r, "approve", "sign")
  /\ sale' = [sale EXCEPT !.status = "APPROVED", !.askedBy = None]
  /\ Finish(r)
  /\ UNCHANGED <<threshold, qbo, books, approval, asks>>

(* The audit row's total is the row as updated, not the row as judged.     *)
SignApproval(r) ==
  LET q == req[r]
  IN  /\ At(r, "approve", "sign")
      /\ sale' = [sale EXCEPT !.status = "APPROVED", !.askedBy = None]
      /\ approval' = [by |-> q.user, override |-> Exceeds(q.fig, q.limit),
                      requestedBy |-> q.askedBy, fig |-> sale.fig,
                      limit |-> q.limit, ack |-> q.ack]
      /\ Finish(r)
      /\ UNCHANGED <<threshold, qbo, books, asks>>

-----------------------------------------------------------------------------
(* reject and returnToSales: one read, one unconditional write.            *)
ReadForDecision(r, op, u) ==
  /\ op \in Ops \cap {"reject", "return"}
  /\ req[r] = Idle
  /\ sale.status = "PENDING"
  /\ req' = [req EXCEPT ![r] = Begin(op, u)]
  /\ UNCHANGED records

(* Mutant: the outstanding request survives the rejection.                 *)
WriteReject_KeepsRequest(r) ==
  /\ At(r, "reject", "read")
  /\ sale' = [sale EXCEPT !.status = "REJECTED"]
  /\ Finish(r)
  /\ UNCHANGED <<threshold, qbo, books, approval, asks>>

WriteReject(r) ==
  /\ At(r, "reject", "read")
  /\ sale' = [sale EXCEPT !.status = "REJECTED", !.askedBy = None]
  /\ Finish(r)
  /\ UNCHANGED <<threshold, qbo, books, approval, asks>>

WriteReturn(r) ==
  /\ At(r, "return", "read")
  /\ sale' = [sale EXCEPT !.status = "RETURNED", !.askedBy = None]
  /\ Finish(r)
  /\ UNCHANGED <<threshold, qbo, books, approval, asks>>

-----------------------------------------------------------------------------
(* Mutant: the owner may amend a decided sale too.                         *)
ReadForUpdate_Anyone(r, u, f) ==
  /\ "update" \in Ops
  /\ req[r] = Idle
  /\ sale.status \notin {"REJECTED", "VOIDED"}
  /\ req' = [req EXCEPT ![r] = [Begin("update", u) EXCEPT
                                  !.status = sale.status, !.fig = f]]
  /\ UNCHANGED records

(* update: the owner while nothing is decided, Accounting also after.      *)
ReadForUpdate(r, u, f) ==
  /\ "update" \in Ops
  /\ req[r] = Idle
  /\ sale.status \notin {"REJECTED", "VOIDED"}
  /\ sale.status \in Decided => u \in Accts
  /\ req' = [req EXCEPT ![r] = [Begin("update", u) EXCEPT
                                  !.status = sale.status, !.fig = f]]
  /\ UNCHANGED records

(* Mutants: the request for a second sign-off survives the new figures; an *)
(* amended sale goes back to the queue.                                    *)
WriteUpdate_KeepsRequest(r) ==
  LET q == req[r]
  IN  /\ At(r, "update", "read")
      /\ sale' = [sale EXCEPT
                    !.status = IF q.status \in Decided THEN q.status ELSE "PENDING",
                    !.fig = q.fig]
      /\ Finish(r)
      /\ UNCHANGED <<threshold, qbo, books, approval, asks>>

WriteUpdate_Reopens(r) ==
  /\ At(r, "update", "read")
  /\ sale' = [sale EXCEPT !.status = "PENDING", !.askedBy = None, !.fig = req[r].fig]
  /\ Finish(r)
  /\ UNCHANGED <<threshold, qbo, books, approval, asks>>

(* A decided sale keeps the status the request READ.                       *)
WriteUpdate(r) ==
  LET q == req[r]
  IN  /\ At(r, "update", "read")
      /\ sale' = [sale EXCEPT
                    !.status = IF q.status \in Decided THEN q.status ELSE "PENDING",
                    !.askedBy = None, !.fig = q.fig]
      /\ Finish(r)
      /\ UNCHANGED <<threshold, qbo, books, approval, asks>>

-----------------------------------------------------------------------------
(* Mutant: a voided sale can be voided again.                              *)
ReadForVoid_Again(r, u) ==
  /\ "void" \in Ops
  /\ req[r] = Idle
  /\ req' = [req EXCEPT ![r] = [Begin("void", u) EXCEPT !.status = sale.status]]
  /\ UNCHANGED records

(* void remembers the status it read; unvoid restores the one it read.     *)
ReadForVoid(r, u) ==
  /\ "void" \in Ops
  /\ req[r] = Idle
  /\ sale.status # "VOIDED"
  /\ req' = [req EXCEPT ![r] = [Begin("void", u) EXCEPT !.status = sale.status]]
  /\ UNCHANGED records

WriteVoid(r) ==
  /\ At(r, "void", "read")
  /\ sale' = [sale EXCEPT !.status = "VOIDED", !.voidedFrom = req[r].status]
  /\ Finish(r)
  /\ UNCHANGED <<threshold, qbo, books, approval, asks>>

ReadForUnvoid(r, u) ==
  /\ "unvoid" \in Ops
  /\ req[r] = Idle
  /\ sale.status = "VOIDED"
  /\ req' = [req EXCEPT ![r] = [Begin("unvoid", u) EXCEPT
                !.status = IF sale.voidedFrom = None THEN "DRAFT" ELSE sale.voidedFrom]]
  /\ UNCHANGED records

WriteUnvoid(r) ==
  /\ At(r, "unvoid", "read")
  /\ sale' = [sale EXCEPT !.status = req[r].status, !.voidedFrom = None]
  /\ Finish(r)
  /\ UNCHANGED <<threshold, qbo, books, approval, asks>>

-----------------------------------------------------------------------------
(* export.  Phase 1 validates (and numbers the invoice: InvoiceNumbers).   *)
ReadForExport(r, u) ==
  /\ "export" \in Ops
  /\ req[r] = Idle
  /\ sale.status = "APPROVED"
  /\ req' = [req EXCEPT ![r] = Begin("export", u)]
  /\ UNCHANGED records

(* QboConnectionService.isConnected.                                       *)
CheckConnection(r) ==
  /\ At(r, "export", "read")
  /\ Goto(r, CASE qbo = "none" -> "stub"
               [] qbo # "none" /\ sale.isTest -> "checked"
               [] OTHER -> "post")
  /\ UNCHANGED records

(* Mutant: the environment is not looked at.                               *)
CheckEnvironment_Skipped(r) ==
  /\ At(r, "export", "checked")
  /\ Goto(r, "post")
  /\ UNCHANGED records

(* QboConnectionService.status, read apart: test data is refused if the    *)
(* company is a production one (the refusal is Fail).                      *)
CheckEnvironment(r) ==
  /\ At(r, "export", "checked")
  /\ qbo # "production"
  /\ Goto(r, "post")
  /\ UNCHANGED records

StubExport(r) ==
  /\ At(r, "export", "stub")
  /\ sale' = [sale EXCEPT !.status = "EXPORTED", !.syncError = FALSE]
  /\ Finish(r)
  /\ UNCHANGED <<threshold, qbo, books, approval, asks>>

(* QboExportService.postSubmission: the document is created in whichever   *)
(* company is connected by then; its answer may be lost.                   *)
PostDocument(r) ==
  /\ At(r, "export", "post")
  /\ qbo # "none"
  /\ books[qbo] < MaxDocs
  /\ books' = [books EXCEPT ![qbo] = @ + 1]
  /\ \E answer \in {"posted", "failed"} : Goto(r, answer)
  /\ UNCHANGED <<sale, threshold, qbo, approval, asks>>

(* Mutant: a refusal is taken for an answer.                               *)
PostRefused_Swallowed(r) ==
  /\ At(r, "export", "post")
  /\ Goto(r, "posted")
  /\ UNCHANGED records

PostRefused(r) ==
  /\ At(r, "export", "post")
  /\ Goto(r, "failed")
  /\ UNCHANGED records

(* Mutant: the error of an earlier attempt stays.                          *)
RecordExport_KeepsError(r) ==
  /\ At(r, "export", "posted")
  /\ sale' = [sale EXCEPT !.status = "EXPORTED", !.qboId = TRUE]
  /\ Finish(r)
  /\ UNCHANGED <<threshold, qbo, books, approval, asks>>

RecordExport(r) ==
  /\ At(r, "export", "posted")
  /\ sale' = [sale EXCEPT !.status = "EXPORTED", !.qboId = TRUE, !.syncError = FALSE]
  /\ Finish(r)
  /\ UNCHANGED <<threshold, qbo, books, approval, asks>>

(* The recording transaction sits in the same try as the post.             *)
RecordingFails(r) ==
  /\ At(r, "export", "posted")
  /\ Goto(r, "failed")
  /\ UNCHANGED records

RecordFailure(r) ==
  /\ At(r, "export", "failed")
  /\ sale' = [sale EXCEPT !.syncError = TRUE]
  /\ Finish(r)
  /\ UNCHANGED <<threshold, qbo, books, approval, asks>>

-----------------------------------------------------------------------------
(* A handler refuses, throws or loses its process before it writes.        *)
Fail(r) ==
  /\ req[r] # Idle
  /\ Finish(r)
  /\ UNCHANGED records

(* Administration: the threshold, and the QuickBooks connection.           *)
UpdateSettings(t) ==
  /\ "settings" \in Ops
  /\ threshold' = t
  /\ UNCHANGED <<sale, qbo, books, approval, asks, req>>

SwitchCompany(c) ==
  /\ "connect" \in Ops
  /\ qbo' = c
  /\ UNCHANGED <<sale, threshold, books, approval, asks, req>>

Handler(r) ==
  \/ \E u \in Accts :
       \/ ReadForApprove(r, u)
       \/ \E op \in {"reject", "return"} : ReadForDecision(r, op, u)
       \/ ReadForVoid(r, u)
       \/ ReadForUnvoid(r, u)
       \/ ReadForExport(r, u)
  \/ \E u \in Users, f \in Figures : ReadForUpdate(r, u, f)
  \/ \E ack \in BOOLEAN : DecideApprove(r, ack)
  \/ AskForSecondSignOff(r)
  \/ SignApproval(r)
  \/ WriteReject(r)
  \/ WriteReturn(r)
  \/ WriteUpdate(r)
  \/ WriteVoid(r)
  \/ WriteUnvoid(r)
  \/ CheckConnection(r)
  \/ CheckEnvironment(r)
  \/ StubExport(r)
  \/ PostDocument(r)
  \/ PostRefused(r)
  \/ RecordExport(r)
  \/ RecordingFails(r)
  \/ RecordFailure(r)
  \/ Fail(r)

Next ==
  \/ \E r \in Reqs : Handler(r)
  \/ \E t \in Thresholds : UpdateSettings(t)
  \/ \E c \in Connections : SwitchCompany(c)

Spec == Init /\ [][Next]_vars

-----------------------------------------------------------------------------
TypeOK ==
  /\ sale \in Sale
  /\ threshold \in Thresholds
  /\ qbo \in Connections
  /\ books \in [Companies -> 0..MaxDocs]
  /\ approval \in Approval \cup {None}
  /\ asks \subseteq Ask
  /\ req \in [Reqs -> Request \cup {Idle}]

(* Whatever the interleaving, a sale that counts as approved or exported,  *)
(* would be restored to that, or has a document in QuickBooks, has an      *)
(* APPROVED row in its audit trail (approve is the only way in).           *)
ApprovalOnRecord ==
  \/ sale.status \in Decided
  \/ sale.voidedFrom \in Decided
  \/ \E c \in Companies : books[c] > 0
  => approval # None

(* Whatever the interleaving, an APPROVED row that claims a discount       *)
(* override names two different people, and the first of them did log a    *)
(* request (approve, the maker/checker split).                             *)
OverrideNamesTwoPeople ==
  approval # None /\ approval.override =>
    /\ approval.requestedBy \notin {None, approval.by}
    /\ \E a \in asks : a.by = approval.requestedBy

(* Whatever the interleaving, a voided sale remembers a status it can be   *)
(* restored to, so unvoid's fallback to DRAFT is never taken and no sale   *)
(* ever becomes a DRAFT.                                                   *)
VoidRemembersOrigin ==
  /\ sale.status = "VOIDED" => sale.voidedFrom \notin {None, "VOIDED"}
  /\ "DRAFT" \notin {sale.status, sale.voidedFrom}

(* Whatever the interleaving, the status a sale has is accounted for: by   *)
(* the approval on record, the two people of an override, the status a     *)
(* voided sale goes back to (approve, void, unvoid).                       *)
StatusIsAccountedFor == ApprovalOnRecord /\ OverrideNamesTwoPeople /\ VoidRemembersOrigin

(* Whatever the interleaving, a QuickBooks id on the sale stands for a     *)
(* document QuickBooks really holds (export, phase 3).                     *)
QboIdIsBacked ==
  sale.qboId => \E c \in Companies : books[c] > 0

(* The figures an approval lands on are the figures it judged: a discount  *)
(* deeper than the threshold in force was asked for and confirmed by two   *)
(* people, a customized package was acknowledged ("cannot be approved by   *)
(* one person acting alone", approve).                                     *)
SignedAsJudged ==
  approval # None =>
    /\ Exceeds(approval.fig, approval.limit) => approval.override
    /\ approval.fig.custom => approval.ack

(* An outstanding request is about the figures the sale carries now        *)
(* (update: new figures start the sign-off over).                          *)
RequestIsForTheseFigures ==
  sale.askedBy # None => [by |-> sale.askedBy, fig |-> sale.fig] \in asks

(* A request for a second sign-off is outstanding only while the sale is   *)
(* in the queue, or voided from it (approve, reject and returnToSales all  *)
(* clear it).                                                              *)
NoRequestOnceDecided ==
  sale.askedBy # None => "PENDING" \in {sale.status, sale.voidedFrom}

(* The threshold an approval in flight has read, or the one in Settings.   *)
LimitInForce ==
  LET decided == {r \in Reqs : req[r] # Idle /\ req[r].limit # None}
  IN  IF decided = {} THEN threshold ELSE req[CHOOSE r \in decided : TRUE].limit

(* Handlers that run one at a time obey the contract of their comments,    *)
(* operation by operation: each handler's write is one step of it, taken   *)
(* on the row as it then is.                                               *)
Contract == INSTANCE SaleContract WITH
              status <- sale.status, voidedFrom <- sale.voidedFrom,
              fig <- sale.fig, askedBy <- sale.askedBy,
              threshold <- LimitInForce
ImplementsContract == Contract!Spec

(* Only Accounting changes the figures of an approved or exported sale     *)
(* (update: "changing them afterwards is an amendment").                   *)
OnlyAccountingAmendsDecided ==
  [][sale.status \in Decided /\ sale'.fig # sale.fig =>
       \E r \in Reqs : /\ At(r, "update", "read")
                       /\ req[r].user \in Accts
                       /\ req'[r] = Idle]_vars

(* An approved or exported sale leaves that state only by being voided,    *)
(* never by sliding back into the queue (update: "the sale keeps its       *)
(* approval rather than quietly reverting to pending").                    *)
ApprovalSticks ==
  [][sale.status \in Decided => sale'.status \in Decided \cup {"VOIDED"}]_vars

(* Only a restore brings a voided sale back, to the very status it was     *)
(* voided from (unvoid: "the exact status it held before").                *)
VoidIsReversible ==
  [][/\ sale.status # "VOIDED" /\ sale'.status = "VOIDED"
          => sale'.voidedFrom = sale.status
     /\ sale.status = "VOIDED" /\ sale'.status # "VOIDED"
          => sale'.status = sale.voidedFrom]_vars

(* A failed push leaves the sale short of EXPORTED with its error showing  *)
(* (export: "leaves the submission APPROVED (never EXPORTED) with          *)
(* qboSyncError set").                                                     *)
SyncErrorMeansNotExported ==
  sale.syncError => "EXPORTED" \notin {sale.status, sale.voidedFrom}

(* Test data never reaches a production company (export: "production never *)
(* sees them, connection or no").                                          *)
TestDataNeverInProduction ==
  sale.isTest => books["production"] = 0

(* Whatever the interleaving, what is in the books belongs there: the id   *)
(* on the sale is backed, and test data went to no production company.     *)
BooksAreSound == QboIdIsBacked /\ TestDataNeverInProduction

(* With no export in flight, a document QuickBooks holds beyond the one    *)
(* the sale points at shows as a sync error (export: "instead of the       *)
(* record silently drifting from what QuickBooks actually holds").         *)
NoSilentDrift ==
  (\A r \in Reqs : req[r] # Idle => req[r].op # "export") =>
    \/ sale.syncError
    \/ books["sandbox"] + books["production"] = IF sale.qboId THEN 1 ELSE 0

(* A rejected sale can be sent back to sales (update's refusal: "return it *)
(* to sales before editing").                                              *)
RejectedCanBeReturned ==
  sale.status = "REJECTED" =>
    \A r \in Reqs : req[r] = Idle =>
      ENABLED \E u \in Accts : ReadForDecision(r, "return", u)

=============================================================================
