----------------------------- MODULE Signatures -----------------------------
(***************************************************************************)
(* Documents sent out for signature: DocuSignApiService.sendForSignature,  *)
(* and the notifications DocuSign sends back, handled by                   *)
(* DocuSignWebhookService.                                                 *)
(*                                                                         *)
(* DocuSign keeps an envelope and raises an event for every status it      *)
(* reaches.  An event is delivered until a delivery is answered 2xx, and   *)
(* may be delivered again after that, in any order.  A handler may stop at *)
(* any of its awaits: a lost process, a timeout, an error thrown.          *)
(***************************************************************************)
EXTENDS Naturals

CONSTANTS
  Envelopes,  \* the envelopes DocuSign may issue, one per request for signature
  Reqs,       \* request slots
  None        \* a free slot

Terminal == {"completed", "declined", "voided"}
Live == {"sent", "delivered"}
Events == [env : Envelopes, status : Live \cup Terminal]

VARIABLES
  envelope,  \* DocuSign's own status of each envelope
  raised,    \* the events DocuSign has raised
  answered,  \* those a delivery of which was answered 2xx
  request,   \* the SignatureRequest rows: status, and whether the signed copy is linked
  copies,    \* how many "Signed Contract" Documents each envelope led to
  outcomes,  \* how many audit lines record an outcome of each
  req        \* the requests in flight

vars == <<envelope, raised, answered, request, copies, outcomes, req>>
docusign == <<envelope, raised>>
records == <<request, copies, outcomes>>

Idle == None

Request == [at : {"post", "record"}, env : Envelopes]
Hook == [at : {"answer", "claim", "audit", "fetch", "store"}, env : Envelopes, event : Events]
Row == [status : {"none", "declined", "voided"} \cup Live, signed : {FALSE}]
         \cup [status : {"completed"}, signed : BOOLEAN]

ASSUME SignatureNoneAssumption == None \notin Request \cup Hook

At(r, step) == req[r] # Idle /\ req[r].at = step
Go(r, step) == req' = [req EXCEPT ![r].at = step]
Finish(r) == req' = [req EXCEPT ![r] = Idle]
Answer(r) == answered' = answered \cup {req[r].event} /\ Finish(r)

Init ==
  /\ envelope = [e \in Envelopes |-> "none"]
  /\ raised = {} /\ answered = {}
  /\ request = [e \in Envelopes |-> [status |-> "none", signed |-> FALSE]]
  /\ copies = [e \in Envelopes |-> 0]
  /\ outcomes = [e \in Envelopes |-> 0]
  /\ req = [r \in Reqs |-> Idle]

-----------------------------------------------------------------------------
(* sendForSignature: the sale, the document, its bytes and the token are   *)
(* read; DocuSign makes the envelope; the row is written.                  *)
ReadForSend(r, e) ==
  /\ req[r] = Idle
  /\ envelope[e] = "none"
  /\ \A o \in Reqs : req[o] # Idle => req[o].env # e
  /\ req' = [req EXCEPT ![r] = [at |-> "post", env |-> e]]
  /\ UNCHANGED <<docusign, answered, records>>

CreateEnvelope(r) ==
  /\ At(r, "post")
  /\ envelope' = [envelope EXCEPT ![req[r].env] = "sent"]
  /\ raised' = raised \cup {[env |-> req[r].env, status |-> "sent"]}
  /\ Go(r, "record")
  /\ UNCHANGED <<answered, records>>

RecordRequest(r) ==
  /\ At(r, "record")
  /\ request' = [request EXCEPT ![req[r].env].status = "sent"]
  /\ Finish(r)
  /\ UNCHANGED <<docusign, answered, copies, outcomes>>

(* The signer opens it, signs or declines; the sender voids it.            *)
SignerActs(e, s) ==
  /\ \/ envelope[e] = "sent" /\ s = "delivered"
     \/ envelope[e] \in Live /\ s \in Terminal
  /\ envelope' = [envelope EXCEPT ![e] = s]
  /\ raised' = raised \cup {[env |-> e, status |-> s]}
  /\ UNCHANGED <<answered, records, req>>

-----------------------------------------------------------------------------
(* A delivery: handleNotification looks the envelope up.                   *)
Receive(r, n) ==
  /\ req[r] = Idle
  /\ n \in raised
  /\ req' = [req EXCEPT ![r] =
       [at |-> IF request[n.env].status = "none" THEN "answer" ELSE "claim",
        env |-> n.env, event |-> n]]
  /\ UNCHANGED <<docusign, answered, records>>

(* An envelope with no row is ignored.                                     *)
Ignore(r) ==
  /\ At(r, "answer")
  /\ Answer(r)
  /\ UNCHANGED <<docusign, records>>

(* Mutant: a status is written whatever the row holds.                     *)
Claimable_Any(e) == TRUE

(* Mutant: only a row that is not already completed is protected.          *)
Claimable_NotCompleted(e) == request[e].status # "completed"

(* The row's status is written unless it is an outcome already.            *)
Claimable(e) == request[e].status \notin Terminal

ClaimNothing(r) ==
  /\ At(r, "claim")
  /\ ~Claimable(req[r].env)
  /\ Answer(r)
  /\ UNCHANGED <<docusign, records>>

ClaimLive(r) ==
  /\ At(r, "claim")
  /\ req[r].event.status \in Live
  /\ Claimable(req[r].env)
  /\ request' = [request EXCEPT ![req[r].env].status = req[r].event.status]
  /\ Answer(r)
  /\ UNCHANGED <<docusign, copies, outcomes>>

(* declined and voided leave an audit line, written after the status;      *)
(* completed fetches and stores the signed copy (handleCompleted).         *)
ClaimTerminal(r) ==
  /\ At(r, "claim")
  /\ req[r].event.status \in Terminal
  /\ Claimable(req[r].env)
  /\ request' = [request EXCEPT ![req[r].env].status = req[r].event.status]
  /\ Go(r, IF req[r].event.status = "completed" THEN "fetch" ELSE "audit")
  /\ UNCHANGED <<docusign, answered, copies, outcomes>>

AuditOutcome(r) ==
  /\ At(r, "audit")
  /\ outcomes' = [outcomes EXCEPT ![req[r].env] = @ + 1]
  /\ Answer(r)
  /\ UNCHANGED <<docusign, request, copies>>

Fetch(r) ==
  /\ At(r, "fetch")
  /\ Go(r, "store")
  /\ UNCHANGED <<docusign, answered, records>>

(* DocuSign answers the fetch with an error: logged, and the delivery is   *)
(* still answered 2xx.                                                     *)
FetchRefused(r) ==
  /\ At(r, "fetch")
  /\ Answer(r)
  /\ UNCHANGED <<docusign, records>>

(* The Document, the link to it and the audit line, in one transaction.    *)
StoreCopy(r) ==
  /\ At(r, "store")
  /\ copies' = [copies EXCEPT ![req[r].env] = @ + 1]
  /\ request' = [request EXCEPT ![req[r].env].signed = TRUE]
  /\ outcomes' = [outcomes EXCEPT ![req[r].env] = @ + 1]
  /\ Answer(r)
  /\ UNCHANGED docusign

(* Mutant: an error in a delivery is caught and answered 2xx.              *)
Fail_Answered(r) ==
  /\ req[r] # Idle
  /\ IF "event" \in DOMAIN req[r] THEN Answer(r) ELSE Finish(r) /\ UNCHANGED answered
  /\ UNCHANGED <<docusign, records>>

Fail(r) ==
  /\ req[r] # Idle
  /\ Finish(r)
  /\ UNCHANGED <<docusign, answered, records>>

-----------------------------------------------------------------------------
Claims(r) == ClaimNothing(r) \/ ClaimLive(r) \/ ClaimTerminal(r)

Goes(r) ==
  \/ CreateEnvelope(r) \/ RecordRequest(r)
  \/ Ignore(r) \/ Claims(r)
  \/ AuditOutcome(r) \/ Fetch(r) \/ FetchRefused(r) \/ StoreCopy(r)
  \/ Fail(r)

Next ==
  \/ \E r \in Reqs : Goes(r)
  \/ \E r \in Reqs, e \in Envelopes : ReadForSend(r, e)
  \/ \E r \in Reqs, n \in Events : Receive(r, n)
  \/ \E e \in Envelopes, s \in Live \cup Terminal : SignerActs(e, s)

Spec == Init /\ [][Next]_vars

(* A handler goes on or fails; DocuSign delivers an event until one        *)
(* delivery is answered; and deliveries do not all fail.                   *)
Carries(r, n) == req[r] # Idle /\ "event" \in DOMAIN req[r] /\ req[r].event = n
Fairness ==
  /\ \A r \in Reqs : WF_vars(Goes(r))
  /\ \A n \in Events :
       /\ SF_vars(\E r \in Reqs : n \notin answered /\ Receive(r, n))
       /\ SF_vars(\E r \in Reqs : Carries(r, n) /\ Claims(r))

FairSpec == Spec /\ Fairness

-----------------------------------------------------------------------------
TypeOK ==
  /\ envelope \in [Envelopes -> {"none"} \cup Live \cup Terminal]
  /\ raised \subseteq Events /\ answered \subseteq raised
  /\ request \in [Envelopes -> Row]
  /\ copies \in [Envelopes -> Nat] /\ outcomes \in [Envelopes -> Nat]
  /\ req \in [Reqs -> Request \cup Hook \cup {Idle}]

(* However often and in whatever order events are delivered, an envelope   *)
(* leads to at most one signed copy and one outcome on record, the row is  *)
(* linked to a copy exactly when there is one, and it holds no outcome but *)
(* the one the envelope has (handleCompleted: "creates at most one signed  *)
(* Document").                                                             *)
OutcomeOnce ==
  \A e \in Envelopes :
    /\ copies[e] <= 1 /\ outcomes[e] <= 1
    /\ copies[e] = 1 <=> request[e].signed
    /\ request[e].status \in Terminal => request[e].status = envelope[e]

(* A row that reached an outcome keeps it: a stale or repeated event       *)
(* changes nothing (handleNotification: "Never let a stale, out-of-order   *)
(* ... retry regress a request that has already reached a terminal state").*)
OutcomeIsFinal ==
  [][\A e \in Envelopes :
       request[e].status \in Terminal => request'[e].status = request[e].status]_vars

(* An envelope whose row was on record before its outcome gets that        *)
(* outcome onto the row in the end, whatever deliveries fail.              *)
OutcomeArrives ==
  \A e \in Envelopes :
    []((request[e].status # "none" /\ envelope[e] \notin Terminal) =>
         [](envelope[e] \in Terminal => <>(request[e].status = envelope[e])))

(* A status is not replaced by an earlier one (handleNotification: "already *)
(* at/after this status").                                                 *)
StatusNeverGoesBack ==
  [][\A e \in Envelopes :
       request[e].status = "delivered" => request'[e].status # "sent"]_vars

(* The signed copy of a completed request is stored in the end             *)
(* (handleCompleted: the next redelivery "can still pick the document      *)
(* fetch back up").                                                        *)
SignedCopyArrives ==
  \A e \in Envelopes : request[e].status = "completed" ~> request[e].signed
=============================================================================
