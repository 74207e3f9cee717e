-------------------------- MODULE DeliveriesProofs --------------------------
(***************************************************************************)
(* For any number of envelopes and concurrent deliveries: Signatures keeps *)
(* its types, an envelope leads to one outcome at most, and an outcome on  *)
(* the row is final.  For any subjects, runs and days: one reminder goes   *)
(* out within the cooldown, and whoever is passed over did get one.  For   *)
(* any mails the server still offers: each is a row once.  The three parts *)
(* of MCDeliveries put together: every mail and reminder once.             *)
(*                                                                         *)
(* The update that claims the row is what makes an outcome one: a row      *)
(* leaves the claimable statuses once, so at most one delivery is ever     *)
(* past the claim (Sole), and until it has stored the copy or written the  *)
(* audit line there is neither (Pending).                                  *)
(***************************************************************************)
EXTENDS MCDeliveries, FiniteSetTheorems, TLAPS

(* A delivery that has claimed e's row and not finished with it.           *)
Past(r, e) == /\ req[r] # Idle /\ req[r].env = e
              /\ req[r].at \in {"audit", "fetch", "store"}

Sending(r, e) == /\ req[r] # Idle /\ req[r].env = e
                 /\ req[r].at \in {"post", "record"}

(* Events tell what the envelope went through, and its end is one.         *)
EventsTrue ==
  /\ \A n \in raised : /\ envelope[n.env] # "none"
                       /\ n.status \in Terminal => envelope[n.env] = n.status
  /\ \A r \in Reqs : req[r] # Idle /\ req[r] \in Hook =>
       req[r].event \in raised /\ req[r].event.env = req[r].env

(* A row appears once, by the one request that made its envelope.          *)
RowsFollow ==
  \A e \in Envelopes :
    /\ envelope[e] = "none" => request[e].status = "none"
    /\ \A r \in Reqs : Sending(r, e) =>
         /\ request[e].status = "none"
         /\ req[r].at = "post" => envelope[e] = "none"
         /\ req[r].at = "record" => envelope[e] # "none"
         /\ \A o \in Reqs : Sending(o, e) => o = r

(* A delivery at the claim found a row.                                    *)
Known == \A r \in Reqs : At(r, "claim") => request[req[r].env].status # "none"

Sole == \A e \in Envelopes : \A r, o \in Reqs : Past(r, e) /\ Past(o, e) => r = o

Nothing(e) == copies[e] = 0 /\ outcomes[e] = 0 /\ ~request[e].signed

Pending ==
  \A e \in Envelopes :
    /\ request[e].status \notin Terminal => Nothing(e)
    /\ \A r \in Reqs : Past(r, e) =>
         /\ Nothing(e)
         /\ request[e].status \in Terminal
         /\ req[r].at \in {"fetch", "store"} => request[e].status = "completed"

IInv ==
  TypeOK /\ EventsTrue /\ RowsFollow /\ Known /\ Sole /\ Pending /\ OutcomeOnce

USE DEF Idle, At

-----------------------------------------------------------------------------
(* What a request in a slot is, and what each of its steps makes of it.    *)
LEMMA SlotType ==
  ASSUME TypeOK, NEW r \in Reqs, req[r] # Idle
  PROVE  /\ req[r] \in Request \/ req[r] \in Hook
         /\ req[r].env \in Envelopes
         /\ req[r].at \in {"post", "record"} => req[r] \in Request
         /\ req[r].at \in {"answer", "claim", "audit", "fetch", "store"} => req[r] \in Hook
  BY DEF TypeOK, Request, Hook

LEMMA InitHolds == Init => IInv
  BY DEF Init, IInv, TypeOK, EventsTrue, RowsFollow, Known, Sole, Pending, OutcomeOnce,
         Row, Live, Terminal, Past, Sending, Nothing

-----------------------------------------------------------------------------
(* The three frames: a slot goes idle, a slot moves on with nothing else   *)
(* but its own place changed, a slot goes idle after answering.            *)
LEMMA FinishFrame ==
  ASSUME IInv, NEW r \in Reqs, Finish(r), UNCHANGED <<docusign, records>>,
         answered' \in SUBSET raised
  PROVE  IInv'
<1>1. \A o \in Reqs : req'[o] # Idle => req'[o] = req[o] /\ req[o] # Idle
  BY DEF Finish, IInv, TypeOK
<1>2. TypeOK'
  BY DEF Finish, IInv, TypeOK, docusign, records
<1>3. EventsTrue'
  BY <1>1 DEF IInv, EventsTrue, docusign
<1>4. RowsFollow'
  BY <1>1 DEF IInv, RowsFollow, Sending, docusign, records
<1>5. Sole'
  BY <1>1 DEF IInv, Sole, Past
<1>6. Pending'
  BY <1>1 DEF IInv, Pending, Past, Nothing, records
<1>7. OutcomeOnce'
  BY DEF IInv, OutcomeOnce, docusign, records
<1>20. Known'
  BY <1>1 DEF IInv, Known, records
<1> QED
  BY <1>20, <1>2, <1>3, <1>4, <1>5, <1>6, <1>7 DEF IInv

LEMMA AnswerIsRaised ==
  ASSUME IInv, NEW r \in Reqs, req[r] # Idle, req[r] \in Hook, Answer(r)
  PROVE  answered' \in SUBSET raised
  BY DEF IInv, EventsTrue, TypeOK, Answer

(* A slot moves on to a step that claims nothing and sends nothing new.    *)
LEMMA SlotChanges ==
  ASSUME IInv, NEW r \in Reqs, NEW h,
         h \in Hook, h.event \in raised, h.event.env = h.env,
         h.at \in {"answer", "claim"} \/ (h.at = "store" /\ At(r, "fetch") /\ h.env = req[r].env),
         h.at = "claim" => request[h.env].status # "none",
         req' = [req EXCEPT ![r] = h], UNCHANGED <<docusign, answered, records>>
  PROVE  IInv'
<1>1. /\ \A o \in Reqs : o # r => req'[o] = req[o]
      /\ req'[r] = h /\ h # Idle
  BY SignatureNoneAssumption DEF IInv, TypeOK
<1>2. TypeOK'
  BY <1>1 DEF IInv, TypeOK, docusign, records
<1>3. EventsTrue'
  BY <1>1 DEF IInv, EventsTrue, docusign
<1>4. \A o \in Reqs, e \in Envelopes :
        /\ Sending(o, e)' => Sending(o, e) /\ req'[o] = req[o]
        /\ Past(o, e)' => Past(o, e)
        /\ Past(o, e)' /\ req'[o].at \in {"fetch", "store"} => req[o].at \in {"fetch", "store"}
  BY <1>1 DEF Sending, Past
<1>5. RowsFollow'
  BY <1>4 DEF IInv, RowsFollow, docusign, records
<1>6. Sole'
  BY <1>4 DEF IInv, Sole
<1>7. Pending'
  BY <1>4 DEF IInv, Pending, Nothing, records
<1>8. OutcomeOnce'
  BY DEF IInv, OutcomeOnce, docusign, records
<1>20. Known'
  BY <1>1 DEF IInv, Known, records
<1> QED
  BY <1>20, <1>2, <1>3, <1>5, <1>6, <1>7, <1>8 DEF IInv

-----------------------------------------------------------------------------
(* Sending a document out.                                                 *)
LEMMA ReadForSendStep ==
  ASSUME IInv, NEW r \in Reqs, NEW e \in Envelopes, ReadForSend(r, e)
  PROVE  IInv'
<1> DEFINE h == [at |-> "post", env |-> e]
<1>1. /\ \A o \in Reqs : o # r => req'[o] = req[o]
      /\ req'[r] = h /\ h # Idle /\ h \in Request /\ h \notin Hook
  BY SignatureNoneAssumption DEF IInv, TypeOK, ReadForSend, Request, Hook
<1>2. TypeOK'
  BY <1>1 DEF IInv, TypeOK, docusign, records, ReadForSend
<1>3. EventsTrue'
  BY <1>1 DEF IInv, EventsTrue, docusign, ReadForSend
<1>4. \A o \in Reqs, f \in Envelopes :
        /\ Past(o, f)' => Past(o, f) /\ req'[o] = req[o]
        /\ Sending(o, f)' /\ o # r => Sending(o, f) /\ req'[o] = req[o] /\ f # e
        /\ Sending(r, f)' => f = e
  BY <1>1 DEF Sending, Past, ReadForSend
<1>5. RowsFollow'
  <2>1. envelope[e] = "none" /\ request[e].status = "none"
    BY DEF IInv, RowsFollow, ReadForSend
  <2> QED
    BY <1>1, <1>4, <2>1 DEF IInv, RowsFollow, docusign, records, ReadForSend
<1>6. Sole'
  BY <1>4 DEF IInv, Sole
<1>7. Pending'
  BY <1>4 DEF IInv, Pending, Nothing, records, ReadForSend
<1>8. OutcomeOnce'
  BY DEF IInv, OutcomeOnce, docusign, records, ReadForSend
<1>20. Known'
  BY <1>1 DEF IInv, Known, ReadForSend, records
<1> QED
  BY <1>20, <1>2, <1>3, <1>5, <1>6, <1>7, <1>8 DEF IInv

LEMMA CreateEnvelopeStep ==
  ASSUME IInv, NEW r \in Reqs, CreateEnvelope(r)
  PROVE  IInv'
<1> DEFINE e == req[r].env
<1>1. e \in Envelopes /\ req[r] \in Request
  BY SlotType DEF IInv, CreateEnvelope
<1>2. /\ \A o \in Reqs : o # r => req'[o] = req[o]
      /\ req'[r] = [at |-> "record", env |-> e]
      /\ req'[r] # Idle /\ req'[r] \in Request /\ req'[r] \notin Hook
  BY <1>1, SignatureNoneAssumption DEF IInv, TypeOK, CreateEnvelope, Go, Request, Hook
<1>3. envelope[e] = "none" /\ request[e].status = "none"
  BY <1>1 DEF IInv, RowsFollow, Sending, CreateEnvelope
<1>4. TypeOK'
  <2>1. req' \in [Reqs -> Request \cup Hook \cup {Idle}]
    BY <1>2 DEF IInv, TypeOK, CreateEnvelope, Go
  <2>2. envelope' \in [Envelopes -> {"none"} \cup Live \cup Terminal]
    BY <1>1 DEF IInv, TypeOK, CreateEnvelope, Live
  <2>3. raised' \subseteq Events /\ answered' \subseteq raised'
    BY <1>1 DEF IInv, TypeOK, CreateEnvelope, Events, Live
  <2> QED
    BY <2>1, <2>2, <2>3 DEF IInv, TypeOK, CreateEnvelope, records
<1>5. EventsTrue'
  BY <1>1, <1>2, <1>3 DEF IInv, EventsTrue, TypeOK, CreateEnvelope, Events, Terminal
<1>6. \A o \in Reqs, f \in Envelopes :
        /\ Past(o, f)' => Past(o, f) /\ req'[o] = req[o]
        /\ Sending(o, f)' => Sending(o, f)
        /\ Sending(o, f)' /\ o # r => req'[o] = req[o]
  BY <1>1, <1>2 DEF Sending, Past, CreateEnvelope
<1>7. RowsFollow'
  <2> SUFFICES ASSUME NEW f \in Envelopes
               PROVE  /\ envelope'[f] = "none" => request'[f].status = "none"
                      /\ \A o \in Reqs : Sending(o, f)' =>
                           /\ request'[f].status = "none"
                           /\ req'[o].at = "post" => envelope'[f] = "none"
                           /\ req'[o].at = "record" => envelope'[f] # "none"
                           /\ \A q \in Reqs : Sending(q, f)' => q = o
    BY DEF RowsFollow
  <2>1. Sending(r, e)
    BY <1>1 DEF Sending, CreateEnvelope
  <2>2. CASE f = e
    BY <2>1, <2>2, <1>1, <1>2, <1>3, <1>6 DEF IInv, RowsFollow, TypeOK, CreateEnvelope, records
  <2>3. CASE f # e
    <3>1. envelope'[f] = envelope[f] /\ ~Sending(r, f)
      BY <2>3, <1>1 DEF IInv, TypeOK, CreateEnvelope, Sending
    <3> QED
      BY <2>3, <3>1, <1>2, <1>6 DEF IInv, RowsFollow, CreateEnvelope, records
  <2> QED
    BY <2>2, <2>3
<1>8. Sole'
  BY <1>6 DEF IInv, Sole
<1>9. Pending'
  BY <1>6 DEF IInv, Pending, Nothing, records, CreateEnvelope
<1>10. OutcomeOnce'
  BY <1>1, <1>3 DEF IInv, OutcomeOnce, TypeOK, records, CreateEnvelope, Terminal
<1>20. Known'
  BY <1>2 DEF IInv, Known, CreateEnvelope, records
<1> QED
  BY <1>20, <1>4, <1>5, <1>7, <1>8, <1>9, <1>10 DEF IInv

LEMMA RecordRequestStep ==
  ASSUME IInv, NEW r \in Reqs, RecordRequest(r)
  PROVE  IInv'
<1> DEFINE e == req[r].env
<1>1. e \in Envelopes /\ Sending(r, e)
  BY SlotType DEF IInv, RecordRequest, Sending
<1>2. \A o \in Reqs : req'[o] # Idle => req'[o] = req[o] /\ req[o] # Idle /\ o # r
  BY DEF RecordRequest, Finish, IInv, TypeOK
<1>3. envelope[e] # "none" /\ request[e].status = "none"
  BY <1>1 DEF IInv, RowsFollow, RecordRequest
<1>4. request[e] \in Row /\ request[e].signed = FALSE /\ Nothing(e)
  BY <1>1, <1>3 DEF IInv, TypeOK, Row, Pending, Terminal, Nothing
<1>5. /\ request'[e] = [status |-> "sent", signed |-> FALSE]
      /\ \A f \in Envelopes \ {e} : request'[f] = request[f]
      /\ request' \in [Envelopes -> Row]
  BY <1>1, <1>3, <1>4 DEF IInv, TypeOK, RecordRequest, Row, Live
<1>6. TypeOK'
  BY <1>5 DEF IInv, TypeOK, RecordRequest, Finish, docusign
<1>7. EventsTrue'
  BY <1>2 DEF IInv, EventsTrue, RecordRequest, docusign
<1>8. \A o \in Reqs, f \in Envelopes :
        /\ Past(o, f)' => Past(o, f) /\ req'[o] = req[o] /\ f # e
        /\ Sending(o, f)' => Sending(o, f) /\ req'[o] = req[o] /\ f # e
  <2>1. \A o \in Reqs : ~Past(o, e)
    BY <1>1, <1>3 DEF IInv, Pending, Terminal
  <2>2. \A o \in Reqs : Sending(o, e) => o = r
    BY <1>1 DEF IInv, RowsFollow
  <2> QED
    BY <1>2, <2>1, <2>2 DEF Past, Sending
<1>9. RowsFollow'
  BY <1>3, <1>5, <1>8 DEF IInv, RowsFollow, RecordRequest, docusign
<1>10. Sole'
  BY <1>8 DEF IInv, Sole
<1>11. Pending'
  BY <1>4, <1>5, <1>8 DEF IInv, Pending, Nothing, RecordRequest
<1>12. OutcomeOnce'
  BY <1>4, <1>5 DEF IInv, OutcomeOnce, Nothing, RecordRequest, docusign, Terminal
<1>20. Known'
  BY <1>2, <1>5, SlotType DEF IInv, Known
<1> QED
  BY <1>20, <1>6, <1>7, <1>9, <1>10, <1>11, <1>12 DEF IInv

(* An envelope that ended moves no more, so an event of its end is true    *)
(* for good.                                                               *)
LEMMA SignerActsStep ==
  ASSUME IInv, NEW e \in Envelopes, NEW s \in Live \cup Terminal, SignerActs(e, s)
  PROVE  IInv'
<1>1. envelope[e] \in Live /\ envelope[e] \notin Terminal /\ envelope[e] # "none"
  BY DEF SignerActs, Live, Terminal
<1>2. /\ envelope'[e] = s /\ s # "none"
      /\ \A f \in Envelopes \ {e} : envelope'[f] = envelope[f]
      /\ envelope' \in [Envelopes -> {"none"} \cup Live \cup Terminal]
  BY DEF IInv, TypeOK, SignerActs, Live, Terminal
<1>3. TypeOK'
  BY <1>2 DEF IInv, TypeOK, SignerActs, records, Events
<1>4. EventsTrue'
  <2>1. \A n \in raised' : /\ envelope'[n.env] # "none"
                           /\ n.status \in Terminal => envelope'[n.env] = n.status
    <3> SUFFICES ASSUME NEW n \in raised'
                 PROVE  /\ envelope'[n.env] # "none"
                        /\ n.status \in Terminal => envelope'[n.env] = n.status
      OBVIOUS
    <3>1. CASE n = [env |-> e, status |-> s]
      BY <3>1, <1>2
    <3>2. CASE n \in raised
      BY <3>2, <1>1, <1>2 DEF IInv, EventsTrue, TypeOK, Events
    <3> QED
      BY <3>1, <3>2 DEF SignerActs
  <2>2. raised \subseteq raised' /\ req' = req
    BY DEF SignerActs
  <2> QED
    BY <2>1, <2>2 DEF IInv, EventsTrue
<1>5. RowsFollow'
  <2>1. \A o \in Reqs : Sending(o, e) => req[o].at # "post"
    BY <1>1 DEF IInv, RowsFollow
  <2> QED
    BY <1>1, <1>2, <2>1 DEF IInv, RowsFollow, Sending, SignerActs, records
<1>6. Sole' /\ Pending'
  BY DEF IInv, Sole, Pending, Past, Nothing, SignerActs, records
<1>7. OutcomeOnce'
  <2>1. request[e].status \notin Terminal
    BY <1>1 DEF IInv, OutcomeOnce
  <2> QED
    BY <1>2, <2>1 DEF IInv, OutcomeOnce, SignerActs, records
<1>20. Known'
  BY DEF IInv, Known, SignerActs, records
<1> QED
  BY <1>20, <1>3, <1>4, <1>5, <1>6, <1>7 DEF IInv

-----------------------------------------------------------------------------
(* Deliveries.                                                             *)
LEMMA ReceiveStep ==
  ASSUME IInv, NEW r \in Reqs, NEW n \in Events, Receive(r, n)
  PROVE  IInv'
<1> DEFINE h == [at |-> IF request[n.env].status = "none" THEN "answer" ELSE "claim",
                 env |-> n.env, event |-> n]
<1>1. h \in Hook /\ h.event \in raised /\ h.event.env = h.env
  BY DEF Receive, Hook, Events
<1>2. h.at \in {"answer", "claim"} /\ (h.at = "claim" => request[h.env].status # "none")
  OBVIOUS
<1> HIDE DEF h
<1> QED
  BY <1>1, <1>2, SlotChanges DEF Receive, h

LEMMA FetchStep ==
  ASSUME IInv, NEW r \in Reqs, Fetch(r)
  PROVE  IInv'
<1> DEFINE h == [req[r] EXCEPT !.at = "store"]
<1>1. req[r] # Idle /\ req[r] \in Hook
  BY SlotType DEF IInv, Fetch
<1>2. h \in Hook /\ h.event = req[r].event /\ h.env = req[r].env /\ h.at = "store"
  BY <1>1 DEF Hook
<1>3. h.event \in raised /\ h.event.env = h.env
  BY <1>1, <1>2 DEF IInv, EventsTrue
<1>4. req' = [req EXCEPT ![r] = h]
  BY DEF Fetch, Go, IInv, TypeOK
<1> HIDE DEF h
<1> QED
  BY <1>2, <1>3, <1>4, SlotChanges DEF Fetch

(* The claim that writes a status which is no outcome.                     *)
LEMMA ClaimLiveStep ==
  ASSUME IInv, NEW r \in Reqs, ClaimLive(r)
  PROVE  IInv'
<1> DEFINE e == req[r].env
           s == req[r].event.status
<1>1. e \in Envelopes /\ req[r] # Idle /\ req[r] \in Hook
  BY SlotType DEF IInv, ClaimLive
<1>2. /\ req[r].event \in raised /\ req[r].event.env = e
      /\ envelope[e] # "none" /\ s \in Live
  BY <1>1 DEF IInv, EventsTrue, ClaimLive
<1>3. request[e].status \notin Terminal /\ request[e] \in Row
  BY <1>1 DEF IInv, TypeOK, ClaimLive, Claimable
<1>4. request[e].signed = FALSE
  BY <1>3 DEF Row, Terminal
<1>5. /\ request'[e].status = s /\ request'[e].signed = FALSE
      /\ \A f \in Envelopes \ {e} : request'[f] = request[f]
      /\ request' \in [Envelopes -> Row]
  BY <1>1, <1>2, <1>3, <1>4 DEF IInv, TypeOK, ClaimLive, Row
<1>6. \A o \in Reqs : req'[o] # Idle => req'[o] = req[o] /\ req[o] # Idle
  BY DEF ClaimLive, Answer, Finish, IInv, TypeOK
<1>7. TypeOK'
  <2>1. answered' \in SUBSET raised
    BY <1>1, AnswerIsRaised DEF ClaimLive
  <2> QED
    BY <1>5, <2>1 DEF IInv, TypeOK, ClaimLive, Answer, Finish, docusign
<1>8. EventsTrue'
  BY <1>6 DEF IInv, EventsTrue, ClaimLive, docusign
<1>9. RowsFollow'
  <2>1. \A o \in Reqs : ~Sending(o, e)
    <3>1. request[e].status # "none"
      BY <1>1 DEF IInv, Known, ClaimLive
    <3> QED
      BY <1>1, <3>1 DEF IInv, RowsFollow
  <2> QED
    BY <1>2, <1>5, <1>6, <2>1 DEF IInv, RowsFollow, Sending, ClaimLive, docusign
<1>10. Known'
  BY <1>2, <1>5, <1>6, SlotType DEF IInv, Known, Live
<1>11. \A o \in Reqs : ~Past(o, e)
  BY <1>1, <1>3 DEF IInv, Pending
<1>12. Sole'
  BY <1>6 DEF IInv, Sole, Past
<1>13. Pending'
  BY <1>1, <1>3, <1>4, <1>5, <1>6, <1>11 DEF IInv, Pending, Past, Nothing, ClaimLive
<1>14. OutcomeOnce'
  <2>1. request'[e].status \notin Terminal
    BY <1>2, <1>5 DEF Live, Terminal
  <2> QED
    BY <1>4, <1>5, <2>1 DEF IInv, OutcomeOnce, ClaimLive, docusign
<1> QED
  BY <1>7, <1>8, <1>9, <1>10, <1>12, <1>13, <1>14 DEF IInv

(* The claim that writes an outcome: nobody else is past it, and the event *)
(* is the envelope's end.                                                  *)
LEMMA ClaimTerminalStep ==
  ASSUME IInv, NEW r \in Reqs, ClaimTerminal(r)
  PROVE  IInv'
<1> DEFINE e == req[r].env
           s == req[r].event.status
           h == [req[r] EXCEPT !.at = IF s = "completed" THEN "fetch" ELSE "audit"]
<1>1. e \in Envelopes /\ req[r] # Idle /\ req[r] \in Hook
  BY SlotType DEF IInv, ClaimTerminal
<1>2. /\ req[r].event \in raised /\ req[r].event.env = e
      /\ envelope[e] = s /\ s \in Terminal
  BY <1>1 DEF IInv, EventsTrue, ClaimTerminal
<1>3. request[e].status \notin Terminal /\ request[e] \in Row
  BY <1>1 DEF IInv, TypeOK, ClaimTerminal, Claimable
<1>4. request[e].signed = FALSE /\ request[e].status # "none"
  BY <1>1, <1>3 DEF Row, Terminal, IInv, Known, ClaimTerminal
<1>5. /\ request'[e].status = s /\ request'[e].signed = FALSE
      /\ \A f \in Envelopes \ {e} : request'[f] = request[f]
      /\ request' \in [Envelopes -> Row]
  BY <1>1, <1>2, <1>3, <1>4 DEF IInv, TypeOK, ClaimTerminal, Row, Terminal
<1>6. /\ h \in Hook /\ h.event = req[r].event /\ h.env = e
      /\ h.at \in {"fetch", "audit"} /\ (h.at = "fetch" => s = "completed")
  BY <1>1 DEF Hook
<1>7. /\ \A o \in Reqs : o # r => req'[o] = req[o]
      /\ req'[r] = h /\ h # Idle
      /\ req' \in [Reqs -> Request \cup Hook \cup {Idle}]
  <2>1. req' = [req EXCEPT ![r] = h]
    BY DEF ClaimTerminal, Go, IInv, TypeOK
  <2> QED
    BY <1>6, <2>1, SignatureNoneAssumption DEF IInv, TypeOK
<1> HIDE DEF h
<1>8. TypeOK'
  BY <1>5, <1>7 DEF IInv, TypeOK, ClaimTerminal, docusign
<1>9. EventsTrue'
  BY <1>2, <1>6, <1>7 DEF IInv, EventsTrue, ClaimTerminal, docusign
<1>10. \A o \in Reqs : ~Sending(o, e) /\ ~Past(o, e)
  BY <1>1, <1>3, <1>4 DEF IInv, RowsFollow, Pending
<1>11. \A o \in Reqs, f \in Envelopes :
         /\ Sending(o, f)' => Sending(o, f) /\ req'[o] = req[o] /\ f # e
         /\ Past(o, f)' => \/ o = r /\ f = e
                           \/ Past(o, f) /\ req'[o] = req[o] /\ f # e
  BY <1>1, <1>6, <1>7, <1>10 DEF Sending, Past
<1>12. RowsFollow'
  BY <1>2, <1>5, <1>11 DEF IInv, RowsFollow, ClaimTerminal, docusign, Terminal
<1>13. Known'
  BY <1>2, <1>5, <1>6, <1>7, SlotType DEF IInv, Known, Terminal
<1>14. Sole'
  BY <1>11 DEF IInv, Sole
<1>15. Pending'
  <2>1. Nothing(e)
    BY <1>1, <1>3 DEF IInv, Pending
  <2> SUFFICES ASSUME NEW f \in Envelopes
               PROVE  /\ request'[f].status \notin Terminal => Nothing(f)'
                      /\ \A o \in Reqs : Past(o, f)' =>
                           /\ Nothing(f)'
                           /\ request'[f].status \in Terminal
                           /\ req'[o].at \in {"fetch", "store"} => request'[f].status = "completed"
    BY DEF Pending
  <2>2. Nothing(f)' <=> Nothing(f)
    BY <1>4, <1>5 DEF Nothing, ClaimTerminal
  <2>3. CASE f = e
    BY <2>1, <2>2, <2>3, <1>2, <1>5, <1>6, <1>7, <1>11
  <2>4. CASE f # e
    BY <2>2, <2>4, <1>5, <1>11 DEF IInv, Pending
  <2> QED
    BY <2>3, <2>4
<1>16. OutcomeOnce'
  BY <1>2, <1>4, <1>5 DEF IInv, OutcomeOnce, ClaimTerminal, docusign
<1> QED
  BY <1>8, <1>9, <1>12, <1>13, <1>14, <1>15, <1>16 DEF IInv

(* What the one delivery past the claim leaves behind.                     *)
LEMMA AuditOutcomeStep ==
  ASSUME IInv, NEW r \in Reqs, AuditOutcome(r)
  PROVE  IInv'
<1> DEFINE e == req[r].env
<1>1. e \in Envelopes /\ req[r] # Idle /\ req[r] \in Hook /\ Past(r, e)
  BY SlotType DEF IInv, AuditOutcome, Past
<1>2. Nothing(e) /\ request[e].status \in Terminal
  BY <1>1 DEF IInv, Pending
<1>3. /\ outcomes'[e] = 1 /\ outcomes' \in [Envelopes -> Nat]
      /\ \A f \in Envelopes \ {e} : outcomes'[f] = outcomes[f]
  BY <1>1, <1>2 DEF IInv, TypeOK, AuditOutcome, Nothing
<1>4. \A o \in Reqs : req'[o] # Idle => req'[o] = req[o] /\ req[o] # Idle /\ o # r
  BY DEF AuditOutcome, Answer, Finish, IInv, TypeOK
<1>5. TypeOK'
  <2>1. answered' \in SUBSET raised
    BY <1>1, AnswerIsRaised DEF AuditOutcome
  <2> QED
    BY <1>3, <2>1 DEF IInv, TypeOK, AuditOutcome, Answer, Finish, docusign
<1>6. EventsTrue' /\ Known'
  BY <1>4 DEF IInv, EventsTrue, Known, AuditOutcome, docusign
<1>7. RowsFollow'
  BY <1>4 DEF IInv, RowsFollow, Sending, AuditOutcome, docusign
<1>8. \A o \in Reqs, f \in Envelopes : Past(o, f)' => Past(o, f) /\ f # e
  BY <1>1, <1>4 DEF IInv, Sole, Past
<1>9. Sole'
  BY <1>8 DEF IInv, Sole
<1>10. Pending'
  BY <1>2, <1>3, <1>4, <1>8 DEF IInv, Pending, Past, Nothing, AuditOutcome
<1>11. OutcomeOnce'
  BY <1>2, <1>3 DEF IInv, OutcomeOnce, AuditOutcome, docusign
<1> QED
  BY <1>5, <1>6, <1>7, <1>9, <1>10, <1>11 DEF IInv

LEMMA StoreCopyStep ==
  ASSUME IInv, NEW r \in Reqs, StoreCopy(r)
  PROVE  IInv'
<1> DEFINE e == req[r].env
<1>1. e \in Envelopes /\ req[r] # Idle /\ req[r] \in Hook /\ Past(r, e)
  BY SlotType DEF IInv, StoreCopy, Past
<1>2. Nothing(e) /\ request[e].status = "completed" /\ request[e] \in Row
  BY <1>1 DEF IInv, TypeOK, Pending, StoreCopy
<1>3. /\ outcomes'[e] = 1 /\ outcomes' \in [Envelopes -> Nat]
      /\ \A f \in Envelopes \ {e} : outcomes'[f] = outcomes[f]
  BY <1>1, <1>2 DEF IInv, TypeOK, StoreCopy, Nothing
<1>4. /\ copies'[e] = 1 /\ copies' \in [Envelopes -> Nat]
      /\ \A f \in Envelopes \ {e} : copies'[f] = copies[f]
  BY <1>1, <1>2 DEF IInv, TypeOK, StoreCopy, Nothing
<1>5. /\ request'[e].status = "completed" /\ request'[e].signed = TRUE
      /\ request' \in [Envelopes -> Row]
      /\ \A f \in Envelopes \ {e} : request'[f] = request[f]
  BY <1>1, <1>2 DEF IInv, TypeOK, StoreCopy, Row
<1>6. \A o \in Reqs : req'[o] # Idle => req'[o] = req[o] /\ req[o] # Idle /\ o # r
  BY DEF StoreCopy, Answer, Finish, IInv, TypeOK
<1>7. TypeOK'
  <2>1. answered' \in SUBSET raised
    BY <1>1, AnswerIsRaised DEF StoreCopy
  <2> QED
    BY <1>3, <1>4, <1>5, <2>1 DEF IInv, TypeOK, StoreCopy, Answer, Finish, docusign
<1>8. EventsTrue'
  BY <1>6 DEF IInv, EventsTrue, StoreCopy, docusign
<1>9. Known'
  BY <1>5, <1>6, SlotType DEF IInv, Known
<1>10. RowsFollow'
  BY <1>2, <1>5, <1>6 DEF IInv, RowsFollow, Sending, StoreCopy, docusign
<1>11. \A o \in Reqs, f \in Envelopes : Past(o, f)' => Past(o, f) /\ f # e
  BY <1>1, <1>6 DEF IInv, Sole, Past
<1>12. Sole'
  BY <1>11 DEF IInv, Sole
<1>13. Pending'
  BY <1>3, <1>4, <1>5, <1>6, <1>11 DEF IInv, Pending, Past, Nothing, Terminal
<1>14. OutcomeOnce'
  BY <1>2, <1>3, <1>4, <1>5 DEF IInv, OutcomeOnce, StoreCopy, docusign
<1> QED
  BY <1>7, <1>8, <1>9, <1>10, <1>12, <1>13, <1>14 DEF IInv

-----------------------------------------------------------------------------
(* Every other step only frees a slot.                                     *)
LEMMA AnswerStep ==
  ASSUME IInv, NEW r \in Reqs, Ignore(r) \/ ClaimNothing(r) \/ FetchRefused(r)
  PROVE  IInv'
<1>1. req[r] # Idle /\ req[r] \in Hook
  BY SlotType DEF IInv, Ignore, ClaimNothing, FetchRefused
<1>2. Answer(r) /\ UNCHANGED <<docusign, records>>
  BY DEF Ignore, ClaimNothing, FetchRefused
<1> QED
  BY <1>1, <1>2, AnswerIsRaised, FinishFrame DEF Answer

LEMMA FailStep ==
  ASSUME IInv, NEW r \in Reqs, Fail(r)
  PROVE  IInv'
BY FinishFrame DEF Fail, IInv, TypeOK

(* Every step keeps the invariant: one lemma per action above.             *)
LEMMA StepHolds == IInv /\ [Next]_vars => IInv'
<1> SUFFICES ASSUME IInv, [Next]_vars PROVE IInv'
  OBVIOUS
<1>1. CASE \E r \in Reqs : Goes(r)
  <2>1. PICK r \in Reqs : Goes(r)
    BY <1>1
  <2> QED
    BY <2>1, CreateEnvelopeStep, RecordRequestStep, ClaimLiveStep, ClaimTerminalStep,
       AuditOutcomeStep, FetchStep, StoreCopyStep, AnswerStep, FailStep DEF Goes, Claims
<1>2. CASE \E r \in Reqs, e \in Envelopes : ReadForSend(r, e)
  BY <1>2, ReadForSendStep
<1>3. CASE \E r \in Reqs, n \in Events : Receive(r, n)
  BY <1>3, ReceiveStep
<1>4. CASE \E e \in Envelopes, s \in Live \cup Terminal : SignerActs(e, s)
  BY <1>4, SignerActsStep
<1>5. CASE UNCHANGED vars
  BY <1>5 DEF vars, IInv, TypeOK, EventsTrue, RowsFollow, Sending, Known, Sole, Past,
     Pending, Nothing, OutcomeOnce
<1> QED
  BY <1>1, <1>2, <1>3, <1>4, <1>5 DEF Next

(* The inductive invariant holds in every reachable state.                 *)
THEOREM SignatureInvariant == Spec => []IInv
<1> QED
  BY InitHolds, StepHolds, PTL DEF Spec

(* The variables keep their types, whatever the number of envelopes and of *)
(* concurrent requests and deliveries.                                     *)
THEOREM SignatureTypeCorrect == Spec => []TypeOK
<1>1. IInv => TypeOK
  BY DEF IInv
<1> QED
  BY <1>1, SignatureInvariant, PTL

(* One outcome and one signed copy at most for an envelope, and the row's  *)
(* outcome is DocuSign's (handleCompleted's compare-and-set).              *)
THEOREM OutcomeAlwaysOnce == Spec => []OutcomeOnce
<1>1. IInv => OutcomeOnce
  BY DEF IInv
<1> QED
  BY <1>1, SignatureInvariant, PTL

(* No step of any handler takes an outcome back (handleNotification's      *)
(* conditional update, and RecordRequest writing a row that holds nothing).*)
THEOREM OutcomeAlwaysFinal == Spec => OutcomeIsFinal
<1>1. ASSUME IInv, Next, NEW e \in Envelopes, request[e].status \in Terminal
      PROVE  request'[e].status = request[e].status
  <2>1. CASE \E r \in Reqs : Goes(r)
    <3>1. PICK r \in Reqs : Goes(r)
      BY <2>1
    <3>2. CASE RecordRequest(r)
      <4>1. Sending(r, req[r].env) /\ req[r].env \in Envelopes
        BY <3>2, <1>1, SlotType DEF IInv, RecordRequest, Sending
      <4>2. req[r].env # e
        BY <4>1, <1>1 DEF IInv, RowsFollow, Terminal
      <4> QED
        BY <3>2, <4>2, <1>1 DEF RecordRequest, IInv, TypeOK
    <3>3. CASE ClaimLive(r) \/ ClaimTerminal(r)
      <4>1. req[r].env # e
        BY <3>3, <1>1 DEF ClaimLive, ClaimTerminal, Claimable
      <4> QED
        BY <3>3, <4>1, <1>1 DEF ClaimLive, ClaimTerminal, IInv, TypeOK
    <3>4. CASE StoreCopy(r)
      <4>1. req[r].env \in Envelopes
        BY <3>4, <1>1, SlotType DEF IInv, StoreCopy
      <4> QED
        BY <3>4, <4>1, <1>1 DEF StoreCopy, IInv, TypeOK, Row
    <3> QED
      BY <3>1, <3>2, <3>3, <3>4 DEF Goes, Claims, CreateEnvelope, Ignore, ClaimNothing,
         AuditOutcome, Fetch, FetchRefused, Fail, records
  <2>2. CASE ~\E r \in Reqs : Goes(r)
    BY <2>2, <1>1 DEF Next, ReadForSend, Receive, SignerActs, records
  <2> QED
    BY <2>1, <2>2
<1>2. IInv /\ [Next]_vars =>
        [\A e \in Envelopes :
           request[e].status \in Terminal => request'[e].status = request[e].status]_vars
  BY <1>1
<1> QED
  BY <1>2, SignatureInvariant, PTL DEF Spec, OutcomeIsFinal

-----------------------------------------------------------------------------
(* Reminders                                                               *)
Job == [at : {"next", "send", "record"}, left : SUBSET Subjects, about : Subjects \cup {None},
        status : {"SENT", "FAILED", None}]
LogRow ==
  [about : Subjects, what : {"reminder", "other"}, status : {"SENT", "FAILED"}, age : 0 .. Cooldown]
Mail == [about : Subjects, age : 0 .. Cooldown, n : Nat]

(* None is no run and no subject; days are counted.                        *)
RemindConstants == None \notin Job \cup Subjects /\ Cooldown \in Nat

RemindShape ==
  /\ due \subseteq Subjects /\ reminding \in BOOLEAN
  /\ log \subseteq LogRow /\ delivered \subseteq Mail /\ IsFiniteSet(delivered)
  /\ run \in [Runs -> Job \cup {None}]
  /\ \A r \in Runs : run[r] # None =>
       /\ run[r].at # "next" => run[r].about \in Subjects
       /\ run[r].at = "record" => run[r].status \in {"SENT", "FAILED"}

LEMMA RemindCardinality == \A S : Remind!Cardinality(S) = Cardinality(S)
BY DEF Remind!Cardinality, Cardinality, Remind!IsFiniteSet, IsFiniteSet

(* What is a day older was there the day before, and not too old.          *)
LEMMA OlderRows ==
  ASSUME RemindConstants, log \subseteq LogRow, NEW T, T = Remind!Older(log)
  PROVE  /\ T \subseteq LogRow
         /\ \A y \in T : \E x \in log : /\ x.age < Cooldown /\ y.age = x.age + 1
                                        /\ y.about = x.about /\ y.what = x.what
         /\ \A x \in log : x.age < Cooldown =>
              \E y \in T : y.age = x.age + 1 /\ y.about = x.about /\ y.what = x.what
<1>1. ASSUME NEW x \in log, x.age < Cooldown
      PROVE  LET y == [x EXCEPT !.age = @ + 1]
             IN  y \in LogRow /\ y.age = x.age + 1 /\ y.about = x.about /\ y.what = x.what
  BY <1>1 DEF LogRow, RemindConstants
<1>. QED
  BY <1>1 DEF Remind!Older

LEMMA OlderMails ==
  ASSUME RemindConstants, delivered \subseteq Mail, IsFiniteSet(delivered), NEW T, T = Remind!Older(delivered)
  PROVE  /\ T \subseteq Mail /\ IsFiniteSet(T)
         /\ \A y \in T : \E x \in delivered : /\ x.age < Cooldown /\ y.age = x.age + 1
                                              /\ y.about = x.about /\ y = [x EXCEPT !.age = @ + 1]
         /\ \A x \in delivered : x.age < Cooldown =>
              \E y \in T : y.age = x.age + 1 /\ y.about = x.about
<1>1. ASSUME NEW x \in delivered, x.age < Cooldown
      PROVE  LET y == [x EXCEPT !.age = @ + 1]
             IN  y \in Mail /\ y.age = x.age + 1 /\ y.about = x.about
  BY <1>1 DEF Mail, RemindConstants
<1>2. /\ T \subseteq Mail
      /\ \A y \in T : \E x \in delivered : /\ x.age < Cooldown /\ y.age = x.age + 1
                                           /\ y.about = x.about /\ y = [x EXCEPT !.age = @ + 1]
      /\ \A x \in delivered : x.age < Cooldown =>
           \E y \in T : y.age = x.age + 1 /\ y.about = x.about
  BY <1>1 DEF Remind!Older
<1>3. IsFiniteSet(T)
  <2>. DEFINE recent == {x \in delivered : x.age < Cooldown}
              f == [x \in recent |-> [x EXCEPT !.age = @ + 1]]
  <2>1. IsFiniteSet(recent)
    BY FS_Subset
  <2>2. f \in Surjection(recent, T)
    BY DEF Surjection, Remind!Older
  <2>. QED
    BY <2>1, <2>2, FS_Surjection
<1>. QED
  BY <1>2, <1>3

(* The steps of a run.                                                     *)
LEMMA LooksUp ==
  ASSUME RemindConstants, RemindShape, NEW r \in Runs, NEW s \in Subjects, Remind!LookUp(r, s)
  PROVE  \E j \in Job :
           /\ run' = [run EXCEPT ![r] = j] /\ run[r] \in Job /\ run[r].at = "next" /\ s \in run[r].left
           /\ j.left \subseteq run[r].left
           /\ UNCHANGED <<due, reminding, log, delivered>>
           /\ \/ /\ j.at = "next" /\ skipped' = {s}
                 /\ \E row \in log : row.about = s /\ row.what = "reminder"
              \/ /\ j.at = "send" /\ j.about = s /\ skipped' = {}
                 /\ ~\E row \in log : row.about = s /\ row.what = "reminder"
<1>1. run[r] \in Job /\ run[r].at = "next" /\ s \in run[r].left
  BY DEF Remind!LookUp, Remind!At, RemindShape
<1>2. CASE \E row \in log : Remind!Already(row, s)
  <2>. DEFINE j == [run[r] EXCEPT !.left = @ \ {s}]
  <2>1. j \in Job /\ j.left \subseteq run[r].left /\ j.at = "next"
    BY <1>1 DEF Job
  <2>2. run' = [run EXCEPT ![r] = j] /\ skipped' = {s} /\ UNCHANGED <<due, reminding, log, delivered>>
    BY <1>2 DEF Remind!LookUp, Remind!mail
  <2>. HIDE DEF j
  <2>. QED
    BY <1>1, <1>2, <2>1, <2>2 DEF Remind!Already
<1>3. CASE ~\E row \in log : Remind!Already(row, s)
  <2>. DEFINE j == [run[r] EXCEPT !.at = "send", !.about = s]
  <2>1. j \in Job /\ j.left \subseteq run[r].left /\ j.at = "send" /\ j.about = s
    BY <1>1 DEF Job
  <2>2. run' = [run EXCEPT ![r] = j] /\ skipped' = {} /\ UNCHANGED <<due, reminding, log, delivered>>
    BY <1>1, <1>3 DEF Remind!LookUp, Remind!mail, RemindShape
  <2>. HIDE DEF j
  <2>. QED
    BY <1>1, <1>3, <2>1, <2>2 DEF Remind!Already
<1>. QED
  BY <1>2, <1>3

LEMMA Delivers ==
  ASSUME RemindConstants, RemindShape, NEW r \in Runs, Remind!Deliver(r)
  PROVE  \E j \in Job, d \in Mail :
           /\ run' = [run EXCEPT ![r] = j] /\ run[r] \in Job /\ run[r].at = "send"
           /\ j.at = "record" /\ j.about = run[r].about /\ j.status = "SENT" /\ j.left = run[r].left
           /\ delivered' = delivered \cup {d} /\ d.about = run[r].about /\ d.age = 0
           /\ skipped' = {} /\ UNCHANGED <<due, reminding, log>>
<1>. DEFINE j == [run[r] EXCEPT !.at = "record", !.status = "SENT"]
            told == {d \in delivered : d.about = run[r].about}
            d == [about |-> run[r].about, age |-> 0, n |-> Cardinality(told)]
<1>1. run[r] \in Job /\ run[r].at = "send" /\ run[r].about \in Subjects
  BY DEF Remind!Deliver, Remind!At, RemindShape
<1>2. j \in Job /\ j.at = "record" /\ j.about = run[r].about /\ j.status = "SENT" /\ j.left = run[r].left
  BY <1>1 DEF Job
<1>3. Cardinality(told) \in Nat
  BY FS_Subset, FS_CardinalityType DEF RemindShape
<1>. HIDE DEF told
<1>4. d \in Mail /\ d.about = run[r].about /\ d.age = 0
  BY <1>1, <1>3 DEF Mail, RemindConstants
<1>5. delivered' = delivered \cup {d}
  BY RemindCardinality DEF Remind!Deliver, Remind!DeliveredTo, told
<1>6. run' = [run EXCEPT ![r] = j] /\ skipped' = {} /\ UNCHANGED <<due, reminding, log>>
  BY DEF Remind!Deliver, RemindShape
<1>. HIDE DEF j, d
<1>. QED
  BY <1>1, <1>2, <1>4, <1>5, <1>6

LEMMA IsRefused ==
  ASSUME RemindConstants, RemindShape, NEW r \in Runs, Remind!Refused(r)
  PROVE  \E j \in Job :
           /\ run' = [run EXCEPT ![r] = j] /\ run[r] \in Job /\ run[r].at = "send"
           /\ j.at = "record" /\ j.about = run[r].about /\ j.status = "FAILED" /\ j.left = run[r].left
           /\ skipped' = {} /\ UNCHANGED <<due, reminding, log, delivered>>
<1>. DEFINE j == [run[r] EXCEPT !.at = "record", !.status = "FAILED"]
<1>1. run[r] \in Job /\ run[r].at = "send" /\ run[r].about \in Subjects
  BY DEF Remind!Refused, Remind!At, RemindShape
<1>2. j \in Job /\ j.at = "record" /\ j.about = run[r].about /\ j.status = "FAILED" /\ j.left = run[r].left
  BY <1>1 DEF Job
<1>3. /\ run' = [run EXCEPT ![r] = j] /\ skipped' = {}
      /\ UNCHANGED <<due, reminding, log, delivered>>
  BY DEF Remind!Refused, Remind!mail, RemindShape
<1>. HIDE DEF j
<1>. QED
  BY <1>1, <1>2, <1>3

LEMMA Records ==
  ASSUME RemindConstants, RemindShape, NEW r \in Runs, Remind!Record(r) \/ Remind!RecordFails(r)
  PROVE  \E j \in Job, row \in LogRow :
           /\ run' = [run EXCEPT ![r] = j] /\ run[r] \in Job /\ run[r].at = "record"
           /\ j.at = "next" /\ j.left \subseteq run[r].left
           /\ row.about = run[r].about /\ row.what = "reminder" /\ row.age = 0
           /\ log' = log \cup {row} \/ log' = log
           /\ Remind!Record(r) => log' = log \cup {row}
           /\ skipped' = {} /\ UNCHANGED <<due, reminding, delivered>>
<1>. DEFINE j == [run[r] EXCEPT !.at = "next", !.left = @ \ {run[r].about}, !.about = None]
            row == [about |-> run[r].about, what |-> "reminder", status |-> run[r].status, age |-> 0]
<1>1. /\ run[r] \in Job /\ run[r].at = "record" /\ run[r].about \in Subjects
      /\ run[r].status \in {"SENT", "FAILED"}
  BY DEF Remind!Record, Remind!RecordFails, Remind!At, RemindShape
<1>2. j \in Job /\ j.at = "next" /\ j.left \subseteq run[r].left
  BY <1>1 DEF Job
<1>3. row \in LogRow /\ row.about = run[r].about /\ row.what = "reminder" /\ row.age = 0
  BY <1>1 DEF LogRow, RemindConstants
<1>4. run' = [run EXCEPT ![r] = j] /\ skipped' = {} /\ UNCHANGED <<due, reminding, delivered>>
  BY DEF Remind!Record, Remind!RecordFails, Remind!NextSubject, Remind!mail, RemindShape
<1>5. (log' = log \cup {row} \/ log' = log) /\ (Remind!Record(r) => log' = log \cup {row})
  BY DEF Remind!Record, Remind!RecordFails, Remind!mail
<1>. HIDE DEF j, row
<1>. QED
  BY <1>1, <1>2, <1>3, <1>4, <1>5

LEMMA RemindShapeKept ==
  ASSUME RemindConstants, RemindShape, Remind!Next PROVE RemindShape'
<1>. USE DEF RemindConstants
<1>1. ASSUME NEW r \in Runs, NEW s \in Subjects, Remind!LookUp(r, s) PROVE RemindShape'
  BY <1>1, LooksUp DEF RemindShape
<1>2. ASSUME NEW r \in Runs, Remind!Deliver(r) PROVE RemindShape'
  <2>. PICK j \in Job, d \in Mail :
         /\ run' = [run EXCEPT ![r] = j] /\ run[r] \in Job /\ run[r].at = "send"
         /\ j.at = "record" /\ j.about = run[r].about /\ j.status = "SENT"
         /\ delivered' = delivered \cup {d} /\ UNCHANGED <<due, reminding, log>>
    BY <1>2, Delivers
  <2>1. delivered' \subseteq Mail /\ IsFiniteSet(delivered')
    BY FS_AddElement DEF RemindShape
  <2>. QED
    BY <2>1 DEF RemindShape
<1>3. ASSUME NEW r \in Runs, Remind!Refused(r) PROVE RemindShape'
  BY <1>3, IsRefused DEF RemindShape
<1>4. ASSUME NEW r \in Runs, Remind!Record(r) \/ Remind!RecordFails(r) PROVE RemindShape'
  BY <1>4, Records DEF RemindShape
<1>5. ASSUME NEW r \in Runs, Remind!Tick(r) PROVE RemindShape'
  <2>1. [at |-> "next", left |-> due, about |-> None, status |-> None] \in Job
    BY DEF RemindShape, Job
  <2>. QED
    BY <1>5, <2>1 DEF Remind!Tick, Remind!ToRemind, Remind!mail, RemindShape
<1>6. ASSUME NEW r \in Runs, Remind!Done(r) PROVE RemindShape'
  BY <1>6 DEF Remind!Done, Remind!GuardAfter, Remind!mail, RemindShape
<1>7. CASE Remind!Crash
  BY <1>7 DEF Remind!Crash, Remind!mail, RemindShape
<1>8. CASE Remind!DayPasses
  <2>1. log' \subseteq LogRow /\ delivered' \subseteq Mail /\ IsFiniteSet(delivered')
    <3>. PICK lines, mails : lines = Remind!Older(log) /\ mails = Remind!Older(delivered)
      OBVIOUS
    <3>. QED
      BY <1>8, OlderRows, OlderMails DEF Remind!DayPasses, RemindShape
  <2>. QED
    BY <1>8, <2>1 DEF Remind!DayPasses, RemindShape
<1>9. ASSUME NEW s \in Subjects, Remind!FallDue(s) \/ Remind!Settle(s) PROVE RemindShape'
  BY <1>9 DEF Remind!FallDue, Remind!Settle, Remind!mail, RemindShape
<1>10. ASSUME NEW s \in Subjects, Remind!OtherMail(s) PROVE RemindShape'
  <2>1. [about |-> s, what |-> "other", status |-> "SENT", age |-> 0] \in LogRow
    BY DEF LogRow
  <2>. QED
    BY <1>10, <2>1 DEF Remind!OtherMail, RemindShape
<1>. QED
  BY <1>1, <1>2, <1>3, <1>4, <1>5, <1>6, <1>7, <1>8, <1>9, <1>10 DEF Remind!Next, Remind!Work

(* One run at a time, which the guard tells of.                            *)
OneRun == \A r \in Runs : run[r] # None =>
  reminding = TRUE /\ \A o \in Runs : run[o] # None => o = r

(* A reminder that went out is on the log, as recent, or about to be; and  *)
(* nothing has gone out about whom a run is to write to.                   *)
Logged(s) == \E row \in log : row.about = s /\ row.what = "reminder"
Recorded(d) == \/ \E row \in log : row.about = d.about /\ row.what = "reminder" /\ row.age <= d.age
               \/ \E r \in Runs : Remind!At(r, "record") /\ run[r].about = d.about

OnceFits ==
  /\ OneRun
  /\ \A d \in delivered : Recorded(d)
  /\ \A d, e \in delivered : d.about = e.about => d = e
  /\ \A r \in Runs : Remind!At(r, "send") =>
       ~Logged(run[r].about) /\ \A d \in delivered : d.about # run[r].about

(* What one server does whose log is kept, and which does not stop.        *)
Others ==
  \/ \E s \in Subjects : Remind!FallDue(s) \/ Remind!Settle(s) \/ Remind!OtherMail(s)
  \/ Remind!DayPasses

Steady ==
  \/ \E r \in Runs : Works(r) \/ Remind!Refused(r)
  \/ ~reminding /\ \E r \in Runs : Remind!Tick(r)
  \/ Others

LEMMA OneRunKept ==
  ASSUME RemindConstants, RemindShape, OneRun, Steady PROVE OneRun'
<1>1. ASSUME NEW r \in Runs, NEW j \in Job, run' = [run EXCEPT ![r] = j], run[r] # None, UNCHANGED reminding
      PROVE  OneRun'
  BY <1>1 DEF OneRun, RemindShape
<1>2. ASSUME NEW r \in Runs, Works(r) \/ Remind!Refused(r), ~Remind!Done(r) PROVE OneRun'
  <2>1. CASE \E s \in Subjects : Remind!LookUp(r, s)
    BY <1>1, <2>1, LooksUp DEF RemindConstants
  <2>2. CASE Remind!Deliver(r)
    BY <1>1, <2>2, Delivers DEF RemindConstants
  <2>3. CASE Remind!Refused(r)
    BY <1>1, <2>3, IsRefused DEF RemindConstants
  <2>4. CASE Remind!Record(r)
    BY <1>1, <2>4, Records DEF RemindConstants
  <2>. QED
    BY <1>2, <2>1, <2>2, <2>3, <2>4 DEF Works
<1>3. ASSUME NEW r \in Runs, ~reminding, Remind!Tick(r) PROVE OneRun'
  BY <1>3 DEF Remind!Tick, OneRun, RemindShape
<1>4. ASSUME NEW r \in Runs, Remind!Done(r) PROVE OneRun'
  BY <1>4 DEF Remind!Done, Remind!At, OneRun, RemindShape
<1>5. CASE UNCHANGED <<run, reminding>>
  BY <1>5 DEF OneRun
<1>. QED
  BY <1>2, <1>3, <1>4, <1>5 DEF Steady, Others, Works, Remind!FallDue, Remind!Settle, Remind!OtherMail,
    Remind!DayPasses

LEMMA OnceFitsKept ==
  ASSUME RemindConstants, RemindShape, OnceFits, Steady
  PROVE  OnceFits'
<1>0. OneRun'
  BY OneRunKept DEF OnceFits
<1>1. ASSUME NEW r \in Runs, NEW s \in Subjects, Remind!LookUp(r, s) PROVE OnceFits'
  <2>. PICK j \in Job :
         /\ run' = [run EXCEPT ![r] = j] /\ run[r] \in Job /\ run[r].at = "next"
         /\ UNCHANGED <<log, delivered>>
         /\ j.at = "next" \/ (j.at = "send" /\ j.about = s /\ ~Logged(s))
    BY <1>1, LooksUp DEF Logged
  <2>1. \A o \in Runs : run[o] # None => o = r
    BY DEF OnceFits, OneRun, RemindConstants
  <2>2. \A d \in delivered : \E row \in log : row.about = d.about /\ row.what = "reminder" /\ row.age <= d.age
    BY <2>1 DEF OnceFits, Recorded, Remind!At
  <2>3. run'[r] = j /\ \A o \in Runs \ {r} : run'[o] = None
    BY <2>1 DEF RemindShape
  <2>4. \A o \in Runs : Remind!At(o, "send")' => o = r /\ j.at = "send"
    BY <2>3 DEF Remind!At
  <2>. QED
    BY <1>0, <2>2, <2>3, <2>4 DEF OnceFits, Recorded, Logged
<1>2. ASSUME NEW r \in Runs, Remind!Deliver(r) PROVE OnceFits'
  <2>. PICK j \in Job, d \in Mail :
         /\ run' = [run EXCEPT ![r] = j] /\ run[r] \in Job /\ run[r].at = "send"
         /\ j.at = "record" /\ j.about = run[r].about
         /\ delivered' = delivered \cup {d} /\ d.about = run[r].about /\ UNCHANGED log
    BY <1>2, Delivers
  <2>1. Remind!At(r, "send") /\ \A o \in Runs : run[o] # None => o = r
    BY DEF OnceFits, OneRun, RemindConstants, Remind!At
  <2>2. \A e \in delivered : \E row \in log : row.about = e.about /\ row.what = "reminder" /\ row.age <= e.age
    BY <2>1 DEF OnceFits, Recorded, Remind!At
  <2>3. run'[r] = j /\ j # None /\ \A o \in Runs \ {r} : run'[o] = None
    BY <2>1 DEF RemindShape, RemindConstants
  <2>4. \A o \in Runs : ~Remind!At(o, "send")'
    BY <2>3 DEF Remind!At
  <2>5. \A e \in delivered' : Recorded(e)'
    <3>1. Remind!At(r, "record")' /\ run'[r].about = d.about
      BY <2>3 DEF Remind!At
    <3>. QED
      BY <2>2, <3>1 DEF Recorded
  <2>6. \A e, f \in delivered' : e.about = f.about => e = f
    BY <2>1 DEF OnceFits
  <2>. QED
    BY <1>0, <2>4, <2>5, <2>6 DEF OnceFits
<1>3. ASSUME NEW r \in Runs, Remind!Refused(r) PROVE OnceFits'
  <2>. PICK j \in Job :
         /\ run' = [run EXCEPT ![r] = j] /\ run[r] \in Job /\ run[r].at = "send" /\ j.at = "record"
         /\ UNCHANGED <<log, delivered>>
    BY <1>3, IsRefused
  <2>1. \A o \in Runs : run[o] # None => o = r
    BY DEF OnceFits, OneRun, RemindConstants
  <2>2. \A d \in delivered : \E row \in log : row.about = d.about /\ row.what = "reminder" /\ row.age <= d.age
    BY <2>1 DEF OnceFits, Recorded, Remind!At
  <2>3. run'[r] = j /\ \A o \in Runs \ {r} : run'[o] = None
    BY <2>1 DEF RemindShape
  <2>4. \A o \in Runs : ~Remind!At(o, "send")'
    BY <2>3 DEF Remind!At
  <2>. QED
    BY <1>0, <2>2, <2>4 DEF OnceFits, Recorded
<1>4. ASSUME NEW r \in Runs, Remind!Record(r) PROVE OnceFits'
  <2>. PICK j \in Job, row \in LogRow :
         /\ run' = [run EXCEPT ![r] = j] /\ run[r] \in Job /\ run[r].at = "record" /\ j.at = "next"
         /\ row.about = run[r].about /\ row.what = "reminder" /\ row.age = 0
         /\ log' = log \cup {row} /\ UNCHANGED delivered
    BY <1>4, Records
  <2>1. \A o \in Runs : run[o] # None => o = r
    BY DEF OnceFits, OneRun, RemindConstants
  <2>2. run'[r] = j /\ \A o \in Runs \ {r} : run'[o] = None
    BY <2>1 DEF RemindShape
  <2>3. \A o \in Runs : ~Remind!At(o, "send")'
    BY <2>2 DEF Remind!At
  <2>4. ASSUME NEW d \in delivered PROVE Recorded(d)'
    <3>1. CASE \E o \in log : o.about = d.about /\ o.what = "reminder" /\ o.age <= d.age
      BY <3>1 DEF Recorded
    <3>2. CASE \E o \in Runs : Remind!At(o, "record") /\ run[o].about = d.about
      <4>1. row.about = d.about /\ row.age <= d.age
        BY <2>1, <3>2 DEF Remind!At, RemindShape, Mail
      <4>. QED
        BY <4>1 DEF Recorded
    <3>. QED
      BY <3>1, <3>2 DEF OnceFits, Recorded
  <2>. QED
    BY <1>0, <2>3, <2>4 DEF OnceFits
<1>5. ASSUME NEW r \in Runs, Remind!Tick(r) PROVE OnceFits'
  <2>1. /\ run[r] = None /\ run'[r].at = "next" /\ \A o \in Runs \ {r} : run'[o] = run[o]
        /\ UNCHANGED <<log, delivered>>
    BY <1>5 DEF Remind!Tick, Remind!mail, RemindShape
  <2>2. \A o \in Runs : Remind!At(o, "send")' => Remind!At(o, "send") /\ run'[o] = run[o]
    BY <2>1 DEF Remind!At
  <2>3. \A o \in Runs : Remind!At(o, "record") => Remind!At(o, "record")' /\ run'[o] = run[o]
    BY <2>1 DEF Remind!At
  <2>. QED
    BY <1>0, <2>1, <2>2, <2>3 DEF OnceFits, Recorded, Logged
<1>6. ASSUME NEW r \in Runs, Remind!Done(r) PROVE OnceFits'
  <2>1. /\ run[r] # None /\ run[r].at = "next" /\ run'[r] = None /\ \A o \in Runs \ {r} : run'[o] = run[o]
        /\ UNCHANGED <<log, delivered>>
    BY <1>6 DEF Remind!Done, Remind!At, Remind!mail, RemindShape
  <2>2. \A o \in Runs : Remind!At(o, "send")' => Remind!At(o, "send") /\ run'[o] = run[o]
    BY <2>1 DEF Remind!At
  <2>3. \A o \in Runs : Remind!At(o, "record") => Remind!At(o, "record")' /\ run'[o] = run[o]
    BY <2>1 DEF Remind!At
  <2>. QED
    BY <1>0, <2>1, <2>2, <2>3 DEF OnceFits, Recorded, Logged
<1>7. CASE Remind!DayPasses
  <2>. PICK lines, mails : lines = Remind!Older(log) /\ mails = Remind!Older(delivered)
    OBVIOUS
  <2>1. log' = lines /\ delivered' = mails /\ UNCHANGED run /\ \A r \in Runs : ~Remind!At(r, "record")
    BY <1>7 DEF Remind!DayPasses
  <2>2. /\ \A y \in lines : \E x \in log : y.about = x.about /\ y.what = x.what
        /\ \A x \in log : x.age < Cooldown =>
             \E y \in lines : y.age = x.age + 1 /\ y.about = x.about /\ y.what = x.what
    BY OlderRows DEF RemindShape
  <2>3. \A y \in mails : \E x \in delivered : /\ x.age < Cooldown /\ y.age = x.age + 1
                                              /\ y.about = x.about /\ y = [x EXCEPT !.age = @ + 1]
    BY OlderMails DEF RemindShape
  <2>4. ASSUME NEW y \in mails PROVE Recorded(y)'
    <3>. PICK x \in delivered : x.age < Cooldown /\ y.age = x.age + 1 /\ y.about = x.about
      BY <2>3
    <3>. PICK row \in log : row.about = x.about /\ row.what = "reminder" /\ row.age <= x.age
      BY <2>1 DEF OnceFits, Recorded
    <3>1. x.age \in Nat /\ row.age \in Nat
      BY DEF RemindShape, LogRow, Mail
    <3>2. \E o \in lines : o.age = row.age + 1 /\ o.about = row.about /\ o.what = row.what
      BY <2>2, <3>1 DEF RemindConstants
    <3>. QED
      BY <2>1, <3>1, <3>2 DEF Recorded
  <2>5. \A y, z \in mails : y.about = z.about => y = z
    BY <2>3 DEF OnceFits
  <2>6. \A r \in Runs : Remind!At(r, "send")' =>
          ~Logged(run[r].about)' /\ \A d \in mails : d.about # run[r].about
    BY <2>1, <2>2, <2>3 DEF OnceFits, Logged, Remind!At
  <2>. QED
    BY <1>0, <2>1, <2>4, <2>5, <2>6 DEF OnceFits
<1>8. ASSUME NEW s \in Subjects, Remind!OtherMail(s) PROVE OnceFits'
  <2>1. /\ log' = log \cup {[about |-> s, what |-> "other", status |-> "SENT", age |-> 0]}
        /\ UNCHANGED <<run, delivered>>
    BY <1>8 DEF Remind!OtherMail
  <2>2. \A o : Logged(o)' <=> Logged(o)
    BY <2>1 DEF Logged
  <2>3. \A d \in delivered : Recorded(d)'
    BY <2>1 DEF Recorded, OnceFits, Remind!At
  <2>. QED
    BY <1>0, <2>1, <2>2, <2>3 DEF OnceFits, Remind!At
<1>9. CASE UNCHANGED <<run, log, delivered>>
  BY <1>0, <1>9 DEF OnceFits, Recorded, Logged, Remind!At
<1>. QED
  BY <1>1, <1>2, <1>3, <1>4, <1>5, <1>6, <1>7, <1>8, <1>9 DEF Steady, Others, Works, Remind!FallDue,
    Remind!Settle, Remind!mail

LEMMA OnceFitsOnce == RemindShape /\ OnceFits => Remind!OncePerCooldown
<1>. SUFFICES ASSUME RemindShape, OnceFits, NEW s \in Subjects
              PROVE  Cardinality(Remind!DeliveredTo(s)) <= 1
  BY RemindCardinality DEF Remind!OncePerCooldown
<1>1. CASE Remind!DeliveredTo(s) = {}
  BY <1>1, FS_EmptySet
<1>2. CASE \E d : Remind!DeliveredTo(s) = {d}
  <2>1. PICK d : Remind!DeliveredTo(s) = {d}
    BY <1>2
  <2>2. Cardinality({d}) = 1
    BY FS_Singleton
  <2>. QED
    BY <2>1, <2>2
<1>3. Remind!DeliveredTo(s) = {} \/ \E d : Remind!DeliveredTo(s) = {d}
  BY DEF Remind!DeliveredTo, OnceFits
<1>. QED
  BY <1>1, <1>2, <1>3

(* Whatever falls due and is settled meanwhile, whatever else is mailed    *)
(* and though mail is refused: while one server runs and keeps its log, a  *)
(* subject gets one reminder within the cooldown (remindOne).              *)
THEOREM RemindedOnceInTheCooldown ==
  ASSUME RemindConstants, "second" \notin Troubles, "crash" \notin Troubles, "unlogged" \notin Troubles
  PROVE  Remind!Init /\ [][Remind!Next]_Remind!vars => []Remind!OncePerCooldown
<1>1. Remind!Init => RemindShape /\ OnceFits
  BY FS_EmptySet DEF Remind!Init, RemindShape, OnceFits, OneRun, Remind!At
<1>2. RemindShape /\ OnceFits /\ [Remind!Next]_Remind!vars => (RemindShape /\ OnceFits)'
  <2>1. CASE UNCHANGED Remind!vars
    BY <2>1 DEF Remind!vars, Remind!mail, RemindShape, OnceFits, OneRun, Recorded, Logged, Remind!At
  <2>2. Remind!Next => Steady
    BY DEF Remind!Next, Remind!Work, Remind!Tick, Remind!MayRun, Remind!Crash, Remind!RecordFails,
      Steady, Others, Works
  <2>. QED
    BY <2>1, <2>2, RemindShapeKept, OnceFitsKept
<1>. QED
  BY <1>1, <1>2, OnceFitsOnce, PTL

(* A reminder on the log went out, no longer ago, and so did the one that  *)
(* a run is about to log.                                                  *)
WentOut(row) == \E d \in delivered : d.about = row.about /\ d.age <= row.age

SkipFits ==
  /\ \A row \in log : row.what = "reminder" => WentOut(row)
  /\ \A r \in Runs : Remind!At(r, "record") =>
       \E d \in delivered : d.about = run[r].about /\ d.age = 0
  /\ Remind!OnlyRemindedSkipped

(* What servers do whose mail is taken.                                    *)
Accepted ==
  \/ \E r \in Runs : Remind!Tick(r) \/ Works(r) \/ Remind!RecordFails(r)
  \/ Remind!Crash \/ Others

LEMMA SkipFitsKept ==
  ASSUME RemindConstants, RemindShape, SkipFits, Accepted
  PROVE  SkipFits'
<1>1. ASSUME NEW r \in Runs, NEW s \in Subjects, Remind!LookUp(r, s) PROVE SkipFits'
  <2>. PICK j \in Job :
         /\ run' = [run EXCEPT ![r] = j] /\ UNCHANGED <<log, delivered>> /\ j.at \in {"next", "send"}
         /\ \/ skipped' = {s} /\ \E row \in log : row.about = s /\ row.what = "reminder"
            \/ skipped' = {}
    BY <1>1, LooksUp
  <2>1. \A o \in Runs : Remind!At(o, "record")' => Remind!At(o, "record") /\ run'[o] = run[o]
    BY DEF Remind!At, RemindShape
  <2>2. Remind!OnlyRemindedSkipped'
    BY DEF SkipFits, WentOut, Remind!OnlyRemindedSkipped, Remind!DeliveredTo
  <2>. QED
    BY <2>1, <2>2 DEF SkipFits, WentOut
<1>2. ASSUME NEW r \in Runs, Remind!Deliver(r) PROVE SkipFits'
  <2>. PICK j \in Job, d \in Mail :
         /\ run' = [run EXCEPT ![r] = j] /\ j.about = run[r].about
         /\ delivered' = delivered \cup {d} /\ d.about = run[r].about /\ d.age = 0
         /\ skipped' = {} /\ UNCHANGED log
    BY <1>2, Delivers
  <2>1. run'[r] = j /\ \A o \in Runs \ {r} : run'[o] = run[o]
    BY DEF RemindShape
  <2>2. \A o \in Runs : Remind!At(o, "record")' =>
          \E e \in delivered' : e.about = run'[o].about /\ e.age = 0
    BY <2>1 DEF SkipFits, Remind!At
  <2>3. \A row \in log : row.what = "reminder" => WentOut(row)'
    BY DEF SkipFits, WentOut
  <2>. QED
    BY <2>2, <2>3 DEF SkipFits, Remind!OnlyRemindedSkipped
<1>3. ASSUME NEW r \in Runs, Remind!Record(r) \/ Remind!RecordFails(r) PROVE SkipFits'
  <2>. PICK j \in Job, row \in LogRow :
         /\ run' = [run EXCEPT ![r] = j] /\ run[r] \in Job /\ run[r].at = "record" /\ j.at = "next"
         /\ row.about = run[r].about /\ row.age = 0
         /\ log' = log \cup {row} \/ log' = log
         /\ skipped' = {} /\ UNCHANGED delivered
    BY <1>3, Records
  <2>1. \A o \in Runs : Remind!At(o, "record")' => Remind!At(o, "record") /\ run'[o] = run[o]
    BY DEF Remind!At, RemindShape
  <2>2. \E d \in delivered : d.about = row.about /\ d.age <= row.age
    BY DEF SkipFits, Remind!At, RemindConstants
  <2>. QED
    BY <2>1, <2>2 DEF SkipFits, WentOut, Remind!OnlyRemindedSkipped
<1>4. ASSUME NEW r \in Runs, Remind!Tick(r) \/ Remind!Done(r) PROVE SkipFits'
  <2>1. /\ run'[r] = None \/ run'[r].at = "next"
        /\ \A o \in Runs \ {r} : run'[o] = run[o]
        /\ skipped' = {} /\ UNCHANGED <<log, delivered>>
    BY <1>4 DEF Remind!Tick, Remind!Done, Remind!mail, RemindShape
  <2>2. \A o \in Runs : Remind!At(o, "record")' => Remind!At(o, "record") /\ run'[o] = run[o]
    BY <2>1 DEF Remind!At
  <2>. QED
    BY <2>1, <2>2 DEF SkipFits, WentOut, Remind!OnlyRemindedSkipped
<1>5. CASE Remind!Crash
  BY <1>5 DEF Remind!Crash, Remind!mail, SkipFits, WentOut, Remind!At, Remind!OnlyRemindedSkipped
<1>6. CASE Remind!DayPasses
  <2>. PICK lines, mails : lines = Remind!Older(log) /\ mails = Remind!Older(delivered)
    OBVIOUS
  <2>1. /\ log' = lines /\ delivered' = mails /\ skipped' = {} /\ UNCHANGED run
        /\ \A r \in Runs : ~Remind!At(r, "record")
    BY <1>6 DEF Remind!DayPasses
  <2>2. ASSUME NEW y \in lines, y.what = "reminder" PROVE WentOut(y)'
    <3>. PICK x \in log : x.age < Cooldown /\ y.age = x.age + 1 /\ y.about = x.about /\ y.what = x.what
      BY OlderRows DEF RemindShape
    <3>. PICK d \in delivered : d.about = x.about /\ d.age <= x.age
      BY <2>2 DEF SkipFits, WentOut
    <3>1. x.age \in Nat /\ d.age \in Nat
      BY DEF RemindShape, LogRow, Mail
    <3>2. \E e \in mails : e.age = d.age + 1 /\ e.about = d.about
      BY <3>1, OlderMails DEF RemindShape, RemindConstants
    <3>. QED
      BY <2>1, <3>1, <3>2 DEF WentOut
  <2>. QED
    BY <2>1, <2>2 DEF SkipFits, Remind!At, Remind!OnlyRemindedSkipped
<1>7. ASSUME NEW s \in Subjects, Remind!FallDue(s) \/ Remind!Settle(s) \/ Remind!OtherMail(s)
      PROVE  SkipFits'
  <2>1. /\ UNCHANGED <<run, delivered>> /\ skipped' = {}
        /\ log' = log \/ log' = log \cup {[about |-> s, what |-> "other", status |-> "SENT", age |-> 0]}
    BY <1>7 DEF Remind!FallDue, Remind!Settle, Remind!OtherMail, Remind!mail
  <2>2. \A row \in log' : row.what = "reminder" => row \in log
    BY <2>1
  <2>. QED
    BY <2>1, <2>2 DEF SkipFits, WentOut, Remind!At, Remind!OnlyRemindedSkipped
<1>. QED
  BY <1>1, <1>2, <1>3, <1>4, <1>5, <1>6, <1>7 DEF Accepted, Others, Works

(* However many servers run, and though they stop or lose lines of the     *)
(* log: while no mail is refused, whoever is passed over for an earlier    *)
(* reminder got one within the cooldown (remindOne).                       *)
THEOREM SkippedWereReminded ==
  ASSUME RemindConstants, "refused" \notin Troubles
  PROVE  Remind!Init /\ [][Remind!Next]_Remind!vars => []Remind!OnlyRemindedSkipped
<1>1. Remind!Init => RemindShape /\ SkipFits
  BY FS_EmptySet DEF Remind!Init, RemindShape, SkipFits, Remind!At, Remind!OnlyRemindedSkipped
<1>2. RemindShape /\ SkipFits /\ [Remind!Next]_Remind!vars => (RemindShape /\ SkipFits)'
  <2>1. CASE UNCHANGED Remind!vars
    BY <2>1 DEF Remind!vars, Remind!mail, RemindShape, SkipFits, WentOut, Remind!At,
      Remind!OnlyRemindedSkipped, Remind!DeliveredTo
  <2>2. Remind!Next => Accepted
    BY DEF Remind!Next, Remind!Work, Remind!Refused, Accepted, Others, Works
  <2>. QED
    BY <2>1, <2>2, RemindShapeKept, SkipFitsKept
<1>3. SkipFits => Remind!OnlyRemindedSkipped
  BY DEF SkipFits
<1>. QED
  BY <1>1, <1>2, <1>3, PTL

-----------------------------------------------------------------------------
(* Received mail                                                           *)
Pull == [at : {"next", "store"}, left : SUBSET (1 .. arrived)]

InboundShape ==
  /\ arrived \in 0 .. Last /\ inbox \subseteq 1 .. arrived
  /\ rows \in [Inbound!Messages -> Nat] /\ polling \in BOOLEAN
  /\ poll \in [Polls -> Pull \cup {None}]
  /\ Inbound!StoredOnce

LEMMA InboundBegins ==
  ASSUME Last \in Nat, Inbound!Init PROVE InboundShape
<1>1. rows \in [Inbound!Messages -> Nat] /\ Inbound!StoredOnce
  BY DEF Inbound!Init, Inbound!StoredOnce
<1>2. arrived \in 0 .. Last /\ inbox \subseteq 1 .. arrived /\ polling \in BOOLEAN
  <2>1. inbox = {} /\ arrived = 0 /\ polling = FALSE
    BY Zenon DEF Inbound!Init
  <2>2. arrived \in 0 .. Last /\ inbox \subseteq 1 .. arrived
    BY <2>1
  <2>3. polling \in BOOLEAN
    BY <2>1, Zenon
  <2>. QED
    BY <2>2, <2>3
<1>3. poll \in [Polls -> Pull \cup {None}]
  BY DEF Inbound!Init
<1>. QED
  BY <1>1, <1>2, <1>3 DEF InboundShape

(* A row is made of a message once, whichever poll comes to store it       *)
(* (persist).                                                              *)
LEMMA StoredAgain ==
  ASSUME InboundShape, NEW p \in Polls, Inbound!Store(p)
  PROVE  rows' \in [Inbound!Messages -> Nat] /\ Inbound!StoredOnce'
<1>1. PICK m : /\ m = Inbound!Min(poll[p].left)
               /\ rows' = IF Inbound!Taken(m) THEN rows ELSE [rows EXCEPT ![m] = @ + 1]
  BY DEF Inbound!Store
<1>2. CASE Inbound!Taken(m) \/ m \notin Inbound!Messages
  BY <1>1, <1>2 DEF InboundShape, Inbound!StoredOnce
<1>3. CASE ~Inbound!Taken(m) /\ m \in Inbound!Messages
  <2>1. rows[m] \in Nat /\ ~(rows[m] > 0)
    BY <1>3 DEF InboundShape, Inbound!Taken, Inbound!Stored
  <2>2. rows[m] + 1 = 1
    BY <2>1
  <2>3. rows' = [rows EXCEPT ![m] = rows[m] + 1]
    BY <1>1, <1>3
  <2>4. rows' = [rows EXCEPT ![m] = 1]
    BY <2>2, <2>3
  <2>. HIDE <1>1, <2>3
  <2>5. \A k \in Inbound!Messages : rows'[k] = rows[k] \/ rows'[k] = 1
    BY <1>3, <2>4 DEF InboundShape
  <2>6. rows' \in [Inbound!Messages -> Nat]
    BY <2>4 DEF InboundShape
  <2>. QED
    BY <2>5, <2>6 DEF InboundShape, Inbound!StoredOnce
<1>. QED
  BY <1>2, <1>3

LEMMA InboundStep ==
  ASSUME Last \in Nat, InboundShape, Inbound!Next PROVE InboundShape'
<1>1. ASSUME NEW p \in Polls, Inbound!Tick(p) PROVE InboundShape'
  <2>1. [at |-> "next", left |-> inbox] \in Pull
    BY DEF InboundShape, Pull
  <2>. QED
    BY <1>1, <2>1 DEF Inbound!Tick, InboundShape, Inbound!StoredOnce, Pull
<1>2. ASSUME NEW p \in Polls, Inbound!Look(p) PROVE InboundShape'
  <2>1. poll[p] \in Pull
    BY <1>2 DEF Inbound!Look, Inbound!At, InboundShape
  <2>2. PICK m : m = Inbound!Min(poll[p].left)
    OBVIOUS
  <2>. DEFINE past == [poll[p] EXCEPT !.left = @ \ {m}]  next == [poll[p] EXCEPT !.at = "store"]
  <2>3. past \in Pull /\ next \in Pull
    BY <2>1 DEF Pull
  <2>4. poll' = [poll EXCEPT ![p] = past] \/ poll' = [poll EXCEPT ![p] = next]
    <3>1. CASE m \in Inbound!Stored
      BY <1>2, <2>2, <3>1 DEF Inbound!Look, Inbound!Seen
    <3>2. CASE m \notin Inbound!Stored
      BY <1>2, <2>2, <3>2 DEF Inbound!Look
    <3>. QED
      BY <3>1, <3>2
  <2>. HIDE DEF past, next
  <2>5. poll' \in [Polls -> Pull \cup {None}]
    BY <2>3, <2>4 DEF InboundShape
  <2>6. UNCHANGED <<inbox, arrived, rows, polling>>
    BY <1>2 DEF Inbound!Look
  <2>. QED
    BY <2>5, <2>6 DEF InboundShape, Inbound!StoredOnce, Pull
<1>3. ASSUME NEW p \in Polls, Inbound!Store(p) PROVE InboundShape'
  <2>1. poll[p] \in Pull
    BY <1>3 DEF Inbound!Store, Inbound!At, InboundShape
  <2>2. PICK m : poll' = [poll EXCEPT ![p] = [at |-> "next", left |-> @.left \ {m}]]
    BY <1>3 DEF Inbound!Store
  <2>3. [at |-> "next", left |-> poll[p].left \ {m}] \in Pull
    BY <2>1 DEF Pull
  <2>4. poll' \in [Polls -> Pull \cup {None}]
    BY <2>2, <2>3 DEF InboundShape
  <2>5. UNCHANGED <<inbox, arrived, polling>>
    BY <1>3 DEF Inbound!Store
  <2>. QED
    BY <1>3, <2>4, <2>5, StoredAgain DEF InboundShape, Pull
<1>4. ASSUME NEW p \in Polls, Inbound!Ends(p) \/ Inbound!Fails(p) PROVE InboundShape'
  BY <1>4 DEF Inbound!Ends, Inbound!Fails, Inbound!GuardAfter, InboundShape, Inbound!StoredOnce, Pull
<1>5. CASE Inbound!Arrive
  <2>1. /\ arrived' = arrived + 1 /\ arrived' \in 0 .. Last /\ arrived \in Nat
        /\ inbox' = inbox \cup {arrived'} /\ UNCHANGED <<rows, polling, poll>>
    BY <1>5 DEF Inbound!Arrive, InboundShape
  <2>2. 1 .. arrived \subseteq 1 .. arrived' /\ arrived' \in 1 .. arrived'
    BY <2>1
  <2>3. Pull \subseteq Pull'
    BY <2>2 DEF Pull
  <2>. QED
    BY <2>1, <2>2, <2>3 DEF InboundShape, Inbound!StoredOnce
<1>6. CASE Inbound!Crash
  BY <1>6 DEF Inbound!Crash, InboundShape, Inbound!StoredOnce, Pull
<1>7. ASSUME NEW m \in Inbound!Messages, Inbound!Leaves(m) PROVE InboundShape'
  BY <1>7 DEF Inbound!Leaves, InboundShape, Inbound!StoredOnce, Pull
<1>. QED
  BY <1>1, <1>2, <1>3, <1>4, <1>5, <1>6, <1>7 DEF Inbound!Next

-----------------------------------------------------------------------------
(* The parts together                                                      *)
RemindersFit ==
  /\ RemindShape
  /\ part # "stopped" => OnceFits
  /\ part # "bounced" => SkipFits

DeliveriesInv == IInv /\ InboundShape /\ RemindersFit

LEMMA RemindersStep ==
  ASSUME RemindConstants, RemindersFit, Remembers, UNCHANGED part
  PROVE  RemindersFit'
<1>1. Remind!Next
  BY DEF Remembers, Orderly, Works, Remind!Next, Remind!Work
<1>2. part # "stopped" => Steady
  BY DEF Remembers, Orderly, Steady, Others
<1>3. part # "bounced" => Accepted
  BY DEF Remembers, Orderly, Accepted, Others
<1>. QED
  BY <1>1, <1>2, <1>3, RemindShapeKept, OnceFitsKept, SkipFitsKept DEF RemindersFit

LEMMA DeliveriesStep ==
  ASSUME RemindConstants, Last \in Nat, DeliveriesInv, [DeliveriesNext]_state
  PROVE  DeliveriesInv'
<1>1. IInv'
  <2>1. Next \/ UNCHANGED vars
    BY DEF DeliveriesNext, Within, state, Reminding
  <2>. QED
    BY <2>1, StepHolds DEF DeliveriesInv
<1>2. InboundShape'
  <2>1. CASE part = "inbound" /\ Inbound!Next
    BY <2>1, InboundStep DEF DeliveriesInv
  <2>2. CASE UNCHANGED inbound
    BY <2>2 DEF DeliveriesInv, inbound, InboundShape, Inbound!StoredOnce, Pull
  <2>. QED
    BY <2>1, <2>2 DEF DeliveriesNext, Within, state, Reminding
<1>3. RemindersFit'
  <2>1. CASE Remembers /\ UNCHANGED part
    BY <2>1, RemindersStep DEF DeliveriesInv
  <2>2. CASE UNCHANGED <<part, reminders>>
    BY <2>2 DEF DeliveriesInv, reminders, RemindersFit, RemindShape, OnceFits, OneRun, Recorded, Logged,
      SkipFits, WentOut, Remind!At, Remind!OnlyRemindedSkipped, Remind!DeliveredTo
  <2>. QED
    BY <2>1, <2>2 DEF DeliveriesNext, Within, state, Reminding
<1>. QED
  BY <1>1, <1>2, <1>3 DEF DeliveriesInv

THEOREM DeliveriesInvariant ==
  ASSUME RemindConstants, Last \in Nat PROVE DeliveriesSpec => []DeliveriesInv
<1>1. DeliveriesInit => DeliveriesInv
  <2>1. Remind!Init => RemindShape /\ OnceFits /\ SkipFits
    BY FS_EmptySet DEF Remind!Init, RemindShape, OnceFits, OneRun, SkipFits, Remind!At,
      Remind!OnlyRemindedSkipped
  <2>. QED
    BY <2>1, InitHolds, InboundBegins DEF DeliveriesInit, DeliveriesInv, RemindersFit
<1>. QED
  BY <1>1, DeliveriesStep, PTL DEF DeliveriesSpec

(* Envelopes, rows, polls and runs keep their types, for any numbers of    *)
(* them.                                                                   *)
THEOREM DeliveriesTypeCorrect ==
  ASSUME RemindConstants, Last \in Nat PROVE DeliveriesSpec => []DeliveriesTypeOK
<1>1. InboundShape => Inbound!InboundTypeOK
  BY DEF InboundShape, Inbound!InboundTypeOK, Pull
<1>2. RemindShape => Remind!RemindersTypeOK
  BY DEF RemindShape, Remind!RemindersTypeOK, Remind!Reminder, LogRow, Mail, Job
<1>3. DeliveriesInv => DeliveriesTypeOK
  BY <1>1, <1>2 DEF DeliveriesInv, IInv, RemindersFit, DeliveriesTypeOK
<1>. QED
  BY <1>3, DeliveriesInvariant, PTL

(* Whatever part runs: a message becomes one row, though polls pull it at  *)
(* once and stop (persist); one reminder goes out within the cooldown      *)
(* while a server runs and keeps its log, though mail is refused; and      *)
(* whoever is passed over got one, though runs stop (remindOne).           *)
THEOREM OnceEachAlways ==
  ASSUME RemindConstants, Last \in Nat PROVE DeliveriesSpec => []OnceEach
<1>1. DeliveriesInv => OnceEach
  BY OnceFitsOnce DEF DeliveriesInv, InboundShape, RemindersFit, SkipFits, OnceEach
<1>. QED
  BY <1>1, DeliveriesInvariant, PTL
=============================================================================
