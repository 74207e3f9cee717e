--------------------------- MODULE InvoiceNumbers ---------------------------
(***************************************************************************)
(* The numbers sales are known by: the reference given when a sale is      *)
(* made, and the invoice number, drawn from the sequence of the brand the  *)
(* sale bills under or typed by hand (SubmissionsService.nextRef,          *)
(* allocateInvoice, generateInvoice, setInvoiceNo, advanceSequencePast,    *)
(* and the first transaction of export).                                   *)
(*                                                                         *)
(* The counters are columns of one Settings row.  Incrementing one takes   *)
(* the row's lock until the transaction ends, and starts from the value    *)
(* last committed.  Reading does not wait.  A sale's row is read first and *)
(* written last, and the unique index on the number has the last word.     *)
(***************************************************************************)
EXTENDS Integers

CONSTANTS
  None,         \* SQL NULL
  Sales,        \* the Submission rows that may be made
  BrandOf,      \* the brand the city of each bills under
  Prefixes,     \* what an invoice number can begin with
  Blank,        \* the empty prefix
  FirstPrefix,  \* the brands' prefixes at the start
  HandSeqs,     \* the digits of the numbers typed by hand
  MaxSequence,  \* MAX_SEQUENCE: the counters' columns hold one more
  Reqs,         \* request slots
  Ops           \* the operations offered in this instance

Brands == {"VFW", "GFC"}
Users == {"rep", "acct"}
AllOps == {"create", "approve", "void", "generate", "export", "number", "prefix"}

ASSUME BrandAssumption == BrandOf \in [Sales -> Brands]
ASSUME PrefixAssumption == FirstPrefix \in [Brands -> Prefixes]
ASSUME SeqAssumption == HandSeqs \subseteq Nat /\ MaxSequence \in Nat
ASSUME InvoiceOpsAssumption == Ops \subseteq AllOps

VARIABLES
  settings,  \* the Settings row as last committed: prefixes, counters
  sale,      \* the Submission rows: status, ref, invoiceNo
  req        \* the requests in flight

vars == <<settings, sale, req>>
records == <<settings, sale>>

Number == [prefix : Prefixes, seq : Nat]

Column == 0 .. MaxSequence + 1
Settings == [prefix : [Brands -> Prefixes], next : [Brands -> Column], nextRef : Column \ {0}]

Sale == [status : {"none", "OPEN", "APPROVED", "DEAD"}, ref : Nat \cup {None},
         number : Number \cup {None}]

Request == [op : {"create", "generate", "export", "number"},
            at : {"read", "jump", "write", "hold"}, user : Users, sale : Sales,
            number : Number \cup {None}, jump : Brands \cup {None}, row : Settings]

Idle == None
ASSUME InvoiceNoneAssumption == None \notin Number /\ None \notin Request

At(r, ops, step) == req[r] # Idle /\ req[r].op \in ops /\ req[r].at = step
Begin(op, u, s) ==
  [op |-> op, at |-> "read", user |-> u, sale |-> s, number |-> None, jump |-> None,
   row |-> settings]
Open(r, op) == op \in Ops /\ req[r] = Idle
Start(r, q) == req' = [req EXCEPT ![r] = q] /\ UNCHANGED records
Finish(r) == req' = [req EXCEPT ![r] = Idle]

(* The lock on the Settings row, and the unique index on invoiceNo.        *)
Locked == \E r \in Reqs : req[r] # Idle /\ req[r].at = "hold"
Held(n) == \E s \in Sales : sale[s].number = n

Init ==
  /\ settings = [prefix |-> FirstPrefix, next |-> [b \in Brands |-> 1], nextRef |-> 1]
  /\ sale = [s \in Sales |-> [status |-> "none", ref |-> None, number |-> None]]
  /\ req = [r \in Reqs |-> Idle]

-----------------------------------------------------------------------------
(* Mutant: the counter is read without taking the lock.                    *)
TakeRef_Unlocked(r, s) ==
  /\ Open(r, "create")
  /\ sale[s].status = "none"
  /\ Start(r, [Begin("create", "rep", s) EXCEPT !.at = "hold", !.row.nextRef = @ + 1])

(* create takes its reference, and later commits with the sale.            *)
TakeRef(r, s) ==
  /\ Open(r, "create")
  /\ sale[s].status = "none"
  /\ ~Locked
  /\ settings.nextRef <= MaxSequence
  /\ Start(r, [Begin("create", "rep", s) EXCEPT !.at = "hold", !.row.nextRef = @ + 1])

CommitCreate(r) ==
  LET s == req[r].sale
  IN  /\ At(r, {"create"}, "hold")
      /\ sale' = [sale EXCEPT ![s] = [status |-> "OPEN", ref |-> req[r].row.nextRef - 1,
                                      number |-> None]]
      /\ settings' = req[r].row
      /\ Finish(r)

(* These three are one step, taken by a slot with nothing else to do.      *)
Approve(r, s) ==
  /\ Open(r, "approve")
  /\ sale[s].status = "OPEN"
  /\ sale' = [sale EXCEPT ![s].status = "APPROVED"]
  /\ UNCHANGED <<settings, req>>

Void(r, s) ==
  /\ Open(r, "void")
  /\ sale[s].status \in {"OPEN", "APPROVED"}
  /\ sale' = [sale EXCEPT ![s].status = "DEAD"]
  /\ UNCHANGED <<settings, req>>

(* updateSettings: any prefix may be given to either brand.                *)
ChangePrefix(r, b, p) ==
  /\ Open(r, "prefix")
  /\ ~Locked
  /\ settings.prefix[b] # p
  /\ settings' = [settings EXCEPT !.prefix[b] = p]
  /\ UNCHANGED <<sale, req>>

-----------------------------------------------------------------------------
(* generateInvoice, and export when the sale has no number yet.            *)
ReadForNumber(r, op, s) ==
  /\ Open(r, op)
  /\ op \in {"generate", "export"}
  /\ sale[s].status = "APPROVED"
  /\ sale[s].number = None
  /\ Start(r, Begin(op, "acct", s))

(* allocateInvoice.  An increment past the column's width fails.           *)
TakeNumber(r) ==
  LET b == BrandOf[req[r].sale]
  IN  /\ At(r, {"generate", "export"}, "read")
      /\ ~Locked
      /\ settings.next[b] <= MaxSequence
      /\ Start(r, [req[r] EXCEPT
                     !.at = "hold",
                     !.number = [prefix |-> settings.prefix[b], seq |-> settings.next[b]],
                     !.row = [settings EXCEPT !.next[b] = @ + 1]])

CommitNumber(r) ==
  /\ At(r, {"generate", "export"}, "hold")
  /\ ~Held(req[r].number)
  /\ sale' = [sale EXCEPT ![req[r].sale].number = req[r].number]
  /\ settings' = req[r].row
  /\ Finish(r)

-----------------------------------------------------------------------------
(* Mutant: who may type a number does not depend on the approval.          *)
ReadForSetNo_Anyone(r, u, s, n) ==
  /\ Open(r, "number")
  /\ sale[s].status \in {"OPEN", "APPROVED"}
  /\ ~Held(n)
  /\ Start(r, [Begin("number", u, s) EXCEPT !.number = n])

(* setInvoiceNo: before approval whoever may edit the sale, after it       *)
(* Accounting only, and never a number some sale holds.                    *)
ReadForSetNo(r, u, s, n) ==
  /\ Open(r, "number")
  /\ \/ sale[s].status = "OPEN"
     \/ sale[s].status = "APPROVED" /\ u = "acct"
  /\ ~Held(n)
  /\ Start(r, [Begin("number", u, s) EXCEPT !.number = n])

(* Mutant: a number of any size moves the counter.                         *)
Ahead_AnySize(n, b) == /\ settings.prefix[b] = n.prefix /\ n.prefix # Blank
                       /\ n.seq >= settings.next[b]

(* A number that looks as if it came from b's sequence, which has not      *)
(* passed it yet.                                                          *)
Ahead(n, b) == /\ settings.prefix[b] = n.prefix /\ n.prefix # Blank
               /\ n.seq >= settings.next[b] /\ n.seq < MaxSequence

(* Mutant: a number equal to the counter does not move it.                 *)
ReadCounters_Equal(r) ==
  LET n == req[r].number
  IN  /\ At(r, {"number"}, "read")
      /\ Start(r, IF \E b \in Brands : Ahead(n, b) /\ n.seq > settings.next[b]
                  THEN [req[r] EXCEPT !.at = "jump",
                                      !.jump = CHOOSE b \in Brands : Ahead(n, b)]
                  ELSE [req[r] EXCEPT !.at = "write"])

(* advanceSequencePast reads the counters; VFW's is looked at first.       *)
ReadCounters(r) ==
  LET n == req[r].number
  IN  /\ At(r, {"number"}, "read")
      /\ Start(r, IF \E b \in Brands : Ahead(n, b)
                  THEN [req[r] EXCEPT !.at = "jump",
                                      !.jump = IF Ahead(n, "VFW") THEN "VFW" ELSE "GFC"]
                  ELSE [req[r] EXCEPT !.at = "write"])

(* Its write sets the counter it chose to a value from that read.          *)
Jump(r) ==
  /\ At(r, {"number"}, "jump")
  /\ ~Locked
  /\ Start(r, [req[r] EXCEPT
                 !.at = "hold",
                 !.row = [settings EXCEPT !.next[req[r].jump] = req[r].number.seq + 1]])

CommitSetNo(r) ==
  /\ \/ At(r, {"number"}, "write") /\ UNCHANGED settings
     \/ At(r, {"number"}, "hold") /\ settings' = req[r].row
  /\ ~Held(req[r].number)
  /\ sale' = [sale EXCEPT ![req[r].sale].number = req[r].number]
  /\ Finish(r)

(* A handler refuses, trips the unique index or loses its process: its     *)
(* transaction is rolled back and the lock released.                       *)
Fail(r) ==
  /\ req[r] # Idle
  /\ Finish(r)
  /\ UNCHANGED records

-----------------------------------------------------------------------------
HandNumbers == [prefix : Prefixes, seq : HandSeqs]

Begins(r) ==
  \E s \in Sales :
    \/ TakeRef(r, s)
    \/ \E op \in {"generate", "export"} : ReadForNumber(r, op, s)
    \/ \E u \in Users, n \in HandNumbers : ReadForSetNo(r, u, s, n)

Goes(r) ==
  \/ CommitCreate(r)
  \/ TakeNumber(r) \/ CommitNumber(r)
  \/ ReadCounters(r) \/ Jump(r) \/ CommitSetNo(r)
  \/ Fail(r)

Next ==
  \E r \in Reqs :
    \/ Begins(r) \/ Goes(r)
    \/ \E s \in Sales : Approve(r, s) \/ Void(r, s)
    \/ \E b \in Brands, p \in Prefixes : ChangePrefix(r, b, p)

Spec == Init /\ [][Next]_vars

(* A handler that has begun goes on or fails, and Accounting asks for a    *)
(* number again until it gets one.                                         *)
Asked(s, r) == req[r] # Idle /\ req[r].op = "generate" /\ req[r].sale = s
Fairness ==
  /\ \A r \in Reqs : WF_vars(Goes(r))
  /\ \A s \in Sales :
       /\ SF_vars(\E r \in Reqs : ReadForNumber(r, "generate", s))
       /\ SF_vars(\E r \in Reqs : Asked(s, r) /\ TakeNumber(r))
       /\ SF_vars(\E r \in Reqs : Asked(s, r) /\ CommitNumber(r))

FairSpec == Spec /\ Fairness

-----------------------------------------------------------------------------
Made == {s \in Sales : sale[s].status # "none"}

TypeOK ==
  /\ settings \in Settings
  /\ sale \in [Sales -> Sale]
  /\ req \in [Reqs -> Request \cup {Idle}]

(* The references given are exactly the numbers up to the counter, one     *)
(* sale each, whatever creations fail or run at once (nextRef:             *)
(* "sequential and gapless").                                              *)
RefsAreGapless ==
  /\ {sale[s].ref : s \in Made} = 1 .. settings.nextRef - 1
  /\ \A s, o \in Made : s # o => sale[s].ref # sale[o].ref

(* A brand's counter is past every number of its sequence that a sale      *)
(* holds (advanceSequencePast: "Keep the automatic sequence ahead of a     *)
(* number somebody typed").                                                *)
SequenceIsAhead ==
  \A s \in Sales, b \in Brands :
    LET n == sale[s].number
    IN  n # None /\ n.prefix = settings.prefix[b] /\ n.seq < MaxSequence
          => n.seq < settings.next[b]

(* With nothing typed by hand, every number a brand's sequence has given   *)
(* out is on a sale (allocateInvoice: "the sequence is gapless").          *)
InvoicesAreGapless ==
  \A b \in Brands : \A k \in 1 .. settings.next[b] - 1 :
    Held([prefix |-> FirstPrefix[b], seq |-> k])

(* The counter never gets near its column's limit: three sales cannot use  *)
(* it up (advanceSequencePast: "will not reach a number this size").       *)
SequenceStaysLow == \A b \in Brands : settings.next[b] < MaxSequence

(* Once a sale is approved only Accounting changes its number              *)
(* (setInvoiceNo: "After approval ... it is invoice.generate only").       *)
ApprovedNumberIsAccountings ==
  [][\A s \in Sales :
       sale[s].status = "APPROVED" /\ sale'[s].number # sale[s].number =>
         \E r \in Reqs : req[r] # Idle /\ req[r].sale = s /\ req[r].user = "acct"
                          /\ req'[r] = Idle]_vars

(* An approved sale whose invoice Accounting keeps asking for is numbered  *)
(* in the end: no number typed on another sale blocks the sequence.        *)
ApprovedIsInvoiced ==
  \A s \in Sales :
    sale[s].status = "APPROVED" ~> (sale[s].number # None \/ sale[s].status = "DEAD")
=============================================================================
