-------------------------------- MODULE MCSale --------------------------------
(***************************************************************************)
(* SaleLifecycle in the settings its properties are about, one of which a  *)
(* behaviour follows from its start: "alone", every operation, one handler *)
(* at a time; "races", two handlers crossing at every await on one sale;   *)
(* and "exports", two handlers crossing on a sale, of test data or real,   *)
(* that goes to a sandbox or a production company.                         *)
(***************************************************************************)
EXTENDS SaleLifecycle, TLC

VARIABLE part

(* Figures: a shallow discount, a deep one, a shallow one on a customized  *)
(* package.                                                                *)
Shallow == [disc |-> 10, custom |-> FALSE]
Deep == [disc |-> 50, custom |-> FALSE]
Custom == [disc |-> 10, custom |-> TRUE]

MCFigures == {Shallow, Deep, Custom}
DeepAndDeeper == {Deep, [disc |-> 90, custom |-> FALSE]}
ShallowOnly == {Shallow}
ShallowAndDeep == {Shallow, Deep}

Symmetry == Permutations(Accts) \cup Permutations(Reqs)

state == <<part, sale, threshold, qbo, books, approval, asks, req>>

-----------------------------------------------------------------------------
Races == INSTANCE SaleLifecycle WITH
  Figures <- ShallowAndDeep, Thresholds <- {20}, MaxDocs <- 1,
  Connections <- {"sandbox"}, TestData <- {TRUE},
  Ops <- {"approve", "update", "void", "unvoid"}

Exports == INSTANCE SaleLifecycle WITH
  Figures <- ShallowOnly, Thresholds <- {20}, Connections <- {"sandbox", "production"},
  Ops <- {"approve", "update", "void", "unvoid", "export"}

(* "alone" sells for real and bills in a sandbox.                          *)
Sandboxed == qbo # "production" /\ ~ sale.isTest

OneAtATime == \A r, s \in Reqs : req[r] # Idle /\ req[s] # Idle => r = s

SaleInit ==
  \/ part = "alone" /\ Init /\ Sandboxed
  \/ part = "races" /\ Races!Init
  \/ part = "exports" /\ Exports!Init

SaleNext ==
  /\ UNCHANGED part
  /\ \/ part = "alone" /\ Next /\ OneAtATime' /\ Sandboxed'
     \/ part = "races" /\ Races!Next
     \/ part = "exports" /\ Exports!Next

SaleSpec == SaleInit /\ [][SaleNext]_state

-----------------------------------------------------------------------------
(* Handlers that run one at a time sign what they judged (approve), keep a *)
(* request only for the figures it was made for (update) and only while    *)
(* the sale waits for its second sign-off (reject, returnToSales), and     *)
(* show a sync error only on a sale that is not exported (export).         *)
AloneJudgesWhatItSigns == part = "alone" =>
  /\ SignedAsJudged
  /\ RequestIsForTheseFigures
  /\ NoRequestOnceDecided
  /\ SyncErrorMeansNotExported

(* They also obey, step by step, the contract of the handlers' comments,   *)
(* and only Accounting amends a decided sale (update).                     *)
Amended ==
  sale.status \in Decided /\ sale'.fig # sale.fig =>
    \E r \in Reqs : At(r, "update", "read") /\ req[r].user \in Accts /\ req'[r] = Idle

AloneImplementsContract ==
  /\ part = "alone" => Contract!Init
  /\ [][part = "alone" => Amended /\ (Contract!Next \/ UNCHANGED Contract!vars)]_state
=============================================================================
