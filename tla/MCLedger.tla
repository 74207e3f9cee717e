------------------------------ MODULE MCLedger ------------------------------
(***************************************************************************)
(* Ledger in the settings its properties are about, one of which a         *)
(* behaviour follows from its start: "alone", all but amendments of the    *)
(* sale, one handler at a time; "plan", only what a plan goes through, one *)
(* handler at a time; "races", two handlers crossing, no card payments;    *)
(* "cards", card payments with what crosses them.                   *)
(***************************************************************************)
EXTENDS Ledger, TLC

OnePrice == {[total |-> 300, deposit |-> 100]}
TwoPrices == OnePrice \cup {[total |-> 450, deposit |-> 0]}

(* A payment, and the entry that corrects it.                              *)
PlusMinus == {100, -100}

CONSTANTS
  FewInsts,    \* bound on the instalments of "alone" and "races"
  FewEntries   \* bound on the ledger of "alone"

VARIABLE part

Symmetry == Permutations(Reqs)

state == <<part, sale, inst, session, ledger, req>>

-----------------------------------------------------------------------------
Races == INSTANCE Ledger WITH
  Prices <- OnePrice, HandAmounts <- {100}, Parts <- {100},
  Ops <- {"pay", "plan", "clear", "mark", "unmark", "void"},
  MaxEntries <- 3

(* A balance of 4.50, and after a payment by hand of 1.30 and of 3.80: of  *)
(* a currency like the yen, whose Unit is 100, no card is charged these.   *)
Cards == INSTANCE Ledger WITH
  HandAmounts <- {70},
  Ops <- {"pay", "checkout", "webhook", "update", "void"},
  MaxEntries <- 1

OneAtATime == \A r, o \in Reqs : req[r] # Idle /\ req[o] # Idle => r = o

(* The requests in flight are of these operations.                         *)
Serves(ops) == \A r \in Reqs : req[r] # Idle => req[r].op \in ops

NoUpdate == AllOps \ {"update"}
PlanOps == {"plan", "mark", "unmark"}

Numbered == \A i \in Insts : i > FewInsts => inst[i].status = "none"
Posts == ledger.entries <= FewEntries

LedgerInit ==
  \/ part \in {"alone", "plan"} /\ Init
  \/ part = "races" /\ Races!Init
  \/ part = "cards" /\ Cards!Init

LedgerNext ==
  /\ UNCHANGED part
  /\ \/ /\ part = "alone" /\ Next
        /\ OneAtATime' /\ Serves(NoUpdate)'
        /\ Numbered' /\ Posts'
     \/ /\ part = "plan" /\ Next
        /\ OneAtATime' /\ Serves(PlanOps)'
     \/ part = "races" /\ Races!Next /\ Numbered'
     \/ part = "cards" /\ Cards!Next

LedgerSpec == LedgerInit /\ [][LedgerNext]_state

(* Ledger with the operations its configuration names, and no other part.  *)
OnePart ==
  /\ part = "none" /\ Init
  /\ [][Next /\ UNCHANGED part]_state

-----------------------------------------------------------------------------
(* Handlers that run one at a time leave the paid amount and the balance   *)
(* to the whole ledger (recomputeMoney), and plans alone cover what is     *)
(* still owed (setPlan).                                                   *)
AloneMoneyAddsUp ==
  /\ part = "alone" => MoneyFollowsLedger
  /\ part = "plan" => PlanCoversBalance

=============================================================================
