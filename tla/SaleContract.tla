---------------------------- MODULE SaleContract ----------------------------
(***************************************************************************)
(* What the comments of SubmissionsService promise about a sale's status,  *)
(* stated as if every operation were one atomic step on the row: who may   *)
(* move it where, that a deep discount takes two people, that a request    *)
(* for a second sign-off dies with the figures it was made for, and that a *)
(* void is undone exactly.                                                 *)
(***************************************************************************)
EXTENDS Integers

CONSTANTS Accts, None, Figures, Thresholds

VARIABLES status, voidedFrom, fig, askedBy, threshold

vars == <<status, voidedFrom, fig, askedBy, threshold>>

Deep(f, t) == f.disc > t

Init ==
  /\ status = "PENDING"
  /\ voidedFrom = None
  /\ fig \in Figures
  /\ askedBy = None
  /\ threshold \in Thresholds

(* One person asks; the sale stays in the queue.                           *)
Ask(u) ==
  /\ status = "PENDING"
  /\ Deep(fig, threshold)
  /\ askedBy = None
  /\ askedBy' = u
  /\ UNCHANGED <<status, voidedFrom, fig>>

(* A shallow discount takes one person, a deep one somebody who is not the *)
(* person who asked.                                                       *)
Approve(u) ==
  /\ status = "PENDING"
  /\ Deep(fig, threshold) => askedBy \notin {None, u}
  /\ status' = "APPROVED"
  /\ askedBy' = None
  /\ UNCHANGED <<voidedFrom, fig>>

Dismiss(to) ==
  /\ status = "PENDING"
  /\ status' = to
  /\ askedBy' = None
  /\ UNCHANGED <<voidedFrom, fig>>

(* New figures reopen the question of sign-off; a decided sale keeps its   *)
(* decision, any other live one goes to (or stays in) the queue.           *)
Amend(f) ==
  /\ status \notin {"REJECTED", "VOIDED"}
  /\ status' = IF status \in {"APPROVED", "EXPORTED"} THEN status ELSE "PENDING"
  /\ fig' = f
  /\ askedBy' = None
  /\ UNCHANGED voidedFrom

Void ==
  /\ status # "VOIDED"
  /\ status' = "VOIDED"
  /\ voidedFrom' = status
  /\ UNCHANGED <<fig, askedBy>>

Restore ==
  /\ status = "VOIDED"
  /\ status' = voidedFrom
  /\ voidedFrom' = None
  /\ UNCHANGED <<fig, askedBy>>

Export ==
  /\ status = "APPROVED"
  /\ status' = "EXPORTED"
  /\ UNCHANGED <<voidedFrom, fig, askedBy>>

(* The threshold is Administration's and may move at any moment.           *)
Next ==
  /\ threshold' \in Thresholds
  /\ \/ \E u \in Accts : Ask(u) \/ Approve(u)
     \/ \E to \in {"REJECTED", "RETURNED"} : Dismiss(to)
     \/ \E f \in Figures : Amend(f)
     \/ Void
     \/ Restore
     \/ Export
     \/ UNCHANGED <<status, voidedFrom, fig, askedBy>>

Spec == Init /\ [][Next]_vars

=============================================================================
