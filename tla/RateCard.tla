------------------------------ MODULE RateCard ------------------------------
(***************************************************************************)
(* One row of the catalogue (a package, an add-on, a tax profile) added    *)
(* and edited by administrators: the form each opens on it, the fields it  *)
(* sends, the difference the handler finds to the row it reads, and the    *)
(* transaction that writes the difference and its audit entry              *)
(* (AdminService.createPackage, createAddon, createTax, updatePackage,     *)
(* updateAddon, updateTax; the modals and rows of Admin.tsx).              *)
(***************************************************************************)
EXTENDS Integers, Sequences

CONSTANTS
  Fields,    \* a package's prices by city, its codes, its cap; a tax's rate
  Optional,  \* those of them that are not sent when they are left blank
  Figures,   \* what each of them may be
  Admins,
  OneField,  \* TRUE: the row is edited in the table, its one field there
  MaxEdits,  \* bound on the audit entries
  None

VARIABLES
  card,   \* the row, or None while there is none of its id
  log,    \* its audit entries: what each changed, before and after
  seen,   \* the row as each open form's page last fetched it; None for a new one
  typed,  \* what the form shows, or None when it is closed
  patch   \* each administrator's request in flight: [before, after], or None

cardVars == <<card, log, seen, typed, patch>>

Rows == {r \in [Fields -> UNION {Figures[f] : f \in Fields}] : \A f \in Fields : r[f] \in Figures[f]}

CardInit ==
  /\ card \in Rows \cup {None}
  /\ log = <<>>
  /\ seen = [a \in Admins |-> None] /\ typed = [a \in Admins |-> None]
  /\ patch = [a \in Admins |-> None]

-----------------------------------------------------------------------------
(* A row of the table is fetched again while it is typed in; a modal was   *)
(* filled when it opened.                                                  *)
Fetch(a) ==
  /\ OneField /\ seen[a] # None /\ seen[a] # card
  /\ seen' = [seen EXCEPT ![a] = card]
  /\ UNCHANGED <<card, log, typed, patch>>

OpenNew(a) ==
  /\ typed[a] = None
  /\ typed' = [typed EXCEPT ![a] = CHOOSE r \in Rows : \A f \in Optional : r[f] = None]
  /\ UNCHANGED <<card, log, seen, patch>>

Open(a) ==
  /\ typed[a] = None /\ card # None
  /\ seen' = [seen EXCEPT ![a] = card] /\ typed' = [typed EXCEPT ![a] = card]
  /\ UNCHANGED <<card, log, patch>>

Close(a) ==
  /\ typed[a] # None /\ patch[a] = None
  /\ seen' = [seen EXCEPT ![a] = None] /\ typed' = [typed EXCEPT ![a] = None]
  /\ UNCHANGED <<card, log, patch>>

Type(a, f, v) ==
  /\ typed[a] # None /\ typed[a][f] # v
  /\ typed' = [typed EXCEPT ![a][f] = v]
  /\ UNCHANGED <<card, log, seen, patch>>

(* What is posted: the field of the table's row, or all of a form but the  *)
(* optional ones left blank.                                               *)
Dirty(a) == {f \in Fields : typed[a][f] # seen[a][f]}
Sent(a) ==
  IF OneField THEN Dirty(a)
  ELSE {f \in Fields : f \notin Optional \/ typed[a][f] # None}

(* Mutant: what is sent is written, changed or not.                        *)
Changed_Sent(sent, form) == sent

(* The fields whose new value differs from the row's.                      *)
Changed(sent, form) == {f \in sent : form[f] # card[f]}

(* createPackage, createAddon, createTax: no row of that id is there.  The *)
(* entry leaves the optional fields out.                                   *)
ReadNew(a) ==
  /\ typed[a] # None /\ seen[a] = None /\ patch[a] = None /\ Len(log) < MaxEdits
  /\ card = None
  /\ patch' = [patch EXCEPT ![a] = [new |-> TRUE, before |-> <<>>, after |-> typed[a]]]
  /\ UNCHANGED <<card, log, seen, typed>>

(* The row is read and compared; nothing changed is refused.               *)
Read(a) ==
  /\ seen[a] # None /\ patch[a] = None /\ Len(log) < MaxEdits
  /\ OneField => Dirty(a) # {}
  /\ LET found == Changed(Sent(a), typed[a])
     IN  /\ found # {}
         /\ patch' = [patch EXCEPT ![a] =
              [new |-> FALSE,
               before |-> [f \in {g \in found : card[g] # typed[a][g]} |-> card[f]],
               after |-> [f \in found |-> typed[a][f]]]]
  /\ UNCHANGED <<card, log, seen, typed>>

Entry(a) == [
  before |-> patch[a].before,
  after |-> LET told == IF patch[a].new THEN Fields \ Optional ELSE DOMAIN patch[a].before
            IN  [f \in told |-> patch[a].after[f]]]

(* Mutant: a second row of the id takes the place of the first.            *)
Taken_Never(a) == FALSE

(* The id is unique: another row came first, and the form stays open.      *)
Taken(a) == patch[a].new /\ card # None

(* The transaction: the difference, and the entry that records it.         *)
Write(a) ==
  /\ patch[a] # None
  /\ IF Taken(a) THEN UNCHANGED <<card, log, seen, typed>>
     ELSE /\ card' = [f \in Fields |-> IF f \in DOMAIN patch[a].after THEN patch[a].after[f] ELSE card[f]]
          /\ log' = Append(log, Entry(a))
          /\ seen' = [seen EXCEPT ![a] = None] /\ typed' = [typed EXCEPT ![a] = None]
  /\ patch' = [patch EXCEPT ![a] = None]

CardNext == \E a \in Admins :
  \/ Fetch(a) \/ OpenNew(a) \/ Open(a) \/ Close(a) \/ ReadNew(a) \/ Read(a) \/ Write(a)
  \/ \E f \in Fields : \E v \in Figures[f] : Type(a, f, v)

-----------------------------------------------------------------------------
CardTypeOK ==
  /\ card \in Rows \cup {None}
  /\ \A a \in Admins : typed[a] # None => seen[a] \in Rows \cup {None} /\ typed[a] \in Rows
  /\ \A a \in Admins : patch[a] # None => DOMAIN patch[a].after # {}
  /\ \A i \in DOMAIN log : DOMAIN log[i].before \subseteq DOMAIN log[i].after

(* The newest entry that speaks of a field gives the value it has, and a   *)
(* row is made once, though requests cross between read and write          *)
(* (updateTax: "the before/after payload matters more here than            *)
(* anywhere").                                                             *)
AuditTellsTheRow ==
  /\ \A i, j \in DOMAIN log : log[i].before = <<>> /\ log[j].before = <<>> => i = j
  /\ \A f \in Fields :
       LET of == {i \in DOMAIN log : f \in DOMAIN log[i].after}
       IN  of # {} => \E i \in of : (\A j \in of : j <= i) /\ log[i].after[f] = card[f]
=============================================================================
