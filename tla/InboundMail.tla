----------------------------- MODULE InboundMail -----------------------------
(***************************************************************************)
(* Received mail (InboundMailService): every minute the messages of the    *)
(* last two weeks are listed and, one after another, looked for among the  *)
(* rows and stored.  A poll is split at its awaits; anything but a         *)
(* duplicate ends it.                                                      *)
(***************************************************************************)
EXTENDS Naturals, FiniteSets, FiniteSetsExt

CONSTANTS
  Last,   \* messages 1 .. Last arrive, in the order of their uids
  Bad,    \* messages whose storing fails whenever it is tried
  Polls,  \* poll slots
  Ops,    \* crash, second (another instance polls the same mailbox)
  None

VARIABLES
  inbox,   \* the messages in the mailbox and not older than two weeks
  arrived, \* how many messages have arrived
  rows,    \* how often each is stored
  running, \* the guard against an overlapping tick
  poll     \* the polls at work

vars == <<inbox, arrived, rows, running, poll>>
Messages == 1 .. Last
Stored == {m \in Messages : rows[m] > 0}
At(p, step) == poll[p] # None /\ poll[p].at = step

Init ==
  /\ inbox = {} /\ arrived = 0 /\ rows = [m \in Messages |-> 0]
  /\ running = FALSE /\ poll = [p \in Polls |-> None]

-----------------------------------------------------------------------------
Arrive ==
  /\ arrived < Last
  /\ arrived' = arrived + 1 /\ inbox' = inbox \cup {arrived'}
  /\ UNCHANGED <<rows, running, poll>>

(* Deleted by its owner, or two weeks old: out of reach, and stored by     *)
(* then; that polls fail for two weeks is left out.                        *)
Leaves(m) ==
  /\ m \in inbox \cap Stored
  /\ inbox' = inbox \ {m}
  /\ UNCHANGED <<arrived, rows, running, poll>>

Tick(p) ==
  /\ poll[p] = None /\ (~running \/ "second" \in Ops)
  /\ running' = TRUE
  /\ poll' = [poll EXCEPT ![p] = [at |-> "next", left |-> inbox]]
  /\ UNCHANGED <<inbox, arrived, rows>>

(* fetch gives the messages in order; persist passes over what it finds.   *)
(* Mutant: it stops at the first message that is there already.            *)
Seen_Stops(left, m) == {}

Seen(left, m) == left \ {m}

Look(p) ==
  /\ At(p, "next") /\ poll[p].left # {}
  /\ LET m == Min(poll[p].left) IN
     poll' = IF m \in Stored THEN [poll EXCEPT ![p].left = Seen(poll[p].left, m)]
                             ELSE [poll EXCEPT ![p].at = "store"]
  /\ UNCHANGED <<inbox, arrived, rows, running>>

(* create: one row to a message, says the unique index.                    *)
(* Mutant: there is no such index.                                         *)
Taken_Never(m) == FALSE

Taken(m) == m \in Stored

Store(p) ==
  /\ At(p, "store")
  /\ LET m == Min(poll[p].left) IN
     /\ m \notin Bad
     /\ rows' = IF Taken(m) THEN rows ELSE [rows EXCEPT ![m] = @ + 1]
     /\ poll' = [poll EXCEPT ![p] = [at |-> "next", left |-> @.left \ {m}]]
  /\ UNCHANGED <<inbox, arrived, running>>

(* Mutant: the guard is not taken off.                                     *)
GuardAfter_Stays == TRUE

GuardAfter == FALSE

Ends(p) ==
  /\ At(p, "next") /\ poll[p].left = {}
  /\ poll' = [poll EXCEPT ![p] = None]
  /\ running' = GuardAfter
  /\ UNCHANGED <<inbox, arrived, rows>>

(* The server hangs up, or a message cannot be parsed or stored.           *)
Fails(p) ==
  /\ poll[p] # None
  /\ poll' = [poll EXCEPT ![p] = None]
  /\ running' = GuardAfter
  /\ UNCHANGED <<inbox, arrived, rows>>

Crash ==
  /\ "crash" \in Ops
  /\ poll' = [p \in Polls |-> None] /\ running' = FALSE
  /\ UNCHANGED <<inbox, arrived, rows>>

Next ==
  \/ \E p \in Polls : Tick(p) \/ Look(p) \/ Store(p) \/ Ends(p) \/ Fails(p)
  \/ Arrive \/ Crash \/ \E m \in Messages : Leaves(m)

(* The timer ticks, polls go on, and of those that come to a message not   *)
(* all break off before they look for it or before they store it.          *)
Comes(p, m) == poll[p] # None /\ poll[p].left # {} /\ m = Min(poll[p].left)

Fairness ==
  /\ \A p \in Polls : WF_vars(Tick(p)) /\ WF_vars(Ends(p))
  /\ \A m \in Messages :
       /\ SF_vars(\E p \in Polls : Comes(p, m) /\ Look(p))
       /\ SF_vars(\E p \in Polls : Comes(p, m) /\ Store(p))

Spec == Init /\ [][Next]_vars /\ Fairness

-----------------------------------------------------------------------------
InboundTypeOK ==
  /\ arrived \in 0 .. Last /\ inbox \subseteq 1 .. arrived
  /\ rows \in [Messages -> Nat] /\ running \in BOOLEAN
  /\ \A p \in Polls : poll[p] # None => poll[p].left \subseteq 1 .. arrived

(* "The same mail pulled on the next tick lands on the same row rather     *)
(* than a duplicate", and so does one that two polls pull at once.         *)
StoredOnce == \A m \in Messages : rows[m] <= 1

(* What arrives is stored, however often a poll breaks off.                *)
MailIsStored == \A m \in Messages : m \in inbox ~> m \in Stored
=============================================================================
