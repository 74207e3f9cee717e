---------------------------- MODULE MailAccounts ----------------------------
(***************************************************************************)
(* The mailboxes that may send (MailAccountService): the rows, the copy of *)
(* them in memory that every decision reads, and the SMTP transport that   *)
(* EmailService keeps from one send to the next.  A request is split at    *)
(* its awaits; a transaction is the snapshot its first statement takes and *)
(* the commit.                                                             *)
(***************************************************************************)
EXTENDS Naturals, FiniteSets, Sequences

CONSTANTS
  Accounts,   \* mailboxes, in the order they are entered
  Reqs,       \* request slots
  Ops,        \* create, update, activate, remove, send
  MaxSecrets, \* bound on the passwords a mailbox has in turn
  MaxWrites,  \* bound on the writes
  None

VARIABLES
  rows,      \* the MailAccount rows: which send, and with which password
  cache,     \* the rows as last read
  version,   \* bumped by every write
  transport, \* the transport kept: its key, its account, its password
  req        \* the requests in flight

vars == <<rows, cache, version, transport, req>>

First(s) == CHOOSE a \in s : TRUE
Active(table) == {a \in DOMAIN table : table[a].active}

At(r, step) == req[r] # None /\ req[r].at = step
AtWork == {r \in Reqs : req[r] # None}
Free(r) == req[r] = None /\ version + Cardinality(AtWork) < MaxWrites
Begin(r, step, what) == req' = [req EXCEPT ![r] = [what EXCEPT !.at = step]]
Finish(r) == req' = [req EXCEPT ![r] = None]
Request(a) == [at |-> None, id |-> a, seen |-> {}, read |-> << >>]
NoRows == [a \in {} |-> None]

Init ==
  /\ rows = NoRows /\ cache = NoRows
  /\ version = 0 /\ transport = None
  /\ req = [r \in Reqs |-> None]

-----------------------------------------------------------------------------
(* create: the first account sends.                                        *)
CountRows(r, a) ==
  /\ "create" \in Ops /\ Free(r)
  /\ a \notin DOMAIN rows \cup {req[q].id : q \in AtWork}
  /\ Begin(r, "insert", [Request(a) EXCEPT !.seen = DOMAIN rows])
  /\ UNCHANGED <<rows, cache, version, transport>>

Insert(r) ==
  /\ At(r, "insert")
  /\ LET a == req[r].id IN
     rows' = [b \in DOMAIN rows \cup {a} |->
                IF b = a THEN [active |-> req[r].seen = {}, secret |-> 1] ELSE rows[b]]
  /\ Begin(r, "reload", req[r])
  /\ UNCHANGED <<cache, version, transport>>

(* update of a password; what is not in the cache does not exist.          *)
Edit(r, a) ==
  /\ "update" \in Ops /\ Free(r)
  /\ a \in DOMAIN cache /\ a \in DOMAIN rows
  /\ rows[a].secret < MaxSecrets
  /\ rows' = [rows EXCEPT ![a].secret = @ + 1]
  /\ Begin(r, "reload", Request(a))
  /\ UNCHANGED <<cache, version, transport>>

(* activate: whoever is seen sending is stopped, and this one sends.       *)
StartActivate(r, a) ==
  /\ "activate" \in Ops /\ Free(r)
  /\ a \in DOMAIN cache
  /\ Begin(r, "activate", [Request(a) EXCEPT !.seen = Active(rows)])
  /\ UNCHANGED <<rows, cache, version, transport>>

(* Mutant: the one sending before is not stopped.                          *)
Stopped_None(r) == {}

Stopped(r) == req[r].seen

Activate(r) ==
  /\ At(r, "activate")
  /\ LET a == req[r].id IN
     IF a \in DOMAIN rows
     THEN /\ rows' = [b \in DOMAIN rows |->
                [rows[b] EXCEPT !.active = b = a \/ (@ /\ b \notin Stopped(r))]]
          /\ Begin(r, "reload", req[r])
     ELSE UNCHANGED rows /\ Finish(r)
  /\ UNCHANGED <<cache, version, transport>>

(* remove: refused for the account that sends, unless it is the last.      *)
(* Mutant: whatever sends may go.                                          *)
Removable_Any(a) == a \in DOMAIN cache

Removable(a) ==
  /\ a \in DOMAIN cache
  /\ ~(cache[a].active /\ Cardinality(DOMAIN cache) > 1)

StartRemove(r, a) ==
  /\ "remove" \in Ops /\ Free(r)
  /\ Removable(a)
  /\ Begin(r, "delete", Request(a))
  /\ UNCHANGED <<rows, cache, version, transport>>

Delete(r) ==
  /\ At(r, "delete")
  /\ IF req[r].id \in DOMAIN rows
     THEN /\ rows' = [b \in DOMAIN rows \ {req[r].id} |-> rows[b]]
          /\ Begin(r, "reload", req[r])
     ELSE UNCHANGED rows /\ Finish(r)
  /\ UNCHANGED <<cache, version, transport>>

(* bump: every write reads the table again and puts it in the cache.       *)
(* Mutant: the write is noted, and the copy is not read again.             *)
Stored_Before == cache

Stored == rows

Reload(r) ==
  /\ At(r, "reload")
  /\ Begin(r, "bump", [req[r] EXCEPT !.read = Stored])
  /\ UNCHANGED <<rows, cache, version, transport>>

Bump(r) ==
  /\ At(r, "bump")
  /\ cache' = req[r].read
  /\ version' = version + 1
  /\ Finish(r)
  /\ UNCHANGED <<rows, transport>>

-----------------------------------------------------------------------------
(* EmailService.resolve and transportFor: the active account of the cache, *)
(* through the transport kept if it was built for this account and version.*)
(* Mutant: one transport per account, whatever is edited.                  *)
Key_Account(a) == a

Key(a) == <<a, version>>

Kept(a) == transport # None /\ transport.key = Key(a)
Through(a) == IF Kept(a) THEN transport
              ELSE [key |-> Key(a), account |-> a, secret |-> cache[a].secret]

Send ==
  /\ "send" \in Ops /\ Active(cache) # {}
  /\ transport' = Through(First(Active(cache)))
  /\ UNCHANGED <<rows, cache, version, req>>

(* A write that fails, or a request that ends, before its commit.          *)
Abort(r) ==
  /\ \E step \in {"insert", "activate", "delete"} : At(r, step)
  /\ Finish(r)
  /\ UNCHANGED <<rows, cache, version, transport>>

Step(r) ==
  \/ \E a \in Accounts : CountRows(r, a) \/ Edit(r, a) \/ StartActivate(r, a) \/ StartRemove(r, a)
  \/ Insert(r) \/ Activate(r) \/ Delete(r) \/ Reload(r) \/ Bump(r) \/ Abort(r)

Next == (\E r \in Reqs : Step(r)) \/ Send

Spec == Init /\ [][Next]_vars

-----------------------------------------------------------------------------
Quiet == \A r \in Reqs : req[r] = None

MailTypeOK ==
  /\ DOMAIN rows \subseteq Accounts /\ DOMAIN cache \subseteq Accounts
  /\ \A a \in DOMAIN rows : rows[a] \in [active : BOOLEAN, secret : 1 .. MaxSecrets]
  /\ transport # None => transport.account \in Accounts

(* "Exactly one is isActive": not two, and not none while there is any.    *)
OneSends == DOMAIN rows # {} => Cardinality(Active(rows)) = 1

(* What every decision reads is what is stored, once the writes are done.  *)
CacheIsCurrent == Quiet => cache = rows

(* A message goes out of the mailbox that is active, with the password it  *)
(* has now, whatever was edited or switched since the transport was built  *)
(* ("a saved change takes effect on the next send without a restart").     *)
MailGoesAsShown == Quiet => \A a \in Active(rows) :
  Active(cache) # {} => LET t == Through(First(Active(cache))) IN
    t.account = a /\ t.secret = rows[a].secret

(* What writes keep that follow one another.                               *)
MailboxHolds == OneSends /\ CacheIsCurrent /\ MailGoesAsShown
=============================================================================
