--------------------------- MODULE Configuration ---------------------------
(***************************************************************************)
(* One group of the deployment's settings: the rows an administrator       *)
(* stores, the process's cache of them, the environment underneath, the    *)
(* form each administrator has open on the group, and a client another     *)
(* service keeps, built from the settings in force (ConfigService,         *)
(* ConfigGroupCard of AdminConfig.tsx, StorageService).                    *)
(*                                                                         *)
(* A secret is never sent to the page.  A save is one transaction, then a  *)
(* reload: the rows are read, and, later, the cache is replaced.           *)
(***************************************************************************)
EXTENDS Integers, FiniteSets

CONSTANTS
  Keys,     \* the group's settings
  Secrets,  \* those of them that are write-only
  Values,
  Env,      \* what the environment supplies for each, None where nothing
  Admins,
  Crossing, \* TRUE: a save may start while another is in flight
  MaxSaves, \* bound on the saves
  Garbled,  \* a secret stored under a root key the process no longer has
  None      \* no row, and a blank field

VARIABLES
  stored,   \* the ConfigSetting rows
  held,     \* the cache of them that every reader decides on
  epoch,    \* _version
  client,   \* StorageService's client and the version it was built at
  shown,    \* the group as each page last fetched it
  draft,    \* what each form shows
  edited,   \* which fields each has typed in since the form was last seeded
  save      \* each administrator's save in flight, or None

configVars == <<stored, held, epoch, client, shown, draft, edited, save>>

Entries == Values \cup {None}

-----------------------------------------------------------------------------
(* decoded, get: the row, if it can be read, before the environment.       *)
Decoded(k) == IF held[k] = Garbled THEN None ELSE held[k]

InForce(k) == IF Decoded(k) # None THEN Decoded(k) ELSE Env[k]

(* state(): a secret's value stays behind.                                 *)
Told == [k \in Keys |->
  [value |-> IF k \in Secrets THEN None ELSE InForce(k),
   isSet |-> InForce(k) # None,
   inRow |-> Decoded(k) # None,
   decryptError |-> held[k] = Garbled]]

(* What the form starts from.                                              *)
Seed(told) == [k \in Keys |-> told[k].value]

ConfigInit ==
  /\ stored \in [Keys -> Entries]
  /\ held = stored /\ epoch = 0
  /\ client = [epoch |-> -1, from |-> None]
  /\ shown = [a \in Admins |-> Told]
  /\ draft = [a \in Admins |-> Seed(Told)]
  /\ edited = [a \in Admins |-> {}] /\ save = [a \in Admins |-> None]

-----------------------------------------------------------------------------
(* Mutant: the form keeps what it shows when the group is fetched again.   *)
Reseeded_Never(a) == draft[a]

(* The effect on a group that differs from the one before.                 *)
Reseeded(a) == Seed(Told)

(* The query runs again, on a mount or after a save; a group that is the   *)
(* same leaves the form alone.                                             *)
Fetch(a) ==
  /\ shown[a] # Told
  /\ shown' = [shown EXCEPT ![a] = Told]
  /\ draft' = [draft EXCEPT ![a] = Reseeded(a)]
  /\ edited' = [edited EXCEPT ![a] = {}]
  /\ UNCHANGED <<stored, held, epoch, client, save>>

Type(a, k, v) ==
  /\ draft[a][k] # v
  /\ draft' = [draft EXCEPT ![a][k] = v]
  /\ edited' = [edited EXCEPT ![a] = @ \cup {k}]
  /\ UNCHANGED <<stored, held, epoch, client, shown, save>>

(* Mutant: every field that shows something is sent.                       *)
Changed_All(a) == {k \in Keys : draft[a][k] # None}

Changed(a) == {k \in Keys : draft[a][k] # Seed(shown[a])[k]}

Save(a) ==
  /\ save[a] = None /\ Changed(a) # {} /\ epoch < MaxSaves
  /\ Crossing \/ \A b \in Admins : save[b] = None
  /\ save' = [save EXCEPT ![a] = [at |-> "sent", entries |-> [k \in Changed(a) |-> draft[a][k]]]]
  /\ UNCHANGED <<stored, held, epoch, client, shown, draft, edited>>

(* update: a blank secret is kept, a blank setting deletes its row, a      *)
(* value that is stored already is left.                                   *)
Writes(entries) == {k \in DOMAIN entries :
  IF k \in Secrets THEN entries[k] # None
  ELSE IF entries[k] = None THEN held[k] # None
  ELSE Decoded(k) # entries[k]}

(* Nothing changed; or a row to delete that is no longer there.            *)
Refused(entries) ==
  \/ Writes(entries) = {}
  \/ \E k \in Writes(entries) : entries[k] = None /\ stored[k] = None

Commit(a) ==
  /\ save[a] # None /\ save[a].at = "sent"
  /\ LET entries == save[a].entries
     IN  IF Refused(entries)
         THEN /\ save' = [save EXCEPT ![a] = None]
              /\ UNCHANGED stored
         ELSE /\ stored' = [k \in Keys |-> IF k \in Writes(entries) THEN entries[k] ELSE stored[k]]
              /\ save' = [save EXCEPT ![a] = [at |-> "committed"]]
  /\ UNCHANGED <<held, epoch, client, shown, draft, edited>>

(* reload.                                                                 *)
ReadRows(a) ==
  /\ save[a] # None /\ save[a].at = "committed"
  /\ save' = [save EXCEPT ![a] = [at |-> "read", rows |-> stored]]
  /\ UNCHANGED <<stored, held, epoch, client, shown, draft, edited>>

(* Mutants: the cache keeps what it has, or the version does.              *)
Reloaded_Never(a) == held
Bumped_Never == epoch

Reloaded(a) == save[a].rows
Bumped == epoch + 1

Reload(a) ==
  /\ save[a] # None /\ save[a].at = "read"
  /\ held' = Reloaded(a) /\ epoch' = Bumped
  /\ save' = [save EXCEPT ![a] = None]
  /\ UNCHANGED <<stored, client, shown, draft, edited>>

-----------------------------------------------------------------------------
(* build: no client without every setting (R2_ENDPOINT, which an account   *)
(* id stands in for, is one).                                              *)
Built == IF \A k \in Keys : InForce(k) # None THEN [k \in Keys |-> InForce(k)] ELSE None

(* getClient, whenever a document is stored or fetched.                    *)
Use ==
  /\ client.epoch # epoch
  /\ client' = [epoch |-> epoch, from |-> Built]
  /\ UNCHANGED <<stored, held, epoch, shown, draft, edited, save>>

(* A restart, with another root key in the environment: what was stored    *)
(* under the old one cannot be read, and saves in flight are cut off.      *)
Restart ==
  /\ \E k \in Secrets : stored[k] \notin {None, Garbled}
  /\ stored' = [k \in Keys |-> IF k \in Secrets /\ stored[k] # None THEN Garbled ELSE stored[k]]
  /\ held' = stored' /\ epoch' = 0
  /\ client' = [epoch |-> -1, from |-> None]
  /\ save' = [a \in Admins |-> None]
  /\ UNCHANGED <<shown, draft, edited>>

ConfigNext ==
  \/ \E a \in Admins :
       \/ Fetch(a) \/ Save(a) \/ Commit(a) \/ ReadRows(a) \/ Reload(a)
       \/ \E k \in Keys, v \in Entries : Type(a, k, v)
  \/ Use \/ Restart

-----------------------------------------------------------------------------
ConfigTypeOK ==
  /\ stored \in [Keys -> Entries \cup {Garbled}] /\ held \in [Keys -> Entries \cup {Garbled}]
  /\ epoch \in 0 .. MaxSaves + Cardinality(Admins)
  /\ client.epoch \in -1 .. epoch
  /\ draft \in [Admins -> [Keys -> Entries]]
  /\ edited \in [Admins -> SUBSET Keys]

(* What is decided on is what is stored, once no save is in flight, where  *)
(* they do not cross (update's reload).                                    *)
HeldIsStored == (\A a \in Admins : save[a] = None) => held = stored

(* Documents go through a client built from what is in force, however      *)
(* saves cross ("so a saved setting takes effect on the next upload        *)
(* without a restart", getClient).                                         *)
ClientIsInForce == client.epoch = epoch => client.from = Built

(* What a save sends was typed since the form last showed what the server  *)
(* says: no environment's value is copied into a row, and no other         *)
(* administrator's is put back ("an untouched field is never re-sent",     *)
(* ConfigGroupCard).                                                       *)
OnlyTypedIsSent == \A a \in Admins :
  save[a] = None /\ save'[a] # None => DOMAIN save'[a].entries \subseteq edited[a]
=============================================================================
