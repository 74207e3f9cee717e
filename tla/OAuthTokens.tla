----------------------------- MODULE OAuthTokens -----------------------------
(***************************************************************************)
(* The connection to an OAuth provider: QboConnectionService and           *)
(* DocusignConnectionService, split at their awaits, with the provider's   *)
(* refresh tokens, each good for one use.  The connection is one row; the  *)
(* links of handshakes under way are memory.                               *)
(***************************************************************************)
EXTENDS Naturals, Sequences

CONSTANTS
  Provider, \* "qbo" names the company after storing it, "docusign" before
  Users,    \* the administrators
  Realms,   \* the companies or accounts one may connect
  Reqs,     \* request slots
  Ops,      \* connect, disconnect, use, lost (an answer of the provider is lost)
  MaxLinks, \* bound on the handshakes started
  MaxTokens,\* bound on the tokens the provider issues
  None

VARIABLES
  row,     \* the connection: realm, refresh token, whether the access token is fresh, name
  pending, \* handshake links waiting for their callback: state to user
  started, \* who started each handshake
  adopted, \* the handshakes that a callback has taken up, and by whom
  issued,  \* refresh tokens issued so far, by realm of each
  good,    \* the refresh tokens that the provider would accept
  req      \* the requests in flight

vars == <<row, pending, started, adopted, issued, good, req>>
links == <<pending, started, adopted>>
provider == <<issued, good>>

At(r, step) == req[r] # None /\ req[r].at = step
Begin(r, step, what) == req' = [req EXCEPT ![r] = [what EXCEPT !.at = step]]
Finish(r) == req' = [req EXCEPT ![r] = None]
Request == [at |-> None, realm |-> None, token |-> 0]

Init ==
  /\ row = None /\ pending = {} /\ started = << >> /\ adopted = << >>
  /\ issued = << >> /\ good = {}
  /\ req = [r \in Reqs |-> None]

-----------------------------------------------------------------------------
(* The provider: a code or a refresh token buys a new refresh token, and   *)
(* the one spent is no good any more.                                      *)
Issue(realm, spent) ==
  /\ Len(issued) < MaxTokens
  /\ issued' = Append(issued, realm)
  /\ good' = (good \ spent) \cup {Len(issued')}

-----------------------------------------------------------------------------
(* authorizeUrl, and the ten minutes its state is honoured.                *)
Authorize(u) ==
  /\ "connect" \in Ops /\ Len(started) < MaxLinks
  /\ started' = Append(started, u)
  /\ pending' = pending \cup {Len(started')}
  /\ UNCHANGED <<row, adopted, provider, req>>

LinkExpires(s) ==
  /\ s \in pending
  /\ pending' = pending \ {s}
  /\ UNCHANGED <<row, started, adopted, provider, req>>

(* handleCallback: the state is taken out whatever is decided about it.    *)
(* Mutant: the state stays.                                                *)
Taken_Stays(s) == pending

Taken(s) == pending \ {s}

(* Mutant: anyone may finish the handshake.                                *)
Honoured_Anyones(s, u) == s \in pending

Honoured(s, u) == s \in pending /\ started[s] = u

Callback(r, s, u, realm) ==
  /\ "connect" \in Ops /\ req[r] = None
  /\ s \in DOMAIN started
  /\ pending' = Taken(s)
  /\ IF Honoured(s, u)
     THEN /\ adopted' = Append(adopted, [state |-> s, by |-> u])
          /\ Begin(r, "exchange", [Request EXCEPT !.realm = realm])
     ELSE UNCHANGED <<adopted, req>>
  /\ UNCHANGED <<row, started, provider>>

ExchangeCode(r) ==
  /\ At(r, "exchange")
  /\ Issue(req[r].realm, {})
  /\ Begin(r, "store", [req[r] EXCEPT !.token = Len(issued')])
  /\ UNCHANGED <<row, links>>

(* The row is replaced; DocuSign's account has been read with the tokens.  *)
Connection(r) == [realm |-> req[r].realm, refresh |-> req[r].token, fresh |-> TRUE,
                  name |-> IF Provider = "qbo" THEN None ELSE req[r].realm]

(* Mutants: no refresh token is stored; a row that is there keeps its      *)
(* refresh token, or its name.                                             *)
Upserted_NoToken(r) == [Connection(r) EXCEPT !.refresh = 0]
Upserted_KeepsToken(r) == [Connection(r) EXCEPT !.refresh = IF row = None THEN @ ELSE row.refresh]
Upserted_KeepsName(r) == [Connection(r) EXCEPT !.name = IF row = None THEN @ ELSE row.name]

Upserted(r) == Connection(r)

StoreConnection(r) ==
  /\ At(r, "store")
  /\ row' = Upserted(r)
  /\ IF Provider = "qbo" THEN Begin(r, "name", req[r]) ELSE Finish(r)
  /\ UNCHANGED <<links, provider>>

(* fetchCompanyName, which may fail, and the update of whatever row there  *)
(* is by then.                                                             *)
NameCompany(r) ==
  /\ At(r, "name")
  /\ row' \in {row} \cup IF row = None THEN {} ELSE {[row EXCEPT !.name = req[r].realm]}
  /\ Finish(r)
  /\ UNCHANGED <<links, provider>>

(* disconnect: the token of the row read is revoked, as far as it goes,    *)
(* and the row deleted.                                                    *)
ReadForDisconnect(r) ==
  /\ "disconnect" \in Ops /\ req[r] = None /\ row # None
  /\ Begin(r, "revoke", [Request EXCEPT !.token = row.refresh])
  /\ UNCHANGED <<row, links, provider>>

Revoke(r) ==
  /\ At(r, "revoke")
  /\ good' \in {good, good \ {req[r].token}}
  /\ Begin(r, "delete", req[r])
  /\ UNCHANGED <<row, links, issued>>

DeleteConnection(r) ==
  /\ At(r, "delete")
  /\ row' = None
  /\ Finish(r)
  /\ UNCHANGED <<links, provider>>

-----------------------------------------------------------------------------
(* ensureFreshToken: the access token of the row, or a refresh of it.      *)
AccessExpires ==
  /\ row # None /\ row.fresh
  /\ row' = [row EXCEPT !.fresh = FALSE]
  /\ UNCHANGED <<links, provider, req>>

ReadForUse(r) ==
  /\ "use" \in Ops /\ req[r] = None
  /\ row # None /\ ~row.fresh
  /\ Begin(r, "refresh", [Request EXCEPT !.token = row.refresh])
  /\ UNCHANGED <<row, links, provider>>

Refresh(r) ==
  /\ At(r, "refresh")
  /\ LET spent == req[r].token IN
     IF spent \in good
     THEN /\ Issue(issued[spent], {spent})
          /\ Begin(r, "rotate", [req[r] EXCEPT !.token = Len(issued')])
     ELSE Finish(r) /\ UNCHANGED provider
  /\ UNCHANGED <<row, links>>

(* Mutant: the rotated refresh token is not kept.                          *)
Rotated_Access(token) == [row EXCEPT !.fresh = TRUE]

Rotated(token) == [row EXCEPT !.refresh = token, !.fresh = TRUE]

StoreTokens(r) ==
  /\ At(r, "rotate")
  /\ row' = IF row = None THEN None ELSE Rotated(req[r].token)
  /\ Finish(r)
  /\ UNCHANGED <<links, provider>>

(* The provider's answer, or the process, is lost after it has acted.      *)
AnswerLost(r) ==
  /\ "lost" \in Ops
  /\ \E step \in {"store", "rotate", "delete", "name"} : At(r, step)
  /\ Finish(r)
  /\ UNCHANGED <<row, links, provider>>

Step(r) ==
  \/ \E s \in 1 .. MaxLinks, u \in Users, realm \in Realms : Callback(r, s, u, realm)
  \/ ExchangeCode(r) \/ StoreConnection(r) \/ NameCompany(r)
  \/ ReadForDisconnect(r) \/ Revoke(r) \/ DeleteConnection(r)
  \/ ReadForUse(r) \/ Refresh(r) \/ StoreTokens(r) \/ AnswerLost(r)

Next ==
  \/ \E r \in Reqs : Step(r)
  \/ \E u \in Users : Authorize(u)
  \/ \E s \in 1 .. MaxLinks : LinkExpires(s)
  \/ AccessExpires

Spec == Init /\ [][Next]_vars

-----------------------------------------------------------------------------
Quiet == \A r \in Reqs : req[r] = None

TokensTypeOK ==
  /\ row # None => /\ row.realm \in Realms /\ row.refresh \in DOMAIN issued
                   /\ row.fresh \in BOOLEAN /\ row.name \in Realms \cup {None}
  /\ pending \subseteq DOMAIN started /\ started \in Seq(Users) /\ issued \in Seq(Realms)
  /\ good \subseteq DOMAIN issued
  /\ \A r \in Reqs : req[r] # None => req[r].token \in 0 .. Len(issued)

(* The tokens stored are those of the company stored with them, so that no *)
(* call goes to one company with the key of another (ensureFreshToken      *)
(* answers with the token it got and the realm it wrote over).             *)
TokenMatchesRealm == row # None => issued[row.refresh] = row.realm

(* The name shown is that of the company connected.                        *)
NameMatchesRealm == row # None => row.name \in {None, row.realm}

(* A connection at rest can be refreshed: however many calls refresh at    *)
(* once, the token kept is the one the provider takes next ("it must be    *)
(* persisted every time").                                                 *)
StaysConnected == Quiet /\ row # None => row.refresh \in good

(* A handshake is finished once, by who started it.                        *)
LinkRedeemedOnce == \A i, j \in DOMAIN adopted :
  /\ adopted[i].by = started[adopted[i].state]
  /\ adopted[i].state = adopted[j].state => i = j

(* What requests keep that follow one another, if no answer is lost.       *)
ConnectionHolds == LinkRedeemedOnce /\ TokenMatchesRealm /\ NameMatchesRealm /\ StaysConnected
=============================================================================
