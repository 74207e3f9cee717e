------------------------------- MODULE SignIn -------------------------------
(***************************************************************************)
(* How one account proves who it is: AuthService's login, Google and TOTP  *)
(* sign-in, forgot and reset; ProfileService's password and TOTP settings; *)
(* verifySession, which decides whether a token is still a session.        *)
(*                                                                         *)
(* A password is the number of the change that set it.  A session carries, *)
(* beside the tokenVersion the code signs into it, what the check that led *)
(* to it saw: the password and the number of suspensions so far.           *)
(***************************************************************************)
EXTENDS Naturals, Sequences

CONSTANTS
  Reqs,         \* request slots
  Ops,          \* the operations offered
  None,         \* a free slot
  MaxAttempts,  \* MAX_ATTEMPTS
  MaxWrong,     \* bound on wrong passwords recorded in a row
  MaxVersion,   \* bound on tokenVersion
  MaxLinks,     \* bound on reset links ever issued
  MaxSecrets    \* bound on TOTP secrets ever made

SignInBounds ==
  /\ {MaxAttempts, MaxWrong, MaxVersion, MaxLinks, MaxSecrets} \subseteq Nat
  /\ MaxAttempts > 0

VARIABLES
  user,        \* the User row: active, password, tokenVersion, TOTP secret and flag, Google link
  attempt,     \* the LoginAttempt row: its count and its lock (no, on, over)
  links,       \* the PasswordReset rows, with the password each was issued under
  sessions,    \* the session tokens handed out
  challenges,  \* the TOTP challenges handed out
  states,      \* the Google states pending
  suspensions, \* how often the account was suspended
  wrong,       \* wrong passwords recorded since the counter was last cleared
  confirmed,   \* TOTP secrets of which a code was verified
  secrets,     \* TOTP secrets made so far
  req          \* the requests in flight

vars == <<user, attempt, links, sessions, challenges, states, suspensions, wrong,
          confirmed, secrets, req>>
keys == <<sessions, challenges, states>>
counters == <<suspensions, wrong, confirmed, secrets>>

Row == [active : BOOLEAN, pw : 0 .. MaxVersion, tv : 0 .. MaxVersion,
        secret : 0 .. MaxSecrets, totp : BOOLEAN, linked : BOOLEAN]
Link == [open : BOOLEAN, pw : 0 .. MaxVersion]
Proof == [pw : 0 .. MaxVersion, era : 0 .. MaxVersion]

NoAttempt == [count |-> 0, lock |-> "no"]

At(r, step) == req[r] # None /\ req[r].at = step
Begin(r, op, step, swept, proof) ==
  req' = [req EXCEPT ![r] = [at |-> step, op |-> op, seen |-> user, era |-> suspensions,
                             n |-> 0, swept |-> swept, proof |-> proof]]
Go(r, step) == req' = [req EXCEPT ![r].at = step]
Finish(r) == req' = [req EXCEPT ![r] = None]

(* What the request's check of identity saw.                               *)
ProofOf(r) == [pw |-> req[r].seen.pw, era |-> req[r].era]

Init ==
  /\ user = [active |-> TRUE, pw |-> 0, tv |-> 0, secret |-> 0, totp |-> FALSE, linked |-> FALSE]
  /\ attempt = NoAttempt
  /\ links = << >>
  /\ sessions = {} /\ challenges = {} /\ states = 0
  /\ suspensions = 0 /\ wrong = 0 /\ confirmed = {} /\ secrets = 0
  /\ req = [r \in Reqs |-> None]

(* verifySession: the account is active and the token's version is its own. *)
Accepted(s) == user.active /\ s.tv = user.tv

-----------------------------------------------------------------------------
(* login: the lock, then the row, then the password against that row.      *)
ReadForLogin(r) ==
  /\ "login" \in Ops /\ req[r] = None
  /\ attempt.lock # "on"
  /\ Begin(r, "login", "password", {}, None)
  /\ UNCHANGED <<user, attempt, links, keys, counters>>

WrongPassword(r) ==
  /\ At(r, "password")
  /\ IF req[r].op = "login" THEN Go(r, "count") ELSE Finish(r)
  /\ UNCHANGED <<user, attempt, links, keys, counters>>

(* The password is right; an account that is not active is told so.        *)
RightPassword(r) ==
  /\ At(r, "password")
  /\ IF req[r].op # "login" THEN Go(r, req[r].op)
     ELSE IF req[r].seen.active THEN Go(r, "clear") ELSE Finish(r)
  /\ UNCHANGED <<user, attempt, links, keys, counters>>

(* recordFailure reads the count, then writes one more and the lock.       *)
ReadFailures(r) ==
  /\ At(r, "count")
  /\ req' = [req EXCEPT ![r].at = "fail", ![r].n = attempt.count]
  /\ UNCHANGED <<user, attempt, links, keys, counters>>

(* Mutant: the lock comes one failure late.                                *)
LocksAt_Late(n) == n > MaxAttempts

LocksAt(n) == n >= MaxAttempts

RecordFailure(r) ==
  /\ At(r, "fail") /\ wrong < MaxWrong
  /\ LET n == req[r].n + 1 IN
     attempt' = [count |-> n, lock |-> IF LocksAt(n) THEN "on" ELSE "no"]
  /\ wrong' = wrong + 1
  /\ Finish(r)
  /\ UNCHANGED <<user, links, keys, suspensions, confirmed, secrets>>

LockExpires ==
  /\ attempt.lock = "on"
  /\ attempt' = [attempt EXCEPT !.lock = "over"]
  /\ UNCHANGED <<user, links, keys, counters, req>>

(* The first factor is done: the counter is cleared, and a session or, with *)
(* TOTP on, a challenge follows (completeFirstFactor).                     *)
ClearAttempts(r) ==
  /\ At(r, "clear")
  /\ attempt' = NoAttempt /\ wrong' = 0
  /\ IF req[r].seen.totp /\ req[r].op # "totp"
     THEN challenges' = challenges \cup {ProofOf(r)} /\ Finish(r)
     ELSE UNCHANGED challenges /\ Go(r, "sign")
  /\ UNCHANGED <<user, links, sessions, states, suspensions, confirmed, secrets>>

(* sign: tv is that of the row read.                                       *)
Sign(r) ==
  /\ At(r, "sign")
  /\ LET proof == IF req[r].op = "totp" THEN req[r].proof ELSE ProofOf(r) IN
     sessions' = sessions \cup {[tv |-> req[r].seen.tv, pw |-> proof.pw, era |-> proof.era]}
  /\ Finish(r)
  /\ UNCHANGED <<user, attempt, links, challenges, states, counters>>

-----------------------------------------------------------------------------
(* completeTotpLogin: a challenge, the row as it is now, and a code.       *)
ReadForTotp(r, c) ==
  /\ "totp" \in Ops /\ req[r] = None
  /\ user.active /\ user.totp /\ user.secret # 0
  /\ Begin(r, "totp", "code", {}, c)
  /\ UNCHANGED <<user, attempt, links, keys, counters>>

RightCode(r) ==
  /\ At(r, "code")
  /\ Go(r, "clear")
  /\ UNCHANGED <<user, attempt, links, keys, counters>>

(* Google: a state handed out is good for one return.                      *)
GoogleStart ==
  /\ "google" \in Ops /\ states < 1
  /\ states' = states + 1
  /\ UNCHANGED <<user, attempt, links, sessions, challenges, counters, req>>

(* resolveCallback, then loginWithGoogle: the account is found and, the    *)
(* first time, linked.                                                     *)
GoogleReturn(r) ==
  /\ req[r] = None /\ states > 0
  /\ states' = states - 1
  /\ user' = [user EXCEPT !.linked = TRUE]
  /\ IF user.active THEN Begin(r, "google", "clear", {}, None) ELSE UNCHANGED req
  /\ UNCHANGED <<attempt, links, sessions, challenges, counters>>

-----------------------------------------------------------------------------
(* forgot, then reset: the link is claimed, the password and tokenVersion  *)
(* are written, and the account's other links, as that statement sees      *)
(* them, are used up; one transaction, the row lock on the account held.   *)
Issue(r) ==
  /\ "forgot" \in Ops /\ req[r] = None
  /\ Len(links) < MaxLinks
  /\ Begin(r, "forgot", "issue", {}, None)
  /\ UNCHANGED <<user, attempt, links, keys, counters>>

CommitLink(r) ==
  /\ At(r, "issue") /\ Len(links) < MaxLinks
  /\ links' = Append(links, [open |-> TRUE, pw |-> req[r].seen.pw])
  /\ Finish(r)
  /\ UNCHANGED <<user, attempt, keys, counters>>

Resetting == \E r \in Reqs : At(r, "reset")
OpenLinks == {l \in DOMAIN links : links[l].open}
UseUp(ls) == [l \in DOMAIN links |-> [links[l] EXCEPT !.open = @ /\ l \notin ls]]

(* Mutant: only the link that was followed is used up.                     *)
Retired_One(l) == {l}

Retired(l) == OpenLinks

ClaimLink(r, l) ==
  /\ "forgot" \in Ops /\ req[r] = None /\ ~Resetting
  /\ links[l].open /\ user.tv < MaxVersion
  /\ Begin(r, "reset", "reset", Retired(l), None)
  /\ UNCHANGED <<user, attempt, links, keys, counters>>

(* Mutant: the sessions handed out are left alone.                         *)
NewPassword_KeepsSessions == [user EXCEPT !.pw = @ + 1]

NewPassword == [user EXCEPT !.pw = @ + 1, !.tv = @ + 1]

CommitReset(r) ==
  /\ At(r, "reset") /\ user.tv < MaxVersion
  /\ user' = NewPassword
  /\ links' = UseUp(req[r].swept)
  /\ attempt' = NoAttempt /\ wrong' = 0
  /\ Finish(r)
  /\ UNCHANGED <<keys, suspensions, confirmed, secrets>>

LinkExpires(l) ==
  /\ links[l].open
  /\ links' = UseUp({l})
  /\ UNCHANGED <<user, attempt, keys, counters, req>>

-----------------------------------------------------------------------------
(* ProfileService: a session, the account's row, then the current password *)
(* (changePassword, disableTotp) or a code (confirmTotp).                  *)
Profile == {"change", "enroll", "confirm", "disable"}

ReadForProfile(r, op) ==
  /\ op \in Ops \cap Profile /\ req[r] = None
  /\ \E s \in sessions : Accepted(s)
  /\ op \in {"enroll", "confirm"} => ~user.totp
  /\ op = "confirm" => user.secret # 0
  /\ Begin(r, op, IF op \in {"change", "disable"} THEN "password" ELSE op, {}, None)
  /\ UNCHANGED <<user, attempt, links, keys, counters>>

ChangePassword(r) ==
  /\ At(r, "change") /\ ~Resetting /\ user.tv < MaxVersion
  /\ user' = NewPassword
  /\ links' = UseUp(OpenLinks)
  /\ sessions' = sessions \cup {[tv |-> user'.tv, pw |-> user'.pw, era |-> req[r].era]}
  /\ Finish(r)
  /\ UNCHANGED <<attempt, challenges, states, counters>>

EnrollTotp(r) ==
  /\ At(r, "enroll") /\ secrets < MaxSecrets
  /\ secrets' = secrets + 1
  /\ user' = [user EXCEPT !.secret = secrets']
  /\ Finish(r)
  /\ UNCHANGED <<attempt, links, keys, suspensions, wrong, confirmed>>

(* Mutant: TOTP is on as soon as it is asked for, its code unseen.         *)
Checked_Nothing(s) == confirmed

Checked(s) == confirmed \cup {s}

ConfirmTotp(r) ==
  /\ At(r, "confirm")
  /\ confirmed' = Checked(req[r].seen.secret)
  /\ user' = [user EXCEPT !.totp = TRUE]
  /\ Finish(r)
  /\ UNCHANGED <<attempt, links, keys, suspensions, wrong, secrets>>

(* Mutant: the flag is taken off and the secret stays.                     *)
WithoutTotp_KeepsSecret == [user EXCEPT !.totp = FALSE]

(* Mutant: the flag is cleared with the secret, to nothing.                *)
WithoutTotp_NoFlag == [user EXCEPT !.totp = None, !.secret = 0]

WithoutTotp == [user EXCEPT !.totp = FALSE, !.secret = 0]

(* disableTotp: nothing to do when the row read had it off already.        *)
DisableTotp(r) ==
  /\ At(r, "disable")
  /\ user' = IF req[r].seen.totp THEN WithoutTotp ELSE user
  /\ Finish(r)
  /\ UNCHANGED <<attempt, links, keys, counters>>

(* An administrator disables and re-enables the account (updateUser).      *)
(* Mutant: disabling leaves the tokenVersion.                              *)
Disabled_KeepsSessions == [user EXCEPT !.active = FALSE]

Disabled == [user EXCEPT !.active = FALSE, !.tv = @ + 1]

Suspend ==
  /\ "suspend" \in Ops /\ user.active /\ user.tv < MaxVersion /\ suspensions < MaxVersion
  /\ user' = Disabled
  /\ suspensions' = suspensions + 1
  /\ UNCHANGED <<attempt, links, keys, wrong, confirmed, secrets, req>>

Reinstate ==
  /\ ~user.active
  /\ user' = [user EXCEPT !.active = TRUE]
  /\ UNCHANGED <<attempt, links, keys, counters, req>>

(* A request ends at an await: a wrong code, a lost process, an error.     *)
Fail(r) ==
  /\ req[r] # None
  /\ Finish(r)
  /\ UNCHANGED <<user, attempt, links, keys, counters>>

Step(r) ==
  \/ ReadForLogin(r) \/ WrongPassword(r) \/ RightPassword(r)
  \/ ReadFailures(r) \/ RecordFailure(r) \/ ClearAttempts(r) \/ Sign(r)
  \/ (\E c \in challenges : ReadForTotp(r, c)) \/ RightCode(r) \/ GoogleReturn(r)
  \/ Issue(r) \/ CommitLink(r) \/ (\E l \in DOMAIN links : ClaimLink(r, l)) \/ CommitReset(r)
  \/ (\E op \in Profile : ReadForProfile(r, op))
  \/ ChangePassword(r) \/ EnrollTotp(r) \/ ConfirmTotp(r) \/ DisableTotp(r) \/ Fail(r)

Next ==
  \/ \E r \in Reqs : Step(r)
  \/ LockExpires \/ GoogleStart \/ Suspend \/ Reinstate
  \/ \E l \in DOMAIN links : LinkExpires(l)

Spec == Init /\ [][Next]_vars

-----------------------------------------------------------------------------
SignInTypeOK ==
  /\ user \in Row
  /\ attempt \in [count : Nat, lock : {"no", "on", "over"}]
  /\ links \in Seq(Link)
  /\ sessions \subseteq [tv : 0 .. MaxVersion, pw : 0 .. MaxVersion, era : 0 .. MaxVersion]
  /\ challenges \subseteq Proof
  /\ states \in 0 .. 1
  /\ suspensions \in 0 .. MaxVersion /\ wrong \in Nat
  /\ confirmed \subseteq 0 .. MaxSecrets /\ secrets \in 0 .. MaxSecrets

(* A changed password "takes away" every session of the old one: a session *)
(* that verifySession accepts was proved with the password of now,         *)
(* whatever login was under way while it changed (reset's comment).        *)
SessionsFollowPassword == \A s \in sessions : Accepted(s) => s.pw = user.pw

(* An account reinstated is not entered with what was proved before its    *)
(* suspension (updateUser increments tokenVersion on DISABLED).            *)
SuspensionEndsSessions == \A s \in sessions : Accepted(s) => s.era = suspensions

(* The row counts every wrong password since it was last cleared, and      *)
(* MaxAttempts of them lock the account (recordFailure).                   *)
FailuresCounted ==
  /\ attempt.count = wrong
  /\ wrong >= MaxAttempts => attempt.lock # "no"

(* No link from before a password change still works ("should not leave a  *)
(* second key lying in an old email").                                     *)
OldLinksDie == \A l \in OpenLinks : links[l].pw = user.pw

(* TOTP asks for codes of a secret its owner showed to have, never for     *)
(* those of no secret, which nobody could enter; and once it is off, a     *)
(* secret that was in use is not there to be confirmed again.              *)
TotpIsUsable ==
  IF user.totp THEN user.secret # 0 /\ user.secret \in confirmed
               ELSE user.secret \notin confirmed

(* What requests keep that follow one another.                             *)
AccessFollowsProof == OldLinksDie /\ FailuresCounted /\ TotpIsUsable
=============================================================================
