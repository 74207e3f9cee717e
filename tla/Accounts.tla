------------------------------ MODULE Accounts ------------------------------
(***************************************************************************)
(* Who has an account and in which role: AdminService's invitations and    *)
(* users, AuthService's sign-up and its one-time codes, RolesService.      *)
(*                                                                         *)
(* A handler reads, awaits and then writes by id; the reading action has   *)
(* its checks, the writing one its transaction.  The permission            *)
(* admin.manage is checked once, when the request arrives.                 *)
(***************************************************************************)
EXTENDS Naturals, Sequences, FiniteSets

CONSTANTS
  People,       \* e-mail addresses, each good for one account
  Admins,       \* those who have an administrator's account to begin with
  Invites,      \* invitations that may be issued
  BuiltIn,      \* built-in roles, Admin and Fallback among them
  Custom,       \* roles that may be created and deleted
  Admin,        \* ADMIN_ROLE
  Fallback,     \* FALLBACK_ROLE
  Reqs,         \* request slots
  Ops,          \* the operations offered
  None,         \* no one, nothing, a free slot
  MaxOtpAttempts, \* MAX_OTP_ATTEMPTS
  MaxCodes      \* bound on the codes sent to one address

Roles == BuiltIn \cup Custom

AccountsAssumption ==
  /\ {Admin, Fallback} \subseteq BuiltIn /\ Admin # Fallback
  /\ BuiltIn \cap Custom = {}
  /\ Admins \subseteq People /\ Admins # {}
  /\ None \notin People \cup Invites \cup Roles
  /\ {MaxOtpAttempts, MaxCodes} \subseteq Nat

VARIABLES
  user,      \* the User rows: status, deletion, role, the invitation redeemed
  invite,    \* the Invitation rows
  codes,     \* the EmailOtp rows of each address, oldest first
  roles,     \* the RoleDef rows that exist
  managers,  \* the roles, beside Admin, that grant admin.manage
  decisions, \* audit rows that decide each pending account
  req        \* the requests in flight

vars == <<user, invite, codes, roles, managers, decisions, req>>
roleRows == <<roles, managers>>

Statuses == {"none", "PENDING", "ACTIVE", "DISABLED", "REJECTED"}
Account == [status : Statuses, deleted : BOOLEAN, role : Roles, by : Invites \cup {None}]
Invitation == [issued : BOOLEAN, used : BOOLEAN, revoked : BOOLEAN, deleted : BOOLEAN,
               expired : BOOLEAN, role : Roles, for : People \cup {None}]
Code == [open : BOOLEAN, attempts : Nat]

NoAccount == [status |-> "none", deleted |-> FALSE, role |-> Fallback, by |-> None]
NoInvitation == [issued |-> FALSE, used |-> FALSE, revoked |-> FALSE, deleted |-> FALSE,
                 expired |-> FALSE, role |-> Fallback, for |-> None]

Live(u) == user[u].status # "none" /\ ~user[u].deleted
ActiveAdmin(u) == Live(u) /\ user[u].status = "ACTIVE" /\ user[u].role = Admin
OtherActiveAdmins(u) == {v \in People \ {u} : ActiveAdmin(v)}
Manages(u) == Live(u) /\ user[u].status = "ACTIVE" /\ user[u].role \in managers \cup {Admin}
Redeemable(i) ==
  /\ invite[i].issued /\ ~invite[i].used /\ ~invite[i].revoked
  /\ ~invite[i].deleted /\ ~invite[i].expired

At(r, step) == req[r] # None /\ req[r].at = step
Begin(r, step, who, what) == req' = [req EXCEPT ![r] = [at |-> step, who |-> who, what |-> what]]
Finish(r) == req' = [req EXCEPT ![r] = None]
Offered(r, op) == op \in Ops /\ req[r] = None
ByManager(r, op) == Offered(r, op) /\ \E a \in People : Manages(a)

Init ==
  /\ user = [u \in People |-> IF u \in Admins
       THEN [NoAccount EXCEPT !.status = "ACTIVE", !.role = Admin] ELSE NoAccount]
  /\ invite = [i \in Invites |-> NoInvitation]
  /\ codes = [u \in People |-> << >>]
  /\ roles = BuiltIn /\ managers = {}
  /\ decisions = [u \in People |-> 0]
  /\ req = [r \in Reqs |-> None]

-----------------------------------------------------------------------------
(* createInvitation: no account for the address, a role that exists.       *)
CreateInvitation(r, i, role, for) ==
  /\ ByManager(r, "invite")
  /\ ~invite[i].issued /\ role \in roles
  /\ for # None => user[for].status = "none"
  /\ invite' = [invite EXCEPT ![i] = [NoInvitation EXCEPT !.issued = TRUE, !.role = role, !.for = for]]
  /\ UNCHANGED <<user, codes, roleRows, decisions, req>>

(* updateInvitation, deleteInvitation, revokeInvitation: look, then write. *)
(* Mutant: what was redeemed may still be revoked.                         *)
Revocable_Any(i) == ~invite[i].revoked

Revocable(i) == ~invite[i].used /\ ~invite[i].revoked

ReadInvitation(r, op, i, role) ==
  /\ ByManager(r, op)
  /\ invite[i].issued
  /\ op \in {"edit", "delete"} => ~invite[i].deleted
  /\ op = "revoke" => Revocable(i)
  /\ op = "edit" => ~invite[i].used /\ role \in roles /\ role # invite[i].role
  /\ Begin(r, op, i, role)
  /\ UNCHANGED <<user, invite, codes, roleRows, decisions>>

WriteInvitation(r) ==
  /\ \/ At(r, "edit") /\ req[r].what \in roles
        /\ invite' = [invite EXCEPT ![req[r].who].role = req[r].what]
     \/ At(r, "delete") /\ invite' = [invite EXCEPT ![req[r].who].deleted = TRUE]
     \/ At(r, "revoke") /\ invite' = [invite EXCEPT ![req[r].who].revoked = TRUE]
  /\ Finish(r)
  /\ UNCHANGED <<user, codes, roleRows, decisions>>

InvitationExpires(i) ==
  /\ Redeemable(i)
  /\ invite' = [invite EXCEPT ![i].expired = TRUE]
  /\ UNCHANGED <<user, codes, roleRows, decisions, req>>

-----------------------------------------------------------------------------
(* signup: the invitation is read, then claimed if it still may be, and the *)
(* account made in the role read; the unique address may refuse it.        *)
ReadForSignup(r, u, i) ==
  /\ Offered(r, "signup")
  /\ user[u].status = "none" /\ Redeemable(i)
  /\ invite[i].for \in {None, u}
  /\ Begin(r, "claim", u, [invite |-> i, role |-> invite[i].role])
  /\ UNCHANGED <<user, invite, codes, roleRows, decisions>>

(* Mutant: the claim does not look at the row again.                       *)
Claimable_Read(i) == TRUE

Claimable(i) == Redeemable(i)

(* Mutant: the role asked for, not the one invited to.                     *)
RoleGiven_Any(what) == Admin

RoleGiven(what) == what.role

ClaimAndCreate(r) ==
  LET u == req[r].who
      i == req[r].what.invite
      role == RoleGiven(req[r].what)
  IN
  /\ At(r, "claim")
  /\ user[u].status = "none" /\ Claimable(i) /\ role \in roles
  /\ invite' = [invite EXCEPT ![i].used = TRUE]
  /\ user' = [user EXCEPT ![u] = [status |-> "PENDING", deleted |-> FALSE, role |-> role, by |-> i]]
  /\ Begin(r, "code", u, None)
  /\ UNCHANGED <<codes, roleRows, decisions>>

(* resendOtp, for an account awaiting verification.                        *)
ReadForResend(r, u) ==
  /\ Offered(r, "resend")
  /\ user[u].status = "PENDING"
  /\ Begin(r, "code", u, None)
  /\ UNCHANGED <<user, invite, codes, roleRows, decisions>>

(* issueOtp: in one transaction the codes it sees are retired and a new    *)
(* one is added.                                                           *)
OpenCodes(u) == {n \in DOMAIN codes[u] : codes[u][n].open}
Closed(cs, ns) == [n \in DOMAIN cs |-> [cs[n] EXCEPT !.open = @ /\ n \notin ns]]

(* Mutant: the codes sent before stay good.                                *)
RetiredCodes_None(u) == {}

RetiredCodes(u) == OpenCodes(u)

RetireCodes(r) ==
  /\ At(r, "code") /\ Len(codes[req[r].who]) < MaxCodes
  /\ Begin(r, "send", req[r].who, RetiredCodes(req[r].who))
  /\ UNCHANGED <<user, invite, codes, roleRows, decisions>>

SendCode(r) ==
  /\ At(r, "send") /\ Len(codes[req[r].who]) < MaxCodes
  /\ codes' = [codes EXCEPT ![req[r].who] =
       Append(Closed(@, req[r].what), [open |-> TRUE, attempts |-> 0])]
  /\ Finish(r)
  /\ UNCHANGED <<user, invite, roleRows, decisions>>

CodeExpires(u, n) ==
  /\ codes[u][n].open
  /\ codes' = [codes EXCEPT ![u] = Closed(@, {n})]
  /\ UNCHANGED <<user, invite, roleRows, decisions, req>>

-----------------------------------------------------------------------------
(* verifyOtp: the newest open code; past its attempts it is burnt.         *)
(* Mutant: attempts are counted but never looked at.                       *)
Spent_Never(c) == FALSE

Spent(c) == c.attempts >= MaxOtpAttempts

ReadForVerify(r, u) ==
  /\ Offered(r, "verify")
  /\ user[u].status = "PENDING" /\ OpenCodes(u) # {}
  /\ LET n == CHOOSE m \in OpenCodes(u) : \A k \in OpenCodes(u) : k <= m IN
     \/ ~Spent(codes[u][n]) /\ Begin(r, "verify", u, n) /\ UNCHANGED codes
     \/ Spent(codes[u][n]) /\ codes' = [codes EXCEPT ![u] = Closed(@, {n})] /\ UNCHANGED req
  /\ UNCHANGED <<user, invite, roleRows, decisions>>

WrongCode(r) ==
  /\ At(r, "verify")
  /\ codes' = [codes EXCEPT ![req[r].who][req[r].what].attempts = @ + 1]
  /\ Finish(r)
  /\ UNCHANGED <<user, invite, roleRows, decisions>>

Decide(u, status) ==
  /\ user' = [user EXCEPT ![u].status = status]
  /\ decisions' = [decisions EXCEPT ![u] = @ + 1]

Activate(r) ==
  /\ At(r, "verify")
  /\ codes' = [codes EXCEPT ![req[r].who] = Closed(@, {req[r].what})]
  /\ Decide(req[r].who, "ACTIVE")
  /\ Finish(r)
  /\ UNCHANGED <<invite, roleRows>>

(* approveUser, rejectUser: only a pending account, when it is read.       *)
(* Mutant: an account decided already may be decided again.                *)
Undecided_Any(u) == Live(u)

Undecided(u) == Live(u) /\ user[u].status = "PENDING"

ReadForDecision(r, op, u) ==
  /\ ByManager(r, op)
  /\ Undecided(u)
  /\ Begin(r, op, u, None)
  /\ UNCHANGED <<user, invite, codes, roleRows, decisions>>

WriteDecision(r) ==
  /\ \/ At(r, "approve") /\ Decide(req[r].who, "ACTIVE")
     \/ At(r, "reject") /\ Decide(req[r].who, "REJECTED")
  /\ Finish(r)
  /\ UNCHANGED <<invite, codes, roleRows>>

-----------------------------------------------------------------------------
(* Mutant: the other administrators need not be active.                    *)
LastAdmin_Inactive(u) == {v \in People \ {u} : Live(v) /\ user[v].role = Admin} = {}

(* otherActiveAdmins is empty.                                             *)
LastAdmin(u) == OtherActiveAdmins(u) = {}

(* updateUser of somebody else: a new role, or suspended or reinstated.    *)
ReadForUpdate(r, a, u, role) ==
  /\ Offered(r, "users") /\ Manages(a) /\ a # u /\ Live(u)
  /\ role \in roles \ {user[u].role}
  /\ user[u].role = Admin => ~LastAdmin(u)
  /\ Begin(r, "role", u, role)
  /\ UNCHANGED <<user, invite, codes, roleRows, decisions>>

WriteRole(r) ==
  /\ At(r, "role") /\ req[r].what \in roles
  /\ user' = [user EXCEPT ![req[r].who].role = req[r].what]
  /\ Finish(r)
  /\ UNCHANGED <<invite, codes, roleRows, decisions>>

ReadForStatus(r, a, u, status) ==
  /\ Offered(r, "users") /\ Manages(a) /\ a # u /\ Live(u)
  /\ user[u].status \in {"ACTIVE", "DISABLED"} \ {status}
  /\ status = "DISABLED" => ~LastAdmin(u)
  /\ Begin(r, status, u, None)
  /\ UNCHANGED <<user, invite, codes, roleRows, decisions>>

WriteStatus(r) ==
  /\ \E s \in {"ACTIVE", "DISABLED"} :
       At(r, s) /\ user' = [user EXCEPT ![req[r].who].status = s]
  /\ Finish(r)
  /\ UNCHANGED <<invite, codes, roleRows, decisions>>

(* deleteUser                                                              *)
ReadForDelete(r, a, u) ==
  /\ Offered(r, "users") /\ Manages(a) /\ a # u /\ Live(u)
  /\ user[u].role = Admin => ~LastAdmin(u)
  /\ Begin(r, "remove", u, None)
  /\ UNCHANGED <<user, invite, codes, roleRows, decisions>>

WriteDelete(r) ==
  /\ At(r, "remove")
  /\ user' = [user EXCEPT ![req[r].who].deleted = TRUE]
  /\ Finish(r)
  /\ UNCHANGED <<invite, codes, roleRows, decisions>>

-----------------------------------------------------------------------------
(* RolesService: create, update (of what it grants, and not for one's own  *)
(* role), remove.                                                          *)
CreateRole(r, role) ==
  /\ ByManager(r, "roles")
  /\ role \in Custom \ roles
  /\ roles' = roles \cup {role} /\ managers' \in {managers, managers \cup {role}}
  /\ UNCHANGED <<user, invite, codes, decisions, req>>

UpdateRole(r, a, role) ==
  /\ Offered(r, "roles") /\ Manages(a) /\ role \in roles \ {Admin}
  /\ managers' \in {managers \cup {role}, managers \ {role}} \ {managers}
  /\ role \notin managers' => user[a].role # role
  /\ UNCHANGED <<user, invite, codes, roles, decisions, req>>

(* Mutant: suspended holders of the role are not counted.                  *)
Held_Active(role) == \E u \in People : Live(u) /\ user[u].role = role /\ user[u].status = "ACTIVE"

Held(role) == \E u \in People : Live(u) /\ user[u].role = role

ReadForRemoveRole(r, role) ==
  /\ ByManager(r, "roles")
  /\ role \in roles \cap Custom
  /\ ~Held(role) /\ ~\E i \in Invites : Redeemable(i) /\ invite[i].role = role
  /\ Begin(r, "unrole", role, None)
  /\ UNCHANGED <<user, invite, codes, roleRows, decisions>>

(* Mutant: whoever held the role is left with none.                        *)
Moved_ToNone(rows, role) == [x \in DOMAIN rows |->
  IF rows[x].role = role THEN [rows[x] EXCEPT !.role = None] ELSE rows[x]]

Moved(rows, role) == [x \in DOMAIN rows |->
  IF rows[x].role = role THEN [rows[x] EXCEPT !.role = Fallback] ELSE rows[x]]

RemoveRole(r) ==
  /\ At(r, "unrole") /\ req[r].who \in roles
  /\ user' = Moved(user, req[r].who) /\ invite' = Moved(invite, req[r].who)
  /\ roles' = roles \ {req[r].who} /\ managers' = managers \ {req[r].who}
  /\ Finish(r)
  /\ UNCHANGED <<codes, decisions>>

(* A request ends at an await: refused by the claim, a unique index or a   *)
(* foreign key, or lost with its process.                                  *)
Fail(r) ==
  /\ req[r] # None
  /\ Finish(r)
  /\ UNCHANGED <<user, invite, codes, roleRows, decisions>>

AdminStep(r) ==
  \/ \E i \in Invites, role \in Roles :
       \/ \E for \in People \cup {None} : CreateInvitation(r, i, role, for)
       \/ \E op \in {"edit", "delete", "revoke"} : ReadInvitation(r, op, i, role)
  \/ WriteInvitation(r)
  \/ \E u \in People, op \in {"approve", "reject"} : ReadForDecision(r, op, u)
  \/ WriteDecision(r)
  \/ \E a, u \in People :
       \/ \E role \in Roles : ReadForUpdate(r, a, u, role)
       \/ \E s \in {"ACTIVE", "DISABLED"} : ReadForStatus(r, a, u, s)
       \/ ReadForDelete(r, a, u)
  \/ WriteRole(r) \/ WriteStatus(r) \/ WriteDelete(r)
  \/ \E role \in Roles :
       \/ CreateRole(r, role) \/ ReadForRemoveRole(r, role)
       \/ \E a \in People : UpdateRole(r, a, role)
  \/ RemoveRole(r)

SignupStep(r) ==
  \/ \E u \in People : \/ \E i \in Invites : ReadForSignup(r, u, i)
                       \/ ReadForResend(r, u) \/ ReadForVerify(r, u)
  \/ ClaimAndCreate(r) \/ RetireCodes(r) \/ SendCode(r) \/ WrongCode(r) \/ Activate(r)

Next ==
  \/ \E r \in Reqs : AdminStep(r) \/ SignupStep(r) \/ Fail(r)
  \/ \E i \in Invites : InvitationExpires(i)
  \/ \E u \in People : \E n \in DOMAIN codes[u] : CodeExpires(u, n)

Spec == Init /\ [][Next]_vars

-----------------------------------------------------------------------------
AccountsTypeOK ==
  /\ user \in [People -> Account]
  /\ invite \in [Invites -> Invitation]
  /\ codes \in [People -> Seq(Code)]
  /\ BuiltIn \subseteq roles /\ roles \subseteq Roles /\ managers \subseteq roles
  /\ decisions \in [People -> Nat]

(* There is always an administrator who can sign in ("That is the last     *)
(* administrator - promote someone else first").                           *)
AnAdminRemains == \E u \in People : ActiveAdmin(u)

(* A pending account is decided once: verified, approved or rejected.      *)
DecidedOnce == \A u \in People : decisions[u] <= 1

(* One invitation leads to one account at most, whoever races for it, and  *)
(* an account's invitation is used up (signup's second point).             *)
InvitationOnce ==
  /\ \A u, v \in People : user[u].by # None /\ user[u].by = user[v].by => u = v
  /\ \A u \in People : user[u].by # None => invite[user[u].by].used

(* An invitation is redeemed or revoked, not both.                         *)
RedeemedOrRevoked == \A i \in Invites : ~(invite[i].used /\ invite[i].revoked)

(* A new account has the role its invitation names as it is redeemed       *)
(* (signup's first point).                                                 *)
EntersAsInvited == \A u \in People :
  user[u].status = "none" /\ user'[u].status # "none" => user'[u].role = invite[user'[u].by].role

(* Only the newest code works, and it stops working after MaxOtpAttempts   *)
(* wrong ones (issueOtp, verifyOtp).                                       *)
CodesAreGuarded == \A u \in People :
  /\ Cardinality(OpenCodes(u)) <= 1
  /\ \A n \in DOMAIN codes[u] : codes[u][n].attempts <= MaxOtpAttempts

(* Deleting a role moves nobody who still has an account (remove moves     *)
(* "deleted accounts and closed invitations that still named it").         *)
HeldByNobody == \A role \in roles \ roles' : ~\E u \in People : Live(u) /\ user[u].role = role

(* What requests keep that follow one another.                             *)
InvitationsHold == InvitationOnce /\ RedeemedOrRevoked /\ DecidedOnce /\ CodesAreGuarded

RolesAreGiven == [][EntersAsInvited /\ HeldByNobody]_vars
=============================================================================
