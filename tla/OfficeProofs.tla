---------------------------- MODULE OfficeProofs ----------------------------
(***************************************************************************)
(* What the office keeps for any number of people, invitations, roles,     *)
(* links, companies, mailboxes, figures, settings, packages and contacts:  *)
(* accounts and who may decide about them, sign-in and its sessions, a     *)
(* connection to an OAuth provider, the mailboxes, an earnings statement,  *)
(* the exchange rates, the configuration and its mail form, the rate card  *)
(* with its audit, and the contacts taken in.  Some of it holds whatever   *)
(* requests cross, the rest for requests that follow one another.          *)
(***************************************************************************)
EXTENDS Integers, Sequences, FiniteSets, FiniteSetTheorems, WellFoundedInduction, TLAPS

CONSTANTS None, Reqs, Ops

VARIABLES user, req

(* Requests that follow one another have one slot.                         *)
OneSlot == \A r, s \in Reqs : r = s

-----------------------------------------------------------------------------
(* Accounts                                                                *)
CONSTANTS People, Admins, Invites, BuiltIn, Custom, Admin, Fallback, MaxOtpAttempts, MaxCodes

VARIABLES invite, codes, roles, managers, decisions

Accts == INSTANCE Accounts

UserSteps == {"claim", "code", "send", "verify", "approve", "reject",
              "role", "ACTIVE", "DISABLED", "remove"}

(* What a request carries, by its step.                                    *)
CallTyped(c) ==
  /\ c.at \in {"edit", "delete", "revoke"} => c.who \in Invites
  /\ c.at \in {"edit", "role"} => c.what \in Accts!Roles
  /\ c.at \in UserSteps => c.who \in People
  /\ c.at = "claim" => c.what.invite \in Invites /\ c.what.role \in Accts!Roles
  /\ c.at = "verify" => c.what \in 1 .. Len(codes[c.who])
  /\ c.at = "unrole" => c.who \in Custom

CallsTyped ==
  /\ req = [r \in Reqs |-> req[r]]
  /\ \A r \in Reqs : req[r] # None => CallTyped(req[r])

(* Only what was issued is used, by the account that was made of it.       *)
AcctRows ==
  /\ Accts!AccountsTypeOK
  /\ \A i \in Invites : invite[i].used => invite[i].issued
  /\ Accts!InvitationOnce

AcctShape == AcctRows /\ CallsTyped

(* One request at a time: what it checked still holds when it writes.      *)
CallFits(c) ==
  /\ c.at = "claim" => c.what.role = invite[c.what.invite].role
  /\ c.at \in {"verify", "approve", "reject"} => user[c.who].status = "PENDING"
  /\ c.at \in {"ACTIVE", "DISABLED"} => user[c.who].status \in {"ACTIVE", "DISABLED"}
  /\ c.at = "DISABLED" => Accts!OtherActiveAdmins(c.who) # {}
  /\ c.at \in {"role", "remove"} /\ user[c.who].role = Admin => Accts!OtherActiveAdmins(c.who) # {}
  /\ c.at = "revoke" => ~invite[c.who].used
  /\ c.at = "unrole" => ~Accts!Held(c.who)
  /\ c.at = "send" => Accts!OpenCodes(c.who) \subseteq c.what
  /\ c.at = "verify" => codes[c.who][c.what].attempts < MaxOtpAttempts

CallsFit == \A r \in Reqs : req[r] # None => CallFits(req[r])

(* An account that awaits its decision has none on record.                 *)
DecisionsFit == \A u \in People :
  /\ user[u].status \in {"none", "PENDING"} => decisions[u] = 0
  /\ decisions[u] <= 1

CodesFit == \A u \in People :
  /\ \A m, n \in Accts!OpenCodes(u) : m = n
  /\ \A n \in 1 .. Len(codes[u]) : codes[u][n].attempts <= MaxOtpAttempts

RowsFit == Accts!AnAdminRemains /\ DecisionsFit /\ Accts!RedeemedOrRevoked /\ CodesFit

AcctFits == RowsFit /\ CallsFit

RolesGiven == Accts!EntersAsInvited /\ Accts!HeldByNobody

AcctKept == AcctShape' /\ (OneSlot /\ AcctFits => AcctFits' /\ RolesGiven)

-----------------------------------------------------------------------------
LEMMA AcctInit == ASSUME Accts!AccountsAssumption PROVE Accts!Init => AcctShape /\ AcctFits
<1>. SUFFICES ASSUME Accts!Init PROVE AcctShape /\ AcctFits
  OBVIOUS
<1>1. /\ Accts!NoAccount \in Accts!Account /\ Accts!NoAccount.by = None
      /\ [Accts!NoAccount EXCEPT !.status = "ACTIVE", !.role = Admin] \in Accts!Account
      /\ Accts!NoInvitation \in Accts!Invitation /\ ~Accts!NoInvitation.used
  BY DEF Accts!AccountsAssumption, Accts!NoAccount, Accts!NoInvitation, Accts!Account,
     Accts!Invitation, Accts!Roles, Accts!Statuses
<1>2. \A u \in People : codes[u] = << >> /\ << >> \in Seq(Accts!Code)
  BY DEF Accts!Init
<1>3. Accts!AccountsTypeOK
  BY <1>1, <1>2 DEF Accts!Init, Accts!AccountsTypeOK, Accts!Roles
<1>4. \A u \in People : user[u].by = None
  BY <1>1 DEF Accts!Init, Accts!NoAccount
<1>5. AcctShape
  BY <1>1, <1>3, <1>4 DEF Accts!Init, AcctShape, AcctRows, CallsTyped, Accts!InvitationOnce
<1>6. Accts!AnAdminRemains
  BY DEF Accts!Init, Accts!AnAdminRemains, Accts!ActiveAdmin, Accts!Live, Accts!NoAccount,
     Accts!AccountsAssumption
<1>7. DecisionsFit /\ Accts!RedeemedOrRevoked /\ CodesFit
  BY <1>1, <1>2 DEF Accts!Init, DecisionsFit, Accts!RedeemedOrRevoked, CodesFit, Accts!OpenCodes
<1>. QED
  BY <1>5, <1>6, <1>7 DEF Accts!Init, AcctFits, RowsFit, CallsFit

-----------------------------------------------------------------------------
acctRowVars == <<user, invite, roles, managers, decisions>>

(* A request begins, goes on or ends, and the rows are left as they are.   *)
LEMMA AcctReads ==
  ASSUME AcctShape, NEW r \in Reqs, UNCHANGED <<acctRowVars, codes>>,
         NEW call, req' = [req EXCEPT ![r] = call],
         call # None => CallTyped(call),
         OneSlot /\ AcctFits /\ call # None => CallFits(call)
  PROVE  AcctKept
<1>1. /\ req' = [s \in Reqs |-> req'[s]] /\ req'[r] = call
      /\ \A s \in Reqs \ {r} : req'[s] = req[s]
  BY DEF AcctShape, CallsTyped
<1>2. AcctRows'
  BY DEF acctRowVars, AcctShape, AcctRows, Accts!AccountsTypeOK, Accts!InvitationOnce
<1>3. CallsTyped'
  BY <1>1 DEF AcctShape, CallsTyped, CallTyped
<1>4. ASSUME OneSlot, AcctFits PROVE AcctFits' /\ RolesGiven
  <2>1. RowsFit'
    BY <1>4 DEF acctRowVars, AcctFits, RowsFit, Accts!AnAdminRemains, Accts!ActiveAdmin, Accts!Live,
       DecisionsFit, Accts!RedeemedOrRevoked, CodesFit, Accts!OpenCodes
  <2>2. \A s \in Reqs : s = r
    BY <1>4 DEF OneSlot
  <2>3. req'[r] # None => CallFits(req[r])'
    BY <1>1, <1>4 DEF acctRowVars, CallFits, Accts!OtherActiveAdmins, Accts!ActiveAdmin, Accts!Live,
       Accts!Held, Accts!OpenCodes
  <2>4. RolesGiven
    BY DEF acctRowVars, RolesGiven, Accts!EntersAsInvited, Accts!HeldByNobody
  <2>. QED
    BY <2>1, <2>2, <2>3, <2>4 DEF AcctFits, CallsFit
<1>. QED
  BY <1>2, <1>3, <1>4 DEF AcctShape, AcctKept

(* The request that wrote is over; the others carry what they carried.     *)
LEMMA AcctWrites ==
  ASSUME CallsTyped, NEW r \in Reqs, \A u \in People : Len(codes[u]) <= Len(codes'[u]),
         \A u \in People : Len(codes[u]) \in Nat /\ Len(codes'[u]) \in Nat,
         UNCHANGED req \/ Accts!Finish(r)
  PROVE  CallsTyped' /\ (OneSlot /\ req'[r] = None => CallsFit')
<1>1. /\ req' = [s \in Reqs |-> req'[s]]
      /\ \A s \in Reqs : req'[s] # None => req'[s] = req[s]
  BY DEF CallsTyped, Accts!Finish
<1>2. ASSUME NEW s \in Reqs, req'[s] # None PROVE CallTyped(req[s])'
  <2>1. CallTyped(req[s]) /\ req'[s] = req[s]
    BY <1>1, <1>2 DEF CallsTyped
  <2>2. req[s].at = "verify" => req[s].who \in People
    BY <2>1 DEF CallTyped, UserSteps
  <2>. QED
    BY <2>1, <2>2 DEF CallTyped
<1>3. OneSlot => \A s \in Reqs : s = r
  BY DEF OneSlot
<1>. QED
  BY <1>1, <1>2, <1>3 DEF CallsTyped, CallsFit

LEMMA AcctReadSteps ==
  ASSUME AcctShape, NEW r \in Reqs,
         \/ \E op \in {"edit", "delete", "revoke"}, i \in Invites, role \in Accts!Roles :
              Accts!ReadInvitation(r, op, i, role)
         \/ \E u \in People, i \in Invites : Accts!ReadForSignup(r, u, i)
         \/ \E u \in People : Accts!ReadForResend(r, u)
         \/ Accts!RetireCodes(r)
         \/ \E u \in People, op \in {"approve", "reject"} : Accts!ReadForDecision(r, op, u)
         \/ \E a, u \in People, role \in Accts!Roles : Accts!ReadForUpdate(r, a, u, role)
         \/ \E a, u \in People, s \in {"ACTIVE", "DISABLED"} : Accts!ReadForStatus(r, a, u, s)
         \/ \E a, u \in People : Accts!ReadForDelete(r, a, u)
         \/ \E role \in Accts!Roles : Accts!ReadForRemoveRole(r, role)
         \/ Accts!Fail(r)
  PROVE  AcctKept
<1>1. ASSUME NEW op \in {"edit", "delete", "revoke"}, NEW i \in Invites, NEW role \in Accts!Roles,
             Accts!ReadInvitation(r, op, i, role)
      PROVE  AcctKept
  <2>. DEFINE call == [at |-> op, who |-> i, what |-> role]
  <2>1. req' = [req EXCEPT ![r] = call] /\ UNCHANGED <<acctRowVars, codes>>
    BY <1>1 DEF Accts!ReadInvitation, Accts!Begin, Accts!roleRows, acctRowVars
  <2>2. CallTyped(call)
    BY <1>1 DEF Accts!ReadInvitation, CallTyped, UserSteps
  <2>3. OneSlot /\ AcctFits => CallFits(call)
    BY <1>1 DEF Accts!ReadInvitation, Accts!Revocable, CallFits, UserSteps
  <2>. HIDE DEF call
  <2>. QED
    BY <2>1, <2>2, <2>3, AcctReads
<1>2. ASSUME NEW u \in People, NEW i \in Invites, Accts!ReadForSignup(r, u, i) PROVE AcctKept
  <2>. DEFINE call == [at |-> "claim", who |-> u, what |-> [invite |-> i, role |-> invite[i].role]]
  <2>1. req' = [req EXCEPT ![r] = call] /\ UNCHANGED <<acctRowVars, codes>>
    BY <1>2 DEF Accts!ReadForSignup, Accts!Begin, Accts!roleRows, acctRowVars
  <2>2. CallTyped(call)
    BY <1>2 DEF Accts!ReadForSignup, AcctShape, AcctRows, Accts!AccountsTypeOK, Accts!Invitation, CallTyped, UserSteps
  <2>3. OneSlot /\ AcctFits => CallFits(call)
    BY <1>2 DEF Accts!ReadForSignup, CallFits, UserSteps
  <2>. HIDE DEF call
  <2>. QED
    BY <2>1, <2>2, <2>3, AcctReads
<1>3. ASSUME NEW u \in People, Accts!ReadForResend(r, u) PROVE AcctKept
  <2>. DEFINE call == [at |-> "code", who |-> u, what |-> None]
  <2>1. req' = [req EXCEPT ![r] = call] /\ UNCHANGED <<acctRowVars, codes>>
    BY <1>3 DEF Accts!ReadForResend, Accts!Begin, Accts!roleRows, acctRowVars
  <2>2. CallTyped(call)
    BY <1>3 DEF Accts!ReadForResend, CallTyped, UserSteps
  <2>3. OneSlot /\ AcctFits => CallFits(call)
    BY <1>3 DEF Accts!ReadForResend, CallFits, UserSteps
  <2>. HIDE DEF call
  <2>. QED
    BY <2>1, <2>2, <2>3, AcctReads
<1>4. CASE Accts!RetireCodes(r)
  <2>. DEFINE call == [at |-> "send", who |-> req[r].who, what |-> Accts!RetiredCodes(req[r].who)]
  <2>1. req' = [req EXCEPT ![r] = call] /\ UNCHANGED <<acctRowVars, codes>>
    BY <1>4 DEF Accts!RetireCodes, Accts!Begin, Accts!roleRows, acctRowVars
  <2>2. CallTyped(call)
    BY <1>4 DEF Accts!RetireCodes, Accts!At, AcctShape, CallsTyped, CallTyped, UserSteps
  <2>3. OneSlot /\ AcctFits => CallFits(call)
    BY <1>4 DEF Accts!RetireCodes, Accts!RetiredCodes, CallFits, UserSteps
  <2>. HIDE DEF call
  <2>. QED
    BY <2>1, <2>2, <2>3, AcctReads
<1>5. ASSUME NEW u \in People, NEW op \in {"approve", "reject"}, Accts!ReadForDecision(r, op, u)
      PROVE  AcctKept
  <2>. DEFINE call == [at |-> op, who |-> u, what |-> None]
  <2>1. req' = [req EXCEPT ![r] = call] /\ UNCHANGED <<acctRowVars, codes>>
    BY <1>5 DEF Accts!ReadForDecision, Accts!Begin, Accts!roleRows, acctRowVars
  <2>2. CallTyped(call)
    BY <1>5 DEF Accts!ReadForDecision, CallTyped, UserSteps
  <2>3. OneSlot /\ AcctFits => CallFits(call)
    BY <1>5 DEF Accts!ReadForDecision, Accts!Undecided, CallFits, UserSteps
  <2>. HIDE DEF call
  <2>. QED
    BY <2>1, <2>2, <2>3, AcctReads
<1>6. ASSUME NEW a \in People, NEW u \in People, NEW role \in Accts!Roles, Accts!ReadForUpdate(r, a, u, role)
      PROVE  AcctKept
  <2>. DEFINE call == [at |-> "role", who |-> u, what |-> role]
  <2>1. req' = [req EXCEPT ![r] = call] /\ UNCHANGED <<acctRowVars, codes>>
    BY <1>6 DEF Accts!ReadForUpdate, Accts!Begin, Accts!roleRows, acctRowVars
  <2>2. CallTyped(call)
    BY <1>6 DEF Accts!ReadForUpdate, CallTyped, UserSteps
  <2>3. OneSlot /\ AcctFits => CallFits(call)
    BY <1>6 DEF Accts!ReadForUpdate, Accts!LastAdmin, CallFits, UserSteps
  <2>. HIDE DEF call
  <2>. QED
    BY <2>1, <2>2, <2>3, AcctReads
<1>7. ASSUME NEW a \in People, NEW u \in People, NEW s \in {"ACTIVE", "DISABLED"},
             Accts!ReadForStatus(r, a, u, s)
      PROVE  AcctKept
  <2>. DEFINE call == [at |-> s, who |-> u, what |-> None]
  <2>1. req' = [req EXCEPT ![r] = call] /\ UNCHANGED <<acctRowVars, codes>>
    BY <1>7 DEF Accts!ReadForStatus, Accts!Begin, Accts!roleRows, acctRowVars
  <2>2. CallTyped(call)
    BY <1>7 DEF Accts!ReadForStatus, CallTyped, UserSteps
  <2>3. OneSlot /\ AcctFits => CallFits(call)
    BY <1>7 DEF Accts!ReadForStatus, Accts!LastAdmin, CallFits, UserSteps
  <2>. HIDE DEF call
  <2>. QED
    BY <2>1, <2>2, <2>3, AcctReads
<1>8. ASSUME NEW a \in People, NEW u \in People, Accts!ReadForDelete(r, a, u) PROVE AcctKept
  <2>. DEFINE call == [at |-> "remove", who |-> u, what |-> None]
  <2>1. req' = [req EXCEPT ![r] = call] /\ UNCHANGED <<acctRowVars, codes>>
    BY <1>8 DEF Accts!ReadForDelete, Accts!Begin, Accts!roleRows, acctRowVars
  <2>2. CallTyped(call)
    BY <1>8 DEF Accts!ReadForDelete, CallTyped, UserSteps
  <2>3. OneSlot /\ AcctFits => CallFits(call)
    BY <1>8 DEF Accts!ReadForDelete, Accts!LastAdmin, CallFits, UserSteps
  <2>. HIDE DEF call
  <2>. QED
    BY <2>1, <2>2, <2>3, AcctReads
<1>9. ASSUME NEW role \in Accts!Roles, Accts!ReadForRemoveRole(r, role) PROVE AcctKept
  <2>. DEFINE call == [at |-> "unrole", who |-> role, what |-> None]
  <2>1. req' = [req EXCEPT ![r] = call] /\ UNCHANGED <<acctRowVars, codes>>
    BY <1>9 DEF Accts!ReadForRemoveRole, Accts!Begin, Accts!roleRows, acctRowVars
  <2>2. CallTyped(call)
    BY <1>9 DEF Accts!ReadForRemoveRole, CallTyped, UserSteps
  <2>3. OneSlot /\ AcctFits => CallFits(call)
    BY <1>9 DEF Accts!ReadForRemoveRole, CallFits, UserSteps
  <2>. HIDE DEF call
  <2>. QED
    BY <2>1, <2>2, <2>3, AcctReads
<1>10. CASE Accts!Fail(r)
  <2>1. req' = [req EXCEPT ![r] = None] /\ UNCHANGED <<acctRowVars, codes>>
    BY <1>10 DEF Accts!Fail, Accts!Finish, Accts!roleRows, acctRowVars
  <2>. QED
    BY <2>1, AcctReads
<1>. QED
  BY <1>1, <1>2, <1>3, <1>4, <1>5, <1>6, <1>7, <1>8, <1>9, <1>10

-----------------------------------------------------------------------------
(* An invitation is issued, amended, withdrawn, or runs out.               *)
LEMMA AcctInviteRow ==
  ASSUME AcctRows, UNCHANGED <<user, codes, roles, managers, decisions>>,
         NEW i \in Invites, NEW row \in Accts!Invitation, invite' = [invite EXCEPT ![i] = row],
         row.used => row.issued /\ invite[i].used, invite[i].used => row.used
  PROVE  /\ AcctRows' /\ RolesGiven
         /\ RowsFit /\ ~(row.used /\ row.revoked) => RowsFit'
<1>1. /\ invite' \in [Invites -> Accts!Invitation] /\ invite'[i] = row
      /\ \A j \in Invites \ {i} : invite'[j] = invite[j]
  BY DEF AcctRows, Accts!AccountsTypeOK
<1>2. Accts!AccountsTypeOK'
  BY <1>1 DEF AcctRows, Accts!AccountsTypeOK
<1>3. \A j \in Invites : invite'[j].used <=> invite[j].used
  BY <1>1
<1>4. \A u \in People : user[u].by \in Invites \cup {None}
  BY DEF AcctRows, Accts!AccountsTypeOK, Accts!Account
<1>5. Accts!InvitationOnce'
  BY <1>3, <1>4 DEF AcctRows, Accts!InvitationOnce
<1>6. AcctRows'
  BY <1>1, <1>2, <1>5 DEF AcctRows
<1>7. RolesGiven
  BY DEF RolesGiven, Accts!EntersAsInvited, Accts!HeldByNobody
<1>8. ASSUME RowsFit, ~(row.used /\ row.revoked) PROVE RowsFit'
  <2>1. Accts!RedeemedOrRevoked'
    BY <1>1, <1>8 DEF RowsFit, Accts!RedeemedOrRevoked
  <2>. QED
    BY <1>8, <2>1 DEF RowsFit, Accts!AnAdminRemains, Accts!ActiveAdmin, Accts!Live,
       DecisionsFit, CodesFit, Accts!OpenCodes
<1>. QED
  BY <1>6, <1>7, <1>8

LEMMA AcctInviteSteps ==
  ASSUME Accts!AccountsAssumption, AcctShape, NEW r \in Reqs,
         \/ \E i \in Invites, role \in Accts!Roles, for \in People \cup {None} :
              Accts!CreateInvitation(r, i, role, for)
         \/ Accts!WriteInvitation(r)
  PROVE  AcctKept
<1>1. ASSUME NEW i \in Invites, NEW row \in Accts!Invitation, invite' = [invite EXCEPT ![i] = row],
             UNCHANGED <<user, codes, roles, managers, decisions>>,
             req'[r] = None, UNCHANGED req \/ Accts!Finish(r),
             row.used => row.issued /\ invite[i].used, invite[i].used => row.used,
             OneSlot /\ AcctFits => ~(row.used /\ row.revoked)
      PROVE  AcctKept
  <2>1. \A u \in People : codes[u] \in Seq(Accts!Code)
    BY DEF AcctShape, AcctRows, Accts!AccountsTypeOK
  <2>2. CallsTyped' /\ (OneSlot => CallsFit')
    BY <1>1, <2>1, AcctWrites DEF AcctShape
  <2>3. AcctRows' /\ RolesGiven /\ (RowsFit /\ ~(row.used /\ row.revoked) => RowsFit')
    BY <1>1, AcctInviteRow DEF AcctShape
  <2>. QED
    BY <1>1, <2>2, <2>3 DEF AcctKept, AcctShape, AcctFits
<1>2. \A i \in Invites : invite[i] \in Accts!Invitation
  BY DEF AcctShape, AcctRows, Accts!AccountsTypeOK
<1>3. \A i \in Invites : invite[i].used => invite[i].issued
  BY DEF AcctShape, AcctRows
<1>4. ASSUME NEW i \in Invites, NEW role \in Accts!Roles, NEW for \in People \cup {None},
             Accts!CreateInvitation(r, i, role, for)
      PROVE  AcctKept
  <2>. DEFINE row == [Accts!NoInvitation EXCEPT !.issued = TRUE, !.role = role, !.for = for]
  <2>1. row \in Accts!Invitation /\ ~row.used
    BY DEF Accts!NoInvitation, Accts!Invitation
  <2>2. /\ invite' = [invite EXCEPT ![i] = row] /\ ~invite[i].issued
        /\ req'[r] = None /\ UNCHANGED req /\ UNCHANGED <<user, codes, roles, managers, decisions>>
    BY <1>4 DEF Accts!CreateInvitation, Accts!ByManager, Accts!Offered, Accts!roleRows
  <2>. HIDE DEF row
  <2>. QED
    BY <1>1, <1>3, <2>1, <2>2
<1>5. ASSUME Accts!WriteInvitation(r), NEW i \in Invites, i = req[r].who
      PROVE  /\ UNCHANGED <<user, codes, roles, managers, decisions>>
             /\ Accts!Finish(r) /\ req'[r] = None
  BY <1>5 DEF Accts!WriteInvitation, Accts!Finish, Accts!roleRows, AcctShape, CallsTyped
<1>6. CASE Accts!WriteInvitation(r)
  <2>1. req[r] # None /\ req[r].at \in {"edit", "delete", "revoke"}
    BY <1>6 DEF Accts!WriteInvitation, Accts!At
  <2>2. CallTyped(req[r]) /\ (OneSlot /\ AcctFits => CallFits(req[r]) /\ Accts!RedeemedOrRevoked)
    BY <2>1 DEF AcctShape, CallsTyped, AcctFits, CallsFit, RowsFit
  <2>. DEFINE i == req[r].who
  <2>3. i \in Invites
    BY <2>1, <2>2 DEF CallTyped
  <2>4. OneSlot /\ AcctFits => ~(invite[i].used /\ invite[i].revoked)
    BY <2>2, <2>3 DEF Accts!RedeemedOrRevoked
  <2>5. OneSlot /\ AcctFits /\ req[r].at = "revoke" => ~invite[i].used
    BY <2>2 DEF CallFits
  <2>6. CASE req[r].at = "edit"
    <3>. DEFINE row == [invite[i] EXCEPT !.role = req[r].what]
    <3>1. req[r].what \in Accts!Roles
      BY <2>2, <2>6 DEF CallTyped
    <3>2. row \in Accts!Invitation /\ row.used = invite[i].used /\ row.issued = invite[i].issued
          /\ row.revoked = invite[i].revoked
      BY <1>2, <2>3, <3>1 DEF Accts!Invitation
    <3>3. invite' = [invite EXCEPT ![i] = row]
      BY <1>6, <2>6 DEF Accts!WriteInvitation, Accts!At
    <3>. HIDE DEF row
    <3>. QED
      BY <1>1, <1>3, <1>5, <1>6, <2>3, <2>4, <3>2, <3>3
  <2>7. CASE req[r].at = "delete"
    <3>. DEFINE row == [invite[i] EXCEPT !.deleted = TRUE]
    <3>2. row \in Accts!Invitation /\ row.used = invite[i].used /\ row.issued = invite[i].issued
          /\ row.revoked = invite[i].revoked
      BY <1>2, <2>3 DEF Accts!Invitation
    <3>3. invite' = [invite EXCEPT ![i] = row]
      BY <1>6, <2>7 DEF Accts!WriteInvitation, Accts!At
    <3>. HIDE DEF row
    <3>. QED
      BY <1>1, <1>3, <1>5, <1>6, <2>3, <2>4, <3>2, <3>3
  <2>8. CASE req[r].at = "revoke"
    <3>. DEFINE row == [invite[i] EXCEPT !.revoked = TRUE]
    <3>2. row \in Accts!Invitation /\ row.used = invite[i].used /\ row.issued = invite[i].issued
      BY <1>2, <2>3 DEF Accts!Invitation
    <3>3. invite' = [invite EXCEPT ![i] = row]
      BY <1>6, <2>8 DEF Accts!WriteInvitation, Accts!At
    <3>. HIDE DEF row
    <3>. QED
      BY <1>1, <1>3, <1>5, <1>6, <2>3, <2>5, <2>8, <3>2, <3>3
  <2>. QED
    BY <2>1, <2>6, <2>7, <2>8
<1>. QED
  BY <1>4, <1>6

(* An invitation may run out while requests wait.                          *)
LEMMA AcctInviteExpires ==
  ASSUME AcctShape, NEW i \in Invites, Accts!InvitationExpires(i)
  PROVE  AcctKept
<1>. DEFINE row == [invite[i] EXCEPT !.expired = TRUE]
<1>1. invite[i] \in Accts!Invitation /\ (invite[i].used => invite[i].issued)
  BY DEF AcctShape, AcctRows, Accts!AccountsTypeOK
<1>2. row \in Accts!Invitation /\ row.used = invite[i].used /\ row.issued = invite[i].issued
      /\ row.revoked = invite[i].revoked /\ row.role = invite[i].role
  BY <1>1 DEF Accts!Invitation
<1>3. invite' = [invite EXCEPT ![i] = row] /\ UNCHANGED <<user, codes, roles, managers, decisions, req>>
  BY DEF Accts!InvitationExpires, Accts!roleRows
<1>. HIDE DEF row
<1>4. AcctRows' /\ RolesGiven /\ (RowsFit /\ ~(row.used /\ row.revoked) => RowsFit')
  BY <1>1, <1>2, <1>3, AcctInviteRow DEF AcctShape
<1>5. CallsTyped'
  BY <1>3 DEF AcctShape, CallsTyped, CallTyped
<1>6. RowsFit => ~(row.used /\ row.revoked)
  BY <1>2 DEF RowsFit, Accts!RedeemedOrRevoked
<1>7. \A j \in Invites : invite'[j].used = invite[j].used /\ invite'[j].role = invite[j].role
  BY <1>2, <1>3 DEF AcctShape, AcctRows, Accts!AccountsTypeOK
<1>8. CallsFit => CallsFit'
  <2>. SUFFICES ASSUME CallsFit, NEW s \in Reqs, req[s] # None PROVE CallFits(req[s])'
    BY <1>3 DEF CallsFit
  <2>1. CallTyped(req[s]) /\ CallFits(req[s])
    BY DEF AcctShape, CallsTyped, CallsFit
  <2>. QED
    BY <1>3, <1>7, <2>1 DEF CallTyped, CallFits, Accts!OtherActiveAdmins, Accts!ActiveAdmin,
       Accts!Live, Accts!Held, Accts!OpenCodes
<1>. QED
  BY <1>4, <1>5, <1>6, <1>8 DEF AcctKept, AcctShape, AcctFits

-----------------------------------------------------------------------------
(* Closing codes leaves the rest of them as it is.                         *)
LEMMA ClosedCodes ==
  ASSUME NEW cs \in Seq(Accts!Code), NEW ns
  PROVE  /\ Accts!Closed(cs, ns) \in Seq(Accts!Code) /\ Len(Accts!Closed(cs, ns)) = Len(cs)
         /\ \A n \in 1 .. Len(cs) :
              /\ Accts!Closed(cs, ns)[n].attempts = cs[n].attempts
              /\ Accts!Closed(cs, ns)[n].open => cs[n].open /\ n \notin ns
<1>. DEFINE good(n) == cs[n].open /\ n \notin ns
            row(n) == [cs[n] EXCEPT !.open = good(n)]
            out == [n \in 1 .. Len(cs) |-> row(n)]
<1>1. Len(cs) \in Nat /\ DOMAIN cs = 1 .. Len(cs)
  OBVIOUS
<1>2. ASSUME NEW n \in 1 .. Len(cs)
      PROVE  /\ row(n) \in Accts!Code /\ row(n).attempts = cs[n].attempts
             /\ row(n).open => cs[n].open /\ n \notin ns
  <2>1. cs[n] \in Accts!Code /\ good(n) \in BOOLEAN /\ (good(n) => cs[n].open /\ n \notin ns)
    BY <1>1
  <2>. HIDE DEF good
  <2>2. row(n) \in Accts!Code /\ row(n).attempts = cs[n].attempts /\ row(n).open = good(n)
    BY <2>1 DEF Accts!Code
  <2>. QED
    BY <2>1, <2>2
<1>3. Accts!Closed(cs, ns) = out
  BY <1>1 DEF Accts!Closed
<1>. HIDE DEF row
<1>4. out \in Seq(Accts!Code) /\ Len(out) = Len(cs)
  BY <1>1, <1>2
<1>. QED
  BY <1>2, <1>3, <1>4

(* The codes of one address change: sent, tried, retired or run out.       *)
LEMMA AcctCodesOf ==
  ASSUME AcctRows, UNCHANGED acctRowVars,
         NEW u \in People, NEW cs \in Seq(Accts!Code), codes' = [codes EXCEPT ![u] = cs]
  PROVE  /\ AcctRows' /\ RolesGiven
         /\ /\ RowsFit
            /\ \A m, n \in 1 .. Len(cs) : cs[m].open /\ cs[n].open => m = n
            /\ \A n \in 1 .. Len(cs) : cs[n].attempts <= MaxOtpAttempts
            => RowsFit'
<1>1. /\ codes' \in [People -> Seq(Accts!Code)] /\ codes'[u] = cs
      /\ \A v \in People \ {u} : codes'[v] = codes[v]
  BY DEF AcctRows, Accts!AccountsTypeOK
<1>2. AcctRows'
  BY <1>1 DEF acctRowVars, AcctRows, Accts!AccountsTypeOK, Accts!InvitationOnce
<1>3. RolesGiven
  BY DEF acctRowVars, RolesGiven, Accts!EntersAsInvited, Accts!HeldByNobody
<1>4. ASSUME RowsFit,
             \A m, n \in 1 .. Len(cs) : cs[m].open /\ cs[n].open => m = n,
             \A n \in 1 .. Len(cs) : cs[n].attempts <= MaxOtpAttempts
      PROVE  RowsFit'
  <2>1. DOMAIN cs = 1 .. Len(cs)
    OBVIOUS
  <2>2. CodesFit'
    BY <1>1, <1>4, <2>1 DEF RowsFit, CodesFit, Accts!OpenCodes
  <2>. QED
    BY <1>4, <2>2 DEF acctRowVars, RowsFit, Accts!AnAdminRemains, Accts!ActiveAdmin, Accts!Live,
       DecisionsFit, Accts!RedeemedOrRevoked
<1>. QED
  BY <1>2, <1>3, <1>4

(* The code sent is the only open one; a code tried counts the attempt.    *)
LEMMA AcctCodeSteps ==
  ASSUME Accts!AccountsAssumption, AcctShape, NEW r \in Reqs, Accts!SendCode(r) \/ Accts!WrongCode(r)
  PROVE  AcctKept
<1>. DEFINE u == req[r].who
<1>1. req[r] # None /\ req[r].at \in {"send", "verify"} /\ Accts!Finish(r)
      /\ UNCHANGED acctRowVars /\ req'[r] = None
  BY DEF Accts!SendCode, Accts!WrongCode, Accts!At, Accts!Finish, acctRowVars, Accts!roleRows,
     AcctShape, CallsTyped
<1>2. CallTyped(req[r]) /\ (OneSlot /\ AcctFits => CallFits(req[r]) /\ CodesFit)
  BY <1>1 DEF AcctShape, CallsTyped, AcctFits, CallsFit, RowsFit
<1>3. u \in People
  BY <1>1, <1>2 DEF CallTyped, UserSteps
<1>4. \A v \in People : codes[v] \in Seq(Accts!Code) /\ Len(codes[v]) \in Nat
  BY DEF AcctShape, AcctRows, Accts!AccountsTypeOK
<1>5. MaxOtpAttempts \in Nat
  BY DEF Accts!AccountsAssumption
<1>6. ASSUME NEW cs \in Seq(Accts!Code), codes' = [codes EXCEPT ![u] = cs], Len(cs) >= Len(codes[u]),
             OneSlot /\ AcctFits => \A m, n \in 1 .. Len(cs) : cs[m].open /\ cs[n].open => m = n,
             OneSlot /\ AcctFits => \A n \in 1 .. Len(cs) : cs[n].attempts <= MaxOtpAttempts
      PROVE  AcctKept
  <2>1. \A v \in People : Len(codes[v]) <= Len(codes'[v]) /\ Len(codes'[v]) \in Nat
    BY <1>3, <1>4, <1>6 DEF AcctShape, AcctRows, Accts!AccountsTypeOK
  <2>2. CallsTyped' /\ (OneSlot => CallsFit')
    BY <1>1, <1>4, <2>1, AcctWrites DEF AcctShape
  <2>3. AcctRows' /\ RolesGiven /\ (OneSlot /\ AcctFits => RowsFit')
    BY <1>1, <1>3, <1>6, AcctCodesOf DEF AcctShape, AcctFits
  <2>. QED
    BY <2>2, <2>3 DEF AcctKept, AcctShape, AcctFits
<1>7. CASE Accts!SendCode(r)
  <2>. DEFINE old == Accts!Closed(codes[u], req[r].what)
              fresh == [open |-> TRUE, attempts |-> 0]
              cs == Append(old, fresh)
  <2>1. /\ old \in Seq(Accts!Code) /\ Len(old) = Len(codes[u])
        /\ \A n \in 1 .. Len(codes[u]) :
             /\ old[n].attempts = codes[u][n].attempts
             /\ old[n].open => codes[u][n].open /\ n \notin req[r].what
    BY <1>3, <1>4, ClosedCodes
  <2>2. fresh \in Accts!Code /\ fresh.attempts = 0
    BY DEF Accts!Code
  <2>3. codes' = [codes EXCEPT ![u] = cs]
    BY <1>7 DEF Accts!SendCode
  <2>4. OneSlot /\ AcctFits =>
          /\ \A n \in 1 .. Len(codes[u]) : codes[u][n].open => n \in req[r].what
          /\ \A n \in 1 .. Len(codes[u]) : codes[u][n].attempts <= MaxOtpAttempts
    <3>1. req[r].at = "send"
      BY <1>7 DEF Accts!SendCode, Accts!At
    <3>2. DOMAIN codes[u] = 1 .. Len(codes[u])
      BY <1>3, <1>4
    <3>. QED
      BY <1>2, <1>3, <3>1, <3>2 DEF CallFits, Accts!OpenCodes, CodesFit
  <2>. HIDE DEF old, fresh
  <2>5. cs \in Seq(Accts!Code) /\ Len(cs) = Len(codes[u]) + 1 /\ cs[Len(cs)] = fresh
        /\ \A n \in 1 .. Len(codes[u]) : cs[n] = old[n]
    BY <1>3, <1>4, <2>1, <2>2
  <2>6. 1 .. Len(cs) = (1 .. Len(codes[u])) \cup {Len(cs)}
    BY <1>3, <1>4, <2>5
  <2>. HIDE DEF cs
  <2>7. OneSlot /\ AcctFits =>
          /\ \A n \in 1 .. Len(codes[u]) : ~cs[n].open /\ cs[n].attempts <= MaxOtpAttempts
          /\ cs[Len(cs)].attempts <= MaxOtpAttempts
    <3>1. ASSUME OneSlot, AcctFits, NEW n \in 1 .. Len(codes[u])
          PROVE  ~old[n].open /\ old[n].attempts <= MaxOtpAttempts
      BY <2>1, <2>4, <3>1
    <3>2. cs[Len(cs)].attempts <= MaxOtpAttempts
      BY <1>5, <2>2, <2>5
    <3>. QED
      BY <2>5, <3>1, <3>2
  <2>8. OneSlot /\ AcctFits => \A m, n \in 1 .. Len(cs) : cs[m].open /\ cs[n].open => m = n
    BY <2>6, <2>7
  <2>9. OneSlot /\ AcctFits => \A n \in 1 .. Len(cs) : cs[n].attempts <= MaxOtpAttempts
    BY <2>6, <2>7
  <2>10. Len(cs) >= Len(codes[u])
    BY <1>3, <1>4, <2>5
  <2>. QED
    BY <1>6, <2>3, <2>5, <2>8, <2>9, <2>10
<1>8. CASE Accts!WrongCode(r)
  <2>. DEFINE k == req[r].what
              c == [codes[u][k] EXCEPT !.attempts = @ + 1]
              cs == [codes[u] EXCEPT ![k] = c]
  <2>1. req[r].at = "verify" /\ codes' = [codes EXCEPT ![u][k].attempts = @ + 1]
    BY <1>8 DEF Accts!WrongCode, Accts!At
  <2>2. k \in 1 .. Len(codes[u])
    BY <1>2, <2>1 DEF CallTyped
  <2>3. codes[u][k] \in Accts!Code
    BY <1>3, <1>4, <2>2
  <2>4. c \in Accts!Code /\ c.open = codes[u][k].open /\ c.attempts = codes[u][k].attempts + 1
    BY <2>3 DEF Accts!Code
  <2>5. codes' = [codes EXCEPT ![u] = cs]
    BY <2>1
  <2>6. OneSlot /\ AcctFits =>
          /\ codes[u][k].attempts < MaxOtpAttempts
          /\ \A m, n \in 1 .. Len(codes[u]) : codes[u][m].open /\ codes[u][n].open => m = n
          /\ \A n \in 1 .. Len(codes[u]) : codes[u][n].attempts <= MaxOtpAttempts
    <3>1. DOMAIN codes[u] = 1 .. Len(codes[u])
      BY <1>3, <1>4
    <3>. QED
      BY <1>2, <1>3, <2>1, <3>1 DEF CallFits, Accts!OpenCodes, CodesFit
  <2>7. codes[u][k].attempts \in Nat
    BY <2>3 DEF Accts!Code
  <2>. HIDE DEF c
  <2>8. /\ cs \in Seq(Accts!Code) /\ Len(cs) = Len(codes[u]) /\ cs[k] = c
        /\ \A n \in 1 .. Len(codes[u]) : n # k => cs[n] = codes[u][n]
    BY <1>3, <1>4, <2>2, <2>4
  <2>. HIDE DEF cs
  <2>9. \A n \in 1 .. Len(codes[u]) : cs[n].open = codes[u][n].open
    BY <2>4, <2>8
  <2>10. OneSlot /\ AcctFits => \A n \in 1 .. Len(cs) : cs[n].attempts <= MaxOtpAttempts
    BY SMTT(30), <1>5, <2>4, <2>6, <2>7, <2>8
  <2>11. OneSlot /\ AcctFits => \A m, n \in 1 .. Len(cs) : cs[m].open /\ cs[n].open => m = n
    BY <2>6, <2>8, <2>9
  <2>12. Len(cs) >= Len(codes[u])
    BY <1>3, <1>4, <2>8
  <2>. QED
    BY <1>6, <2>5, <2>8, <2>10, <2>11, <2>12
<1>. QED
  BY <1>7, <1>8

(* Codes are closed: run out, or burnt by one attempt too many.            *)
LEMMA AcctCodesClose ==
  ASSUME AcctShape, NEW u \in People, NEW ns, codes' = [codes EXCEPT ![u] = Accts!Closed(codes[u], ns)],
         UNCHANGED <<acctRowVars, req>>
  PROVE  AcctKept
<1>. DEFINE cs == Accts!Closed(codes[u], ns)
<1>1. \A v \in People : codes[v] \in Seq(Accts!Code) /\ Len(codes[v]) \in Nat
      /\ DOMAIN codes[v] = 1 .. Len(codes[v])
  BY DEF AcctShape, AcctRows, Accts!AccountsTypeOK
<1>2. /\ cs \in Seq(Accts!Code) /\ Len(cs) = Len(codes[u])
      /\ \A n \in 1 .. Len(cs) : /\ cs[n].attempts = codes[u][n].attempts
                                 /\ cs[n].open => codes[u][n].open
  BY <1>1, ClosedCodes
<1>3. codes' = [codes EXCEPT ![u] = cs]
  OBVIOUS
<1>. HIDE DEF cs
<1>4. /\ codes'[u] = cs /\ DOMAIN cs = 1 .. Len(cs)
      /\ \A v \in People \ {u} : codes'[v] = codes[v]
  BY <1>1, <1>2, <1>3 DEF AcctShape, AcctRows, Accts!AccountsTypeOK
<1>5. RowsFit => /\ \A m, n \in 1 .. Len(cs) : cs[m].open /\ cs[n].open => m = n
                 /\ \A n \in 1 .. Len(cs) : cs[n].attempts <= MaxOtpAttempts
  BY <1>1, <1>2 DEF RowsFit, CodesFit, Accts!OpenCodes
<1>6. AcctRows' /\ RolesGiven /\ (RowsFit => RowsFit')
  BY <1>2, <1>3, <1>5, AcctCodesOf DEF AcctShape
<1>7. \A v \in People : Len(codes'[v]) = Len(codes[v])
  BY <1>2, <1>4
<1>8. ASSUME NEW s \in Reqs, req[s] # None PROVE CallTyped(req[s])'
  <2>1. CallTyped(req[s])
    BY <1>8 DEF AcctShape, CallsTyped
  <2>2. req[s].at = "verify" => req[s].who \in People
    BY <2>1 DEF CallTyped, UserSteps
  <2>. QED
    BY <1>7, <2>1, <2>2 DEF CallTyped
<1>9. CallsTyped'
  BY <1>8 DEF AcctShape, CallsTyped
<1>10. CallsFit => CallsFit'
  <2>. SUFFICES ASSUME CallsFit, NEW s \in Reqs, req[s] # None PROVE CallFits(req[s])'
    BY DEF CallsFit
  <2>1. CallTyped(req[s]) /\ CallFits(req[s])
    BY DEF AcctShape, CallsTyped, CallsFit
  <2>2. \A v \in People : \A n \in 1 .. Len(codes[v]) :
          codes'[v][n].attempts = codes[v][n].attempts /\ (codes'[v][n].open => codes[v][n].open)
    BY <1>2, <1>4
  <2>3. \A v \in People : Accts!OpenCodes(v)' \subseteq Accts!OpenCodes(v)
    BY <1>1, <1>2, <1>4, <2>2 DEF Accts!OpenCodes
  <2>. QED
    BY <2>1, <2>2, <2>3 DEF acctRowVars, CallTyped, UserSteps, CallFits, Accts!OtherActiveAdmins,
       Accts!ActiveAdmin, Accts!Live, Accts!Held
<1>. QED
  BY <1>6, <1>9, <1>10 DEF AcctKept, AcctShape, AcctFits

(* A set of numbers below a bound has a largest.                           *)
LEMMA LargestOf ==
  ASSUME NEW S \in SUBSET Nat, S # {}, NEW n \in Nat, \A k \in S : k <= n
  PROVE  \E m \in S : \A k \in S : k <= m
<1>. DEFINE T == {n - x : x \in S}
            R == {p \in Nat \X Nat : p[1] < p[2]}
<1>1. T \subseteq Nat /\ T # {}
  <2>1. \A x \in S : x \in Nat /\ x <= n
    OBVIOUS
  <2>2. \A x \in S : n - x \in Nat
    BY <2>1
  <2>. QED
    BY <2>2
<1>2. IsWellFoundedOn(R, Nat)
  BY NatLessThanWellFounded DEF OpToRel
<1>3. PICK t \in T : \A x \in T : ~ (<<x, t>> \in R)
  <2>. HIDE DEF R, T
  <2>. QED
    BY <1>1, <1>2, WFMin
<1>4. PICK m \in S : t = n - m
  OBVIOUS
<1>5. ASSUME NEW k \in S PROVE k <= m
  <2>1. n - k \in T /\ n - k \in Nat /\ t \in Nat
    BY <1>1
  <2>2. ~(n - k < t)
    BY <1>3, <2>1
  <2>. QED
    BY <1>4, <2>1, <2>2
<1>. QED
  BY <1>5

(* The newest open code is looked at: good to be tried, or burnt.          *)
LEMMA AcctVerifyStep ==
  ASSUME Accts!AccountsAssumption, AcctShape, NEW r \in Reqs, NEW u \in People, Accts!ReadForVerify(r, u)
  PROVE  AcctKept
<1>. DEFINE n == CHOOSE m \in Accts!OpenCodes(u) : \A k \in Accts!OpenCodes(u) : k <= m
<1>1. codes[u] \in Seq(Accts!Code) /\ DOMAIN codes[u] = 1 .. Len(codes[u])
  BY DEF AcctShape, AcctRows, Accts!AccountsTypeOK
<1>2. /\ user[u].status = "PENDING" /\ UNCHANGED acctRowVars
      /\ \/ ~Accts!Spent(codes[u][n]) /\ Accts!Begin(r, "verify", u, n) /\ UNCHANGED codes
         \/ codes' = [codes EXCEPT ![u] = Accts!Closed(@, {n})] /\ UNCHANGED req
  BY DEF Accts!ReadForVerify, acctRowVars, Accts!roleRows
<1>3. n \in 1 .. Len(codes[u])
  <2>1. Accts!OpenCodes(u) # {} /\ Accts!OpenCodes(u) \subseteq 1 .. Len(codes[u])
    BY <1>1 DEF Accts!ReadForVerify, Accts!OpenCodes
  <2>2. \E m \in Accts!OpenCodes(u) : \A k \in Accts!OpenCodes(u) : k <= m
    <3>. DEFINE S == Accts!OpenCodes(u)
                bound == Len(codes[u])
    <3>1. S \in SUBSET Nat /\ (\A k \in S : k <= bound) /\ S # {} /\ bound \in Nat
      BY <1>1, <2>1
    <3>. HIDE DEF S, bound
    <3>2. \E m \in S : \A k \in S : k <= m
      BY <3>1, LargestOf
    <3>. QED
      BY <3>2 DEF S
  <2>. QED
    BY <2>1, <2>2
<1>. HIDE DEF n
<1>4. CASE ~Accts!Spent(codes[u][n]) /\ Accts!Begin(r, "verify", u, n) /\ UNCHANGED codes
  <2>. DEFINE call == [at |-> "verify", who |-> u, what |-> n]
  <2>1. req' = [req EXCEPT ![r] = call] /\ UNCHANGED <<acctRowVars, codes>>
    BY <1>2, <1>4 DEF Accts!Begin
  <2>2. CallTyped(call)
    BY <1>3 DEF CallTyped, UserSteps
  <2>3. codes[u][n] \in Accts!Code
    BY <1>1, <1>3
  <2>4. codes[u][n].attempts \in Nat
    BY <2>3 DEF Accts!Code
  <2>5. OneSlot /\ AcctFits => CallFits(call)
    BY <1>2, <1>4, <2>4 DEF CallFits, Accts!Spent, Accts!AccountsAssumption
  <2>. HIDE DEF call
  <2>. QED
    BY <2>1, <2>2, <2>5, AcctReads
<1>5. CASE codes' = [codes EXCEPT ![u] = Accts!Closed(@, {n})] /\ UNCHANGED req
  BY <1>2, <1>5, AcctCodesClose
<1>. QED
  BY <1>2, <1>4, <1>5

LEMMA AcctCodeExpires ==
  ASSUME AcctShape, NEW u \in People, NEW n, Accts!CodeExpires(u, n)
  PROVE  AcctKept
<1>1. /\ codes' = [codes EXCEPT ![u] = Accts!Closed(codes[u], {n})]
      /\ UNCHANGED <<acctRowVars, req>>
  BY DEF Accts!CodeExpires, acctRowVars, Accts!roleRows
<1>. QED
  BY <1>1, AcctCodesClose

-----------------------------------------------------------------------------
(* An account's row changes, and its invitation stays its own.             *)
LEMMA AcctUserRow ==
  ASSUME AcctRows, NEW u \in People, NEW row \in Accts!Account, user' = [user EXCEPT ![u] = row],
         row.by = user[u].by, UNCHANGED <<invite, roles, managers>>,
         codes' \in [People -> Seq(Accts!Code)], decisions' \in [People -> Nat]
  PROVE  /\ AcctRows'
         /\ /\ RowsFit /\ DecisionsFit' /\ CodesFit'
            /\ user[u].status = "none" => row.status = "none"
            /\ \/ ~Accts!ActiveAdmin(u) \/ Accts!OtherActiveAdmins(u) # {}
               \/ row.status = "ACTIVE" /\ ~row.deleted /\ row.role = Admin
            => RowsFit' /\ RolesGiven
<1>1. /\ user' \in [People -> Accts!Account] /\ user'[u] = row
      /\ \A v \in People \ {u} : user'[v] = user[v]
  BY DEF AcctRows, Accts!AccountsTypeOK
<1>2. \A v \in People : user'[v].by = user[v].by
  BY <1>1
<1>3. AcctRows'
  BY <1>1, <1>2 DEF AcctRows, Accts!AccountsTypeOK, Accts!InvitationOnce
<1>4. ASSUME RowsFit, DecisionsFit', CodesFit',
             user[u].status = "none" => row.status = "none",
             \/ ~Accts!ActiveAdmin(u) \/ Accts!OtherActiveAdmins(u) # {}
             \/ row.status = "ACTIVE" /\ ~row.deleted /\ row.role = Admin
      PROVE  RowsFit' /\ RolesGiven
  <2>1. \A v \in People \ {u} : Accts!ActiveAdmin(v) => Accts!ActiveAdmin(v)'
    BY <1>1 DEF Accts!ActiveAdmin, Accts!Live
  <2>2. row.status = "ACTIVE" /\ ~row.deleted /\ row.role = Admin => Accts!ActiveAdmin(u)'
    BY <1>1 DEF Accts!ActiveAdmin, Accts!Live
  <2>3. Accts!AnAdminRemains'
    BY <1>4, <2>1, <2>2 DEF RowsFit, Accts!AnAdminRemains, Accts!OtherActiveAdmins
  <2>4. Accts!RedeemedOrRevoked'
    BY <1>4 DEF RowsFit, Accts!RedeemedOrRevoked
  <2>5. RolesGiven
    BY <1>1, <1>4 DEF RolesGiven, Accts!EntersAsInvited, Accts!HeldByNobody
  <2>. QED
    BY <1>4, <2>3, <2>4, <2>5 DEF RowsFit
<1>. QED
  BY <1>3, <1>4

LEMMA AcctUserSteps ==
  ASSUME AcctShape, NEW r \in Reqs,
         \/ Accts!Activate(r) \/ Accts!WriteDecision(r) \/ Accts!WriteRole(r)
         \/ Accts!WriteStatus(r) \/ Accts!WriteDelete(r)
  PROVE  AcctKept
<1>. DEFINE u == req[r].who
            Steps == {"verify", "approve", "reject", "role", "ACTIVE", "DISABLED", "remove"}
<1>1. req[r] # None /\ req[r].at \in Steps /\ Accts!Finish(r) /\ req'[r] = None
      /\ UNCHANGED <<invite, roles, managers>>
  BY DEF Accts!Activate, Accts!WriteDecision, Accts!WriteRole, Accts!WriteStatus,
     Accts!WriteDelete, Accts!At, Accts!Finish, Accts!roleRows, AcctShape, CallsTyped
<1>2. CallTyped(req[r]) /\ (OneSlot /\ AcctFits => CallFits(req[r]) /\ RowsFit)
  BY <1>1 DEF AcctShape, CallsTyped, AcctFits, CallsFit
<1>3. u \in People
  BY <1>1, <1>2 DEF CallTyped, UserSteps
<1>4. /\ user[u] \in Accts!Account /\ decisions \in [People -> Nat]
      /\ codes \in [People -> Seq(Accts!Code)] /\ user \in [People -> Accts!Account]
  BY <1>3 DEF AcctShape, AcctRows, Accts!AccountsTypeOK
<1>5. ASSUME NEW row \in Accts!Account, user' = [user EXCEPT ![u] = row], row.by = user[u].by,
             codes' \in [People -> Seq(Accts!Code)], \A v \in People : Len(codes'[v]) = Len(codes[v]),
             decisions' \in [People -> Nat],
             OneSlot /\ AcctFits =>
               /\ DecisionsFit' /\ CodesFit'
               /\ user[u].status = "none" => row.status = "none"
               /\ \/ ~Accts!ActiveAdmin(u) \/ Accts!OtherActiveAdmins(u) # {}
                  \/ row.status = "ACTIVE" /\ ~row.deleted /\ row.role = Admin
      PROVE  AcctKept
  <2>1. \A v \in People : Len(codes[v]) \in Nat /\ Len(codes'[v]) \in Nat /\ Len(codes[v]) <= Len(codes'[v])
    BY <1>4, <1>5
  <2>2. CallsTyped' /\ (OneSlot => CallsFit')
    BY <1>1, <2>1, AcctWrites DEF AcctShape
  <2>3. AcctRows' /\ (OneSlot /\ AcctFits => RowsFit' /\ RolesGiven)
    BY <1>1, <1>2, <1>3, <1>5, AcctUserRow DEF AcctShape
  <2>. QED
    BY <2>2, <2>3 DEF AcctKept, AcctShape, AcctFits
<1>6. ASSUME NEW s \in {"ACTIVE", "REJECTED"}, Accts!Decide(u, s),
             req[r].at \in {"verify", "approve", "reject"},
             codes' \in [People -> Seq(Accts!Code)], \A v \in People : Len(codes'[v]) = Len(codes[v]),
             OneSlot /\ AcctFits => CodesFit'
      PROVE  AcctKept
  <2>. DEFINE row == [user[u] EXCEPT !.status = s]
  <2>1. row \in Accts!Account /\ row.by = user[u].by /\ row.status = s
    BY <1>4 DEF Accts!Account, Accts!Statuses
  <2>2. user' = [user EXCEPT ![u] = row] /\ decisions' = [decisions EXCEPT ![u] = @ + 1]
    BY <1>6 DEF Accts!Decide
  <2>. HIDE DEF row
  <2>3. OneSlot /\ AcctFits => user[u].status = "PENDING" /\ DecisionsFit
    BY <1>2, <1>6 DEF CallFits, RowsFit
  <2>4. /\ user'[u] = row /\ \A v \in People \ {u} : user'[v] = user[v]
        /\ decisions'[u] = decisions[u] + 1 /\ \A v \in People \ {u} : decisions'[v] = decisions[v]
        /\ decisions' \in [People -> Nat]
    BY <1>3, <1>4, <2>2
  <2>5. OneSlot /\ AcctFits => DecisionsFit'
    BY <1>3, <2>1, <2>3, <2>4 DEF DecisionsFit
  <2>6. OneSlot /\ AcctFits => ~Accts!ActiveAdmin(u)
    BY <2>3 DEF Accts!ActiveAdmin
  <2>. QED
    BY <1>5, <1>6, <2>1, <2>2, <2>3, <2>4, <2>5, <2>6
<1>7. CASE Accts!Activate(r)
  <2>. DEFINE cs == Accts!Closed(codes[u], {req[r].what})
  <2>1. /\ cs \in Seq(Accts!Code) /\ Len(cs) = Len(codes[u])
        /\ \A n \in 1 .. Len(cs) : cs[n].attempts = codes[u][n].attempts
                                   /\ (cs[n].open => codes[u][n].open)
    BY <1>3, <1>4, ClosedCodes
  <2>2. codes' = [codes EXCEPT ![u] = cs] /\ Accts!Decide(u, "ACTIVE") /\ req[r].at = "verify"
    BY <1>7 DEF Accts!Activate, Accts!At
  <2>. HIDE DEF cs
  <2>3. /\ codes' \in [People -> Seq(Accts!Code)] /\ codes'[u] = cs
        /\ \A v \in People \ {u} : codes'[v] = codes[v]
    BY <1>3, <1>4, <2>1, <2>2
  <2>4. \A v \in People : DOMAIN codes[v] = 1 .. Len(codes[v]) /\ DOMAIN codes'[v] = 1 .. Len(codes'[v])
    BY <1>4, <2>3
  <2>5. ASSUME CodesFit PROVE CodesFit'
    <3>1. \A v \in People : \A n \in 1 .. Len(codes'[v]) :
            n \in 1 .. Len(codes[v]) /\ (codes'[v][n].open => codes[v][n].open)
      BY <1>3, <2>1, <2>3
    <3>2. \A v \in People : \A m, n \in Accts!OpenCodes(v)' : m = n
      <4>. SUFFICES ASSUME NEW v \in People, NEW m \in Accts!OpenCodes(v)', NEW n \in Accts!OpenCodes(v)'
                    PROVE  m = n
        OBVIOUS
      <4>1. m \in Accts!OpenCodes(v) /\ n \in Accts!OpenCodes(v)
        BY <2>4, <3>1 DEF Accts!OpenCodes
      <4>. QED
        BY <2>5, <4>1 DEF CodesFit
    <3>3. \A v \in People : \A n \in 1 .. Len(codes'[v]) : codes'[v][n].attempts <= MaxOtpAttempts
      BY <1>3, <2>1, <2>3, <2>5 DEF CodesFit
    <3>. QED
      BY <3>2, <3>3 DEF CodesFit
  <2>6. OneSlot /\ AcctFits => CodesFit'
    BY <1>2, <2>5 DEF RowsFit
  <2>. QED
    BY <1>6, <2>1, <2>2, <2>3, <2>6
<1>8. UNCHANGED codes /\ OneSlot /\ AcctFits => CodesFit'
  BY <1>2 DEF RowsFit, CodesFit, Accts!OpenCodes
<1>9. CASE Accts!WriteDecision(r)
  <2>1. PICK s \in {"ACTIVE", "REJECTED"} :
          Accts!Decide(u, s) /\ UNCHANGED codes /\ req[r].at \in {"approve", "reject"}
    BY <1>9 DEF Accts!WriteDecision, Accts!At
  <2>. QED
    BY <1>4, <1>6, <1>8, <2>1
<1>10. ASSUME NEW row \in Accts!Account, user' = [user EXCEPT ![u] = row], row.by = user[u].by,
              UNCHANGED <<codes, decisions>>,
              OneSlot /\ AcctFits =>
                /\ user[u].status = row.status
                   \/ {user[u].status, row.status} \subseteq {"ACTIVE", "DISABLED"}
                /\ \/ ~Accts!ActiveAdmin(u) \/ Accts!OtherActiveAdmins(u) # {}
                   \/ row.status = "ACTIVE" /\ ~row.deleted /\ row.role = Admin
       PROVE  AcctKept
  <2>1. user'[u] = row /\ \A v \in People \ {u} : user'[v] = user[v]
    BY <1>3, <1>4, <1>10
  <2>2. OneSlot /\ AcctFits => DecisionsFit'
    BY <1>2, <1>3, <1>10, <2>1 DEF RowsFit, DecisionsFit
  <2>3. OneSlot /\ AcctFits => (user[u].status = "none" => row.status = "none")
    BY <1>10
  <2>. QED
    BY <1>4, <1>5, <1>8, <1>10, <2>2, <2>3
<1>11. CASE Accts!WriteRole(r)
  <2>. DEFINE row == [user[u] EXCEPT !.role = req[r].what]
  <2>1. req[r].at = "role" /\ user' = [user EXCEPT ![u] = row] /\ UNCHANGED <<codes, decisions>>
    BY <1>11 DEF Accts!WriteRole, Accts!At
  <2>2. req[r].what \in Accts!Roles
    BY <1>2, <2>1 DEF CallTyped
  <2>3. row \in Accts!Account /\ row.by = user[u].by /\ row.status = user[u].status
    BY <1>4, <2>2 DEF Accts!Account
  <2>4. OneSlot /\ AcctFits => ~Accts!ActiveAdmin(u) \/ Accts!OtherActiveAdmins(u) # {}
    BY <1>2, <2>1 DEF CallFits, Accts!ActiveAdmin
  <2>. HIDE DEF row
  <2>. QED
    BY <1>10, <2>1, <2>3, <2>4
<1>12. CASE Accts!WriteStatus(r)
  <2>1. PICK s \in {"ACTIVE", "DISABLED"} :
          req[r].at = s /\ user' = [user EXCEPT ![u].status = s] /\ UNCHANGED <<codes, decisions>>
    BY <1>12 DEF Accts!WriteStatus, Accts!At
  <2>. DEFINE row == [user[u] EXCEPT !.status = s]
  <2>2. user' = [user EXCEPT ![u] = row]
    BY <2>1
  <2>3. row \in Accts!Account /\ row.by = user[u].by /\ row.status = s
        /\ row.role = user[u].role /\ row.deleted = user[u].deleted
    BY <1>4, <2>1 DEF Accts!Account, Accts!Statuses
  <2>4. OneSlot /\ AcctFits => user[u].status \in {"ACTIVE", "DISABLED"}
                               /\ (s = "DISABLED" => Accts!OtherActiveAdmins(u) # {})
    BY <1>2, <2>1 DEF CallFits
  <2>. HIDE DEF row
  <2>5. OneSlot /\ AcctFits =>
          \/ ~Accts!ActiveAdmin(u) \/ Accts!OtherActiveAdmins(u) # {}
          \/ row.status = "ACTIVE" /\ ~row.deleted /\ row.role = Admin
    BY <2>1, <2>3, <2>4 DEF Accts!ActiveAdmin, Accts!Live
  <2>. QED
    BY ZenonT(60), <1>10, <2>1, <2>2, <2>3, <2>4, <2>5
<1>13. CASE Accts!WriteDelete(r)
  <2>. DEFINE row == [user[u] EXCEPT !.deleted = TRUE]
  <2>1. req[r].at = "remove" /\ user' = [user EXCEPT ![u] = row] /\ UNCHANGED <<codes, decisions>>
    BY <1>13 DEF Accts!WriteDelete, Accts!At
  <2>2. row \in Accts!Account /\ row.by = user[u].by /\ row.status = user[u].status
    BY <1>4 DEF Accts!Account
  <2>3. OneSlot /\ AcctFits => ~Accts!ActiveAdmin(u) \/ Accts!OtherActiveAdmins(u) # {}
    BY <1>2, <2>1 DEF CallFits, Accts!ActiveAdmin
  <2>. HIDE DEF row
  <2>. QED
    BY <1>10, <2>1, <2>2, <2>3
<1>. QED
  BY <1>7, <1>9, <1>11, <1>12, <1>13

(* A sign-up claims its invitation and makes the account of it.            *)
LEMMA AcctClaimStep ==
  ASSUME Accts!AccountsAssumption, AcctShape, NEW r \in Reqs, Accts!ClaimAndCreate(r)
  PROVE  AcctKept
<1>. DEFINE u == req[r].who
            i == req[r].what.invite
            row == [status |-> "PENDING", deleted |-> FALSE, role |-> req[r].what.role, by |-> i]
            used == [invite[i] EXCEPT !.used = TRUE]
            call == [at |-> "code", who |-> u, what |-> None]
<1>1. req[r] # None /\ req[r].at = "claim"
  BY DEF Accts!ClaimAndCreate, Accts!At
<1>2. CallTyped(req[r]) /\ (OneSlot /\ AcctFits => CallFits(req[r]) /\ RowsFit)
  BY <1>1 DEF AcctShape, CallsTyped, AcctFits, CallsFit
<1>3. u \in People /\ i \in Invites /\ req[r].what.role \in Accts!Roles
  BY <1>1, <1>2 DEF CallTyped, UserSteps
<1>4. /\ user[u].status = "none" /\ Accts!Redeemable(i)
      /\ invite' = [invite EXCEPT ![i] = used] /\ user' = [user EXCEPT ![u] = row]
      /\ req' = [req EXCEPT ![r] = call] /\ UNCHANGED <<codes, roles, managers, decisions>>
  BY DEF Accts!ClaimAndCreate, Accts!Claimable, Accts!RoleGiven, Accts!Begin, Accts!roleRows
<1>5. row \in Accts!Account /\ row.by = i /\ row.status = "PENDING" /\ row.role = req[r].what.role
  BY <1>3 DEF Accts!Account, Accts!Statuses
<1>6. /\ user \in [People -> Accts!Account] /\ invite \in [Invites -> Accts!Invitation]
      /\ \A j \in Invites : invite[j].used => invite[j].issued
  BY DEF AcctShape, AcctRows, Accts!AccountsTypeOK
<1>7. used \in Accts!Invitation /\ used.used = TRUE
      /\ used.issued = invite[i].issued /\ used.revoked = invite[i].revoked
  BY <1>3, <1>6 DEF Accts!Invitation
<1>8. call.at = "code" /\ call.who = u
  OBVIOUS
<1>9. invite[i].issued /\ ~invite[i].used /\ ~invite[i].revoked
  BY <1>4 DEF Accts!Redeemable
<1>. HIDE DEF row, used, call
<1>10. /\ user' \in [People -> Accts!Account] /\ user'[u] = row
       /\ \A v \in People \ {u} : user'[v] = user[v]
  BY <1>3, <1>4, <1>5, <1>6
<1>11. /\ invite' \in [Invites -> Accts!Invitation] /\ invite'[i] = used
       /\ \A j \in Invites \ {i} : invite'[j] = invite[j]
  BY <1>3, <1>4, <1>6, <1>7
<1>12. \A v \in People : user[v].by # i
  BY <1>3, <1>9 DEF AcctShape, AcctRows, Accts!InvitationOnce, Accts!AccountsAssumption
<1>13. Accts!InvitationOnce'
  <2>1. \A v \in People : user[v].by # None => user[v].by \in Invites /\ invite[user[v].by].used
    BY <1>6 DEF AcctShape, AcctRows, Accts!InvitationOnce, Accts!Account
  <2>2. \A j \in Invites : invite[j].used => invite'[j].used
    BY <1>7, <1>11
  <2>3. \A v \in People : user'[v].by # None => invite'[user'[v].by].used
    BY <1>3, <1>5, <1>7, <1>10, <1>11, <2>1, <2>2
  <2>4. \A v, w \in People : user'[v].by # None /\ user'[v].by = user'[w].by => v = w
    BY <1>3, <1>5, <1>10, <1>12 DEF AcctShape, AcctRows, Accts!InvitationOnce
  <2>. QED
    BY <2>3, <2>4 DEF Accts!InvitationOnce
<1>14. AcctRows'
  BY <1>4, <1>6, <1>7, <1>9, <1>10, <1>11, <1>13 DEF AcctShape, AcctRows, Accts!AccountsTypeOK
<1>15. /\ req' = [s \in Reqs |-> req'[s]] /\ req'[r] = call
       /\ \A s \in Reqs \ {r} : req'[s] = req[s]
  BY <1>4 DEF AcctShape, CallsTyped
<1>16. CallsTyped'
  BY <1>3, <1>4, <1>8, <1>15 DEF AcctShape, CallsTyped, CallTyped
<1>17. ASSUME OneSlot, AcctFits PROVE AcctFits' /\ RolesGiven
  <2>1. \A s \in Reqs : s = r
    BY <1>17 DEF OneSlot
  <2>2. CallFits(req[r])'
    BY <1>8, <1>15 DEF CallFits
  <2>3. Accts!AnAdminRemains'
    <3>1. \A v \in People : Accts!ActiveAdmin(v) => v # u /\ Accts!ActiveAdmin(v)'
      BY <1>4, <1>10 DEF Accts!ActiveAdmin, Accts!Live
    <3>. QED
      BY <1>17, <3>1 DEF AcctFits, RowsFit, Accts!AnAdminRemains
  <2>4. DecisionsFit'
    BY <1>3, <1>4, <1>5, <1>10, <1>17 DEF AcctFits, RowsFit, DecisionsFit
  <2>5. Accts!RedeemedOrRevoked'
    BY <1>7, <1>9, <1>11, <1>17 DEF AcctFits, RowsFit, Accts!RedeemedOrRevoked
  <2>6. CodesFit'
    BY <1>4, <1>17 DEF AcctFits, RowsFit, CodesFit, Accts!OpenCodes
  <2>7. req[r].what.role = invite[i].role
    BY <1>1, <1>2, <1>17 DEF CallFits
  <2>8. RolesGiven
    BY <1>3, <1>4, <1>5, <1>10, <2>7 DEF RolesGiven, Accts!EntersAsInvited, Accts!HeldByNobody
  <2>. QED
    BY <2>1, <2>2, <2>3, <2>4, <2>5, <2>6, <2>8 DEF AcctFits, RowsFit, CallsFit
<1>. QED
  BY <1>14, <1>16, <1>17 DEF AcctKept, AcctShape

-----------------------------------------------------------------------------
(* Roles come and change, and nobody's account with them.                  *)
LEMMA AcctRoleSteps ==
  ASSUME Accts!AccountsAssumption, AcctShape, NEW r \in Reqs, NEW role \in Accts!Roles,
         Accts!CreateRole(r, role) \/ \E a \in People : Accts!UpdateRole(r, a, role)
  PROVE  AcctKept
<1>1. UNCHANGED <<user, invite, codes, decisions, req>> /\ req[r] = None
  BY DEF Accts!CreateRole, Accts!UpdateRole, Accts!ByManager, Accts!Offered
<1>2. /\ BuiltIn \subseteq roles' /\ roles' \subseteq Accts!Roles /\ managers' \subseteq roles'
      /\ roles \subseteq roles'
  BY DEF Accts!CreateRole, Accts!UpdateRole, AcctShape, AcctRows, Accts!AccountsTypeOK, Accts!Roles
<1>3. AcctRows' /\ CallsTyped'
  BY <1>1, <1>2 DEF AcctShape, AcctRows, Accts!AccountsTypeOK, Accts!InvitationOnce, CallsTyped, CallTyped
<1>4. ASSUME OneSlot, AcctFits PROVE AcctFits'
  <2>1. RowsFit'
    BY <1>1, <1>4 DEF AcctFits, RowsFit, Accts!AnAdminRemains, Accts!ActiveAdmin, Accts!Live,
       DecisionsFit, Accts!RedeemedOrRevoked, CodesFit, Accts!OpenCodes
  <2>2. CallsFit'
    BY <1>1, <1>4 DEF OneSlot, CallsFit
  <2>. QED
    BY <2>1, <2>2 DEF AcctFits
<1>5. RolesGiven
  BY <1>1, <1>2 DEF RolesGiven, Accts!EntersAsInvited, Accts!HeldByNobody
<1>. QED
  BY <1>3, <1>4, <1>5 DEF AcctKept, AcctShape

(* A role goes, and whatever row still named it names the fallback.        *)
LEMMA MovedRows ==
  ASSUME Accts!AccountsAssumption, AcctRows, NEW role \in Custom
  PROVE  /\ Accts!Moved(user, role) \in [People -> Accts!Account]
         /\ \A u \in People :
              /\ Accts!Moved(user, role)[u].status = user[u].status
              /\ Accts!Moved(user, role)[u].deleted = user[u].deleted
              /\ Accts!Moved(user, role)[u].by = user[u].by
              /\ user[u].role = Admin => Accts!Moved(user, role)[u].role = Admin
         /\ Accts!Moved(invite, role) \in [Invites -> Accts!Invitation]
         /\ \A i \in Invites :
              /\ Accts!Moved(invite, role)[i].used = invite[i].used
              /\ Accts!Moved(invite, role)[i].issued = invite[i].issued
              /\ Accts!Moved(invite, role)[i].revoked = invite[i].revoked
<1>1. Fallback \in Accts!Roles /\ role # Admin
  BY DEF Accts!AccountsAssumption, Accts!Roles
<1>2. user \in [People -> Accts!Account] /\ invite \in [Invites -> Accts!Invitation]
  BY DEF AcctRows, Accts!AccountsTypeOK
<1>. DEFINE account(u) == [user[u] EXCEPT !.role = Fallback]
            invitation(i) == [invite[i] EXCEPT !.role = Fallback]
<1>3. ASSUME NEW u \in People
      PROVE  /\ account(u) \in Accts!Account /\ account(u).status = user[u].status
             /\ account(u).deleted = user[u].deleted /\ account(u).by = user[u].by
  BY <1>1, <1>2 DEF Accts!Account
<1>4. ASSUME NEW i \in Invites
      PROVE  /\ invitation(i) \in Accts!Invitation /\ invitation(i).used = invite[i].used
             /\ invitation(i).issued = invite[i].issued /\ invitation(i).revoked = invite[i].revoked
  BY <1>1, <1>2 DEF Accts!Invitation
<1>5. /\ Accts!Moved(user, role) = [u \in People |-> IF user[u].role = role THEN account(u) ELSE user[u]]
      /\ Accts!Moved(invite, role) =
           [i \in Invites |-> IF invite[i].role = role THEN invitation(i) ELSE invite[i]]
  BY <1>2 DEF Accts!Moved
<1>. HIDE DEF account, invitation
<1>. QED
  BY <1>1, <1>2, <1>3, <1>4, <1>5

LEMMA AcctRemoveRole ==
  ASSUME Accts!AccountsAssumption, AcctShape, NEW r \in Reqs, Accts!RemoveRole(r)
  PROVE  AcctKept
<1>. DEFINE role == req[r].who
<1>1. /\ req[r] # None /\ req[r].at = "unrole" /\ Accts!Finish(r) /\ req'[r] = None
      /\ user' = Accts!Moved(user, role) /\ invite' = Accts!Moved(invite, role)
      /\ roles' = roles \ {role} /\ managers' = managers \ {role} /\ UNCHANGED <<codes, decisions>>
  BY DEF Accts!RemoveRole, Accts!At, Accts!Finish, AcctShape, CallsTyped
<1>2. CallTyped(req[r]) /\ (OneSlot /\ AcctFits => CallFits(req[r]) /\ RowsFit)
  BY <1>1 DEF AcctShape, CallsTyped, AcctFits, CallsFit
<1>3. role \in Custom
  BY <1>1, <1>2 DEF CallTyped
<1>4. /\ user' \in [People -> Accts!Account]
      /\ \A u \in People :
           /\ user'[u].status = user[u].status /\ user'[u].deleted = user[u].deleted
           /\ user'[u].by = user[u].by /\ (user[u].role = Admin => user'[u].role = Admin)
      /\ invite' \in [Invites -> Accts!Invitation]
      /\ \A i \in Invites :
           /\ invite'[i].used = invite[i].used /\ invite'[i].issued = invite[i].issued
           /\ invite'[i].revoked = invite[i].revoked
  BY <1>1, <1>3, MovedRows DEF AcctShape
<1>5. BuiltIn \subseteq roles' /\ roles' \subseteq Accts!Roles /\ managers' \subseteq roles'
  BY <1>1, <1>3 DEF AcctShape, AcctRows, Accts!AccountsTypeOK, Accts!AccountsAssumption
<1>6. \A u \in People : user[u].by \in Invites \cup {None}
  BY DEF AcctShape, AcctRows, Accts!AccountsTypeOK, Accts!Account
<1>7. Accts!InvitationOnce'
  BY <1>4, <1>6 DEF AcctShape, AcctRows, Accts!InvitationOnce
<1>8. AcctRows'
  BY <1>1, <1>4, <1>5, <1>7 DEF AcctShape, AcctRows, Accts!AccountsTypeOK
<1>9. \A u \in People : Len(codes[u]) \in Nat
  BY DEF AcctShape, AcctRows, Accts!AccountsTypeOK
<1>10. CallsTyped' /\ (OneSlot => CallsFit')
  BY <1>1, <1>9, AcctWrites DEF AcctShape
<1>11. ASSUME OneSlot, AcctFits PROVE RowsFit' /\ RolesGiven
  <2>1. \A u \in People : Accts!ActiveAdmin(u) => Accts!ActiveAdmin(u)'
    BY <1>4 DEF Accts!ActiveAdmin, Accts!Live
  <2>2. RowsFit'
    BY <1>1, <1>2, <1>4, <1>11, <2>1 DEF RowsFit, Accts!AnAdminRemains, DecisionsFit,
       Accts!RedeemedOrRevoked, CodesFit, Accts!OpenCodes
  <2>3. ~Accts!Held(role)
    BY <1>1, <1>2, <1>11 DEF CallFits
  <2>4. RolesGiven
    BY <1>1, <1>4, <2>3 DEF RolesGiven, Accts!EntersAsInvited, Accts!HeldByNobody, Accts!Held
  <2>. QED
    BY <2>2, <2>4
<1>. QED
  BY <1>8, <1>10, <1>11 DEF AcctKept, AcctShape, AcctFits

-----------------------------------------------------------------------------
LEMMA AcctStep ==
  ASSUME Accts!AccountsAssumption, AcctShape, [Accts!Next]_Accts!vars
  PROVE  AcctKept
<1>1. CASE UNCHANGED Accts!vars
  <2>1. UNCHANGED <<acctRowVars, codes, req>>
    BY <1>1 DEF Accts!vars, acctRowVars
  <2>2. AcctRows' /\ CallsTyped'
    BY <2>1 DEF acctRowVars, AcctShape, AcctRows, Accts!AccountsTypeOK, Accts!InvitationOnce,
       CallsTyped, CallTyped
  <2>3. AcctFits => AcctFits'
    BY <2>1 DEF acctRowVars, AcctFits, RowsFit, Accts!AnAdminRemains, Accts!ActiveAdmin, Accts!Live,
       DecisionsFit, Accts!RedeemedOrRevoked, CodesFit, Accts!OpenCodes, CallsFit, CallFits,
       Accts!OtherActiveAdmins, Accts!Held
  <2>4. RolesGiven
    BY <2>1 DEF acctRowVars, RolesGiven, Accts!EntersAsInvited, Accts!HeldByNobody
  <2>. QED
    BY <2>2, <2>3, <2>4 DEF AcctKept, AcctShape
<1>2. ASSUME NEW r \in Reqs, Accts!AdminStep(r) PROVE AcctKept
  <2>1. CASE Accts!WriteInvitation(r)
             \/ \E i \in Invites, role \in Accts!Roles, for \in People \cup {None} :
                  Accts!CreateInvitation(r, i, role, for)
    BY <2>1, AcctInviteSteps
  <2>2. CASE \E i \in Invites, role \in Accts!Roles, op \in {"edit", "delete", "revoke"} :
               Accts!ReadInvitation(r, op, i, role)
    BY <2>2, AcctReadSteps
  <2>3. CASE \E u \in People, op \in {"approve", "reject"} : Accts!ReadForDecision(r, op, u)
    BY <2>3, AcctReadSteps
  <2>4. CASE Accts!WriteDecision(r) \/ Accts!WriteRole(r) \/ Accts!WriteStatus(r) \/ Accts!WriteDelete(r)
    BY <2>4, AcctUserSteps
  <2>5. CASE \E a, u \in People, role \in Accts!Roles : Accts!ReadForUpdate(r, a, u, role)
    BY <2>5, AcctReadSteps
  <2>6. CASE \E a, u \in People, s \in {"ACTIVE", "DISABLED"} : Accts!ReadForStatus(r, a, u, s)
    BY <2>6, AcctReadSteps
  <2>7. CASE \E a, u \in People : Accts!ReadForDelete(r, a, u)
    BY <2>7, AcctReadSteps
  <2>8. ASSUME NEW role \in Accts!Roles,
               Accts!CreateRole(r, role) \/ \E a \in People : Accts!UpdateRole(r, a, role)
        PROVE  AcctKept
    BY <2>8, AcctRoleSteps
  <2>9. CASE \E role \in Accts!Roles : Accts!ReadForRemoveRole(r, role)
    BY <2>9, AcctReadSteps
  <2>10. CASE Accts!RemoveRole(r)
    BY <2>10, AcctRemoveRole
  <2>. QED
    BY <1>2, <2>1, <2>2, <2>3, <2>4, <2>5, <2>6, <2>7, <2>8, <2>9, <2>10 DEF Accts!AdminStep
<1>3. ASSUME NEW r \in Reqs, Accts!SignupStep(r) PROVE AcctKept
  <2>1. CASE \E u \in People, i \in Invites : Accts!ReadForSignup(r, u, i)
    BY <2>1, AcctReadSteps
  <2>2. CASE \E u \in People : Accts!ReadForResend(r, u)
    BY <2>2, AcctReadSteps
  <2>3. CASE \E u \in People : Accts!ReadForVerify(r, u)
    BY <2>3, AcctVerifyStep
  <2>4. CASE Accts!ClaimAndCreate(r)
    BY <2>4, AcctClaimStep
  <2>5. CASE Accts!RetireCodes(r)
    BY <2>5, AcctReadSteps
  <2>6. CASE Accts!SendCode(r) \/ Accts!WrongCode(r)
    BY <2>6, AcctCodeSteps
  <2>7. CASE Accts!Activate(r)
    BY <2>7, AcctUserSteps
  <2>. QED
    BY <1>3, <2>1, <2>2, <2>3, <2>4, <2>5, <2>6, <2>7 DEF Accts!SignupStep
<1>4. ASSUME NEW r \in Reqs, Accts!Fail(r) PROVE AcctKept
  BY <1>4, AcctReadSteps
<1>5. ASSUME NEW i \in Invites, Accts!InvitationExpires(i) PROVE AcctKept
  BY <1>5, AcctInviteExpires
<1>6. ASSUME NEW u \in People, NEW n \in DOMAIN codes[u], Accts!CodeExpires(u, n) PROVE AcctKept
  BY <1>6, AcctCodeExpires
<1>. QED
  BY <1>1, <1>2, <1>3, <1>4, <1>5, <1>6 DEF Accts!Next

-----------------------------------------------------------------------------
(* However sign-ups, administrators and failures interleave, the rows stay *)
(* well formed and an invitation makes one account at most (signup).       *)
THEOREM InvitationsMakeOneAccount ==
  ASSUME Accts!AccountsAssumption
  PROVE  Accts!Spec => [](Accts!AccountsTypeOK /\ Accts!InvitationOnce)
<1>1. Accts!Init => AcctShape
  BY AcctInit
<1>2. AcctShape /\ [Accts!Next]_Accts!vars => AcctShape'
  BY AcctStep DEF AcctKept
<1>3. AcctShape => Accts!AccountsTypeOK /\ Accts!InvitationOnce
  BY DEF AcctShape, AcctRows
<1>. QED
  BY <1>1, <1>2, <1>3, PTL DEF Accts!Spec

(* Requests that follow one another leave an active administrator          *)
(* (updateUser, deleteUser, otherActiveAdmins).                            *)
THEOREM AnAdminAlwaysRemains ==
  ASSUME Accts!AccountsAssumption, OneSlot
  PROVE  Accts!Spec => []Accts!AnAdminRemains
<1>1. Accts!Init => AcctShape /\ AcctFits
  BY AcctInit
<1>2. AcctShape /\ AcctFits /\ [Accts!Next]_Accts!vars => (AcctShape /\ AcctFits)'
  BY AcctStep DEF AcctKept
<1>3. AcctFits => Accts!AnAdminRemains
  BY DEF AcctFits, RowsFit
<1>. QED
  BY <1>1, <1>2, <1>3, PTL DEF Accts!Spec

LEMMA CodesGuarded == AcctShape /\ CodesFit => Accts!CodesAreGuarded
<1>1. \A S : Accts!Cardinality(S) = Cardinality(S)
  BY DEF Accts!Cardinality, Cardinality, Accts!IsFiniteSet, IsFiniteSet
<1>. SUFFICES ASSUME AcctShape, CodesFit, NEW u \in People
              PROVE  /\ Accts!Cardinality(Accts!OpenCodes(u)) <= 1
                     /\ \A n \in DOMAIN codes[u] : codes[u][n].attempts <= MaxOtpAttempts
  BY DEF Accts!CodesAreGuarded
<1>2. DOMAIN codes[u] = 1 .. Len(codes[u])
  BY DEF AcctShape, AcctRows, Accts!AccountsTypeOK
<1>3. \A m, n \in Accts!OpenCodes(u) : m = n
  BY DEF CodesFit
<1>4. Cardinality(Accts!OpenCodes(u)) <= 1
  <2>1. CASE Accts!OpenCodes(u) = {}
    BY <2>1, FS_EmptySet
  <2>2. ASSUME NEW n \in Accts!OpenCodes(u) PROVE Cardinality(Accts!OpenCodes(u)) <= 1
    <3>1. Accts!OpenCodes(u) = {n}
      BY <1>3, <2>2
    <3>2. Cardinality({n}) = 1
      BY FS_Singleton
    <3>. QED
      BY <3>1, <3>2
  <2>. QED
    BY <2>1, <2>2
<1>. QED
  BY <1>1, <1>2, <1>4 DEF CodesFit

(* They redeem or revoke an invitation, decide an account once, and keep   *)
(* one code of it open, tried so often (revokeInvitation, approveUser,     *)
(* rejectUser, issueOtp, verifyOtp).                                       *)
THEOREM InvitationsAlwaysHold ==
  ASSUME Accts!AccountsAssumption, OneSlot
  PROVE  Accts!Spec => []Accts!InvitationsHold
<1>1. Accts!Init => AcctShape /\ AcctFits
  BY AcctInit
<1>2. AcctShape /\ AcctFits /\ [Accts!Next]_Accts!vars => (AcctShape /\ AcctFits)'
  BY AcctStep DEF AcctKept
<1>3. AcctShape /\ AcctFits => Accts!InvitationsHold
  BY CodesGuarded DEF AcctShape, AcctRows, AcctFits, RowsFit, DecisionsFit,
     Accts!InvitationsHold, Accts!DecidedOnce
<1>. QED
  BY <1>1, <1>2, <1>3, PTL DEF Accts!Spec

(* Whoever enters has the role of their invitation, and deleting a role    *)
(* takes it from nobody who has an account (signup, RolesService.remove).  *)
THEOREM RolesAlwaysGiven ==
  ASSUME Accts!AccountsAssumption, OneSlot
  PROVE  Accts!Spec => Accts!RolesAreGiven
<1>1. Accts!Init => AcctShape /\ AcctFits
  BY AcctInit
<1>2. AcctShape /\ AcctFits /\ [Accts!Next]_Accts!vars =>
        (AcctShape /\ AcctFits)' /\ Accts!EntersAsInvited /\ Accts!HeldByNobody
  BY AcctStep DEF AcctKept, RolesGiven
<1>. QED
  BY <1>1, <1>2, PTL DEF Accts!Spec, Accts!RolesAreGiven

-----------------------------------------------------------------------------
(* SignIn                                                                  *)
CONSTANTS Visits, VisitOps, MaxAttempts, MaxWrong, MaxVersion, MaxLinks, MaxSecrets

VARIABLES account, visit, attempt, links, sessions, challenges, states, suspensions, wrong, confirmed, secrets

OneVisit == \A r, s \in Visits : r = s

Login == INSTANCE SignIn WITH
  user <- account, req <- visit, Reqs <- Visits, Ops <- VisitOps

(* A password is no younger than the version that came with it.            *)
LoginRows == Login!SignInTypeOK /\ account.pw <= account.tv

(* What a visit carries; a second factor's has the first one's proof.      *)
VisitFields == {"at", "op", "seen", "era", "n", "swept", "proof"}

VisitTyped(c) ==
  /\ c = [k \in VisitFields |-> c[k]]
  /\ c.seen \in Login!Row /\ c.era \in 0 .. MaxVersion /\ c.n \in Nat
  /\ c.op = "totp" => "totp" \in VisitOps /\ c.proof \in Login!Proof
  /\ c.op = "change" => "change" \in VisitOps
  /\ c.at = "change" => c.op = "change"
  /\ c.at = "password" => c.op \in {"login", "change", "disable"}

VisitsTyped ==
  /\ visit = [r \in Visits |-> visit[r]]
  /\ \A r \in Visits : visit[r] # None => VisitTyped(visit[r])

LoginShape == LoginRows /\ VisitsTyped

(* A version goes with one password, and with one number of suspensions:   *)
(* what is older than the account's version may differ, what is not may    *)
(* not.                                                                    *)
PwKnown ==
  /\ \A s \in sessions : s.tv <= account.tv /\ (s.tv = account.tv => s.pw = account.pw)
  /\ \A r \in Visits : visit[r] # None =>
       visit[r].seen.tv <= account.tv /\ (visit[r].seen.tv = account.tv => visit[r].seen.pw = account.pw)

EraKnown ==
  /\ \A s \in sessions : s.tv <= account.tv /\ (s.tv = account.tv => s.era = suspensions)
  /\ \A r \in Visits : visit[r] # None =>
       visit[r].seen.tv <= account.tv /\ (visit[r].seen.tv = account.tv => visit[r].era = suspensions)

(* One request at a time: what it read is still so when it writes.         *)
VisitFits(c) ==
  /\ c.at = "fail" => c.n = attempt.count
  /\ c.at = "issue" => c.seen.pw = account.pw
  /\ c.at = "reset" => Login!OpenLinks \subseteq c.swept
  /\ c.at = "confirm" => c.seen.secret = account.secret /\ account.secret # 0 /\ ~account.totp
  /\ c.at = "enroll" => ~account.totp

VisitsFit == \A r \in Visits : visit[r] # None => VisitFits(visit[r])

SecretsFit == account.secret <= secrets /\ confirmed \subseteq 1 .. secrets

AccessRows == Login!AccessFollowsProof /\ SecretsFit

AccessFits == AccessRows /\ VisitsFit

LoginKept ==
  /\ LoginShape'
  /\ "totp" \notin VisitOps /\ PwKnown => PwKnown'
  /\ {"totp", "change"} \cap VisitOps = {} /\ EraKnown => EraKnown'
  /\ OneVisit /\ AccessFits => AccessFits'

-----------------------------------------------------------------------------
LEMMA LoginInit ==
  ASSUME Login!SignInBounds
  PROVE  Login!Init => LoginShape /\ PwKnown /\ EraKnown /\ AccessFits
<1>. SUFFICES ASSUME Login!Init PROVE LoginShape /\ PwKnown /\ EraKnown /\ AccessFits
  OBVIOUS
<1>1. /\ account.pw = 0 /\ account.tv = 0 /\ account.secret = 0 /\ account.totp = FALSE
      /\ attempt.count = 0 /\ attempt.lock = "no" /\ links = << >> /\ DOMAIN links = {}
      /\ wrong = 0 /\ confirmed = {} /\ secrets = 0 /\ sessions = {}
      /\ visit = [r \in Visits |-> None]
  BY DEF Login!Init, Login!NoAttempt
<1>2. 0 \in 0 .. MaxVersion /\ 0 \in 0 .. MaxSecrets
  BY DEF Login!SignInBounds
<1>3. account \in Login!Row /\ attempt \in [count : Nat, lock : {"no", "on", "over"}]
  BY <1>2 DEF Login!Init, Login!Row, Login!NoAttempt
<1>4. links \in Seq(Login!Link)
  BY <1>1
<1>5. LoginShape
  BY <1>1, <1>2, <1>3, <1>4 DEF Login!Init, LoginShape, LoginRows, VisitsTyped, Login!SignInTypeOK
<1>6. PwKnown /\ EraKnown
  BY <1>1 DEF PwKnown, EraKnown
<1>7. AccessFits
  BY <1>1 DEF Login!SignInBounds, AccessFits, AccessRows, VisitsFit, SecretsFit,
     Login!AccessFollowsProof, Login!OldLinksDie, Login!OpenLinks, Login!FailuresCounted,
     Login!TotpIsUsable
<1>. QED
  BY <1>5, <1>6, <1>7

(* What each step has to show: its rows, the visits as they go on, and     *)
(* that a version still goes with one password and one suspension count.   *)
LEMMA LoginStep ==
  ASSUME LoginShape, LoginRows', visit' = [s \in Visits |-> visit'[s]],
         account.tv <= account'.tv,
         account'.tv = account.tv => account'.pw = account.pw /\ suspensions' = suspensions,
         "totp" \notin VisitOps /\ PwKnown =>
           \A s \in sessions' \ sessions : s.tv <= account'.tv /\ (s.tv = account'.tv => s.pw = account'.pw),
         {"totp", "change"} \cap VisitOps = {} /\ EraKnown =>
           \A s \in sessions' \ sessions : s.tv <= account'.tv /\ (s.tv = account'.tv => s.era = suspensions'),
         \A r \in Visits : visit'[r] # None =>
           /\ VisitTyped(visit'[r])
           /\ \/ /\ visit'[r].seen.tv = account'.tv /\ visit'[r].seen.pw = account'.pw
                 /\ visit'[r].era = suspensions'
              \/ visit[r] # None /\ visit'[r].seen = visit[r].seen /\ visit'[r].era = visit[r].era,
         OneVisit /\ AccessFits => AccessFits'
  PROVE  LoginKept
<1>1. VisitsTyped'
  BY DEF VisitsTyped, VisitTyped
<1>2. /\ account.tv \in Nat /\ account'.tv \in Nat /\ \A s \in sessions : s.tv \in Nat
      /\ \A r \in Visits : visit[r] # None => visit[r].seen.tv \in Nat
  <2>1. account \in Login!Row /\ account' \in Login!Row
    BY DEF LoginShape, LoginRows, Login!SignInTypeOK
  <2>2. \A s \in sessions : s.tv \in 0 .. MaxVersion
    BY DEF LoginShape, LoginRows, Login!SignInTypeOK
  <2>3. \A r \in Visits : visit[r] # None => visit[r].seen \in Login!Row
    BY DEF LoginShape, VisitsTyped, VisitTyped
  <2>. QED
    BY <2>1, <2>2, <2>3 DEF Login!Row
<1>3. ASSUME "totp" \notin VisitOps, PwKnown PROVE PwKnown'
  <2>1. \A s \in sessions' : s.tv <= account'.tv /\ (s.tv = account'.tv => s.pw = account'.pw)
    BY <1>2, <1>3 DEF PwKnown
  <2>2. ASSUME NEW r \in Visits, visit'[r] # None
        PROVE  visit'[r].seen.tv <= account'.tv /\ (visit'[r].seen.tv = account'.tv => visit'[r].seen.pw = account'.pw)
    BY <1>2, <1>3, <2>2 DEF PwKnown
  <2>. QED
    BY <2>1, <2>2 DEF PwKnown
<1>4. ASSUME {"totp", "change"} \cap VisitOps = {}, EraKnown PROVE EraKnown'
  <2>1. \A s \in sessions' : s.tv <= account'.tv /\ (s.tv = account'.tv => s.era = suspensions')
    BY <1>2, <1>4 DEF EraKnown
  <2>2. ASSUME NEW r \in Visits, visit'[r] # None
        PROVE  visit'[r].seen.tv <= account'.tv /\ (visit'[r].seen.tv = account'.tv => visit'[r].era = suspensions')
    BY <1>2, <1>4, <2>2 DEF EraKnown
  <2>. QED
    BY <2>1, <2>2 DEF EraKnown
<1>. QED
  BY <1>1, <1>3, <1>4 DEF LoginKept, LoginShape

loginRowVars == <<account, attempt, links, sessions, challenges, states, suspensions, wrong,
                  confirmed, secrets>>

LEMMA LoginReads ==
  ASSUME LoginShape, NEW r \in Visits, UNCHANGED loginRowVars,
         NEW call, visit' = [visit EXCEPT ![r] = call],
         call # None =>
           /\ VisitTyped(call)
           /\ \/ call.seen = account /\ call.era = suspensions
              \/ visit[r] # None /\ call.seen = visit[r].seen /\ call.era = visit[r].era,
         OneVisit /\ AccessFits /\ call # None => VisitFits(call)
  PROVE  LoginKept
<1>1. /\ visit' = [s \in Visits |-> visit'[s]] /\ visit'[r] = call
      /\ \A s \in Visits \ {r} : visit'[s] = visit[s]
  BY DEF LoginShape, VisitsTyped
<1>2. LoginRows' /\ (AccessRows => AccessRows')
  BY DEF loginRowVars, LoginShape, LoginRows, Login!SignInTypeOK, AccessRows, SecretsFit,
     Login!AccessFollowsProof, Login!OldLinksDie, Login!OpenLinks, Login!FailuresCounted,
     Login!TotpIsUsable
<1>3. ASSUME OneVisit, AccessFits PROVE AccessFits'
  <2>1. \A s \in Visits : s = r
    BY <1>3 DEF OneVisit
  <2>2. visit'[r] # None => VisitFits(visit[r])'
    BY <1>1, <1>3 DEF loginRowVars, VisitFits, Login!OpenLinks
  <2>. QED
    BY <1>2, <1>3, <2>1, <2>2 DEF AccessFits, VisitsFit
<1>4. account.tv <= account'.tv /\ account' = account /\ suspensions' = suspensions /\ sessions' = sessions
  BY DEF loginRowVars, LoginShape, LoginRows, Login!SignInTypeOK, Login!Row
<1>5. \A s \in Visits : visit'[s] # None =>
        /\ VisitTyped(visit'[s])
        /\ \/ /\ visit'[s].seen.tv = account'.tv /\ visit'[s].seen.pw = account'.pw
              /\ visit'[s].era = suspensions'
           \/ visit[s] # None /\ visit'[s].seen = visit[s].seen /\ visit'[s].era = visit[s].era
  BY <1>1, <1>4 DEF LoginShape, VisitsTyped
<1>. QED
  BY <1>1, <1>2, <1>3, <1>4, <1>5, LoginStep

(* A visit begun has seen the account as it is; one that goes on keeps     *)
(* what it saw.                                                            *)
LEMMA VisitBegun ==
  ASSUME LoginShape, NEW op, NEW step, NEW swept, NEW proof,
         op = "totp" => "totp" \in VisitOps /\ proof \in Login!Proof, op = "change" => "change" \in VisitOps,
         step = "change" => op = "change", step = "password" => op \in {"login", "change", "disable"},
         NEW c, c = [at |-> step, op |-> op, seen |-> account, era |-> suspensions,
                     n |-> 0, swept |-> swept, proof |-> proof]
  PROVE  VisitTyped(c) /\ c.seen = account /\ c.era = suspensions /\ c.at = step /\ c.swept = swept
<1>1. /\ c.at = step /\ c.op = op /\ c.seen = account /\ c.era = suspensions /\ c.n = 0
      /\ c.swept = swept /\ c.proof = proof
  OBVIOUS
<1>2. c = [k \in VisitFields |-> c[k]]
  BY DEF VisitFields
<1>3. account \in Login!Row /\ suspensions \in 0 .. MaxVersion
  BY DEF LoginShape, LoginRows, Login!SignInTypeOK
<1>. QED
  BY <1>1, <1>2, <1>3 DEF VisitTyped

LEMMA VisitGoesOn ==
  ASSUME NEW c, VisitTyped(c), NEW step, step = "change" => c.op = "change", step # "password"
  PROVE  /\ VisitTyped([c EXCEPT !.at = step])
         /\ [c EXCEPT !.at = step].seen = c.seen /\ [c EXCEPT !.at = step].era = c.era
         /\ [c EXCEPT !.at = step].at = step /\ [c EXCEPT !.at = step].op = c.op
<1>. DEFINE d == [c EXCEPT !.at = step]
<1>1. VisitFields = DOMAIN c
  BY DEF VisitTyped
<1>2. /\ d.at = step /\ d.op = c.op /\ d.seen = c.seen /\ d.era = c.era
      /\ d.swept = c.swept /\ d.proof = c.proof /\ d.n = c.n
  BY <1>1 DEF VisitFields
<1>3. d = [k \in VisitFields |-> d[k]]
  BY <1>1
<1>. HIDE DEF d
<1>4. VisitTyped(d)
  BY <1>2, <1>3 DEF VisitTyped
<1>. QED
  BY <1>2, <1>4 DEF d

LEMMA LoginReadSteps ==
  ASSUME LoginShape, NEW r \in Visits,
         \/ Login!ReadForLogin(r) \/ Login!WrongPassword(r) \/ Login!RightPassword(r)
         \/ Login!ReadFailures(r) \/ Login!RightCode(r) \/ Login!Issue(r) \/ Login!Fail(r)
         \/ \E c \in challenges : Login!ReadForTotp(r, c)
         \/ \E l \in DOMAIN links : Login!ClaimLink(r, l)
         \/ \E op \in Login!Profile : Login!ReadForProfile(r, op)
  PROVE  LoginKept
<1>1. ASSUME NEW op, NEW step, NEW swept, NEW proof, Login!Begin(r, op, step, swept, proof),
             UNCHANGED loginRowVars,
             op = "totp" => "totp" \in VisitOps /\ proof \in Login!Proof, op = "change" => "change" \in VisitOps,
             step = "change" => op = "change", step = "password" => op \in {"login", "change", "disable"},
             step # "fail",
             step = "reset" => Login!OpenLinks \subseteq swept,
             step = "confirm" => account.secret # 0 /\ ~account.totp,
             step = "enroll" => ~account.totp
      PROVE  LoginKept
  <2>. DEFINE call == [at |-> step, op |-> op, seen |-> account, era |-> suspensions,
                       n |-> 0, swept |-> swept, proof |-> proof]
  <2>1. visit' = [visit EXCEPT ![r] = call]
    BY <1>1 DEF Login!Begin
  <2>2. call = [at |-> step, op |-> op, seen |-> account, era |-> suspensions,
                n |-> 0, swept |-> swept, proof |-> proof]
    OBVIOUS
  <2>. HIDE DEF call
  <2>3. VisitTyped(call) /\ call.seen = account /\ call.era = suspensions /\ call.at = step
        /\ call.swept = swept
    BY <1>1, <2>2, VisitBegun
  <2>4. VisitFits(call)
    BY <1>1, <2>3 DEF VisitFits
  <2>. QED
    BY <1>1, <2>1, <2>3, <2>4, LoginReads
<1>2. ASSUME visit[r] # None, NEW step, Login!Go(r, step), UNCHANGED loginRowVars,
             step = "change" => visit[r].op = "change",
             step \notin {"password", "fail", "issue", "reset", "confirm", "enroll"}
      PROVE  LoginKept
  <2>. DEFINE call == [visit[r] EXCEPT !.at = step]
  <2>1. visit' = [visit EXCEPT ![r] = call]
    BY <1>2 DEF Login!Go
  <2>2. VisitTyped(visit[r])
    BY <1>2 DEF LoginShape, VisitsTyped
  <2>3. VisitTyped(call) /\ call.seen = visit[r].seen /\ call.era = visit[r].era /\ call.at = step
    BY <1>2, <2>2, VisitGoesOn
  <2>. HIDE DEF call
  <2>4. VisitFits(call)
    BY <1>2, <2>3 DEF VisitFits
  <2>. QED
    BY <1>2, <2>1, <2>3, <2>4, LoginReads
<1>3. ASSUME Login!Finish(r), UNCHANGED loginRowVars PROVE LoginKept
  BY <1>3, LoginReads DEF Login!Finish
<1>4. \A step : Login!At(r, step) => visit[r] # None /\ visit[r].at = step /\ VisitTyped(visit[r])
  BY DEF Login!At, LoginShape, VisitsTyped
<1>5. challenges \subseteq Login!Proof
  BY DEF LoginShape, LoginRows, Login!SignInTypeOK
<1>6. CASE Login!ReadForLogin(r)
  <2>1. Login!Begin(r, "login", "password", {}, None) /\ UNCHANGED loginRowVars
    BY <1>6 DEF Login!ReadForLogin, loginRowVars, Login!keys, Login!counters
  <2>. QED
    BY <1>1, <2>1
<1>7. CASE Login!WrongPassword(r)
  <2>1. UNCHANGED loginRowVars /\ visit[r] # None /\ (Login!Go(r, "count") \/ Login!Finish(r))
    BY <1>7 DEF Login!WrongPassword, Login!At, loginRowVars, Login!keys, Login!counters
  <2>. QED
    BY <1>2, <1>3, <2>1
<1>8. CASE Login!RightPassword(r)
  <2>1. /\ UNCHANGED loginRowVars /\ visit[r] # None /\ visit[r].op \in {"login", "change", "disable"}
        /\ \/ Login!Go(r, visit[r].op) \/ Login!Go(r, "clear") \/ Login!Finish(r)
    BY <1>4, <1>8 DEF Login!RightPassword, loginRowVars, Login!keys, Login!counters, VisitTyped
  <2>. DEFINE step == visit[r].op
  <2>2. CASE Login!Go(r, step)
    BY <1>2, <2>1, <2>2
  <2>. QED
    BY <1>2, <1>3, <2>1, <2>2
<1>9. CASE Login!ReadFailures(r)
  <2>. DEFINE call == [visit[r] EXCEPT !.at = "fail", !.n = attempt.count]
  <2>1. visit' = [visit EXCEPT ![r] = call] /\ UNCHANGED loginRowVars
    BY <1>9 DEF Login!ReadFailures, loginRowVars, Login!keys, Login!counters
  <2>2. VisitTyped(visit[r]) /\ visit[r] # None /\ DOMAIN visit[r] = VisitFields
    BY <1>4, <1>9 DEF Login!ReadFailures, VisitTyped
  <2>3. attempt.count \in Nat
    BY DEF LoginShape, LoginRows, Login!SignInTypeOK
  <2>4. /\ call.n = attempt.count /\ call.at = "fail" /\ call.seen = visit[r].seen
        /\ call.era = visit[r].era /\ call.op = visit[r].op /\ call.proof = visit[r].proof
    BY <2>2 DEF VisitFields
  <2>5. call = [k \in VisitFields |-> call[k]]
    BY <2>2
  <2>. HIDE DEF call
  <2>6. VisitTyped(call)
    BY <2>2, <2>3, <2>4, <2>5 DEF VisitTyped
  <2>7. VisitFits(call)
    BY <2>4 DEF VisitFits
  <2>. QED
    BY <2>1, <2>2, <2>4, <2>6, <2>7, LoginReads
<1>10. CASE Login!RightCode(r)
  <2>1. UNCHANGED loginRowVars /\ visit[r] # None /\ Login!Go(r, "clear")
    BY <1>10 DEF Login!RightCode, Login!At, loginRowVars, Login!keys, Login!counters
  <2>. QED
    BY <1>2, <2>1
<1>11. CASE Login!Issue(r)
  <2>1. Login!Begin(r, "forgot", "issue", {}, None) /\ UNCHANGED loginRowVars
    BY <1>11 DEF Login!Issue, loginRowVars, Login!keys, Login!counters
  <2>. QED
    BY <1>1, <2>1
<1>12. CASE Login!Fail(r)
  <2>1. Login!Finish(r) /\ UNCHANGED loginRowVars
    BY <1>12 DEF Login!Fail, loginRowVars, Login!keys, Login!counters
  <2>. QED
    BY <1>3, <2>1
<1>13. ASSUME NEW c \in challenges, Login!ReadForTotp(r, c) PROVE LoginKept
  <2>1. Login!Begin(r, "totp", "code", {}, c) /\ UNCHANGED loginRowVars /\ "totp" \in VisitOps
    BY <1>13 DEF Login!ReadForTotp, loginRowVars, Login!keys, Login!counters
  <2>2. c \in Login!Proof
    BY <1>5
  <2>. QED
    BY <1>1, <2>1, <2>2
<1>14. ASSUME NEW l \in DOMAIN links, Login!ClaimLink(r, l) PROVE LoginKept
  <2>1. Login!Begin(r, "reset", "reset", Login!OpenLinks, None) /\ UNCHANGED loginRowVars
    BY <1>14 DEF Login!ClaimLink, Login!Retired, loginRowVars, Login!keys, Login!counters
  <2>. QED
    BY <1>1, <2>1
<1>15. ASSUME NEW op \in Login!Profile, Login!ReadForProfile(r, op) PROVE LoginKept
  <2>. DEFINE step == IF op \in {"change", "disable"} THEN "password" ELSE op
  <2>1. /\ Login!Begin(r, op, step, {}, None) /\ UNCHANGED loginRowVars /\ op \in VisitOps
        /\ op \in {"enroll", "confirm"} => ~account.totp
        /\ op = "confirm" => account.secret # 0
    BY <1>15 DEF Login!ReadForProfile, loginRowVars, Login!keys, Login!counters
  <2>2. /\ op # "totp" /\ step # "change" /\ step \notin {"fail", "reset"}
        /\ step = "password" => op \in {"login", "change", "disable"}
        /\ step = "confirm" => op = "confirm"
    BY DEF Login!Profile
  <2>3. step = "enroll" => op = "enroll"
    BY DEF Login!Profile
  <2>. HIDE DEF step
  <2>. QED
    BY <1>1, <2>1, <2>2, <2>3
<1>. QED
  BY <1>6, <1>7, <1>8, <1>9, <1>10, <1>11, <1>12, <1>13, <1>14, <1>15

-----------------------------------------------------------------------------
(* A request that ends with what it wrote.                                 *)
LEMMA LoginWrites ==
  ASSUME LoginShape, LoginRows', NEW r \in Visits, Login!Finish(r),
         account.tv <= account'.tv,
         account'.tv = account.tv => account'.pw = account.pw /\ suspensions' = suspensions,
         "totp" \notin VisitOps /\ PwKnown =>
           \A s \in sessions' \ sessions : s.tv <= account'.tv /\ (s.tv = account'.tv => s.pw = account'.pw),
         {"totp", "change"} \cap VisitOps = {} /\ EraKnown =>
           \A s \in sessions' \ sessions : s.tv <= account'.tv /\ (s.tv = account'.tv => s.era = suspensions'),
         OneVisit /\ AccessFits => AccessRows'
  PROVE  LoginKept
<1>1. /\ visit' = [s \in Visits |-> visit'[s]] /\ visit'[r] = None
      /\ \A s \in Visits \ {r} : visit'[s] = visit[s]
  BY DEF Login!Finish, LoginShape, VisitsTyped
<1>2. \A s \in Visits : visit'[s] # None =>
        /\ VisitTyped(visit'[s])
        /\ \/ /\ visit'[s].seen.tv = account'.tv /\ visit'[s].seen.pw = account'.pw
              /\ visit'[s].era = suspensions'
           \/ visit[s] # None /\ visit'[s].seen = visit[s].seen /\ visit'[s].era = visit[s].era
  BY <1>1 DEF LoginShape, VisitsTyped
<1>3. OneVisit => VisitsFit'
  BY <1>1 DEF OneVisit, VisitsFit
<1>4. OneVisit /\ AccessFits => AccessFits'
  BY <1>3 DEF AccessFits
<1>. QED
  BY <1>1, <1>2, <1>4, LoginStep

(* Something happens beside the requests: time, an administrator, Google.  *)
LEMMA LoginEvents ==
  ASSUME LoginShape, LoginRows', UNCHANGED <<visit, sessions>>,
         account.tv <= account'.tv,
         account'.tv = account.tv => account'.pw = account.pw /\ suspensions' = suspensions,
         attempt'.count = attempt.count, Login!OpenLinks' \subseteq Login!OpenLinks,
         account'.pw = account.pw, account'.secret = account.secret, account'.totp = account.totp,
         AccessFits => AccessRows'
  PROVE  LoginKept
<1>1. \A s \in Visits : visit'[s] # None =>
        /\ VisitTyped(visit'[s])
        /\ visit[s] # None /\ visit'[s].seen = visit[s].seen /\ visit'[s].era = visit[s].era
  BY DEF LoginShape, VisitsTyped
<1>2. visit' = [s \in Visits |-> visit'[s]]
  BY DEF LoginShape, VisitsTyped
<1>3. VisitsFit => VisitsFit'
  BY DEF VisitsFit, VisitFits
<1>4. AccessFits => AccessFits'
  BY <1>3 DEF AccessFits
<1>. QED
  BY <1>1, <1>2, <1>4, LoginStep

(* Using links up leaves the rest of them as it is.                        *)
LEMMA LinksUsedUp ==
  ASSUME links \in Seq(Login!Link), NEW ls
  PROVE  /\ Login!UseUp(ls) \in Seq(Login!Link) /\ Len(Login!UseUp(ls)) = Len(links)
         /\ \A l \in 1 .. Len(links) :
              /\ Login!UseUp(ls)[l].pw = links[l].pw
              /\ Login!UseUp(ls)[l].open => links[l].open /\ l \notin ls
<1>. DEFINE good(l) == links[l].open /\ l \notin ls
            row(l) == [links[l] EXCEPT !.open = good(l)]
            out == [l \in 1 .. Len(links) |-> row(l)]
<1>1. Len(links) \in Nat /\ DOMAIN links = 1 .. Len(links)
  OBVIOUS
<1>2. ASSUME NEW l \in 1 .. Len(links)
      PROVE  /\ row(l) \in Login!Link /\ row(l).pw = links[l].pw
             /\ row(l).open => links[l].open /\ l \notin ls
  <2>1. links[l] \in Login!Link /\ good(l) \in BOOLEAN /\ (good(l) => links[l].open /\ l \notin ls)
    BY <1>1
  <2>. HIDE DEF good
  <2>2. row(l) \in Login!Link /\ row(l).pw = links[l].pw /\ row(l).open = good(l)
    BY <2>1 DEF Login!Link
  <2>. QED
    BY <2>1, <2>2
<1>3. Login!UseUp(ls) = out
  BY <1>1 DEF Login!UseUp
<1>. HIDE DEF row
<1>4. out \in Seq(Login!Link) /\ Len(out) = Len(links)
  BY <1>1, <1>2
<1>. QED
  BY <1>2, <1>3, <1>4

(* The row with a new version, and a new password.                         *)
LEMMA NextVersion ==
  ASSUME Login!SignInBounds, account \in Login!Row, account.pw <= account.tv, account.tv < MaxVersion
  PROVE  /\ Login!Disabled \in Login!Row /\ Login!Disabled.tv = account.tv + 1
         /\ Login!Disabled.pw = account.pw /\ Login!Disabled.secret = account.secret
         /\ Login!Disabled.totp = account.totp
         /\ Login!NewPassword \in Login!Row /\ Login!NewPassword.tv = account.tv + 1
         /\ Login!NewPassword.pw = account.pw + 1 /\ Login!NewPassword.secret = account.secret
         /\ Login!NewPassword.totp = account.totp
<1>1. account.tv + 1 \in 0 .. MaxVersion /\ account.pw + 1 \in 0 .. MaxVersion
  BY DEF Login!SignInBounds, Login!Row
<1>2. ASSUME NEW t \in 0 .. MaxVersion, NEW p \in 0 .. MaxVersion
      PROVE  /\ [account EXCEPT !.active = FALSE, !.tv = t] \in Login!Row
             /\ [account EXCEPT !.active = FALSE, !.tv = t].tv = t
             /\ [account EXCEPT !.active = FALSE, !.tv = t].pw = account.pw
             /\ [account EXCEPT !.active = FALSE, !.tv = t].secret = account.secret
             /\ [account EXCEPT !.active = FALSE, !.tv = t].totp = account.totp
             /\ [account EXCEPT !.pw = p, !.tv = t] \in Login!Row
             /\ [account EXCEPT !.pw = p, !.tv = t].tv = t
             /\ [account EXCEPT !.pw = p, !.tv = t].pw = p
             /\ [account EXCEPT !.pw = p, !.tv = t].secret = account.secret
             /\ [account EXCEPT !.pw = p, !.tv = t].totp = account.totp
  BY DEF Login!Row
<1>. DEFINE t == account.tv + 1
            p == account.pw + 1
<1>3. /\ Login!Disabled = [account EXCEPT !.active = FALSE, !.tv = t]
      /\ Login!NewPassword = [account EXCEPT !.pw = p, !.tv = t]
  BY DEF Login!Disabled, Login!NewPassword
<1>4. t \in 0 .. MaxVersion /\ p \in 0 .. MaxVersion
  BY <1>1
<1>5. t = account.tv + 1 /\ p = account.pw + 1
  OBVIOUS
<1>. HIDE DEF t, p
<1>6. /\ Login!Disabled \in Login!Row /\ Login!Disabled.tv = t
      /\ Login!Disabled.pw = account.pw /\ Login!Disabled.secret = account.secret
      /\ Login!Disabled.totp = account.totp
  BY <1>2, <1>3, <1>4
<1>7. /\ Login!NewPassword \in Login!Row /\ Login!NewPassword.tv = t
      /\ Login!NewPassword.pw = p /\ Login!NewPassword.secret = account.secret
      /\ Login!NewPassword.totp = account.totp
  BY <1>2, <1>3, <1>4
<1>. QED
  BY <1>5, <1>6, <1>7

-----------------------------------------------------------------------------
LEMMA LoginEventSteps ==
  ASSUME Login!SignInBounds, LoginShape,
         \/ Login!LockExpires \/ Login!GoogleStart \/ Login!Suspend \/ Login!Reinstate
         \/ \E l \in DOMAIN links : Login!LinkExpires(l)
  PROVE  LoginKept
<1>1. /\ account \in Login!Row /\ account.pw <= account.tv /\ links \in Seq(Login!Link)
      /\ attempt \in [count : Nat, lock : {"no", "on", "over"}] /\ suspensions \in 0 .. MaxVersion
  BY DEF LoginShape, LoginRows, Login!SignInTypeOK
<1>2. MaxVersion \in Nat
  BY DEF Login!SignInBounds
<1>3. account.tv \in Nat /\ account.pw \in Nat /\ account.tv <= account.tv
  BY <1>1, <1>2 DEF Login!Row
<1>4. CASE Login!LockExpires
  <2>1. /\ attempt.lock = "on" /\ attempt' = [attempt EXCEPT !.lock = "over"]
        /\ UNCHANGED <<account, links, sessions, challenges, states, suspensions, wrong, confirmed, secrets, visit>>
    BY <1>4 DEF Login!LockExpires, Login!keys, Login!counters
  <2>2. /\ attempt' \in [count : Nat, lock : {"no", "on", "over"}]
        /\ attempt'.count = attempt.count /\ attempt'.lock = "over"
    BY <1>1, <2>1
  <2>3. LoginRows'
    BY <2>1, <2>2 DEF LoginShape, LoginRows, Login!SignInTypeOK
  <2>4. AccessFits => AccessRows'
    BY <2>1, <2>2 DEF AccessFits, AccessRows, SecretsFit, Login!AccessFollowsProof,
       Login!OldLinksDie, Login!OpenLinks, Login!FailuresCounted, Login!TotpIsUsable
  <2>5. Login!OpenLinks' = Login!OpenLinks
    BY <2>1 DEF Login!OpenLinks
  <2>. QED
    BY <1>3, <2>1, <2>2, <2>3, <2>4, <2>5, LoginEvents
<1>5. CASE Login!GoogleStart
  <2>1. /\ states < 1 /\ states' = states + 1
        /\ UNCHANGED <<account, attempt, links, sessions, challenges, suspensions, wrong, confirmed, secrets, visit>>
    BY <1>5 DEF Login!GoogleStart, Login!counters
  <2>2. states' \in 0 .. 1
    BY <2>1 DEF LoginShape, LoginRows, Login!SignInTypeOK
  <2>3. LoginRows'
    BY <2>1, <2>2 DEF LoginShape, LoginRows, Login!SignInTypeOK
  <2>4. AccessFits => AccessRows'
    BY <2>1 DEF AccessFits, AccessRows, SecretsFit, Login!AccessFollowsProof,
       Login!OldLinksDie, Login!OpenLinks, Login!FailuresCounted, Login!TotpIsUsable
  <2>5. Login!OpenLinks' = Login!OpenLinks
    BY <2>1 DEF Login!OpenLinks
  <2>. QED
    BY <1>3, <2>1, <2>3, <2>4, <2>5, LoginEvents
<1>6. ASSUME account' \in Login!Row, account'.pw = account.pw, account'.secret = account.secret, account'.totp = account.totp,
             suspensions' \in 0 .. MaxVersion, account.tv <= account'.tv,
             account'.tv = account.tv => suspensions' = suspensions,
             UNCHANGED <<attempt, links, sessions, challenges, states, wrong, confirmed, secrets, visit>>
      PROVE  LoginKept
  <2>1. account'.pw <= account'.tv
    BY <1>1, <1>2, <1>3, <1>6 DEF Login!Row
  <2>2. LoginRows'
    BY <1>6, <2>1 DEF LoginShape, LoginRows, Login!SignInTypeOK
  <2>3. AccessFits => AccessRows'
    BY <1>6 DEF AccessFits, AccessRows, SecretsFit, Login!AccessFollowsProof,
       Login!OldLinksDie, Login!OpenLinks, Login!FailuresCounted, Login!TotpIsUsable
  <2>4. Login!OpenLinks' = Login!OpenLinks
    BY <1>6 DEF Login!OpenLinks
  <2>. QED
    BY <1>6, <2>2, <2>3, <2>4, LoginEvents
<1>7. CASE Login!Suspend
  <2>1. /\ account.tv < MaxVersion /\ suspensions < MaxVersion
        /\ account' = Login!Disabled /\ suspensions' = suspensions + 1
        /\ UNCHANGED <<attempt, links, sessions, challenges, states, wrong, confirmed, secrets, visit>>
    BY <1>7 DEF Login!Suspend, Login!keys
  <2>2. /\ account' \in Login!Row /\ account'.pw = account.pw /\ account'.secret = account.secret
        /\ account'.totp = account.totp /\ account'.tv = account.tv + 1
    BY <1>1, <2>1, NextVersion
  <2>3. suspensions' \in 0 .. MaxVersion
    BY <1>1, <1>2, <2>1
  <2>. QED
    BY <1>3, <1>6, <2>1, <2>2, <2>3
<1>8. CASE Login!Reinstate
  <2>1. /\ account' = [account EXCEPT !.active = TRUE]
        /\ UNCHANGED <<attempt, links, sessions, challenges, states, suspensions, wrong, confirmed, secrets, visit>>
    BY <1>8 DEF Login!Reinstate, Login!keys, Login!counters
  <2>2. /\ account' \in Login!Row /\ account'.pw = account.pw /\ account'.secret = account.secret
        /\ account'.totp = account.totp /\ account'.tv = account.tv
    BY <1>1, <2>1 DEF Login!Row
  <2>. QED
    BY <1>1, <1>3, <1>6, <2>1, <2>2
<1>9. ASSUME NEW l \in DOMAIN links, Login!LinkExpires(l) PROVE LoginKept
  <2>1. /\ links' = Login!UseUp({l})
        /\ UNCHANGED <<account, attempt, sessions, challenges, states, suspensions, wrong, confirmed, secrets, visit>>
    BY <1>9 DEF Login!LinkExpires, Login!keys, Login!counters
  <2>2. /\ links' \in Seq(Login!Link) /\ Len(links') = Len(links)
        /\ \A k \in 1 .. Len(links) : links'[k].pw = links[k].pw /\ (links'[k].open => links[k].open)
    BY <1>1, <2>1, LinksUsedUp
  <2>3. DOMAIN links = 1 .. Len(links) /\ DOMAIN links' = 1 .. Len(links)
    BY <1>1, <2>2
  <2>4. LoginRows'
    BY <2>1, <2>2 DEF LoginShape, LoginRows, Login!SignInTypeOK
  <2>5. Login!OpenLinks' \subseteq Login!OpenLinks
    BY <2>2, <2>3 DEF Login!OpenLinks
  <2>6. AccessFits => Login!OldLinksDie'
    BY <2>1, <2>2, <2>3, <2>5 DEF AccessFits, AccessRows, Login!AccessFollowsProof,
       Login!OldLinksDie, Login!OpenLinks
  <2>7. AccessFits => AccessRows'
    BY <2>1, <2>6 DEF AccessFits, AccessRows, SecretsFit, Login!AccessFollowsProof,
       Login!FailuresCounted, Login!TotpIsUsable
  <2>. QED
    BY <1>3, <2>1, <2>4, <2>5, <2>7, LoginEvents
<1>. QED
  BY <1>4, <1>5, <1>7, <1>8, <1>9

-----------------------------------------------------------------------------
LEMMA LoginWriteSteps ==
  ASSUME Login!SignInBounds, LoginShape, NEW r \in Visits,
         \/ Login!RecordFailure(r) \/ Login!Sign(r) \/ Login!CommitLink(r) \/ Login!CommitReset(r)
         \/ Login!ChangePassword(r) \/ Login!EnrollTotp(r) \/ Login!ConfirmTotp(r)
         \/ Login!DisableTotp(r)
  PROVE  LoginKept
<1>1. /\ account \in Login!Row /\ account.pw <= account.tv /\ links \in Seq(Login!Link)
      /\ attempt \in [count : Nat, lock : {"no", "on", "over"}] /\ suspensions \in 0 .. MaxVersion
      /\ wrong \in Nat /\ confirmed \subseteq 0 .. MaxSecrets /\ secrets \in 0 .. MaxSecrets
      /\ sessions \subseteq [tv : 0 .. MaxVersion, pw : 0 .. MaxVersion, era : 0 .. MaxVersion]
  BY DEF LoginShape, LoginRows, Login!SignInTypeOK
<1>2. MaxVersion \in Nat /\ MaxSecrets \in Nat /\ MaxAttempts \in Nat /\ MaxAttempts > 0
  BY DEF Login!SignInBounds
<1>3. account.tv \in Nat /\ account.pw \in Nat /\ account.secret \in 0 .. MaxSecrets /\ account.tv <= account.tv
  BY <1>1, <1>2 DEF Login!Row
<1>4. ASSUME NEW step, Login!At(r, step)
      PROVE  /\ visit[r] # None /\ visit[r].at = step /\ VisitTyped(visit[r])
             /\ OneVisit /\ AccessFits => VisitFits(visit[r]) /\ AccessRows
  BY <1>4 DEF Login!At, LoginShape, VisitsTyped, AccessFits, VisitsFit
<1>5. CASE Login!RecordFailure(r)
  <2>. DEFINE n == visit[r].n + 1
              on == IF Login!LocksAt(n) THEN "on" ELSE "no"
  <2>1. /\ Login!At(r, "fail") /\ attempt' = [count |-> n, lock |-> on] /\ wrong' = wrong + 1
        /\ Login!Finish(r)
        /\ UNCHANGED <<account, links, sessions, challenges, states, suspensions, confirmed, secrets>>
    BY <1>5 DEF Login!RecordFailure, Login!keys
  <2>2. visit[r].n \in Nat /\ n \in Nat
    <3>1. VisitTyped(visit[r])
      BY <1>4, <2>1
    <3>. QED
      BY <3>1 DEF VisitTyped
  <2>3. on \in {"no", "on"} /\ (n >= MaxAttempts => on = "on")
    <3>1. n >= MaxAttempts => Login!LocksAt(n)
      BY DEF Login!LocksAt
    <3>. QED
      BY <3>1
  <2>4. OneVisit /\ AccessFits => n = attempt.count + 1 /\ attempt.count = wrong
    BY <1>4, <2>1 DEF VisitFits, AccessRows, Login!AccessFollowsProof, Login!FailuresCounted
  <2>. HIDE DEF n, on
  <2>5. attempt'.count = n /\ attempt'.lock = on /\ attempt' \in [count : Nat, lock : {"no", "on", "over"}]
    BY <2>1, <2>2, <2>3
  <2>6. LoginRows'
    BY <1>1, <2>1, <2>5 DEF LoginShape, LoginRows, Login!SignInTypeOK
  <2>7. OneVisit /\ AccessFits => Login!FailuresCounted'
    BY <2>1, <2>3, <2>4, <2>5 DEF Login!FailuresCounted
  <2>8. OneVisit /\ AccessFits => AccessRows'
    BY <2>1, <2>7 DEF AccessFits, AccessRows, SecretsFit, Login!AccessFollowsProof, Login!OldLinksDie,
       Login!OpenLinks, Login!TotpIsUsable
  <2>. QED
    BY <1>3, <2>1, <2>6, <2>8, LoginWrites
<1>6. CASE Login!Sign(r)
  <2>. DEFINE seen == visit[r].seen
              proof == IF visit[r].op = "totp" THEN visit[r].proof ELSE Login!ProofOf(r)
              new == [tv |-> seen.tv, pw |-> proof.pw, era |-> proof.era]
  <2>1. /\ Login!At(r, "sign") /\ sessions' = sessions \cup {new} /\ Login!Finish(r)
        /\ UNCHANGED <<account, attempt, links, challenges, states, suspensions, wrong, confirmed, secrets>>
    BY <1>6 DEF Login!Sign, Login!counters
  <2>2. visit[r] # None /\ VisitTyped(visit[r])
    BY <1>4, <2>1
  <2>3. seen \in Login!Row /\ visit[r].era \in 0 .. MaxVersion
    BY <2>2 DEF VisitTyped
  <2>4. /\ seen.tv \in 0 .. MaxVersion /\ seen.pw \in 0 .. MaxVersion
        /\ proof.pw \in 0 .. MaxVersion /\ proof.era \in 0 .. MaxVersion
    BY <2>2, <2>3 DEF VisitTyped, Login!Row, Login!Proof, Login!ProofOf
  <2>5. "totp" \notin VisitOps => proof.pw = seen.pw /\ proof.era = visit[r].era
    BY <2>2 DEF VisitTyped, Login!ProofOf
  <2>. HIDE DEF proof
  <2>6. /\ new \in [tv : 0 .. MaxVersion, pw : 0 .. MaxVersion, era : 0 .. MaxVersion]
        /\ new.tv = seen.tv /\ new.pw = proof.pw /\ new.era = proof.era
    BY <2>4
  <2>. HIDE DEF new, seen
  <2>7. LoginRows'
    BY <1>1, <2>1, <2>6 DEF LoginShape, LoginRows, Login!SignInTypeOK
  <2>8. OneVisit /\ AccessFits => AccessRows'
    BY <2>1 DEF AccessFits, AccessRows, SecretsFit, Login!AccessFollowsProof, Login!OldLinksDie,
       Login!OpenLinks, Login!FailuresCounted, Login!TotpIsUsable
  <2>9. "totp" \notin VisitOps /\ PwKnown => new.tv <= account.tv /\ (new.tv = account.tv => new.pw = account.pw)
    BY <2>2, <2>5, <2>6 DEF PwKnown, seen
  <2>10. {"totp", "change"} \cap VisitOps = {} /\ EraKnown =>
           new.tv <= account.tv /\ (new.tv = account.tv => new.era = suspensions)
    BY <2>2, <2>5, <2>6 DEF EraKnown, seen
  <2>. QED
    BY <1>3, <2>1, <2>7, <2>8, <2>9, <2>10, LoginWrites
<1>7. CASE Login!CommitLink(r)
  <2>. DEFINE fresh == [open |-> TRUE, pw |-> visit[r].seen.pw]
  <2>1. /\ Login!At(r, "issue") /\ links' = Append(links, fresh) /\ Login!Finish(r)
        /\ UNCHANGED <<account, attempt, sessions, challenges, states, suspensions, wrong, confirmed, secrets>>
    BY <1>7 DEF Login!CommitLink, Login!keys, Login!counters
  <2>2. visit[r].seen \in Login!Row
    BY <1>4, <2>1 DEF VisitTyped
  <2>3. fresh \in Login!Link /\ fresh.pw = visit[r].seen.pw
    BY <2>2 DEF Login!Link, Login!Row
  <2>4. OneVisit /\ AccessFits => fresh.pw = account.pw /\ Login!OldLinksDie
    BY <1>4, <2>1, <2>3 DEF VisitFits, AccessRows, Login!AccessFollowsProof
  <2>. HIDE DEF fresh
  <2>5. /\ links' \in Seq(Login!Link) /\ Len(links') = Len(links) + 1 /\ links'[Len(links')] = fresh
        /\ \A l \in 1 .. Len(links) : links'[l] = links[l]
    BY <1>1, <2>1, <2>3
  <2>6. 1 .. Len(links') = (1 .. Len(links)) \cup {Len(links')}
    BY <1>1, <2>5
  <2>7. DOMAIN links = 1 .. Len(links) /\ DOMAIN links' = 1 .. Len(links')
    BY <1>1, <2>5
  <2>8. LoginRows'
    BY <1>1, <2>1, <2>5 DEF LoginShape, LoginRows, Login!SignInTypeOK
  <2>9. OneVisit /\ AccessFits => Login!OldLinksDie'
    BY <2>1, <2>4, <2>5, <2>6, <2>7 DEF Login!OldLinksDie, Login!OpenLinks
  <2>10. OneVisit /\ AccessFits => AccessRows'
    BY <2>1, <2>9 DEF AccessFits, AccessRows, SecretsFit, Login!AccessFollowsProof,
       Login!FailuresCounted, Login!TotpIsUsable
  <2>. QED
    BY <1>3, <2>1, <2>8, <2>10, LoginWrites
<1>8. ASSUME NEW ls, OneVisit /\ AccessFits => Login!OpenLinks \subseteq ls, links' = Login!UseUp(ls)
      PROVE  /\ links' \in Seq(Login!Link)
             /\ OneVisit /\ AccessFits => Login!OldLinksDie'
  <2>1. /\ links' \in Seq(Login!Link) /\ Len(links') = Len(links)
        /\ \A l \in 1 .. Len(links) : links'[l].open => links[l].open /\ l \notin ls
    BY <1>1, <1>8, LinksUsedUp
  <2>2. DOMAIN links = 1 .. Len(links) /\ DOMAIN links' = 1 .. Len(links)
    BY <1>1, <2>1
  <2>3. OneVisit /\ AccessFits => Login!OpenLinks' = {}
    BY <1>8, <2>1, <2>2 DEF Login!OpenLinks
  <2>. QED
    BY <2>1, <2>3 DEF Login!OldLinksDie
<1>9. CASE Login!CommitReset(r)
  <2>1. /\ Login!At(r, "reset") /\ account.tv < MaxVersion /\ account' = Login!NewPassword
        /\ links' = Login!UseUp(visit[r].swept) /\ attempt' = Login!NoAttempt /\ wrong' = 0
        /\ Login!Finish(r) /\ UNCHANGED <<sessions, challenges, states, suspensions, confirmed, secrets>>
    BY <1>9 DEF Login!CommitReset, Login!keys
  <2>2. /\ account' \in Login!Row /\ account'.tv = account.tv + 1 /\ account'.pw = account.pw + 1
        /\ account'.secret = account.secret /\ account'.totp = account.totp
    BY <1>1, <2>1, NextVersion
  <2>3. attempt' \in [count : Nat, lock : {"no", "on", "over"}] /\ attempt'.count = 0
    BY <2>1 DEF Login!NoAttempt
  <2>4. OneVisit /\ AccessFits => Login!OpenLinks \subseteq visit[r].swept /\ AccessRows
    BY <1>4, <2>1 DEF VisitFits
  <2>5. links' \in Seq(Login!Link) /\ (OneVisit /\ AccessFits => Login!OldLinksDie')
    BY <1>8, <2>1, <2>4
  <2>6. account'.pw <= account'.tv /\ account.tv <= account'.tv /\ account'.tv # account.tv
    BY <1>1, <1>3, <2>2
  <2>7. LoginRows'
    BY <1>1, <2>1, <2>2, <2>3, <2>5, <2>6 DEF LoginShape, LoginRows, Login!SignInTypeOK
  <2>8. Login!FailuresCounted'
    BY <1>2, <2>1, <2>3 DEF Login!FailuresCounted
  <2>9. OneVisit /\ AccessFits => AccessRows'
    BY <2>1, <2>2, <2>4, <2>5, <2>8 DEF AccessRows, SecretsFit, Login!AccessFollowsProof,
       Login!TotpIsUsable
  <2>. QED
    BY <2>1, <2>6, <2>7, <2>9, LoginWrites
<1>10. CASE Login!ChangePassword(r)
  <2>. DEFINE new == [tv |-> account'.tv, pw |-> account'.pw, era |-> visit[r].era]
  <2>1. /\ Login!At(r, "change") /\ account.tv < MaxVersion /\ account' = Login!NewPassword
        /\ links' = Login!UseUp(Login!OpenLinks) /\ sessions' = sessions \cup {new}
        /\ Login!Finish(r)
        /\ UNCHANGED <<attempt, challenges, states, suspensions, wrong, confirmed, secrets>>
    BY <1>10 DEF Login!ChangePassword, Login!counters
  <2>2. /\ account' \in Login!Row /\ account'.tv = account.tv + 1 /\ account'.pw = account.pw + 1
        /\ account'.secret = account.secret /\ account'.totp = account.totp
    BY <1>1, <2>1, NextVersion
  <2>3. visit[r].era \in 0 .. MaxVersion /\ "change" \in VisitOps
    BY <1>4, <2>1 DEF VisitTyped
  <2>4. /\ new \in [tv : 0 .. MaxVersion, pw : 0 .. MaxVersion, era : 0 .. MaxVersion]
        /\ new.tv = account'.tv /\ new.pw = account'.pw
    BY <2>2, <2>3 DEF Login!Row
  <2>. HIDE DEF new
  <2>5. links' \in Seq(Login!Link) /\ (OneVisit /\ AccessFits => Login!OldLinksDie')
    BY <1>8, <2>1
  <2>6. account'.pw <= account'.tv /\ account.tv <= account'.tv /\ account'.tv # account.tv /\ account'.tv <= account'.tv
    BY <1>1, <1>3, <2>2
  <2>7. LoginRows'
    BY <1>1, <2>1, <2>2, <2>4, <2>5, <2>6 DEF LoginShape, LoginRows, Login!SignInTypeOK
  <2>8. OneVisit /\ AccessFits => AccessRows'
    BY <2>1, <2>2, <2>5 DEF AccessFits, AccessRows, SecretsFit, Login!AccessFollowsProof,
       Login!FailuresCounted, Login!TotpIsUsable
  <2>. QED
    BY <2>1, <2>3, <2>4, <2>6, <2>7, <2>8, LoginWrites
<1>11. ASSUME account' \in Login!Row, account'.pw = account.pw, account'.tv = account.tv, Login!Finish(r),
              confirmed' \subseteq 0 .. MaxSecrets, secrets' \in 0 .. MaxSecrets,
              UNCHANGED <<attempt, links, sessions, challenges, states, suspensions, wrong>>,
              OneVisit /\ AccessFits => Login!TotpIsUsable' /\ SecretsFit'
       PROVE  LoginKept
  <2>1. LoginRows'
    BY <1>1, <1>11 DEF LoginShape, LoginRows, Login!SignInTypeOK
  <2>2. OneVisit /\ AccessFits => AccessRows'
    BY <1>11 DEF AccessFits, AccessRows, Login!AccessFollowsProof, Login!OldLinksDie,
       Login!OpenLinks, Login!FailuresCounted
  <2>. QED
    BY <1>3, <1>11, <2>1, <2>2, LoginWrites
<1>12. CASE Login!EnrollTotp(r)
  <2>1. /\ Login!At(r, "enroll") /\ secrets < MaxSecrets /\ secrets' = secrets + 1
        /\ account' = [account EXCEPT !.secret = secrets'] /\ Login!Finish(r)
        /\ UNCHANGED <<attempt, links, sessions, challenges, states, suspensions, wrong, confirmed>>
    BY <1>12 DEF Login!EnrollTotp, Login!keys
  <2>2. secrets' \in 0 .. MaxSecrets
    BY <1>1, <1>2, <2>1
  <2>3. /\ account' \in Login!Row /\ account'.pw = account.pw /\ account'.tv = account.tv
        /\ account'.secret = secrets' /\ account'.totp = account.totp
    BY <1>1, <2>1, <2>2 DEF Login!Row
  <2>4. OneVisit /\ AccessFits => ~account.totp /\ confirmed \subseteq 1 .. secrets
    BY <1>4, <2>1 DEF VisitFits, AccessRows, SecretsFit
  <2>5. OneVisit /\ AccessFits => confirmed' \subseteq 1 .. secrets' /\ secrets' \notin confirmed'
    BY <1>1, <1>2, <2>1, <2>4
  <2>6. OneVisit /\ AccessFits => Login!TotpIsUsable' /\ SecretsFit'
    BY <2>2, <2>3, <2>4, <2>5 DEF Login!TotpIsUsable, SecretsFit
  <2>. QED
    BY <1>1, <1>11, <2>1, <2>2, <2>3, <2>6
<1>13. CASE Login!ConfirmTotp(r)
  <2>1. /\ Login!At(r, "confirm") /\ confirmed' = confirmed \cup {visit[r].seen.secret}
        /\ account' = [account EXCEPT !.totp = TRUE] /\ Login!Finish(r)
        /\ UNCHANGED <<attempt, links, sessions, challenges, states, suspensions, wrong, secrets>>
    BY <1>13 DEF Login!ConfirmTotp, Login!Checked, Login!keys
  <2>2. /\ account' \in Login!Row /\ account'.pw = account.pw /\ account'.tv = account.tv
        /\ account'.secret = account.secret /\ account'.totp = TRUE
    BY <1>1, <2>1 DEF Login!Row
  <2>3. visit[r].seen.secret \in 0 .. MaxSecrets
    BY <1>4, <2>1 DEF VisitTyped, Login!Row
  <2>4. OneVisit /\ AccessFits => /\ visit[r].seen.secret = account.secret /\ account.secret # 0
                                 /\ SecretsFit
    BY <1>4, <2>1 DEF VisitFits, AccessRows
  <2>5. OneVisit /\ AccessFits => account.secret \in 1 .. secrets
    BY <1>1, <1>2, <1>3, <2>4 DEF SecretsFit
  <2>6. OneVisit /\ AccessFits => Login!TotpIsUsable' /\ SecretsFit'
    BY <2>1, <2>2, <2>4, <2>5 DEF Login!TotpIsUsable, SecretsFit
  <2>. QED
    BY <1>1, <1>11, <2>1, <2>2, <2>3, <2>6
<1>14. CASE Login!DisableTotp(r)
  <2>1. /\ Login!At(r, "disable") /\ Login!Finish(r)
        /\ account' = account \/ account' = [account EXCEPT !.totp = FALSE, !.secret = 0]
        /\ UNCHANGED <<attempt, links, sessions, challenges, states, suspensions, wrong, confirmed, secrets>>
    BY <1>14 DEF Login!DisableTotp, Login!WithoutTotp, Login!keys, Login!counters
  <2>2. 0 \in 0 .. MaxSecrets /\ 0 <= secrets
    BY <1>1, <1>2
  <2>3. /\ account' \in Login!Row /\ account'.pw = account.pw /\ account'.tv = account.tv
        /\ account' = account \/ (account'.totp = FALSE /\ account'.secret = 0)
    BY <1>1, <2>1, <2>2 DEF Login!Row
  <2>4. OneVisit /\ AccessFits => SecretsFit /\ Login!TotpIsUsable
    BY DEF AccessFits, AccessRows, Login!AccessFollowsProof
  <2>5. OneVisit /\ AccessFits => Login!TotpIsUsable' /\ SecretsFit'
    BY <2>1, <2>2, <2>3, <2>4 DEF Login!TotpIsUsable, SecretsFit
  <2>. QED
    BY <1>1, <1>11, <2>1, <2>3, <2>5
<1>. QED
  BY <1>5, <1>6, <1>7, <1>9, <1>10, <1>12, <1>13, <1>14

(* The first factor is done: a challenge, or a session that is to be       *)
(* signed; or Google brings the account back.                              *)
LEMMA LoginFactorSteps ==
  ASSUME Login!SignInBounds, LoginShape, NEW r \in Visits,
         Login!ClearAttempts(r) \/ Login!GoogleReturn(r)
  PROVE  LoginKept
<1>1. /\ account \in Login!Row /\ account.pw <= account.tv /\ suspensions \in 0 .. MaxVersion
      /\ challenges \subseteq Login!Proof /\ states \in 0 .. 1
  BY DEF LoginShape, LoginRows, Login!SignInTypeOK
<1>2. MaxVersion \in Nat /\ MaxAttempts \in Nat /\ MaxAttempts > 0
  BY DEF Login!SignInBounds
<1>3. account.tv \in Nat /\ account.tv <= account.tv
  BY <1>1, <1>2 DEF Login!Row
<1>4. ASSUME LoginRows', NEW call, visit' = [visit EXCEPT ![r] = call],
             account'.tv = account.tv, account'.pw = account.pw, UNCHANGED <<suspensions, sessions>>,
             call # None =>
               /\ VisitTyped(call) /\ call.at \notin {"fail", "issue", "reset", "confirm", "enroll"}
               /\ \/ call.seen = account /\ call.era = suspensions
                  \/ visit[r] # None /\ call.seen = visit[r].seen /\ call.era = visit[r].era,
             OneVisit /\ AccessFits => AccessRows'
      PROVE  LoginKept
  <2>1. /\ visit' = [s \in Visits |-> visit'[s]] /\ visit'[r] = call
        /\ \A s \in Visits \ {r} : visit'[s] = visit[s]
    BY <1>4 DEF LoginShape, VisitsTyped
  <2>2. \A s \in Visits : visit'[s] # None =>
          /\ VisitTyped(visit'[s])
          /\ \/ /\ visit'[s].seen.tv = account'.tv /\ visit'[s].seen.pw = account'.pw
                /\ visit'[s].era = suspensions'
             \/ visit[s] # None /\ visit'[s].seen = visit[s].seen /\ visit'[s].era = visit[s].era
    BY <1>4, <2>1 DEF LoginShape, VisitsTyped
  <2>3. ASSUME OneVisit, AccessFits PROVE AccessFits'
    <3>1. \A s \in Visits : s = r
      BY <2>3 DEF OneVisit
    <3>2. visit'[r] # None => VisitFits(visit[r])'
      BY <1>4, <2>1 DEF VisitFits
    <3>. QED
      BY <1>4, <2>3, <3>1, <3>2 DEF AccessFits, VisitsFit
  <2>4. account.tv <= account'.tv
    BY <1>3, <1>4
  <2>. QED
    BY <1>4, <2>1, <2>2, <2>3, <2>4, LoginStep
<1>5. CASE Login!ClearAttempts(r)
  <2>1. /\ Login!At(r, "clear") /\ attempt' = Login!NoAttempt /\ wrong' = 0
        /\ \/ challenges' = challenges \cup {Login!ProofOf(r)} /\ Login!Finish(r)
           \/ UNCHANGED challenges /\ Login!Go(r, "sign")
        /\ UNCHANGED <<account, links, sessions, states, suspensions, confirmed, secrets>>
    BY <1>5 DEF Login!ClearAttempts
  <2>2. visit[r] # None /\ VisitTyped(visit[r])
    BY <2>1 DEF Login!At, LoginShape, VisitsTyped
  <2>3. Login!ProofOf(r) \in Login!Proof
    BY <2>2 DEF VisitTyped, Login!Row, Login!Proof, Login!ProofOf
  <2>4. attempt' \in [count : Nat, lock : {"no", "on", "over"}] /\ attempt'.count = 0
    BY <2>1 DEF Login!NoAttempt
  <2>5. challenges' \subseteq Login!Proof
    BY <1>1, <2>1, <2>3
  <2>6. LoginRows'
    BY <2>1, <2>4, <2>5 DEF LoginShape, LoginRows, Login!SignInTypeOK
  <2>7. Login!FailuresCounted'
    BY <1>2, <2>1, <2>4 DEF Login!FailuresCounted
  <2>8. OneVisit /\ AccessFits => AccessRows'
    BY <2>1, <2>7 DEF AccessFits, AccessRows, SecretsFit, Login!AccessFollowsProof,
       Login!OldLinksDie, Login!OpenLinks, Login!TotpIsUsable
  <2>9. CASE Login!Finish(r)
    BY <1>4, <2>1, <2>6, <2>8, <2>9 DEF Login!Finish
  <2>10. CASE Login!Go(r, "sign")
    <3>. DEFINE call == [visit[r] EXCEPT !.at = "sign"]
    <3>1. VisitTyped(call) /\ call.seen = visit[r].seen /\ call.era = visit[r].era /\ call.at = "sign"
      BY <2>2, VisitGoesOn
    <3>2. visit' = [visit EXCEPT ![r] = call]
      BY <2>10 DEF Login!Go
    <3>. HIDE DEF call
    <3>. QED
      BY <1>4, <2>1, <2>2, <2>6, <2>8, <3>1, <3>2
  <2>. QED
    BY <2>1, <2>9, <2>10
<1>6. CASE Login!GoogleReturn(r)
  <2>. DEFINE call == IF account.active THEN [at |-> "clear", op |-> "google", seen |-> account,
                        era |-> suspensions, n |-> 0, swept |-> {}, proof |-> None] ELSE None
  <2>1. /\ visit[r] = None /\ states > 0 /\ states' = states - 1 /\ account' = [account EXCEPT !.linked = TRUE]
        /\ IF account.active THEN Login!Begin(r, "google", "clear", {}, None) ELSE UNCHANGED visit
        /\ UNCHANGED <<attempt, links, sessions, challenges, suspensions, wrong, confirmed, secrets>>
    BY <1>6 DEF Login!GoogleReturn, Login!counters
  <2>2. visit' = [visit EXCEPT ![r] = call]
    BY <2>1 DEF Login!Begin, LoginShape, VisitsTyped
  <2>3. /\ account' \in Login!Row /\ account'.pw = account.pw /\ account'.tv = account.tv
        /\ account'.secret = account.secret /\ account'.totp = account.totp
    BY <1>1, <2>1 DEF Login!Row
  <2>4. states' \in 0 .. 1
    BY <1>1, <2>1
  <2>5. LoginRows'
    BY <2>1, <2>3, <2>4 DEF LoginShape, LoginRows, Login!SignInTypeOK
  <2>6. AccessFits => AccessRows'
    BY <2>1, <2>3 DEF AccessFits, AccessRows, SecretsFit, Login!AccessFollowsProof,
       Login!OldLinksDie, Login!OpenLinks, Login!FailuresCounted, Login!TotpIsUsable
  <2>7. call # None => VisitTyped(call) /\ call.seen = account /\ call.era = suspensions /\ call.at = "clear"
    <3>1. call # None => call = [at |-> "clear", op |-> "google", seen |-> account,
                        era |-> suspensions, n |-> 0, swept |-> {}, proof |-> None]
      OBVIOUS
    <3>. HIDE DEF call
    <3>. QED
      BY <3>1, VisitBegun
  <2>. HIDE DEF call
  <2>. QED
    BY <1>4, <2>1, <2>2, <2>3, <2>5, <2>6, <2>7
<1>. QED
  BY <1>5, <1>6

-----------------------------------------------------------------------------
LEMMA LoginNext ==
  ASSUME Login!SignInBounds, LoginShape, [Login!Next]_Login!vars
  PROVE  LoginKept
<1>1. CASE UNCHANGED Login!vars
  <2>1. UNCHANGED <<loginRowVars, visit>>
    BY <1>1 DEF Login!vars, loginRowVars
  <2>2. LoginShape'
    BY <2>1 DEF loginRowVars, LoginShape, LoginRows, Login!SignInTypeOK, VisitsTyped
  <2>3. (PwKnown => PwKnown') /\ (EraKnown => EraKnown')
    BY <2>1 DEF loginRowVars, PwKnown, EraKnown
  <2>4. AccessFits => AccessFits'
    BY <2>1 DEF loginRowVars, AccessFits, AccessRows, SecretsFit, Login!AccessFollowsProof,
       Login!OldLinksDie, Login!OpenLinks, Login!FailuresCounted, Login!TotpIsUsable, VisitsFit, VisitFits
  <2>. QED
    BY <2>2, <2>3, <2>4 DEF LoginKept
<1>2. ASSUME NEW r \in Visits, Login!Step(r) PROVE LoginKept
  <2>1. CASE \/ Login!ReadForLogin(r) \/ Login!WrongPassword(r) \/ Login!RightPassword(r)
             \/ Login!ReadFailures(r) \/ Login!RightCode(r) \/ Login!Issue(r) \/ Login!Fail(r)
    BY <2>1, LoginReadSteps
  <2>2. CASE \/ \E c \in challenges : Login!ReadForTotp(r, c)
             \/ \E l \in DOMAIN links : Login!ClaimLink(r, l)
             \/ \E op \in Login!Profile : Login!ReadForProfile(r, op)
    BY <2>2, LoginReadSteps
  <2>3. CASE \/ Login!RecordFailure(r) \/ Login!Sign(r) \/ Login!CommitLink(r) \/ Login!CommitReset(r)
             \/ Login!ChangePassword(r) \/ Login!EnrollTotp(r) \/ Login!ConfirmTotp(r)
             \/ Login!DisableTotp(r)
    BY <2>3, LoginWriteSteps
  <2>4. CASE Login!ClearAttempts(r) \/ Login!GoogleReturn(r)
    BY <2>4, LoginFactorSteps
  <2>. QED
    BY <1>2, <2>1, <2>2, <2>3, <2>4 DEF Login!Step
<1>3. CASE \/ Login!LockExpires \/ Login!GoogleStart \/ Login!Suspend \/ Login!Reinstate
           \/ \E l \in DOMAIN links : Login!LinkExpires(l)
  BY <1>3, LoginEventSteps
<1>. QED
  BY <1>1, <1>2, <1>3 DEF Login!Next

-----------------------------------------------------------------------------
(* Sign-ins, resets, profile requests and suspensions, however they cross, *)
(* leave the account's row, its keys and its counters well formed.         *)
THEOREM SignInTypeCorrect ==
  ASSUME Login!SignInBounds
  PROVE  Login!Spec => []Login!SignInTypeOK
<1>1. Login!Init => LoginShape
  BY LoginInit
<1>2. LoginShape /\ [Login!Next]_Login!vars => LoginShape'
  BY LoginNext DEF LoginKept
<1>3. LoginShape => Login!SignInTypeOK
  BY DEF LoginShape, LoginRows
<1>. QED
  BY <1>1, <1>2, <1>3, PTL DEF Login!Spec

(* Whatever logins are under way while it changes, a session that is       *)
(* accepted was proved with the password of now (reset, changePassword);   *)
(* with a second factor it was a challenge that was proved, and that may   *)
(* be older.                                                               *)
THEOREM SessionsAlwaysFollowPassword ==
  ASSUME Login!SignInBounds, "totp" \notin VisitOps
  PROVE  Login!Spec => []Login!SessionsFollowPassword
<1>1. Login!Init => LoginShape /\ PwKnown
  BY LoginInit
<1>2. LoginShape /\ PwKnown /\ [Login!Next]_Login!vars => (LoginShape /\ PwKnown)'
  BY LoginNext DEF LoginKept
<1>3. PwKnown => Login!SessionsFollowPassword
  BY DEF PwKnown, Login!SessionsFollowPassword, Login!Accepted
<1>. QED
  BY <1>1, <1>2, <1>3, PTL DEF Login!Spec

(* Nothing proved before a suspension enters the account once it is        *)
(* reinstated (updateUser), while passwords are only reset by a link: a    *)
(* change of password hands its session the version of now.                *)
THEOREM SuspensionAlwaysEndsSessions ==
  ASSUME Login!SignInBounds, {"totp", "change"} \cap VisitOps = {}
  PROVE  Login!Spec => []Login!SuspensionEndsSessions
<1>1. Login!Init => LoginShape /\ EraKnown
  BY LoginInit
<1>2. LoginShape /\ EraKnown /\ [Login!Next]_Login!vars => (LoginShape /\ EraKnown)'
  BY LoginNext DEF LoginKept
<1>3. EraKnown => Login!SuspensionEndsSessions
  BY DEF EraKnown, Login!SuspensionEndsSessions, Login!Accepted
<1>. QED
  BY <1>1, <1>2, <1>3, PTL DEF Login!Spec

(* Requests that follow one another count every wrong password up to the   *)
(* lock, let no link outlive the password it was issued under, and ask for *)
(* a second factor its owner has (recordFailure, reset, changePassword,    *)
(* confirmTotp, disableTotp).                                              *)
THEOREM AccessAlwaysFollowsProof ==
  ASSUME Login!SignInBounds, OneVisit
  PROVE  Login!Spec => []Login!AccessFollowsProof
<1>1. Login!Init => LoginShape /\ AccessFits
  BY LoginInit
<1>2. LoginShape /\ AccessFits /\ [Login!Next]_Login!vars => (LoginShape /\ AccessFits)'
  BY LoginNext DEF LoginKept
<1>3. AccessFits => Login!AccessFollowsProof
  BY DEF AccessFits, AccessRows
<1>. QED
  BY <1>1, <1>2, <1>3, PTL DEF Login!Spec
-----------------------------------------------------------------------------
(* OAuthTokens                                                             *)
CONSTANTS Calls, CallOps, Provider, Users, Realms, MaxStarted, MaxTokens

VARIABLES row, pending, started, adopted, issued, good, call

OneCall == \A r, s \in Calls : r = s

OAuth == INSTANCE OAuthTokens WITH
  Reqs <- Calls, Ops <- CallOps, MaxLinks <- MaxStarted, req <- call

Connected == [realm : Realms, refresh : Nat, fresh : BOOLEAN, name : Realms \cup {None}]
CallSteps == {"exchange", "store", "name", "revoke", "delete", "refresh", "rotate"}
Call == [at : CallSteps, realm : Realms \cup {None}, token : Nat]
Draft == [at : CallSteps \cup {None}, realm : Realms \cup {None}, token : Nat]

(* None is no connection and no call.                                      *)
OAuthConstants == None \notin Connected \cup Call

(* The connection, the tokens, and what a call knows of them by its step.  *)
TokenRows ==
  /\ row \in Connected \cup {None}
  /\ row # None => row.refresh \in 1 .. Len(issued)
  /\ issued \in Seq(Realms) /\ good \subseteq 1 .. Len(issued)

CallRows ==
  /\ call \in [Calls -> Call \cup {None}]
  /\ \A r \in Calls : call[r] # None =>
       /\ call[r].at \in {"exchange", "store", "name"} => call[r].realm \in Realms
       /\ call[r].at \in {"store", "refresh", "rotate"} => call[r].token \in 1 .. Len(issued)
       /\ call[r].token \in 0 .. Len(issued)

(* The handshakes: those waiting have not been taken up.                   *)
Handshakes ==
  /\ started \in Seq(Users) /\ pending \subseteq 1 .. Len(started)
  /\ adopted \in Seq([state : Nat, by : Users])
  /\ \A i \in 1 .. Len(adopted) :
       /\ adopted[i].state \in (1 .. Len(started)) \ pending
       /\ adopted[i].by = started[adopted[i].state]
       /\ \A j \in 1 .. Len(adopted) : adopted[i].state = adopted[j].state => i = j

OAuthShape == TokenRows /\ CallRows /\ Handshakes

(* One call at a time: the tokens it holds, and those stored, are of the   *)
(* company they are stored with.                                           *)
CallMatches(r) ==
  /\ call[r].at = "store" => issued[call[r].token] = call[r].realm
  /\ call[r].at = "name" => row # None /\ row.realm = call[r].realm
  /\ call[r].at = "refresh" => row # None /\ row.refresh = call[r].token
  /\ call[r].at = "rotate" => row # None /\ issued[call[r].token] = row.realm

Matching ==
  /\ row # None => issued[row.refresh] = row.realm /\ row.name \in {None, row.realm}
  /\ \A r \in Calls : call[r] # None => CallMatches(r)

(* With no answer lost, the token kept is good but while a call that will  *)
(* replace it, or the row, is under way.                                   *)
CallLasts(r) ==
  /\ call[r].at \in {"store", "rotate"} => call[r].token \in good
  /\ call[r].at \in {"exchange", "name", "refresh"} => (row # None => row.refresh \in good)

Lasting ==
  /\ OAuth!StaysConnected
  /\ \A r \in Calls : call[r] # None => CallLasts(r)

-----------------------------------------------------------------------------
LEMMA OAuthInit == ASSUME OAuthConstants
                   PROVE OAuth!Init => OAuthShape /\ Matching /\ Lasting
<1>. SUFFICES ASSUME OAuth!Init PROVE OAuthShape /\ Matching /\ Lasting
  OBVIOUS
<1>1. TokenRows /\ CallRows
  BY DEF OAuth!Init, TokenRows, CallRows
<1>2. Handshakes
  BY DEF OAuth!Init, Handshakes
<1>3. Matching /\ Lasting
  BY DEF OAuth!Init, Matching, Lasting, OAuth!StaysConnected
<1>. QED
  BY <1>1, <1>2, <1>3 DEF OAuthShape

(* A handshake is taken up once, and by who started it.                    *)
LEMMA CallbackTakesUp ==
  ASSUME Handshakes, NEW s \in DOMAIN started, NEW u \in Users,
         pending' = pending \ {s}, UNCHANGED started,
         \/ s \in pending /\ started[s] = u /\ adopted' = Append(adopted, [state |-> s, by |-> u])
         \/ UNCHANGED adopted
  PROVE  Handshakes'
<1>1. CASE UNCHANGED adopted
  BY <1>1 DEF Handshakes
<1>2. CASE s \in pending /\ started[s] = u /\ adopted' = Append(adopted, [state |-> s, by |-> u])
  <2>1. /\ Len(adopted) \in Nat /\ Len(adopted') = Len(adopted) + 1
        /\ adopted' \in Seq([state : Nat, by : Users])
        /\ adopted'[Len(adopted) + 1] = [state |-> s, by |-> u]
        /\ \A i \in 1 .. Len(adopted) : adopted'[i] = adopted[i]
    BY <1>2 DEF Handshakes
  <2>2. \A i \in 1 .. Len(adopted') : i = Len(adopted) + 1 \/ i \in 1 .. Len(adopted)
    BY <2>1
  <2>3. \A i \in 1 .. Len(adopted) : adopted[i].state # s
    BY <1>2 DEF Handshakes
  <2>. QED
    BY <1>2, <2>1, <2>2, <2>3 DEF Handshakes
<1>. QED
  BY <1>1, <1>2

(* A new refresh token, at the end of those issued.                        *)
LEMMA IssueAdds ==
  ASSUME TokenRows, NEW realm \in Realms, NEW spent, OAuth!Issue(realm, spent)
  PROVE  /\ issued' \in Seq(Realms) /\ Len(issued) \in Nat /\ Len(issued') = Len(issued) + 1
         /\ issued'[Len(issued')] = realm
         /\ \A i \in 1 .. Len(issued) : issued'[i] = issued[i]
         /\ good' \subseteq 1 .. Len(issued') /\ Len(issued') \in good'
         /\ \A i \in good : i \notin spent => i \in good'
<1>1. /\ issued' \in Seq(Realms) /\ Len(issued) \in Nat /\ Len(issued') = Len(issued) + 1
      /\ issued'[Len(issued) + 1] = realm
      /\ \A i \in 1 .. Len(issued) : issued'[i] = issued[i]
  BY DEF OAuth!Issue, TokenRows
<1>2. good' = (good \ spent) \cup {Len(issued')} /\ good \subseteq 1 .. Len(issued)
  BY DEF OAuth!Issue, TokenRows
<1>3. 1 .. Len(issued') = (1 .. Len(issued)) \cup {Len(issued')}
  BY <1>1
<1>. QED
  BY <1>1, <1>2, <1>3

(* A call that goes on to its next step.                                   *)
LEMMA CallMoves ==
  ASSUME OAuthConstants, CallRows, NEW r \in Calls, NEW step \in CallSteps,
         NEW what \in Draft, OAuth!Begin(r, step, what)
  PROVE  /\ call' \in [Calls -> Call \cup {None}]
         /\ call'[r] # None
         /\ call'[r].at = step /\ call'[r].realm = what.realm /\ call'[r].token = what.token
         /\ \A s \in Calls \ {r} : call'[s] = call[s]
<1>1. [what EXCEPT !.at = step] = [at |-> step, realm |-> what.realm, token |-> what.token]
  BY DEF Draft
<1>2. [at |-> step, realm |-> what.realm, token |-> what.token] \in Call
  BY DEF Call, Draft
<1>3. call' = [call EXCEPT ![r] = [at |-> step, realm |-> what.realm, token |-> what.token]]
  BY <1>1 DEF OAuth!Begin
<1>. QED
  BY <1>2, <1>3 DEF CallRows, OAuthConstants

LEMMA CallEnds ==
  ASSUME CallRows, NEW r \in Calls, OAuth!Finish(r)
  PROVE  /\ call' \in [Calls -> Call \cup {None}]
         /\ call'[r] = None
         /\ \A s \in Calls \ {r} : call'[s] = call[s]
BY DEF CallRows, OAuth!Finish

(* What may happen to the calls: one moves, with a realm and a token that  *)
(* fit, or ends; the tokens issued stay.                                   *)
LEMMA CallsMatch ==
  ASSUME OAuthConstants, OAuthShape, Len(issued) <= Len(issued'), Len(issued') \in Nat,
         call' \in [Calls -> Call \cup {None}], NEW r \in Calls,
         \A s \in Calls \ {r} : call'[s] = call[s],
         call'[r] # None =>
           /\ call'[r].at \in {"exchange", "store", "name"} => call'[r].realm \in Realms
           /\ call'[r].at \in {"store", "refresh", "rotate"} => call'[r].token \in 1 .. Len(issued')
           /\ call'[r].token \in 0 .. Len(issued')
  PROVE  CallRows'
<1>1. ASSUME NEW s \in Calls \ {r}, call'[s] # None
      PROVE  /\ call'[s].at \in {"exchange", "store", "name"} => call'[s].realm \in Realms
             /\ call'[s].at \in {"store", "refresh", "rotate"} => call'[s].token \in 1 .. Len(issued')
             /\ call'[s].token \in 0 .. Len(issued')
  <2>1. Len(issued) \in Nat
    BY DEF OAuthShape, TokenRows
  <2>. QED
    BY <1>1, <2>1 DEF OAuthShape, CallRows
<1>. QED
  BY <1>1 DEF CallRows

(* The connection is written by a call that has what it writes.            *)
LEMMA TokenRowsKept == ASSUME OAuthConstants, OAuthShape, OAuth!Next PROVE TokenRows'
<1>1. ASSUME NEW r \in Calls, OAuth!Step(r) PROVE TokenRows'
  <2>1. CASE UNCHANGED <<row, issued, good>>
    BY <2>1 DEF OAuthShape, TokenRows
  <2>2. CASE OAuth!ExchangeCode(r)
    <3>1. call[r].realm \in Realms
      BY <2>2 DEF OAuth!ExchangeCode, OAuth!At, OAuthShape, CallRows
    <3>2. OAuth!Issue(call[r].realm, {}) /\ UNCHANGED row
      BY <2>2 DEF OAuth!ExchangeCode
    <3>. QED
      BY <3>1, <3>2, IssueAdds DEF OAuthShape, TokenRows
  <2>3. CASE OAuth!StoreConnection(r)
    <3>1. call[r].realm \in Realms /\ call[r].token \in 1 .. Len(issued)
      BY <2>3 DEF OAuth!StoreConnection, OAuth!At, OAuthShape, CallRows
    <3>2. row' \in Connected /\ row'.refresh = call[r].token
      BY <2>3, <3>1 DEF OAuth!StoreConnection, OAuth!Upserted, OAuth!Connection, Connected,
        OAuthShape, TokenRows
    <3>3. UNCHANGED <<issued, good>>
      BY <2>3 DEF OAuth!StoreConnection, OAuth!provider
    <3>. QED
      BY <3>1, <3>2, <3>3 DEF OAuthShape, TokenRows
  <2>4. CASE OAuth!NameCompany(r)
    <3>1. call[r].realm \in Realms
      BY <2>4 DEF OAuth!NameCompany, OAuth!At, OAuthShape, CallRows
    <3>2. row' = row \/ (row # None /\ row' = [row EXCEPT !.name = call[r].realm])
      BY <2>4 DEF OAuth!NameCompany
    <3>3. row' \in Connected \cup {None} /\ (row' # None => row # None /\ row'.refresh = row.refresh)
      BY <3>1, <3>2 DEF OAuthShape, TokenRows, Connected
    <3>4. UNCHANGED <<issued, good>>
      BY <2>4 DEF OAuth!NameCompany, OAuth!provider
    <3>. QED
      BY <3>3, <3>4 DEF OAuthShape, TokenRows
  <2>5. CASE OAuth!Revoke(r) \/ OAuth!DeleteConnection(r)
    BY <2>5 DEF OAuth!Revoke, OAuth!DeleteConnection, OAuth!provider, OAuthShape, TokenRows
  <2>6. CASE OAuth!Refresh(r)
    <3>1. call[r].token \in 1 .. Len(issued)
      BY <2>6 DEF OAuth!Refresh, OAuth!At, OAuthShape, CallRows
    <3>2. issued[call[r].token] \in Realms /\ UNCHANGED row
      BY <2>6, <3>1 DEF OAuth!Refresh, OAuthShape, TokenRows
    <3>3. CASE call[r].token \in good
      <4>1. OAuth!Issue(issued[call[r].token], {call[r].token})
        BY <2>6, <3>3 DEF OAuth!Refresh
      <4>2. /\ issued' \in Seq(Realms) /\ Len(issued) \in Nat /\ Len(issued') = Len(issued) + 1
            /\ good' \subseteq 1 .. Len(issued')
        BY <3>2, <4>1, IssueAdds DEF OAuthShape
      <4>. QED
        BY <3>2, <4>2 DEF OAuthShape, TokenRows
    <3>4. CASE call[r].token \notin good
      BY <2>6, <3>4 DEF OAuth!Refresh, OAuth!provider, OAuthShape, TokenRows
    <3>. QED
      BY <3>3, <3>4
  <2>7. CASE OAuth!StoreTokens(r)
    <3>1. call[r].token \in 1 .. Len(issued)
      BY <2>7 DEF OAuth!StoreTokens, OAuth!At, OAuthShape, CallRows
    <3>2. row' = IF row = None THEN None ELSE [row EXCEPT !.refresh = call[r].token, !.fresh = TRUE]
      BY <2>7 DEF OAuth!StoreTokens, OAuth!Rotated
    <3>3. call[r].token \in Nat /\ row \in Connected \cup {None}
      BY <3>1 DEF OAuthShape, TokenRows
    <3>5. row' \in Connected \cup {None} /\ (row' # None => row'.refresh = call[r].token)
      BY <3>2, <3>3 DEF Connected
    <3>4. UNCHANGED <<issued, good>>
      BY <2>7 DEF OAuth!StoreTokens, OAuth!provider
    <3>. QED
      BY <3>1, <3>4, <3>5 DEF OAuthShape, TokenRows
  <2>8. ASSUME NEW s \in 1 .. MaxStarted, NEW u \in Users, NEW realm \in Realms,
               OAuth!Callback(r, s, u, realm)
        PROVE  UNCHANGED <<row, issued, good>>
    BY <2>8 DEF OAuth!Callback, OAuth!provider
  <2>9. CASE OAuth!ReadForDisconnect(r) \/ OAuth!ReadForUse(r) \/ OAuth!AnswerLost(r)
    BY <2>1, <2>9 DEF OAuth!ReadForDisconnect, OAuth!ReadForUse, OAuth!AnswerLost, OAuth!provider
  <2>. QED
    BY <1>1, <2>1, <2>2, <2>3, <2>4, <2>5, <2>6, <2>7, <2>8, <2>9 DEF OAuth!Step
<1>2. CASE OAuth!AccessExpires
  <2>1. row \in Connected /\ row' = [row EXCEPT !.fresh = FALSE] /\ UNCHANGED <<issued, good>>
    BY <1>2 DEF OAuth!AccessExpires, OAuth!provider, OAuthShape, TokenRows
  <2>2. row' \in Connected /\ row'.refresh = row.refresh /\ row # None
    BY <2>1 DEF Connected, OAuthConstants
  <2>. QED
    BY <2>1, <2>2 DEF OAuthShape, TokenRows
<1>3. ASSUME NEW u \in Users, OAuth!Authorize(u) PROVE TokenRows'
  BY <1>3 DEF OAuth!Authorize, OAuth!provider, OAuthShape, TokenRows
<1>4. ASSUME NEW s \in 1 .. MaxStarted, OAuth!LinkExpires(s) PROVE TokenRows'
  BY <1>4 DEF OAuth!LinkExpires, OAuth!provider, OAuthShape, TokenRows
<1>. QED
  BY <1>1, <1>2, <1>3, <1>4 DEF OAuth!Next

(* A call that begins or goes on knows what its next step needs.           *)
LEMMA CallRowsKept == ASSUME OAuthConstants, OAuthShape, OAuth!Next PROVE CallRows'
<1>0. Len(issued) \in Nat /\ CallRows /\ TokenRows
  BY DEF OAuthShape, TokenRows
<1>. DEFINE Fits(r, step, realm, token) ==
              /\ step \in {"exchange", "store", "name"} => realm \in Realms
              /\ step \in {"store", "refresh", "rotate"} => token \in 1 .. Len(issued')
              /\ token \in 0 .. Len(issued')
<1>1. ASSUME NEW r \in Calls, NEW step \in CallSteps, NEW what \in Draft,
             OAuth!Begin(r, step, what), Len(issued) <= Len(issued'), Len(issued') \in Nat,
             Fits(r, step, what.realm, what.token)
      PROVE  CallRows'
  <2>1. /\ call' \in [Calls -> Call \cup {None}] /\ \A s \in Calls \ {r} : call'[s] = call[s]
        /\ call'[r].at = step /\ call'[r].realm = what.realm /\ call'[r].token = what.token
    BY <1>0, <1>1, CallMoves
  <2>. QED
    BY <1>1, <2>1, CallsMatch
<1>2. ASSUME NEW r \in Calls, OAuth!Finish(r), UNCHANGED issued PROVE CallRows'
  BY <1>0, <1>2, CallEnds, CallsMatch
<1>3. /\ Call \subseteq Draft /\ OAuth!Request.token = 0
      /\ \A realm \in Realms : LET what == [OAuth!Request EXCEPT !.realm = realm]
                               IN  what \in Draft /\ what.realm = realm /\ what.token = 0
      /\ \A token \in Nat : LET what == [OAuth!Request EXCEPT !.token = token]
                             IN  what \in Draft /\ what.token = token
  BY DEF OAuth!Request, Call, Draft
<1>4. ASSUME NEW r \in Calls, OAuth!Step(r) PROVE CallRows'
  <2>1. ASSUME NEW s \in 1 .. MaxStarted, NEW u \in Users, NEW realm \in Realms,
               OAuth!Callback(r, s, u, realm)
        PROVE  CallRows'
    <3>1. UNCHANGED issued
      BY <2>1 DEF OAuth!Callback, OAuth!provider
    <3>2. CASE OAuth!Begin(r, "exchange", [OAuth!Request EXCEPT !.realm = realm])
      <4>. DEFINE what == [OAuth!Request EXCEPT !.realm = realm]
      <4>1. what \in Draft /\ Fits(r, "exchange", what.realm, what.token)
        BY <1>0, <1>3, <3>1
      <4>. HIDE DEF what
      <4>2. OAuth!Begin(r, "exchange", what)
        BY <3>2 DEF what
      <4>. QED
        BY <1>0, <1>1, <3>1, <4>1, <4>2 DEF CallSteps
    <3>3. CASE UNCHANGED call
      BY <1>0, <3>1, <3>3 DEF CallRows
    <3>. QED
      BY <2>1, <3>2, <3>3 DEF OAuth!Callback
  <2>2. CASE OAuth!ExchangeCode(r)
    <3>1. call[r] \in Call /\ call[r].realm \in Realms
      BY <1>0, <2>2 DEF OAuth!ExchangeCode, OAuth!At, CallRows
    <3>2. OAuth!Issue(call[r].realm, {}) /\ OAuth!Begin(r, "store", [call[r] EXCEPT !.token = Len(issued')])
      BY <2>2 DEF OAuth!ExchangeCode
    <3>3. Len(issued') = Len(issued) + 1
      BY <1>0, <3>1, <3>2, IssueAdds
    <3>. DEFINE what == [call[r] EXCEPT !.token = Len(issued')]
    <3>4. what \in Draft /\ what.realm = call[r].realm /\ what.token = Len(issued')
      BY <1>0, <3>1, <3>3 DEF Call, Draft
    <3>. HIDE DEF what
    <3>5. Fits(r, "store", what.realm, what.token)
      BY <1>0, <3>1, <3>3, <3>4
    <3>6. OAuth!Begin(r, "store", what)
      BY <3>2 DEF what
    <3>. QED
      BY <1>0, <1>1, <3>3, <3>4, <3>5, <3>6 DEF CallSteps
  <2>3. CASE OAuth!StoreConnection(r)
    <3>1. call[r] \in Call /\ call[r].realm \in Realms /\ call[r].token \in 0 .. Len(issued)
      BY <1>0, <2>3 DEF OAuth!StoreConnection, OAuth!At, CallRows
    <3>2. UNCHANGED issued /\ (OAuth!Begin(r, "name", call[r]) \/ OAuth!Finish(r))
      BY <2>3 DEF OAuth!StoreConnection, OAuth!provider
    <3>. QED
      BY <1>0, <1>1, <1>2, <1>3, <3>1, <3>2 DEF CallSteps
  <2>4. CASE OAuth!ReadForDisconnect(r) \/ OAuth!ReadForUse(r)
    <3>1. row.refresh \in 1 .. Len(issued) /\ UNCHANGED issued
      BY <1>0, <2>4 DEF OAuth!ReadForDisconnect, OAuth!ReadForUse, OAuth!provider, TokenRows
    <3>. DEFINE what == [OAuth!Request EXCEPT !.token = row.refresh]
    <3>2. what \in Draft /\ what.token = row.refresh
      BY <1>0, <1>3, <3>1
    <3>. HIDE DEF what
    <3>3. OAuth!Begin(r, "revoke", what) \/ OAuth!Begin(r, "refresh", what)
      BY <2>4 DEF OAuth!ReadForDisconnect, OAuth!ReadForUse, what
    <3>4. Fits(r, "revoke", what.realm, what.token) /\ Fits(r, "refresh", what.realm, what.token)
      BY <1>0, <3>1, <3>2
    <3>. QED
      BY <1>0, <1>1, <3>1, <3>2, <3>3, <3>4 DEF CallSteps
  <2>5. CASE OAuth!Revoke(r)
    <3>1. call[r] \in Call /\ call[r].token \in 0 .. Len(issued)
      BY <1>0, <2>5 DEF OAuth!Revoke, OAuth!At, CallRows
    <3>2. UNCHANGED issued /\ OAuth!Begin(r, "delete", call[r])
      BY <2>5 DEF OAuth!Revoke
    <3>. QED
      BY <1>0, <1>1, <1>3, <3>1, <3>2 DEF CallSteps
  <2>6. CASE OAuth!Refresh(r)
    <3>1. call[r] \in Call /\ call[r].token \in 1 .. Len(issued) /\ issued[call[r].token] \in Realms
      BY <1>0, <2>6 DEF OAuth!Refresh, OAuth!At, CallRows, TokenRows
    <3>2. CASE call[r].token \in good
      <4>1. /\ OAuth!Issue(issued[call[r].token], {call[r].token})
            /\ OAuth!Begin(r, "rotate", [call[r] EXCEPT !.token = Len(issued')])
        BY <2>6, <3>2 DEF OAuth!Refresh
      <4>2. Len(issued') = Len(issued) + 1
        BY <1>0, <3>1, <4>1, IssueAdds
      <4>. DEFINE what == [call[r] EXCEPT !.token = Len(issued')]
      <4>3. what \in Draft /\ what.token = Len(issued')
        BY <1>0, <3>1, <4>2 DEF Call, Draft
      <4>. HIDE DEF what
      <4>4. Fits(r, "rotate", what.realm, what.token)
        BY <1>0, <4>2, <4>3
      <4>5. OAuth!Begin(r, "rotate", what)
        BY <4>1 DEF what
      <4>. QED
        BY <1>0, <1>1, <4>2, <4>3, <4>4, <4>5 DEF CallSteps
    <3>3. CASE call[r].token \notin good
      BY <1>2, <2>6, <3>3 DEF OAuth!Refresh, OAuth!provider
    <3>. QED
      BY <3>2, <3>3
  <2>7. CASE OAuth!NameCompany(r) \/ OAuth!DeleteConnection(r) \/ OAuth!StoreTokens(r) \/ OAuth!AnswerLost(r)
    BY <1>2, <2>7 DEF OAuth!NameCompany, OAuth!DeleteConnection, OAuth!StoreTokens, OAuth!AnswerLost,
      OAuth!provider
  <2>. QED
    BY <1>4, <2>1, <2>2, <2>3, <2>4, <2>5, <2>6, <2>7 DEF OAuth!Step
<1>5. ASSUME UNCHANGED <<issued, call>> PROVE CallRows'
  BY <1>0, <1>5 DEF CallRows
<1>. QED
  BY <1>4, <1>5 DEF OAuth!Next, OAuth!Authorize, OAuth!LinkExpires, OAuth!AccessExpires, OAuth!provider

LEMMA HandshakesKept == ASSUME OAuthShape, OAuth!Next PROVE Handshakes'
<1>0. Handshakes
  BY DEF OAuthShape
<1>1. ASSUME NEW r \in Calls, NEW s \in 1 .. MaxStarted, NEW u \in Users, NEW realm \in Realms,
             OAuth!Callback(r, s, u, realm)
      PROVE  Handshakes'
  <2>1. s \in DOMAIN started /\ pending' = pending \ {s} /\ UNCHANGED started
    BY <1>1 DEF OAuth!Callback, OAuth!Taken
  <2>2. \/ s \in pending /\ started[s] = u /\ adopted' = Append(adopted, [state |-> s, by |-> u])
        \/ UNCHANGED adopted
    BY <1>1 DEF OAuth!Callback, OAuth!Honoured
  <2>. QED
    BY <1>0, <2>1, <2>2, CallbackTakesUp
<1>2. ASSUME NEW u \in Users, OAuth!Authorize(u) PROVE Handshakes'
  <2>1. /\ started' = Append(started, u) /\ pending' = pending \cup {Len(started')}
        /\ UNCHANGED adopted
    BY <1>2 DEF OAuth!Authorize
  <2>2. /\ started' \in Seq(Users) /\ Len(started) \in Nat /\ Len(started') = Len(started) + 1
        /\ \A i \in 1 .. Len(started) : started'[i] = started[i]
    BY <1>0, <2>1 DEF Handshakes
  <2>3. 1 .. Len(started') = (1 .. Len(started)) \cup {Len(started')}
    BY <2>2
  <2>4. Len(started') \notin 1 .. Len(started)
    BY <2>2
  <2>. QED
    BY <1>0, <2>1, <2>2, <2>3, <2>4 DEF Handshakes
<1>3. ASSUME NEW s \in 1 .. MaxStarted, OAuth!LinkExpires(s) PROVE Handshakes'
  BY <1>0, <1>3 DEF OAuth!LinkExpires, Handshakes
<1>4. ASSUME UNCHANGED OAuth!links PROVE Handshakes'
  BY <1>0, <1>4 DEF OAuth!links, Handshakes
<1>5. ASSUME NEW r \in Calls, OAuth!Step(r) PROVE Handshakes'
  <2>1. UNCHANGED OAuth!links \/ \E s \in 1 .. MaxStarted, u \in Users, realm \in Realms :
          OAuth!Callback(r, s, u, realm)
    BY <1>5 DEF OAuth!Step, OAuth!ExchangeCode, OAuth!StoreConnection, OAuth!NameCompany,
      OAuth!ReadForDisconnect, OAuth!Revoke, OAuth!DeleteConnection, OAuth!ReadForUse,
      OAuth!Refresh, OAuth!StoreTokens, OAuth!AnswerLost
  <2>. QED
    BY <1>1, <1>4, <2>1
<1>6. ASSUME OAuth!AccessExpires PROVE Handshakes'
  BY <1>4, <1>6 DEF OAuth!AccessExpires
<1>. QED
  BY <1>2, <1>3, <1>5, <1>6 DEF OAuth!Next

LEMMA OAuthShapeKept ==
  ASSUME OAuthConstants, OAuthShape, OAuth!Next \/ UNCHANGED OAuth!vars PROVE OAuthShape'
<1>1. CASE OAuth!Next
  BY <1>1, TokenRowsKept, CallRowsKept, HandshakesKept DEF OAuthShape
<1>2. CASE UNCHANGED OAuth!vars
  BY <1>2 DEF OAuth!vars, OAuthShape, TokenRows, CallRows, Handshakes
<1>. QED
  BY <1>1, <1>2

-----------------------------------------------------------------------------
(* One call at a time: what it leaves behind fits together.                *)
LEMMA CallKeepsMatch ==
  ASSUME OAuthConstants, OneCall, OAuthShape, OAuthShape', Matching, NEW r \in Calls, OAuth!Step(r)
  PROVE  Matching' /\ ("lost" \notin CallOps /\ Lasting => Lasting')
<1>. DEFINE Goal == Matching' /\ ("lost" \notin CallOps /\ Lasting => Lasting')
<1>0. /\ TokenRows /\ CallRows /\ \A s \in Calls : s = r
      /\ call[r] # None => call[r] \in Call /\ CallMatches(r)
      /\ Lasting => (row # None /\ call[r] = None => row.refresh \in good)
      /\ Lasting /\ call[r] # None => CallLasts(r)
  BY DEF OneCall, OAuthShape, CallRows, Matching, Lasting, OAuth!StaysConnected, OAuth!Quiet
(* What is left to show of a step that moves r.                            *)
<1>1. ASSUME /\ row' # None => issued'[row'.refresh] = row'.realm /\ row'.name \in {None, row'.realm}
             /\ call'[r] # None => CallMatches(r)'
             /\ "lost" \notin CallOps /\ Lasting =>
                  /\ call'[r] # None => CallLasts(r)'
                  /\ row' # None /\ call'[r] = None => row'.refresh \in good'
      PROVE  Goal
  BY <1>0, <1>1 DEF Matching, Lasting, OAuth!StaysConnected, OAuth!Quiet
<1>2. ASSUME NEW s \in 1 .. MaxStarted, NEW u \in Users, NEW realm \in Realms,
             OAuth!Callback(r, s, u, realm)
      PROVE  Goal
  <2>1. UNCHANGED <<row, issued, good>> /\ call[r] = None
    BY <1>2 DEF OAuth!Callback, OAuth!provider
  <2>2. CASE OAuth!Begin(r, "exchange", [OAuth!Request EXCEPT !.realm = realm])
    <3>. DEFINE what == [OAuth!Request EXCEPT !.realm = realm]
    <3>1. what \in Draft
      BY DEF OAuth!Request, Draft
    <3>. HIDE DEF what
    <3>2. OAuth!Begin(r, "exchange", what)
      BY <2>2 DEF what
    <3>3. call'[r].at = "exchange"
      BY <1>0, <3>1, <3>2, CallMoves DEF CallSteps
    <3>. QED
      BY <1>0, <1>1, <2>1, <3>3 DEF Matching, CallMatches, CallLasts
  <2>3. CASE UNCHANGED call
    BY <1>0, <1>1, <2>1, <2>3 DEF Matching
  <2>. QED
    BY <1>2, <2>2, <2>3 DEF OAuth!Callback
<1>3. CASE OAuth!ExchangeCode(r)
  <2>1. call[r] \in Call /\ call[r].realm \in Realms /\ call[r].at = "exchange" /\ UNCHANGED row
    BY <1>0, <1>3 DEF OAuth!ExchangeCode, OAuth!At, CallRows
  <2>2. OAuth!Issue(call[r].realm, {}) /\ OAuth!Begin(r, "store", [call[r] EXCEPT !.token = Len(issued')])
    BY <1>3 DEF OAuth!ExchangeCode
  <2>3. /\ Len(issued') = Len(issued) + 1 /\ Len(issued) \in Nat /\ Len(issued') \in good'
        /\ issued'[Len(issued')] = call[r].realm /\ \A i \in 1 .. Len(issued) : issued'[i] = issued[i]
    BY <1>0, <2>1, <2>2, IssueAdds
  <2>. DEFINE what == [call[r] EXCEPT !.token = Len(issued')]
  <2>4. what \in Draft /\ what.realm = call[r].realm /\ what.token = Len(issued')
    BY <2>1, <2>3 DEF Call, Draft
  <2>. HIDE DEF what
  <2>5. OAuth!Begin(r, "store", what)
    BY <2>2 DEF what
  <2>6. call'[r] # None /\ call'[r].at = "store" /\ call'[r].realm = call[r].realm /\ call'[r].token = Len(issued')
    BY <1>0, <2>4, <2>5, CallMoves DEF CallSteps
  <2>7. row' # None => issued'[row'.refresh] = row'.realm /\ row'.name \in {None, row'.realm}
    BY <1>0, <2>1, <2>3 DEF Matching, TokenRows
  <2>. QED
    BY <1>1, <2>3, <2>6, <2>7 DEF CallMatches, CallLasts
<1>4. CASE OAuth!StoreConnection(r)
  <2>1. /\ call[r] \in Call /\ call[r].realm \in Realms /\ call[r].at = "store" /\ call[r] # None
        /\ issued[call[r].token] = call[r].realm /\ call[r].token \in 1 .. Len(issued)
        /\ UNCHANGED <<issued, good>>
    BY <1>0, <1>4 DEF OAuth!StoreConnection, OAuth!At, OAuth!provider, CallRows, CallMatches
  <2>2. /\ row' \in Connected /\ row'.refresh = call[r].token /\ row'.realm = call[r].realm
        /\ row'.name \in {None, row'.realm}
    BY <1>0, <1>4, <2>1 DEF OAuth!StoreConnection, OAuth!Upserted, OAuth!Connection, Connected, TokenRows
  <2>3. row' # None
    BY <2>2 DEF OAuthConstants
  <2>4. Lasting => call[r].token \in good
    BY <1>0, <2>1 DEF CallLasts
  <2>5. CASE OAuth!Begin(r, "name", call[r])
    <3>1. call'[r].at = "name" /\ call'[r].realm = call[r].realm /\ call'[r].token = call[r].token
      BY <1>0, <2>1, <2>5, CallMoves DEF CallSteps, Call, Draft
    <3>. QED
      BY <1>1, <2>1, <2>2, <2>3, <2>4, <3>1 DEF CallMatches, CallLasts
  <2>6. CASE OAuth!Finish(r)
    <3>1. call'[r] = None
      BY <1>0, <2>6, CallEnds
    <3>. QED
      BY <1>1, <2>1, <2>2, <2>4, <3>1
  <2>. QED
    BY <1>4, <2>5, <2>6 DEF OAuth!StoreConnection
<1>5. CASE OAuth!NameCompany(r)
  <2>1. /\ call[r] # None /\ call[r].at = "name" /\ call[r].realm \in Realms
        /\ row # None /\ row \in Connected /\ row.realm = call[r].realm
        /\ UNCHANGED <<issued, good>> /\ call'[r] = None
    BY <1>0, <1>5, CallEnds DEF OAuth!NameCompany, OAuth!At, OAuth!provider, CallRows, CallMatches, TokenRows
  <2>2. row' = row \/ row' = [row EXCEPT !.name = call[r].realm]
    BY <1>5 DEF OAuth!NameCompany
  <2>3. /\ row'.refresh = row.refresh /\ row'.realm = row.realm /\ row'.name \in {row.name, row.realm}
    BY <2>1, <2>2 DEF Connected
  <2>4. Lasting => row.refresh \in good
    BY <1>0, <2>1 DEF CallLasts
  <2>. QED
    BY <1>1, <2>1, <2>3, <2>4 DEF Matching
<1>6. CASE OAuth!ReadForDisconnect(r) \/ OAuth!ReadForUse(r)
  <2>1. /\ row # None /\ row \in Connected /\ row.refresh \in Nat /\ call[r] = None
        /\ UNCHANGED <<row, issued, good>>
    BY <1>0, <1>6 DEF OAuth!ReadForDisconnect, OAuth!ReadForUse, OAuth!provider, TokenRows, Connected
  <2>. DEFINE what == [OAuth!Request EXCEPT !.token = row.refresh]
  <2>2. what \in Draft /\ what.token = row.refresh
    BY <2>1 DEF OAuth!Request, Draft
  <2>. HIDE DEF what
  <2>3. OAuth!Begin(r, "revoke", what) \/ OAuth!Begin(r, "refresh", what)
    BY <1>6 DEF OAuth!ReadForDisconnect, OAuth!ReadForUse, what
  <2>4. call'[r].at \in {"revoke", "refresh"} /\ call'[r].token = row.refresh
    BY <1>0, <2>2, <2>3, CallMoves DEF CallSteps
  <2>. QED
    BY <1>0, <1>1, <2>1, <2>4 DEF Matching, CallMatches, CallLasts
<1>7. CASE OAuth!Revoke(r)
  <2>1. call[r] \in Draft /\ OAuth!Begin(r, "delete", call[r]) /\ UNCHANGED <<row, issued>>
    BY <1>0, <1>7 DEF OAuth!Revoke, OAuth!At, Call, Draft
  <2>2. call'[r] # None /\ call'[r].at = "delete"
    BY <1>0, <2>1, CallMoves DEF CallSteps
  <2>. QED
    BY <1>1, <2>1, <2>2 DEF Matching, CallMatches, CallLasts
<1>8. CASE OAuth!DeleteConnection(r)
  <2>1. row' = None /\ call'[r] = None
    BY <1>0, <1>8, CallEnds DEF OAuth!DeleteConnection
  <2>. QED
    BY <1>1, <2>1
<1>9. CASE OAuth!Refresh(r)
  <2>1. /\ call[r] # None /\ call[r] \in Call /\ call[r].at = "refresh" /\ call[r].token \in 1 .. Len(issued)
        /\ row # None /\ row.refresh = call[r].token /\ UNCHANGED row
        /\ issued[call[r].token] \in Realms /\ issued[call[r].token] = row.realm
    BY <1>0, <1>9 DEF OAuth!Refresh, OAuth!At, CallRows, CallMatches, TokenRows, Matching
  <2>2. CASE call[r].token \in good
    <3>1. /\ OAuth!Issue(issued[call[r].token], {call[r].token})
          /\ OAuth!Begin(r, "rotate", [call[r] EXCEPT !.token = Len(issued')])
      BY <1>9, <2>2 DEF OAuth!Refresh
    <3>2. /\ Len(issued') = Len(issued) + 1 /\ Len(issued) \in Nat /\ Len(issued') \in good'
          /\ issued'[Len(issued')] = issued[call[r].token]
          /\ \A i \in 1 .. Len(issued) : issued'[i] = issued[i]
      BY <1>0, <2>1, <3>1, IssueAdds
    <3>. DEFINE what == [call[r] EXCEPT !.token = Len(issued')]
    <3>3. what \in Draft /\ what.token = Len(issued')
      BY <2>1, <3>2 DEF Call, Draft
    <3>. HIDE DEF what
    <3>4. OAuth!Begin(r, "rotate", what)
      BY <3>1 DEF what
    <3>5. call'[r] # None /\ call'[r].at = "rotate" /\ call'[r].token = Len(issued')
      BY <1>0, <3>3, <3>4, CallMoves DEF CallSteps
    <3>. QED
      BY <1>1, <2>1, <3>2, <3>5 DEF Matching, CallMatches, CallLasts
  <2>3. CASE call[r].token \notin good
    <3>1. UNCHANGED <<issued, good>> /\ call'[r] = None
      BY <1>0, <1>9, <2>3, CallEnds DEF OAuth!Refresh, OAuth!provider
    <3>2. ~Lasting
      BY <1>0, <2>1, <2>3 DEF CallLasts
    <3>. QED
      BY <1>1, <2>1, <3>1, <3>2 DEF Matching
  <2>. QED
    BY <2>2, <2>3
<1>10. CASE OAuth!StoreTokens(r)
  <2>1. /\ call[r] # None /\ call[r].at = "rotate" /\ call[r].token \in 1 .. Len(issued)
        /\ row # None /\ row \in Connected /\ issued[call[r].token] = row.realm
        /\ UNCHANGED <<issued, good>> /\ call'[r] = None
    BY <1>0, <1>10, CallEnds DEF OAuth!StoreTokens, OAuth!At, OAuth!provider, CallRows, CallMatches, TokenRows
  <2>2. row' = [row EXCEPT !.refresh = call[r].token, !.fresh = TRUE]
    BY <1>10, <2>1 DEF OAuth!StoreTokens, OAuth!Rotated
  <2>3. row'.refresh = call[r].token /\ row'.realm = row.realm /\ row'.name = row.name
    BY <2>1, <2>2 DEF Connected
  <2>4. Lasting => call[r].token \in good
    BY <1>0, <2>1 DEF CallLasts
  <2>. QED
    BY <1>1, <2>1, <2>3, <2>4 DEF Matching
<1>11. CASE OAuth!AnswerLost(r)
  <2>1. "lost" \in CallOps /\ UNCHANGED <<row, issued, good>> /\ call'[r] = None
    BY <1>0, <1>11, CallEnds DEF OAuth!AnswerLost, OAuth!provider
  <2>. QED
    BY <1>1, <2>1 DEF Matching
<1>. QED
  BY <1>2, <1>3, <1>4, <1>5, <1>6, <1>7, <1>8, <1>9, <1>10, <1>11 DEF OAuth!Step

LEMMA MatchKept ==
  ASSUME OAuthConstants, OneCall, OAuthShape, OAuthShape', Matching,
         OAuth!Next \/ UNCHANGED OAuth!vars
  PROVE  Matching' /\ ("lost" \notin CallOps /\ Lasting => Lasting')
<1>1. ASSUME UNCHANGED <<issued, good, call>>,
             row' = row \/ (row # None /\ row' = [row EXCEPT !.fresh = FALSE])
      PROVE  Matching' /\ (Lasting => Lasting')
  <2>1. /\ row' # None => row # None /\ row'.refresh = row.refresh /\ row'.realm = row.realm
                          /\ row'.name = row.name
        /\ row # None => row' # None
    BY <1>1 DEF OAuthShape, TokenRows, Connected, OAuthConstants
  <2>. QED
    BY <1>1, <2>1 DEF Matching, Lasting, CallMatches, CallLasts, OAuth!StaysConnected, OAuth!Quiet
<1>2. ASSUME NEW r \in Calls, OAuth!Step(r)
      PROVE  Matching' /\ ("lost" \notin CallOps /\ Lasting => Lasting')
  BY <1>2, CallKeepsMatch
<1>. QED
  BY <1>1, <1>2 DEF OAuth!Next, OAuth!Authorize, OAuth!LinkExpires, OAuth!AccessExpires,
    OAuth!provider, OAuth!vars

(* Any number of calls: a handshake is finished once, by who started it    *)
(* (handleCallback), and what is stored is what was issued.                *)
THEOREM HandshakesFinishOnce ==
  ASSUME OAuthConstants
  PROVE  OAuth!Spec => [](OAuth!TokensTypeOK /\ OAuth!LinkRedeemedOnce)
<1>1. OAuth!Init => OAuthShape
  BY OAuthInit
<1>2. OAuthShape /\ [OAuth!Next]_OAuth!vars => OAuthShape'
  BY OAuthShapeKept
<1>3. OAuthShape => OAuth!TokensTypeOK /\ OAuth!LinkRedeemedOnce
  <2>. SUFFICES ASSUME OAuthShape PROVE OAuth!TokensTypeOK /\ OAuth!LinkRedeemedOnce
    OBVIOUS
  <2>1. DOMAIN issued = 1 .. Len(issued) /\ DOMAIN started = 1 .. Len(started)
        /\ DOMAIN adopted = 1 .. Len(adopted)
    BY DEF OAuthShape, TokenRows, Handshakes
  <2>2. OAuth!TokensTypeOK
    BY <2>1 DEF OAuthShape, TokenRows, CallRows, Handshakes, OAuth!TokensTypeOK, Connected
  <2>3. OAuth!LinkRedeemedOnce
    BY <2>1 DEF OAuthShape, Handshakes, OAuth!LinkRedeemedOnce
  <2>. QED
    BY <2>2, <2>3
<1>. QED
  BY <1>1, <1>2, <1>3, PTL DEF OAuth!Spec

(* Calls that follow one another, whatever answers are lost: the tokens    *)
(* and the name stored are those of the company stored with them.          *)
THEOREM TokensAreTheCompanys ==
  ASSUME OAuthConstants, OneCall
  PROVE  OAuth!Spec => [](OAuth!TokenMatchesRealm /\ OAuth!NameMatchesRealm)
<1>1. OAuth!Init => OAuthShape /\ Matching
  BY OAuthInit
<1>2. OAuthShape /\ Matching /\ [OAuth!Next]_OAuth!vars => (OAuthShape /\ Matching)'
  BY OAuthShapeKept, MatchKept
<1>3. Matching => OAuth!TokenMatchesRealm /\ OAuth!NameMatchesRealm
  BY DEF Matching, OAuth!TokenMatchesRealm, OAuth!NameMatchesRealm
<1>. QED
  BY <1>1, <1>2, <1>3, PTL DEF OAuth!Spec

(* While one handshake is all that was started, there is one company, and  *)
(* nothing before a callback has taken the handshake up.                   *)
Companys(q) ==
  /\ row # None => row.realm = q /\ row.name \in {None, q}
  /\ \A i \in 1 .. Len(issued) : issued[i] = q
  /\ \A r \in Calls : call[r] # None /\ call[r].at \in {"exchange", "store", "name"} => call[r].realm = q

NothingYet == adopted = << >> =>
  /\ row = None /\ Len(issued) = 0 /\ \A r \in Calls : call[r] = None

OneCompany == Len(started) <= 1 /\ NothingYet /\ \E q : Companys(q)

LEMMA CompanyStep ==
  ASSUME OAuthConstants, MaxStarted = 1, OAuthShape, OneCompany, NEW r \in Calls, OAuth!Step(r)
  PROVE  OneCompany'
<1>0. /\ TokenRows /\ CallRows /\ Handshakes /\ Len(issued) \in Nat
      /\ call[r] # None => call[r] \in Call
  BY DEF OAuthShape, TokenRows, CallRows
<1>q. PICK q : Companys(q)
  BY DEF OneCompany
(* A handshake that is still waiting is the first to be taken up.          *)
<1>1. ASSUME NEW s \in 1 .. MaxStarted, NEW u \in Users, NEW realm \in Realms,
             OAuth!Callback(r, s, u, realm)
      PROVE  OneCompany'
  <2>1. UNCHANGED <<row, started, issued>>
    BY <1>1 DEF OAuth!Callback, OAuth!provider
  <2>2. CASE OAuth!Honoured(s, u)
    <3>1. s = 1 /\ s \in pending
      BY <2>2 DEF OAuth!Honoured
    <3>2. Len(adopted) = 0
      <4>. SUFFICES ASSUME Len(adopted) # 0 PROVE FALSE
        OBVIOUS
      <4>1. 1 \in 1 .. Len(adopted) /\ Len(started) \in Nat
        BY <1>0 DEF Handshakes
      <4>2. adopted[1].state \in (1 .. Len(started)) \ pending
        BY <1>0, <4>1 DEF Handshakes
      <4>. QED
        BY <3>1, <4>1, <4>2 DEF OneCompany
    <3>3. adopted = << >>
      BY <1>0, <3>2 DEF Handshakes
    <3>4. row = None /\ Len(issued) = 0 /\ \A o \in Calls : call[o] = None
      BY <3>3 DEF OneCompany, NothingYet
    <3>5. /\ adopted' = Append(adopted, [state |-> s, by |-> u])
          /\ OAuth!Begin(r, "exchange", [OAuth!Request EXCEPT !.realm = realm])
      BY <1>1, <2>2 DEF OAuth!Callback
    <3>6. adopted' # << >>
      BY <1>0, <3>5 DEF Handshakes
    <3>. DEFINE what == [OAuth!Request EXCEPT !.realm = realm]
    <3>7. what \in Draft /\ what.realm = realm
      BY DEF OAuth!Request, Draft
    <3>. HIDE DEF what
    <3>8. OAuth!Begin(r, "exchange", what)
      BY <3>5 DEF what
    <3>9. call'[r].realm = realm /\ \A o \in Calls \ {r} : call'[o] = None
      BY <1>0, <3>4, <3>7, <3>8, CallMoves DEF CallSteps
    <3>10. Companys(realm)'
      BY <2>1, <3>4, <3>9 DEF Companys
    <3>. QED
      BY <2>1, <3>6, <3>10 DEF OneCompany, NothingYet
  <2>3. CASE ~OAuth!Honoured(s, u)
    <3>1. UNCHANGED <<adopted, call>>
      BY <1>1, <2>3 DEF OAuth!Callback
    <3>. QED
      BY <2>1, <3>1 DEF OneCompany, NothingYet, Companys
  <2>. QED
    BY <2>2, <2>3
(* Whatever else a call does, it was begun after that, and passes its      *)
(* company on.                                                             *)
<1>2. ASSUME UNCHANGED OAuth!links, call[r] # None \/ row # None, Companys(q)' PROVE OneCompany'
  <2>1. adopted # << >>
    BY <1>2 DEF OneCompany, NothingYet
  <2>. QED
    BY <1>2, <2>1 DEF OAuth!links, OneCompany, NothingYet
<1>3. ASSUME \A i \in 1 .. Len(issued') : issued'[i] = q,
             row' # None => row'.realm = q /\ row'.name \in {None, q},
             NEW step \in CallSteps, NEW what \in Draft,
             OAuth!Begin(r, step, what), step \in {"exchange", "store", "name"} => what.realm = q
      PROVE  Companys(q)'
  <2>1. /\ call'[r].at = step /\ call'[r].realm = what.realm
        /\ \A o \in Calls \ {r} : call'[o] = call[o]
    BY <1>0, <1>3, CallMoves
  <2>. QED
    BY <1>q, <1>3, <2>1 DEF Companys
<1>4. ASSUME UNCHANGED issued, OAuth!Finish(r),
             row' # None => row'.realm = q /\ row'.name \in {None, q}
      PROVE  Companys(q)'
  <2>1. call'[r] = None /\ \A o \in Calls \ {r} : call'[o] = call[o]
    BY <1>0, <1>4, CallEnds
  <2>. QED
    BY <1>q, <1>4, <2>1 DEF Companys
<1>5. /\ \A i \in 1 .. Len(issued) : issued[i] = q
      /\ row # None => row.realm = q /\ row.name \in {None, q}
      /\ Call \subseteq Draft
  BY <1>q DEF Companys, Call, Draft
<1>6. ASSUME OAuth!ExchangeCode(r) PROVE OneCompany'
  <2>1. /\ call[r] # None /\ call[r] \in Call /\ call[r].at = "exchange" /\ call[r].realm \in Realms
        /\ UNCHANGED <<row, OAuth!links>>
    BY <1>0, <1>6 DEF OAuth!ExchangeCode, OAuth!At, CallRows
  <2>2. call[r].realm = q
    BY <1>q, <2>1 DEF Companys
  <2>3. OAuth!Issue(call[r].realm, {}) /\ OAuth!Begin(r, "store", [call[r] EXCEPT !.token = Len(issued')])
    BY <1>6 DEF OAuth!ExchangeCode
  <2>4. /\ Len(issued') = Len(issued) + 1 /\ issued'[Len(issued')] = q
        /\ \A i \in 1 .. Len(issued) : issued'[i] = issued[i]
    BY <1>0, <2>1, <2>2, <2>3, IssueAdds
  <2>5. \A i \in 1 .. Len(issued') : issued'[i] = q
    BY <1>0, <1>5, <2>4
  <2>. DEFINE what == [call[r] EXCEPT !.token = Len(issued')]
  <2>6. what \in Draft /\ what.realm = q
    BY <1>0, <2>1, <2>2, <2>4 DEF Call, Draft
  <2>. HIDE DEF what
  <2>7. OAuth!Begin(r, "store", what)
    BY <2>3 DEF what
  <2>8. Companys(q)'
    BY <1>3, <1>5, <2>1, <2>5, <2>6, <2>7 DEF CallSteps
  <2>. QED
    BY <1>2, <2>1, <2>8
<1>7. ASSUME OAuth!StoreConnection(r) PROVE OneCompany'
  <2>1. /\ call[r] # None /\ call[r] \in Call /\ call[r].at = "store" /\ UNCHANGED <<issued, OAuth!links>>
    BY <1>0, <1>7 DEF OAuth!StoreConnection, OAuth!At, OAuth!provider
  <2>2. call[r].realm = q
    BY <1>q, <2>1 DEF Companys
  <2>3. row'.realm = q /\ row'.name \in {None, q}
    BY <1>7, <2>2 DEF OAuth!StoreConnection, OAuth!Upserted, OAuth!Connection
  <2>4. OAuth!Begin(r, "name", call[r]) \/ OAuth!Finish(r)
    BY <1>7 DEF OAuth!StoreConnection
  <2>5. Companys(q)'
    BY <1>3, <1>4, <1>5, <2>1, <2>2, <2>3, <2>4 DEF CallSteps
  <2>. QED
    BY <1>2, <2>1, <2>5
<1>8. ASSUME OAuth!NameCompany(r) PROVE OneCompany'
  <2>1. /\ call[r] # None /\ call[r].at = "name" /\ UNCHANGED <<issued, OAuth!links>> /\ OAuth!Finish(r)
    BY <1>8 DEF OAuth!NameCompany, OAuth!At, OAuth!provider
  <2>2. call[r].realm = q
    BY <1>q, <2>1 DEF Companys
  <2>3. row' = row \/ (row # None /\ row' = [row EXCEPT !.name = q])
    BY <1>8, <2>2 DEF OAuth!NameCompany
  <2>4. row' # None => row'.realm = q /\ row'.name \in {None, q}
    BY <1>0, <1>5, <2>3 DEF TokenRows, Connected
  <2>5. Companys(q)'
    BY <1>4, <2>1, <2>4
  <2>. QED
    BY <1>2, <2>1, <2>5
<1>9. ASSUME OAuth!ReadForDisconnect(r) \/ OAuth!ReadForUse(r) PROVE OneCompany'
  <2>1. /\ row # None /\ row.refresh \in Nat /\ UNCHANGED <<row, issued, OAuth!links>>
    BY <1>0, <1>9 DEF OAuth!ReadForDisconnect, OAuth!ReadForUse, OAuth!provider, TokenRows, Connected
  <2>. DEFINE what == [OAuth!Request EXCEPT !.token = row.refresh]
  <2>2. what \in Draft
    BY <2>1 DEF OAuth!Request, Draft
  <2>. HIDE DEF what
  <2>3. OAuth!Begin(r, "revoke", what) \/ OAuth!Begin(r, "refresh", what)
    BY <1>9 DEF OAuth!ReadForDisconnect, OAuth!ReadForUse, what
  <2>4. Companys(q)'
    BY <1>3, <1>5, <2>1, <2>2, <2>3 DEF CallSteps
  <2>. QED
    BY <1>2, <2>1, <2>4
<1>10. ASSUME OAuth!Revoke(r) PROVE OneCompany'
  <2>1. /\ call[r] # None /\ call[r] \in Call /\ UNCHANGED <<row, issued, OAuth!links>>
        /\ OAuth!Begin(r, "delete", call[r])
    BY <1>0, <1>10 DEF OAuth!Revoke, OAuth!At
  <2>2. Companys(q)'
    BY <1>3, <1>5, <2>1 DEF CallSteps
  <2>. QED
    BY <1>2, <2>1, <2>2
<1>11. ASSUME OAuth!Refresh(r) PROVE OneCompany'
  <2>1. /\ call[r] # None /\ call[r] \in Call /\ call[r].at = "refresh" /\ call[r].token \in 1 .. Len(issued)
        /\ UNCHANGED <<row, OAuth!links>> /\ issued[call[r].token] \in Realms
    BY <1>0, <1>11 DEF OAuth!Refresh, OAuth!At, CallRows, TokenRows
  <2>2. CASE call[r].token \in good
    <3>1. /\ OAuth!Issue(issued[call[r].token], {call[r].token})
          /\ OAuth!Begin(r, "rotate", [call[r] EXCEPT !.token = Len(issued')])
      BY <1>11, <2>2 DEF OAuth!Refresh
    <3>2. /\ Len(issued') = Len(issued) + 1 /\ issued'[Len(issued')] = q
          /\ \A i \in 1 .. Len(issued) : issued'[i] = issued[i]
      BY <1>0, <1>5, <2>1, <3>1, IssueAdds
    <3>3. \A i \in 1 .. Len(issued') : issued'[i] = q
      BY <1>0, <1>5, <3>2
    <3>. DEFINE what == [call[r] EXCEPT !.token = Len(issued')]
    <3>4. what \in Draft
      BY <1>0, <2>1, <3>2 DEF Call, Draft
    <3>. HIDE DEF what
    <3>5. OAuth!Begin(r, "rotate", what)
      BY <3>1 DEF what
    <3>6. Companys(q)'
      BY <1>3, <1>5, <2>1, <3>3, <3>4, <3>5 DEF CallSteps
    <3>. QED
      BY <1>2, <2>1, <3>6
  <2>3. CASE call[r].token \notin good
    <3>1. OAuth!Finish(r) /\ UNCHANGED issued
      BY <1>11, <2>3 DEF OAuth!Refresh, OAuth!provider
    <3>2. Companys(q)'
      BY <1>4, <1>5, <2>1, <3>1
    <3>. QED
      BY <1>2, <2>1, <3>2
  <2>. QED
    BY <2>2, <2>3
<1>12. ASSUME OAuth!StoreTokens(r) PROVE OneCompany'
  <2>1. /\ call[r] # None /\ UNCHANGED <<issued, OAuth!links>> /\ OAuth!Finish(r)
    BY <1>12 DEF OAuth!StoreTokens, OAuth!At, OAuth!provider
  <2>2. row' = IF row = None THEN None ELSE [row EXCEPT !.refresh = call[r].token, !.fresh = TRUE]
    BY <1>12 DEF OAuth!StoreTokens, OAuth!Rotated
  <2>3. row' # None => row'.realm = q /\ row'.name \in {None, q}
    BY <1>0, <1>5, <2>2 DEF TokenRows, Connected
  <2>4. Companys(q)'
    BY <1>4, <2>1, <2>3
  <2>. QED
    BY <1>2, <2>1, <2>4
<1>13. ASSUME OAuth!DeleteConnection(r) \/ OAuth!AnswerLost(r) PROVE OneCompany'
  <2>1. /\ call[r] # None /\ UNCHANGED <<issued, OAuth!links>> /\ OAuth!Finish(r) /\ row' \in {row, None}
    BY <1>13 DEF OAuth!DeleteConnection, OAuth!AnswerLost, OAuth!At, OAuth!provider
  <2>2. Companys(q)'
    BY <1>4, <1>5, <2>1
  <2>. QED
    BY <1>2, <2>1, <2>2
<1>. QED
  BY <1>1, <1>6, <1>7, <1>8, <1>9, <1>10, <1>11, <1>12, <1>13 DEF OAuth!Step

(* Of one handshake, whatever calls cross and whatever answers are lost:   *)
(* what is stored is the company's that it connected.                      *)
THEOREM OneHandshakeOneCompany ==
  ASSUME OAuthConstants, MaxStarted = 1
  PROVE  OAuth!Spec => [](OAuth!TokenMatchesRealm /\ OAuth!NameMatchesRealm)
<1>1. OAuth!Init => OAuthShape /\ OneCompany
  <2>. SUFFICES ASSUME OAuth!Init PROVE OneCompany
    BY OAuthInit
  <2>1. Companys(None)
    BY DEF OAuth!Init, Companys
  <2>. QED
    BY <2>1 DEF OAuth!Init, OneCompany, NothingYet
<1>2. OAuthShape /\ OneCompany /\ [OAuth!Next]_(OAuth!vars) => (OAuthShape /\ OneCompany)'
  <2>. SUFFICES ASSUME OAuthShape, OneCompany, [OAuth!Next]_(OAuth!vars) PROVE OneCompany'
    BY OAuthShapeKept
  <2>1. ASSUME NEW r \in Calls, OAuth!Step(r) PROVE OneCompany'
    BY <2>1, CompanyStep
  <2>2. ASSUME UNCHANGED <<started, adopted, issued, call>>,
               row' = row \/ (row # None /\ row' = [row EXCEPT !.fresh = FALSE])
        PROVE  OneCompany'
    <3>1. /\ row' # None => row # None /\ row'.realm = row.realm /\ row'.name = row.name
          /\ row = None => row' = None
      BY <2>2 DEF OAuthShape, TokenRows, Connected
    <3>2. PICK q : Companys(q)
      BY DEF OneCompany
    <3>3. Companys(q)'
      BY <2>2, <3>1, <3>2 DEF Companys
    <3>. QED
      BY <2>2, <3>1, <3>3 DEF OneCompany, NothingYet
  <2>3. ASSUME NEW u \in Users, OAuth!Authorize(u) PROVE OneCompany'
    <3>1. /\ Len(started) < 1 /\ Len(started) \in Nat /\ started' = Append(started, u)
          /\ started \in Seq(Users) /\ UNCHANGED <<row, adopted, issued, call>>
      BY <2>3 DEF OAuth!Authorize, OAuth!provider, OAuthShape, Handshakes
    <3>2. Len(started') <= 1
      BY <3>1
    <3>3. PICK q : Companys(q)
      BY DEF OneCompany
    <3>4. Companys(q)'
      BY <3>1, <3>3 DEF Companys
    <3>. QED
      BY <3>1, <3>2, <3>4 DEF OneCompany, NothingYet
  <2>. QED
    BY <2>1, <2>2, <2>3 DEF OAuth!Next, OAuth!LinkExpires, OAuth!AccessExpires, OAuth!provider, OAuth!links,
         OAuth!vars
<1>3. OAuthShape /\ OneCompany => OAuth!TokenMatchesRealm /\ OAuth!NameMatchesRealm
  BY DEF OAuthShape, TokenRows, OneCompany, Companys, OAuth!TokenMatchesRealm, OAuth!NameMatchesRealm
<1>. QED
  BY <1>1, <1>2, <1>3, PTL DEF OAuth!Spec

(* And with every answer that of its call, a connection at rest can be     *)
(* refreshed again (ensureFreshToken keeps the token it was given).        *)
THEOREM ConnectionAlwaysHolds ==
  ASSUME OAuthConstants, OneCall, "lost" \notin CallOps
  PROVE  OAuth!Spec => []OAuth!ConnectionHolds
<1>. DEFINE Inv == OAuthShape /\ Matching /\ Lasting
<1>1. OAuth!Init => Inv
  BY OAuthInit
<1>2. Inv /\ [OAuth!Next]_OAuth!vars => Inv'
  BY OAuthShapeKept, MatchKept
<1>3. Matching /\ Lasting =>
        OAuth!TokenMatchesRealm /\ OAuth!NameMatchesRealm /\ OAuth!StaysConnected
  BY DEF Matching, Lasting, OAuth!TokenMatchesRealm, OAuth!NameMatchesRealm
<1>4. OAuth!Spec => []OAuth!LinkRedeemedOnce
  BY HandshakesFinishOnce, PTL
<1>5. OAuth!Spec => [](Matching /\ Lasting)
  BY <1>1, <1>2, PTL DEF OAuth!Spec
<1>. QED
  BY <1>3, <1>4, <1>5, PTL DEF OAuth!ConnectionHolds

-----------------------------------------------------------------------------
(* MailAccounts                                                            *)
CONSTANTS Writes, WriteOps, Accounts, MaxPasswords, MaxWrites

VARIABLES rows, cache, version, transport, write

OneWrite == \A r, s \in Writes : r = s

Mail == INSTANCE MailAccounts WITH
  Reqs <- Writes, Ops <- WriteOps, MaxSecrets <- MaxPasswords, req <- write

Box == [active : BOOLEAN, secret : 1 .. MaxPasswords]
Tables == UNION {[D -> Box] : D \in SUBSET Accounts}
MailSteps == {"insert", "activate", "delete", "reload", "bump"}
MailCall == [at : MailSteps, id : Accounts, seen : SUBSET Accounts, read : Tables \cup {<< >>}]
MailDraft == [at : MailSteps \cup {None}, id : Accounts, seen : SUBSET Accounts,
              read : Tables \cup {<< >>}]

(* A mailbox has a password, and None is no call.                          *)
MailConstants == MaxPasswords \in Nat \ {0} /\ None \notin MailCall

(* The tables, the calls, and the transport kept: while no write has been  *)
(* noted since it was built, it is that of a mailbox of the cache.         *)
MailRows ==
  /\ rows \in Tables /\ IsFiniteSet(DOMAIN rows)
  /\ cache \in Tables /\ version \in Nat
  /\ write \in [Writes -> MailCall \cup {None}]
  /\ \A r \in Writes : write[r] # None /\ write[r].at = "bump" => write[r].read \in Tables

Transported ==
  transport # None =>
    /\ transport.account \in Accounts /\ \E v \in 0 .. version : transport.key = <<transport.account, v>>
    /\ transport.key = <<transport.account, version>> =>
         transport.account \in DOMAIN cache /\ transport.secret = cache[transport.account].secret

MailShape == MailRows /\ Transported

(* One mailbox of the table sends, if it has any.                          *)
Sole(table) == DOMAIN table # {} =>
  \E a \in DOMAIN table : table[a].active /\ \A b \in DOMAIN table : table[b].active => b = a

(* One call at a time: what it read is what is stored, and the cache is    *)
(* behind only between a write and its bump.                               *)
MailCallFits(r) ==
  /\ write[r].at \in {"insert", "activate", "delete"} => cache = rows
  /\ write[r].at = "insert" => write[r].seen = DOMAIN rows /\ write[r].id \notin DOMAIN rows
  /\ write[r].at = "activate" => write[r].seen = Mail!Active(rows)
  /\ write[r].at = "delete" => write[r].id \in DOMAIN rows /\ (rows[write[r].id].active => DOMAIN rows = {write[r].id})
  /\ write[r].at = "bump" => write[r].read = rows

MailFits ==
  /\ Sole(rows)
  /\ Mail!CacheIsCurrent
  /\ \A r \in Writes : write[r] # None => MailCallFits(r)

-----------------------------------------------------------------------------
LEMMA TableIs ==
  \A t : t \in Tables <=> DOMAIN t \subseteq Accounts /\ t \in [DOMAIN t -> Box]
BY DEF Tables

(* MailAccounts counts as this module does.                                *)
LEMMA MailCardinality == \A S : Mail!Cardinality(S) = Cardinality(S)
BY DEF Mail!Cardinality, Cardinality, Mail!IsFiniteSet, IsFiniteSet

LEMMA MailInit == ASSUME MailConstants PROVE Mail!Init => MailShape /\ MailFits
<1>. SUFFICES ASSUME Mail!Init PROVE MailShape /\ MailFits
  OBVIOUS
<1>1. DOMAIN Mail!NoRows = {} /\ Mail!NoRows \in Tables
  BY DEF Mail!NoRows, Tables
<1>2. MailRows /\ Transported
  BY <1>1, FS_EmptySet DEF Mail!Init, MailRows, Transported
<1>3. MailFits
  BY <1>1 DEF Mail!Init, MailFits, Sole, Mail!CacheIsCurrent
<1>. QED
  BY <1>2, <1>3 DEF MailShape

LEMMA MailMoves ==
  ASSUME MailConstants, MailRows, NEW r \in Writes, NEW step \in MailSteps, NEW what \in MailDraft,
         Mail!Begin(r, step, what)
  PROVE  /\ write' \in [Writes -> MailCall \cup {None}]
         /\ write'[r] # None
         /\ write'[r].at = step /\ write'[r].id = what.id /\ write'[r].seen = what.seen
         /\ write'[r].read = what.read
         /\ \A s \in Writes \ {r} : write'[s] = write[s]
<1>. DEFINE begun == [at |-> step, id |-> what.id, seen |-> what.seen, read |-> what.read]
<1>1. [what EXCEPT !.at = step] = begun
  BY DEF MailDraft
<1>2. begun \in MailCall
  BY DEF MailCall, MailDraft
<1>3. write' = [write EXCEPT ![r] = begun]
  BY <1>1 DEF Mail!Begin
<1>. QED
  BY <1>2, <1>3 DEF MailRows, MailConstants

LEMMA MailEnds ==
  ASSUME MailRows, NEW r \in Writes, Mail!Finish(r)
  PROVE  /\ write' \in [Writes -> MailCall \cup {None}]
         /\ write'[r] = None
         /\ \A s \in Writes \ {r} : write'[s] = write[s]
BY DEF MailRows, Mail!Finish

(* What a call is begun with: the mailbox it is about and what it saw.     *)
LEMMA MailRequest ==
  ASSUME NEW a \in Accounts, NEW seen \in SUBSET Accounts,
         NEW what, what = [Mail!Request(a) EXCEPT !.seen = seen] \/ (seen = {} /\ what = Mail!Request(a))
  PROVE  what \in MailDraft /\ what.id = a /\ what.seen = seen
BY DEF Mail!Request, MailDraft

(* The step that is left of a call, once its write and its next request    *)
(* are known: whatever else is in flight stays as it is.                   *)
LEMMA MailSettles ==
  ASSUME MailShape, NEW r \in Writes,
         rows' \in Tables, IsFiniteSet(DOMAIN rows'), UNCHANGED <<cache, version, transport>>,
         write' \in [Writes -> MailCall \cup {None}], \A s \in Writes \ {r} : write'[s] = write[s],
         write'[r] # None /\ write'[r].at = "bump" => write'[r].read \in Tables
  PROVE  MailShape'
<1>1. Transported'
  BY DEF MailShape, Transported
<1>2. MailRows'
  BY DEF MailShape, MailRows
<1>. QED
  BY <1>1, <1>2 DEF MailShape

LEMMA MailFitsNext ==
  ASSUME OneWrite, NEW r \in Writes, Sole(rows'),
         write'[r] = None => cache' = rows', write'[r] # None => MailCallFits(r)'
  PROVE  MailFits'
BY DEF OneWrite, MailFits, Mail!CacheIsCurrent, Mail!Quiet

(* A call that reads: nothing is written yet.                              *)
LEMMA MailReads ==
  ASSUME MailConstants, MailShape, NEW r \in Writes,
         \E a \in Accounts : Mail!CountRows(r, a) \/ Mail!StartActivate(r, a) \/ Mail!StartRemove(r, a)
  PROVE  MailShape' /\ (OneWrite /\ MailFits => MailFits')
<1>1. PICK a \in Accounts :
        Mail!CountRows(r, a) \/ Mail!StartActivate(r, a) \/ Mail!StartRemove(r, a)
  OBVIOUS
<1>2. /\ MailRows /\ rows \in Tables /\ cache \in Tables
      /\ UNCHANGED <<rows, cache, version, transport>> /\ write[r] = None
  BY <1>1 DEF Mail!CountRows, Mail!StartActivate, Mail!StartRemove, Mail!Free, MailShape, MailRows
<1>3. DOMAIN rows \subseteq Accounts /\ Mail!Active(rows) \subseteq Accounts
  BY <1>2, TableIs DEF Mail!Active
<1>4. OneWrite /\ MailFits => cache = rows /\ Sole(rows)
  BY <1>2 DEF OneWrite, MailFits, Mail!CacheIsCurrent, Mail!Quiet
<1>5. ASSUME NEW step \in {"insert", "activate", "delete"}, NEW seen \in SUBSET Accounts,
             NEW what, what = [Mail!Request(a) EXCEPT !.seen = seen] \/ (seen = {} /\ what = Mail!Request(a)),
             Mail!Begin(r, step, what),
             OneWrite /\ MailFits =>
               /\ step = "insert" => seen = DOMAIN rows /\ a \notin DOMAIN rows
               /\ step = "activate" => seen = Mail!Active(rows)
               /\ step = "delete" => a \in DOMAIN rows /\ (rows[a].active => DOMAIN rows = {a})
      PROVE  MailShape' /\ (OneWrite /\ MailFits => MailFits')
  <2>1. what \in MailDraft /\ what.id = a /\ what.seen = seen
    BY <1>5, MailRequest
  <2>2. /\ write' \in [Writes -> MailCall \cup {None}] /\ write'[r] # None
        /\ write'[r].at = step /\ write'[r].id = a /\ write'[r].seen = seen
        /\ \A s \in Writes \ {r} : write'[s] = write[s]
    BY <1>2, <1>5, <2>1, MailMoves DEF MailSteps
  <2>3. MailShape'
    BY <1>2, <2>2, MailSettles DEF MailRows
  <2>4. ASSUME OneWrite, MailFits PROVE MailFits'
    <3>1. MailCallFits(r)'
      BY <1>2, <1>4, <1>5, <2>2, <2>4 DEF MailCallFits, Mail!Active
    <3>2. Sole(rows')
      BY <1>2, <1>4, <2>4
    <3>. QED
      BY <2>2, <2>4, <3>1, <3>2, MailFitsNext
  <2>. QED
    BY <2>3, <2>4
<1>6. CASE Mail!CountRows(r, a)
  BY <1>2, <1>3, <1>5, <1>6 DEF Mail!CountRows
<1>7. CASE Mail!StartActivate(r, a)
  BY <1>2, <1>3, <1>5, <1>7 DEF Mail!StartActivate
<1>8. CASE Mail!StartRemove(r, a)
  <2>1. Mail!Begin(r, "delete", Mail!Request(a)) /\ Mail!Removable(a)
    BY <1>8 DEF Mail!StartRemove
  <2>2. ASSUME OneWrite, MailFits PROVE a \in DOMAIN rows /\ (rows[a].active => DOMAIN rows = {a})
    <3>1. cache = rows /\ a \in DOMAIN rows /\ IsFiniteSet(DOMAIN rows)
      BY <1>2, <1>4, <2>1, <2>2 DEF Mail!Removable, MailRows
    <3>2. ASSUME rows[a].active PROVE DOMAIN rows = {a}
      <4>1. rows[a].active = TRUE
        BY <1>2, <3>1, <3>2, TableIs DEF Box
      <4>2. Cardinality(DOMAIN rows) \in Nat
        BY <3>1, FS_CardinalityType
      <4>3. ~(Cardinality(DOMAIN rows) > 1)
        BY <2>1, <3>1, <4>1, <4>2, MailCardinality DEF Mail!Removable
      <4>4. ASSUME NEW b \in DOMAIN rows, b # a PROVE FALSE
        <5>1. {a, b} \subseteq DOMAIN rows /\ IsFiniteSet({a, b})
          BY <3>1, <3>2, <4>4, FS_Subset
        <5>2. Cardinality({a, b}) = 2
          <6>1. IsFiniteSet({a}) /\ Cardinality({a}) = 1
            BY FS_Singleton
          <6>2. {a} \cup {b} = {a, b} /\ b \notin {a}
            BY <4>4
          <6>. QED
            BY <6>1, <6>2, FS_AddElement
        <5>3. Cardinality({a, b}) <= Cardinality(DOMAIN rows)
          BY <3>1, <5>1, FS_Subset
        <5>. QED
          BY <4>3, <4>2, <5>2, <5>3
      <4>. QED
        BY <3>1, <4>4
    <3>. QED
      BY <3>1, <3>2
  <2>. QED
    BY <1>5, <2>1, <2>2
<1>. QED
  BY <1>1, <1>6, <1>7, <1>8

(* A call that writes: one mailbox is entered, edited, chosen or removed.  *)
LEMMA MailWrites ==
  ASSUME MailConstants, MailShape, NEW r \in Writes,
         \/ Mail!Insert(r) \/ Mail!Activate(r) \/ Mail!Delete(r)
         \/ \E a \in Accounts : Mail!Edit(r, a)
  PROVE  MailShape' /\ (OneWrite /\ MailFits => MailFits')
<1>0. /\ MailRows /\ rows \in Tables /\ DOMAIN rows \subseteq Accounts /\ rows \in [DOMAIN rows -> Box]
      /\ IsFiniteSet(DOMAIN rows)
      /\ write[r] # None => write[r] \in MailCall /\ write[r] \in MailDraft
  BY TableIs DEF MailShape, MailRows, MailCall, MailDraft
<1>1. ASSUME rows' \in Tables, IsFiniteSet(DOMAIN rows'), UNCHANGED <<cache, version, transport>>,
             \/ Mail!Finish(r) /\ UNCHANGED rows /\ write[r] # None /\ (MailCallFits(r) => cache = rows)
             \/ \E what \in MailDraft : Mail!Begin(r, "reload", what),
             OneWrite /\ MailFits => Sole(rows')
      PROVE  MailShape' /\ (OneWrite /\ MailFits => MailFits')
  <2>1. CASE \E what \in MailDraft : Mail!Begin(r, "reload", what)
    <3>1. /\ write' \in [Writes -> MailCall \cup {None}] /\ write'[r] # None /\ write'[r].at = "reload"
          /\ \A s \in Writes \ {r} : write'[s] = write[s]
      BY <1>0, <2>1, MailMoves DEF MailSteps
    <3>2. MailCallFits(r)'
      BY <3>1 DEF MailCallFits
    <3>. QED
      BY <1>1, <3>1, <3>2, MailSettles, MailFitsNext
  <2>2. CASE Mail!Finish(r) /\ UNCHANGED rows /\ write[r] # None /\ (MailCallFits(r) => cache = rows)
    <3>1. /\ write' \in [Writes -> MailCall \cup {None}] /\ write'[r] = None
          /\ \A s \in Writes \ {r} : write'[s] = write[s]
      BY <1>0, <2>2, MailEnds
    <3>2. OneWrite /\ MailFits => cache' = rows'
      BY <1>1, <2>2 DEF MailFits
    <3>. QED
      BY <1>1, <3>1, <3>2, MailSettles, MailFitsNext
  <2>. QED
    BY <1>1, <2>1, <2>2
<1>2. CASE Mail!Insert(r)
  <2>1. /\ write[r] # None /\ write[r].at = "insert" /\ write[r].id \in Accounts
        /\ Mail!Begin(r, "reload", write[r]) /\ UNCHANGED <<cache, version, transport>>
    BY <1>0, <1>2 DEF Mail!Insert, Mail!At, MailCall
  <2>. DEFINE a == write[r].id
              new == [active |-> write[r].seen = {}, secret |-> 1]
  <2>2. new \in Box
    BY DEF Box, MailConstants
  <2>3. rows' = [b \in DOMAIN rows \cup {a} |-> IF b = a THEN new ELSE rows[b]]
    BY <1>2 DEF Mail!Insert
  <2>4. rows' \in Tables /\ DOMAIN rows' = DOMAIN rows \cup {a}
    BY <1>0, <2>1, <2>2, <2>3, TableIs
  <2>5. IsFiniteSet(DOMAIN rows')
    BY <1>0, <2>4, FS_AddElement
  <2>6. ASSUME OneWrite, MailFits PROVE Sole(rows')
    <3>1. write[r].seen = DOMAIN rows /\ a \notin DOMAIN rows /\ Sole(rows)
      BY <2>1, <2>6 DEF MailFits, MailCallFits
    <3>2. rows'[a] = new /\ \A b \in DOMAIN rows : rows'[b] = rows[b]
      BY <2>3, <3>1
    <3>3. CASE DOMAIN rows = {}
      <4>1. new.active = TRUE
        BY <3>1, <3>3
      <4>2. DOMAIN rows' = {a} /\ rows'[a].active
        BY <2>4, <3>2, <3>3, <4>1
      <4>. QED
        BY <4>2 DEF Sole
    <3>4. CASE DOMAIN rows # {}
      <4>1. new.active = FALSE
        BY <3>1, <3>4
      <4>. QED
        BY <2>4, <3>1, <3>2, <3>4, <4>1 DEF Sole
    <3>. QED
      BY <3>3, <3>4
  <2>. QED
    BY <1>0, <1>1, <2>1, <2>4, <2>5, <2>6
<1>3. ASSUME NEW a \in Accounts, Mail!Edit(r, a) PROVE MailShape' /\ (OneWrite /\ MailFits => MailFits')
  <2>1. /\ a \in DOMAIN rows /\ rows[a].secret < MaxPasswords
        /\ rows' = [rows EXCEPT ![a].secret = @ + 1]
        /\ Mail!Begin(r, "reload", Mail!Request(a)) /\ UNCHANGED <<cache, version, transport>>
    BY <1>3 DEF Mail!Edit
  <2>2. Mail!Request(a) \in MailDraft
    BY MailRequest
  <2>3. rows[a] \in Box /\ [rows[a] EXCEPT !.secret = @ + 1] \in Box
    BY <1>0, <2>1 DEF Box, MailConstants
  <2>4. /\ DOMAIN rows' = DOMAIN rows /\ rows' \in Tables
        /\ \A b \in DOMAIN rows : rows'[b].active = rows[b].active
    BY <1>0, <2>1, <2>3, TableIs DEF Box
  <2>5. ASSUME OneWrite, MailFits PROVE Sole(rows')
    BY <2>4, <2>5 DEF MailFits, Sole
  <2>. QED
    BY <1>0, <1>1, <2>1, <2>2, <2>4, <2>5
<1>4. CASE Mail!Activate(r)
  <2>1. /\ write[r] # None /\ write[r].at = "activate" /\ write[r].id \in Accounts /\ write[r] \in MailDraft
        /\ UNCHANGED <<cache, version, transport>> /\ (MailCallFits(r) => cache = rows)
    BY <1>0, <1>4 DEF Mail!Activate, Mail!At, MailCall, MailCallFits
  <2>. DEFINE a == write[r].id
  <2>2. CASE a \in DOMAIN rows
    <3>. DEFINE flag(b) == b = a \/ (rows[b].active /\ b \notin write[r].seen)
    <3>1. rows' = [b \in DOMAIN rows |-> [rows[b] EXCEPT !.active = flag(b)]]
          /\ Mail!Begin(r, "reload", write[r])
      BY <1>4, <2>2 DEF Mail!Activate, Mail!Stopped
    <3>2. \A b \in DOMAIN rows : rows[b] \in Box
      BY <1>0
    <3>3. \A b \in DOMAIN rows : [rows[b] EXCEPT !.active = flag(b)] \in Box
      BY <3>2 DEF Box
    <3>4. \A b \in DOMAIN rows : rows'[b] = [rows[b] EXCEPT !.active = flag(b)]
      BY <3>1
    <3>5. \A b \in DOMAIN rows : rows'[b].active <=> flag(b)
      <4>. SUFFICES ASSUME NEW b \in DOMAIN rows PROVE rows'[b].active <=> flag(b)
        OBVIOUS
      <4>1. rows[b] \in Box /\ rows'[b] = [rows[b] EXCEPT !.active = flag(b)]
        BY <3>2, <3>4
      <4>. HIDE DEF flag
      <4>2. rows'[b].active = flag(b)
        BY <4>1 DEF Box
      <4>. QED
        BY <4>2
    <3>6. DOMAIN rows' = DOMAIN rows /\ rows' \in Tables
      BY <1>0, <3>1, <3>3, TableIs
    <3>7. ASSUME OneWrite, MailFits PROVE Sole(rows')
      <4>1. write[r].seen = Mail!Active(rows)
        BY <2>1, <3>7 DEF MailFits, MailCallFits
      <4>2. \A b \in DOMAIN rows : rows[b].active => b \in write[r].seen
        BY <4>1, Zenon DEF Mail!Active
      <4>3. \A b \in DOMAIN rows : flag(b) <=> b = a
        BY <4>2
      <4>. QED
        BY <2>2, <3>5, <3>6, <4>3 DEF Sole
    <3>. QED
      BY <1>0, <1>1, <2>1, <3>1, <3>6, <3>7
  <2>3. CASE a \notin DOMAIN rows
    <3>1. UNCHANGED rows /\ Mail!Finish(r)
      BY <1>4, <2>3 DEF Mail!Activate
    <3>2. MailFits => Sole(rows')
      BY <3>1 DEF MailFits
    <3>. QED
      BY <1>0, <1>1, <2>1, <3>1, <3>2
  <2>. QED
    BY <2>2, <2>3
<1>5. CASE Mail!Delete(r)
  <2>1. /\ write[r] # None /\ write[r].at = "delete" /\ write[r].id \in Accounts /\ write[r] \in MailDraft
        /\ UNCHANGED <<cache, version, transport>> /\ (MailCallFits(r) => cache = rows)
    BY <1>0, <1>5 DEF Mail!Delete, Mail!At, MailCall, MailCallFits
  <2>. DEFINE a == write[r].id
  <2>2. CASE a \in DOMAIN rows
    <3>1. rows' = [b \in DOMAIN rows \ {a} |-> rows[b]] /\ Mail!Begin(r, "reload", write[r])
      BY <1>5, <2>2 DEF Mail!Delete
    <3>2. DOMAIN rows' = DOMAIN rows \ {a} /\ rows' \in Tables /\ IsFiniteSet(DOMAIN rows')
      BY <1>0, <3>1, TableIs, FS_Subset
    <3>3. ASSUME OneWrite, MailFits PROVE Sole(rows')
      <4>1. Sole(rows) /\ (rows[a].active => DOMAIN rows = {a})
        BY <2>1, <3>3 DEF MailFits, MailCallFits
      <4>. QED
        BY <3>1, <3>2, <4>1 DEF Sole
    <3>. QED
      BY <1>0, <1>1, <2>1, <3>1, <3>2, <3>3
  <2>3. CASE a \notin DOMAIN rows
    <3>1. UNCHANGED rows /\ Mail!Finish(r)
      BY <1>5, <2>3 DEF Mail!Delete
    <3>2. MailFits => Sole(rows')
      BY <3>1 DEF MailFits
    <3>. QED
      BY <1>0, <1>1, <2>1, <3>1, <3>2
  <2>. QED
    BY <2>2, <2>3
<1>. QED
  BY <1>2, <1>3, <1>4, <1>5

(* The bump that follows a write reads the table, then replaces the cache. *)
LEMMA MailBumps ==
  ASSUME MailConstants, MailShape, NEW r \in Writes, Mail!Reload(r) \/ Mail!Bump(r) \/ Mail!Abort(r)
  PROVE  MailShape' /\ (OneWrite /\ MailFits => MailFits')
<1>0. /\ MailRows /\ rows \in Tables /\ IsFiniteSet(DOMAIN rows) /\ UNCHANGED rows
      /\ write[r] # None /\ write[r] \in MailCall
  BY DEF Mail!Reload, Mail!Bump, Mail!Abort, Mail!At, MailShape, MailRows
<1>1. CASE Mail!Reload(r)
  <2>1. UNCHANGED <<cache, version, transport>>
    BY <1>1 DEF Mail!Reload
  <2>. DEFINE what == [write[r] EXCEPT !.read = rows]
  <2>2. what \in MailDraft /\ what.read = rows
    BY <1>0 DEF MailCall, MailDraft
  <2>. HIDE DEF what
  <2>3. Mail!Begin(r, "bump", what)
    BY <1>1 DEF Mail!Reload, Mail!Stored, what
  <2>4. /\ write' \in [Writes -> MailCall \cup {None}] /\ write'[r] # None
        /\ write'[r].at = "bump" /\ write'[r].read = rows
        /\ \A s \in Writes \ {r} : write'[s] = write[s]
    BY <1>0, <2>2, <2>3, MailMoves DEF MailSteps
  <2>5. MailShape'
    BY <1>0, <2>1, <2>4, MailSettles
  <2>6. ASSUME OneWrite, MailFits PROVE MailFits'
    BY <1>0, <2>4, <2>6, MailFitsNext DEF MailFits, MailCallFits, Sole
  <2>. QED
    BY <2>5, <2>6
<1>2. CASE Mail!Bump(r)
  <2>1. /\ write[r].at = "bump" /\ write[r].read \in Tables
        /\ cache' = write[r].read /\ version' = version + 1 /\ UNCHANGED transport
        /\ Mail!Finish(r)
    BY <1>0, <1>2 DEF Mail!Bump, Mail!At, MailRows
  <2>2. /\ write' \in [Writes -> MailCall \cup {None}] /\ write'[r] = None
        /\ \A s \in Writes \ {r} : write'[s] = write[s]
    BY <1>0, <2>1, MailEnds
  <2>3. MailRows'
    BY <1>0, <2>1, <2>2 DEF MailRows
  <2>4. Transported'
    <3>1. version \in Nat
      BY <1>0 DEF MailRows
    <3>2. ASSUME transport # None
          PROVE  /\ transport.account \in Accounts
                 /\ \E v \in 0 .. version + 1 : transport.key = <<transport.account, v>>
                 /\ transport.key # <<transport.account, version + 1>>
      <4>1. PICK v \in 0 .. version : transport.key = <<transport.account, v>>
        BY <3>2 DEF MailShape, Transported
      <4>2. v \in 0 .. version + 1 /\ v # version + 1
        BY <3>1
      <4>. QED
        BY <3>2, <4>1, <4>2 DEF MailShape, Transported
    <3>. QED
      BY <2>1, <3>2 DEF Transported
  <2>5. ASSUME OneWrite, MailFits PROVE MailFits'
    <3>1. write[r].read = rows /\ Sole(rows)
      BY <1>0, <2>1, <2>5 DEF MailFits, MailCallFits
    <3>. QED
      BY <1>0, <2>1, <2>2, <2>5, <3>1, MailFitsNext DEF Sole
  <2>. QED
    BY <2>3, <2>4, <2>5 DEF MailShape
<1>3. CASE Mail!Abort(r)
  <2>1. /\ write[r].at \in {"insert", "activate", "delete"} /\ Mail!Finish(r)
        /\ UNCHANGED <<cache, version, transport>>
    BY <1>3 DEF Mail!Abort, Mail!At
  <2>2. /\ write' \in [Writes -> MailCall \cup {None}] /\ write'[r] = None
        /\ \A s \in Writes \ {r} : write'[s] = write[s]
    BY <1>0, <2>1, MailEnds
  <2>3. MailShape'
    BY <1>0, <2>1, <2>2, MailSettles
  <2>4. ASSUME OneWrite, MailFits PROVE MailFits'
    <3>1. cache = rows /\ Sole(rows)
      BY <1>0, <2>1, <2>4 DEF MailFits, MailCallFits
    <3>. QED
      BY <1>0, <2>1, <2>2, <2>4, <3>1, MailFitsNext DEF Sole
  <2>. QED
    BY <2>3, <2>4
<1>. QED
  BY <1>1, <1>2, <1>3

(* A send goes through the transport kept, or keeps the one it builds.     *)
LEMMA MailSends ==
  ASSUME MailShape, Mail!Send PROVE MailShape' /\ (MailFits => MailFits')
<1>1. UNCHANGED <<rows, cache, version, write>> /\ Mail!Active(cache) # {}
  BY DEF Mail!Send
<1>. DEFINE a == Mail!First(Mail!Active(cache))
<1>2. a \in Mail!Active(cache)
  BY <1>1 DEF Mail!First
<1>. HIDE DEF a
<1>3. a \in DOMAIN cache /\ a \in Accounts /\ version \in Nat
  BY <1>2, TableIs DEF Mail!Active, MailShape, MailRows
<1>4. transport' = Mail!Through(a)
  BY DEF Mail!Send, a
<1>5. \/ transport # None /\ transport' = transport
      \/ transport' = [key |-> <<a, version>>, account |-> a, secret |-> cache[a].secret]
  BY <1>4 DEF Mail!Through, Mail!Kept, Mail!Key
<1>6. Transported'
  BY <1>1, <1>3, <1>5 DEF MailShape, Transported
<1>7. MailRows'
  BY <1>1 DEF MailShape, MailRows
<1>8. MailFits => MailFits'
  BY <1>1 DEF MailFits, Sole, Mail!CacheIsCurrent, Mail!Quiet, MailCallFits, Mail!Active
<1>. QED
  BY <1>6, <1>7, <1>8 DEF MailShape

LEMMA MailKept ==
  ASSUME MailConstants, MailShape, Mail!Next \/ UNCHANGED Mail!vars
  PROVE  MailShape' /\ (OneWrite /\ MailFits => MailFits')
<1>1. ASSUME NEW r \in Writes, Mail!Step(r) PROVE MailShape' /\ (OneWrite /\ MailFits => MailFits')
  BY <1>1, MailReads, MailWrites, MailBumps DEF Mail!Step
<1>2. CASE UNCHANGED Mail!vars
  <2>1. UNCHANGED <<rows, cache, version, transport, write>>
    BY <1>2 DEF Mail!vars
  <2>2. MailShape'
    BY <2>1 DEF MailShape, MailRows, Transported
  <2>3. MailFits => MailFits'
    BY <2>1 DEF MailFits, Sole, Mail!CacheIsCurrent, Mail!Quiet, MailCallFits, Mail!Active
  <2>. QED
    BY <2>2, <2>3
<1>. QED
  BY <1>1, <1>2, MailSends DEF Mail!Next

(* Any number of calls: the tables hold mailboxes, and the transport kept  *)
(* is one of theirs.                                                       *)
THEOREM MailTypeCorrect == ASSUME MailConstants PROVE Mail!Spec => []Mail!MailTypeOK
<1>1. Mail!Init => MailShape
  BY MailInit
<1>2. MailShape /\ [Mail!Next]_Mail!vars => MailShape'
  BY MailKept
<1>3. MailShape => Mail!MailTypeOK
  <2>. SUFFICES ASSUME MailShape PROVE Mail!MailTypeOK
    OBVIOUS
  <2>1. /\ DOMAIN rows \subseteq Accounts /\ DOMAIN cache \subseteq Accounts
        /\ \A a \in DOMAIN rows : rows[a] \in Box
    BY TableIs DEF MailShape, MailRows
  <2>. QED
    BY <2>1 DEF MailShape, Transported, Mail!MailTypeOK, Box
<1>. QED
  BY <1>1, <1>2, <1>3, PTL DEF Mail!Spec

(* Writes that follow one another: one mailbox sends, what is decided on   *)
(* is what is stored, and the next message goes out of the mailbox shown,  *)
(* with the password it has now (activate, remove, bump, transportFor).    *)
THEOREM MailboxAlwaysHolds ==
  ASSUME MailConstants, OneWrite
  PROVE  Mail!Spec => []Mail!MailboxHolds
<1>1. Mail!Init => MailShape /\ MailFits
  BY MailInit
<1>2. MailShape /\ MailFits /\ [Mail!Next]_Mail!vars => (MailShape /\ MailFits)'
  BY MailKept
<1>3. MailShape /\ MailFits => Mail!MailboxHolds
  <2>. SUFFICES ASSUME MailShape, MailFits PROVE Mail!MailboxHolds
    OBVIOUS
  <2>1. ASSUME DOMAIN rows # {} PROVE \E a \in DOMAIN rows : Mail!Active(rows) = {a}
    <3>1. PICK a \in DOMAIN rows :
            rows[a].active /\ \A b \in DOMAIN rows : rows[b].active => b = a
      BY <2>1 DEF MailFits, Sole
    <3>. QED
      BY <3>1 DEF Mail!Active
  <2>2. Mail!OneSends
    <3>1. ASSUME DOMAIN rows # {} PROVE Mail!Cardinality(Mail!Active(rows)) = 1
      <4>1. PICK a \in DOMAIN rows : Mail!Active(rows) = {a}
        BY <2>1, <3>1
      <4>2. Cardinality({a}) = 1
        BY FS_Singleton
      <4>. QED
        BY <4>1, <4>2, MailCardinality
    <3>. QED
      BY <3>1 DEF Mail!OneSends
  <2>3. ASSUME Mail!Quiet, NEW a \in Mail!Active(rows)
        PROVE  LET t == Mail!Through(Mail!First(Mail!Active(cache)))
               IN  t.account = a /\ t.secret = rows[a].secret
    <3>1. cache = rows /\ a \in DOMAIN rows
      BY <2>3 DEF MailFits, Mail!CacheIsCurrent, Mail!Active
    <3>2. Mail!First(Mail!Active(cache)) \in Mail!Active(rows)
      BY <2>3, <3>1 DEF Mail!First
    <3>3. Mail!First(Mail!Active(cache)) = a
      BY <2>1, <2>3, <3>1, <3>2
    <3>4. ASSUME Mail!Kept(a)
          PROVE  Mail!Through(a).account = a /\ Mail!Through(a).secret = rows[a].secret
      <4>1. transport # None /\ transport.key = <<a, version>>
        BY <3>4 DEF Mail!Kept, Mail!Key
      <4>2. transport.account = a /\ transport.secret = cache[a].secret
        BY <4>1 DEF MailShape, Transported
      <4>. QED
        BY <3>1, <3>4, <4>2 DEF Mail!Through
    <3>5. ASSUME ~Mail!Kept(a)
          PROVE  Mail!Through(a).account = a /\ Mail!Through(a).secret = rows[a].secret
      BY <3>1, <3>5 DEF Mail!Through
    <3>. QED
      BY <3>3, <3>4, <3>5
  <2>4. Mail!MailGoesAsShown
    BY <2>3 DEF Mail!MailGoesAsShown
  <2>. QED
    BY <2>2, <2>4 DEF MailFits, Mail!MailboxHolds
<1>. QED
  BY <1>1, <1>2, <1>3, PTL DEF Mail!Spec

-----------------------------------------------------------------------------
(* Payroll                                                                 *)
CONSTANTS Owner, Approvers, Thresholds, MaxPct, MaxSales, MaxHours, BaseRate, Amounts

VARIABLES period, sales, hours, payType, tiers, reimbursed, testMode, inv, judged

Pay == INSTANCE Payroll

PayFields == {"status", "reviewer", "isTestData",
              "base", "commission", "tierBonus", "reimbursement", "gross"}

(* None is no statement.                                                   *)
PayConstants == \A i : [k \in PayFields |-> i[k]] # None

(* A statement has its columns, and is there to be corrected or reviewed.  *)
PayShape ==
  /\ inv # None => inv = [k \in PayFields |-> inv[k]]
  /\ req = [r \in Reqs |-> req[r]]
  /\ \A r \in Reqs : req[r] # None /\ req[r].at \in {"edit", "review"} => inv # None

(* One request at a time: what it checked of the statement still holds,    *)
(* and the figures it will write add up.                                   *)
PayCallFits(r) ==
  /\ req[r].at \in {"reimburse", "figures", "submit"} => ~Pay!Decided
  /\ req[r].at = "submit" => req[r].figures.gross = Pay!Gross(req[r].figures)
  /\ req[r].at = "edit" =>
       /\ Pay!Editable
       /\ req[r].figures.gross =
            req[r].figures.base + req[r].figures.commission + inv.tierBonus + inv.reimbursement
  /\ req[r].at = "review" =>
       inv # None /\ inv.status = "SUBMITTED" /\ req[r].seen = Pay!Figures(inv)

PayFits ==
  /\ Pay!GrossAddsUp /\ Pay!ApprovedAsRead
  /\ \A r \in Reqs : req[r] # None => PayCallFits(r)

PayKeeps == Pay!KeepsApproved /\ Pay!KeepsReimbursement /\ Pay!KeepsFlag

-----------------------------------------------------------------------------
LEMMA PayInit == Pay!Init => PayShape /\ PayFits
BY DEF Pay!Init, PayShape, PayFits, Pay!GrossAddsUp, Pay!ApprovedAsRead, Pay!Settled

(* Requests begin, go on and end; the statement is left as it is.          *)
LEMMA PayReads ==
  ASSUME PayShape, NEW r \in Reqs,
         \/ \E a \in Amounts : Pay!ReadForReimbursement(r, a) \/ Pay!ReadForEdit(r, a)
         \/ Pay!ReadForSubmit(r) \/ Pay!ReadFigures(r)
         \/ \E by \in Approvers, v \in {"APPROVED", "REJECTED"} : Pay!ReadForReview(r, by, v)
         \/ Pay!SetReimbursement(r) \/ Pay!Fail(r)
  PROVE  PayShape' /\ Pay!KeepsFlag /\ (OneSlot /\ PayFits => PayFits' /\ PayKeeps)
<1>1. ASSUME UNCHANGED <<inv, judged>>, UNCHANGED reimbursed \/ ~Pay!Settled \/ ~PayFits \/ ~OneSlot,
             NEW begun, req' = [req EXCEPT ![r] = begun],
             begun # None /\ begun.at \in {"edit", "review"} => inv # None,
             OneSlot /\ PayFits /\ begun # None =>
               /\ begun.at \in {"reimburse", "figures", "submit"} => ~Pay!Decided
               /\ begun.at = "submit" => begun.figures.gross = Pay!Gross(begun.figures)
               /\ begun.at = "edit" =>
                    /\ Pay!Editable
                    /\ begun.figures.gross =
                         begun.figures.base + begun.figures.commission + inv.tierBonus + inv.reimbursement
               /\ begun.at = "review" =>
                    inv # None /\ inv.status = "SUBMITTED" /\ begun.seen = Pay!Figures(inv)
      PROVE  PayShape' /\ Pay!KeepsFlag /\ (OneSlot /\ PayFits => PayFits' /\ PayKeeps)
  <2>1. /\ req' = [s \in Reqs |-> req'[s]] /\ req'[r] = begun
        /\ \A s \in Reqs \ {r} : req'[s] = req[s]
    BY <1>1 DEF PayShape
  <2>2. PayShape' /\ Pay!KeepsFlag
    BY <1>1, <2>1 DEF PayShape, Pay!KeepsFlag
  <2>3. ASSUME OneSlot, PayFits PROVE PayFits' /\ PayKeeps
    <3>1. \A s \in Reqs : s = r
      BY <2>3 DEF OneSlot
    <3>2. req'[r] # None => PayCallFits(r)'
      BY <1>1, <2>1, <2>3 DEF PayCallFits, Pay!Decided, Pay!Editable, Pay!Gross, Pay!Figures
    <3>3. (Pay!GrossAddsUp /\ Pay!ApprovedAsRead)'
      BY <1>1, <2>3 DEF PayFits, Pay!GrossAddsUp, Pay!ApprovedAsRead, Pay!Settled, Pay!Gross, Pay!Figures
    <3>4. PayKeeps
      BY <1>1, <2>2, <2>3 DEF PayKeeps, Pay!KeepsApproved, Pay!KeepsReimbursement
    <3>. QED
      BY <3>1, <3>2, <3>3, <3>4 DEF PayFits
  <2>. QED
    BY <2>2, <2>3
<1>2. ASSUME NEW a \in Amounts, Pay!ReadForReimbursement(r, a)
      PROVE  PayShape' /\ Pay!KeepsFlag /\ (OneSlot /\ PayFits => PayFits' /\ PayKeeps)
  <2>. DEFINE begun == [at |-> "reimburse", amount |-> a]
  <2>1. req' = [req EXCEPT ![r] = begun] /\ ~Pay!Decided /\ UNCHANGED <<inv, judged, reimbursed>>
    BY <1>2 DEF Pay!ReadForReimbursement, Pay!Begin, Pay!world
  <2>2. begun.at = "reimburse"
    OBVIOUS
  <2>. HIDE DEF begun
  <2>. QED
    BY <1>1, <2>1, <2>2
<1>3. ASSUME NEW a \in Amounts, Pay!ReadForEdit(r, a)
      PROVE  PayShape' /\ Pay!KeepsFlag /\ (OneSlot /\ PayFits => PayFits' /\ PayKeeps)
  <2>1. PICK base, commission :
          req' = [req EXCEPT ![r] = [at |-> "edit", figures |-> Pay!Corrected(inv, base, commission)]]
    <3>1. PICK typed \in {"base", "commission"} :
            req' = [req EXCEPT ![r] =
              [at |-> "edit",
               figures |-> IF typed = "base" THEN Pay!Corrected(inv, 100 * a, inv.commission)
                                             ELSE Pay!Corrected(inv, inv.base, 100 * a)]]
      BY <1>3 DEF Pay!ReadForEdit, Pay!Begin
    <3>. QED
      BY <3>1
  <2>. DEFINE begun == [at |-> "edit", figures |-> Pay!Corrected(inv, base, commission)]
  <2>2. begun.at = "edit"
    OBVIOUS
  <2>3. begun.figures.gross =
          begun.figures.base + begun.figures.commission + inv.tierBonus + inv.reimbursement
    BY DEF Pay!Corrected
  <2>4. Pay!Editable /\ UNCHANGED <<inv, judged, reimbursed>>
    BY <1>3 DEF Pay!ReadForEdit, Pay!world
  <2>5. inv # None
    BY <2>4 DEF Pay!Editable
  <2>6. req' = [req EXCEPT ![r] = begun]
    BY <2>1
  <2>. HIDE DEF begun
  <2>. QED
    BY <1>1, <2>2, <2>3, <2>4, <2>5, <2>6
<1>4. CASE Pay!ReadForSubmit(r)
  <2>. DEFINE begun == [at |-> "figures", earned |-> Pay!Earned]
  <2>1. req' = [req EXCEPT ![r] = begun] /\ ~Pay!Decided /\ UNCHANGED <<inv, judged, reimbursed>>
    BY <1>4 DEF Pay!ReadForSubmit, Pay!Begin, Pay!world
  <2>2. begun.at = "figures"
    OBVIOUS
  <2>. HIDE DEF begun
  <2>. QED
    BY <1>1, <2>1, <2>2
<1>5. CASE Pay!ReadFigures(r)
  <2>. DEFINE begun == [at |-> "submit", figures |-> Pay!Statement(req[r].earned)]
  <2>1. /\ req' = [req EXCEPT ![r] = begun] /\ UNCHANGED <<inv, judged, reimbursed>>
        /\ req[r] # None /\ req[r].at = "figures"
    BY <1>5 DEF Pay!ReadFigures, Pay!Begin, Pay!At, Pay!world
  <2>2. begun.at = "submit" /\ begun.figures.gross = Pay!Gross(begun.figures)
    BY DEF Pay!Statement, Pay!Gross
  <2>3. PayFits => ~Pay!Decided
    BY <2>1 DEF PayFits, PayCallFits
  <2>. HIDE DEF begun
  <2>. QED
    BY <1>1, <2>1, <2>2, <2>3
<1>6. ASSUME NEW by \in Approvers, NEW v \in {"APPROVED", "REJECTED"}, Pay!ReadForReview(r, by, v)
      PROVE  PayShape' /\ Pay!KeepsFlag /\ (OneSlot /\ PayFits => PayFits' /\ PayKeeps)
  <2>. DEFINE begun == [at |-> "review", by |-> by, verdict |-> v, seen |-> Pay!Figures(inv)]
  <2>1. /\ req' = [req EXCEPT ![r] = begun] /\ inv # None /\ inv.status = "SUBMITTED"
        /\ UNCHANGED <<inv, judged, reimbursed>>
    BY <1>6 DEF Pay!ReadForReview, Pay!Begin, Pay!world
  <2>2. begun.at = "review" /\ begun.seen = Pay!Figures(inv)
    OBVIOUS
  <2>. HIDE DEF begun
  <2>. QED
    BY <1>1, <2>1, <2>2
<1>7. CASE Pay!SetReimbursement(r) \/ Pay!Fail(r)
  <2>1. req' = [req EXCEPT ![r] = None] /\ UNCHANGED <<inv, judged>>
    BY <1>7 DEF Pay!SetReimbursement, Pay!Fail, Pay!Finish
  <2>2. UNCHANGED reimbursed \/ (req[r] # None /\ req[r].at = "reimburse")
    BY <1>7 DEF Pay!SetReimbursement, Pay!Fail, Pay!At, Pay!world
  <2>3. UNCHANGED reimbursed \/ ~Pay!Settled \/ ~PayFits
    BY <2>2 DEF PayFits, PayCallFits, Pay!Settled, Pay!Decided
  <2>. QED
    BY <1>1, <2>1, <2>3
<1>. QED
  BY <1>2, <1>3, <1>4, <1>5, <1>6, <1>7

(* Requests that write the statement, and end.                             *)
LEMMA PayWrites ==
  ASSUME PayConstants, PayShape, NEW r \in Reqs, Pay!Submit(r) \/ Pay!Edit(r) \/ Pay!Review(r)
  PROVE  PayShape' /\ Pay!KeepsFlag /\ (OneSlot /\ PayFits => PayFits' /\ PayKeeps)
<1>1. req' = [req EXCEPT ![r] = None] /\ UNCHANGED reimbursed /\ req[r] # None
  BY DEF Pay!Submit, Pay!Edit, Pay!Review, Pay!Finish, Pay!At, Pay!world
<1>2. /\ req' = [s \in Reqs |-> req'[s]] /\ req'[r] = None
      /\ \A s \in Reqs \ {r} : req'[s] = req[s]
  BY <1>1 DEF PayShape
(* A statement that is there after the step has the shape of one.          *)
<1>3. ASSUME inv' = [k \in PayFields |-> inv'[k]] PROVE inv' # None /\ PayShape'
  <2>1. inv' # None
    BY <1>3 DEF PayConstants
  <2>. QED
    BY <1>3, <1>2, <2>1 DEF PayShape
<1>4. ASSUME OneSlot, PayFits PROVE PayCallFits(r) /\ \A s \in Reqs : req'[s] = None
  BY <1>1, <1>2, <1>4 DEF OneSlot, PayFits
<1>5. CASE Pay!Submit(r)
  <2>. DEFINE f == req[r].figures
  <2>1. inv' = [status |-> "SUBMITTED", reviewer |-> None, isTestData |-> Pay!Flag,
                base |-> f.base, commission |-> f.commission, tierBonus |-> f.tierBonus,
                reimbursement |-> f.reimbursement, gross |-> f.gross]
        /\ req[r].at = "submit"
    BY <1>5 DEF Pay!Submit, Pay!At
  <2>2. inv' = [k \in PayFields |-> inv'[k]]
    BY <2>1 DEF PayFields
  <2>3. PayShape'
    BY <1>3, <2>2
  <2>4. /\ inv'.status = "SUBMITTED" /\ inv'.isTestData = Pay!Flag
        /\ inv'.base = f.base /\ inv'.commission = f.commission /\ inv'.tierBonus = f.tierBonus
        /\ inv'.reimbursement = f.reimbursement /\ inv'.gross = f.gross
    BY <2>1
  <2>5. Pay!KeepsFlag
    BY <2>4 DEF Pay!KeepsFlag, Pay!Flag
  <2>6. ASSUME OneSlot, PayFits PROVE PayFits' /\ PayKeeps
    <3>1. ~Pay!Decided /\ f.gross = Pay!Gross(f)
      BY <1>4, <2>1, <2>6 DEF PayCallFits
    <3>2. (Pay!GrossAddsUp /\ Pay!ApprovedAsRead)'
      BY <2>4, <3>1 DEF Pay!GrossAddsUp, Pay!ApprovedAsRead, Pay!Settled, Pay!Gross
    <3>3. PayKeeps
      BY <2>5, <3>1 DEF PayKeeps, Pay!KeepsApproved, Pay!KeepsReimbursement, Pay!Settled, Pay!Decided
    <3>. QED
      BY <1>4, <2>6, <3>2, <3>3 DEF PayFits
  <2>. QED
    BY <2>3, <2>5, <2>6
<1>6. CASE Pay!Edit(r)
  <2>. DEFINE f == req[r].figures
  <2>1. /\ inv' = [inv EXCEPT !.base = f.base, !.commission = f.commission, !.gross = f.gross]
        /\ req[r].at = "edit" /\ UNCHANGED judged
    BY <1>6 DEF Pay!Edit, Pay!At
  <2>2. inv # None /\ inv = [k \in PayFields |-> inv[k]]
    BY <1>1, <2>1 DEF PayShape
  <2>3. /\ inv' = [k \in PayFields |-> inv'[k]]
        /\ inv'.status = inv.status /\ inv'.isTestData = inv.isTestData
        /\ inv'.base = f.base /\ inv'.commission = f.commission /\ inv'.gross = f.gross
        /\ inv'.tierBonus = inv.tierBonus /\ inv'.reimbursement = inv.reimbursement
    BY <2>1, <2>2 DEF PayFields
  <2>4. PayShape' /\ Pay!KeepsFlag
    BY <1>3, <2>3 DEF Pay!KeepsFlag
  <2>5. ASSUME OneSlot, PayFits PROVE PayFits' /\ PayKeeps
    <3>1. /\ inv.status # "APPROVED"
          /\ f.gross = f.base + f.commission + inv.tierBonus + inv.reimbursement
      BY <1>4, <2>1, <2>5 DEF PayCallFits, Pay!Editable
    <3>2. (Pay!GrossAddsUp /\ Pay!ApprovedAsRead)'
      BY <2>3, <3>1 DEF Pay!GrossAddsUp, Pay!ApprovedAsRead, Pay!Settled, Pay!Gross
    <3>3. PayKeeps
      BY <2>4, <3>1 DEF PayKeeps, Pay!KeepsApproved, Pay!KeepsReimbursement, Pay!Settled
    <3>. QED
      BY <1>4, <2>5, <3>2, <3>3 DEF PayFits
  <2>. QED
    BY <2>4, <2>5
<1>7. CASE Pay!Review(r)
  <2>1. /\ inv' = [inv EXCEPT !.status = req[r].verdict, !.reviewer = req[r].by]
        /\ req[r].at = "review" /\ judged' = req[r].seen
    BY <1>7 DEF Pay!Review, Pay!At
  <2>2. inv # None /\ inv = [k \in PayFields |-> inv[k]]
    BY <1>1, <2>1 DEF PayShape
  <2>3. /\ inv' = [k \in PayFields |-> inv'[k]] /\ inv'.isTestData = inv.isTestData
        /\ inv'.base = inv.base /\ inv'.commission = inv.commission /\ inv'.gross = inv.gross
        /\ inv'.tierBonus = inv.tierBonus /\ inv'.reimbursement = inv.reimbursement
    BY <2>1, <2>2 DEF PayFields
  <2>4. PayShape' /\ Pay!KeepsFlag
    BY <1>3, <2>3 DEF Pay!KeepsFlag
  <2>5. ASSUME OneSlot, PayFits PROVE PayFits' /\ PayKeeps
    <3>1. inv.status = "SUBMITTED" /\ req[r].seen = Pay!Figures(inv) /\ Pay!GrossAddsUp
      BY <1>4, <2>1, <2>5 DEF PayCallFits, PayFits
    <3>2. (Pay!GrossAddsUp /\ Pay!ApprovedAsRead)'
      BY <2>1, <2>2, <2>3, <3>1 DEF Pay!GrossAddsUp, Pay!ApprovedAsRead, Pay!Gross, Pay!Figures
    <3>3. PayKeeps
      BY <2>4, <3>1 DEF PayKeeps, Pay!KeepsApproved, Pay!KeepsReimbursement, Pay!Settled
    <3>. QED
      BY <1>4, <2>5, <3>2, <3>3 DEF PayFits
  <2>. QED
    BY <2>4, <2>5
<1>. QED
  BY <1>5, <1>6, <1>7

(* Whatever else moves leaves the statement and the requests alone.        *)
LEMMA PayKept ==
  ASSUME PayConstants, PayShape, Pay!Next \/ UNCHANGED Pay!vars
  PROVE  PayShape' /\ Pay!KeepsFlag /\ (OneSlot /\ PayFits => PayFits' /\ PayKeeps)
<1>1. ASSUME UNCHANGED <<inv, judged, req, reimbursed>>
      PROVE  PayShape' /\ Pay!KeepsFlag /\ (OneSlot /\ PayFits => PayFits' /\ PayKeeps)
  <2>1. PayShape' /\ Pay!KeepsFlag /\ Pay!KeepsApproved /\ Pay!KeepsReimbursement
    BY <1>1 DEF PayShape, Pay!KeepsFlag, Pay!KeepsApproved, Pay!KeepsReimbursement
  <2>2. PayFits => PayFits'
    BY <1>1 DEF PayFits, PayCallFits, Pay!GrossAddsUp, Pay!ApprovedAsRead, Pay!Settled,
      Pay!Gross, Pay!Figures, Pay!Decided, Pay!Editable
  <2>. QED
    BY <2>1, <2>2 DEF PayKeeps
<1>2. ASSUME NEW r \in Reqs, Pay!Step(r)
      PROVE  PayShape' /\ Pay!KeepsFlag /\ (OneSlot /\ PayFits => PayFits' /\ PayKeeps)
  BY <1>2, PayReads, PayWrites DEF Pay!Step
<1>3. ASSUME Pay!Next PROVE (\E r \in Reqs : Pay!Step(r)) \/ UNCHANGED <<inv, judged, req, reimbursed>>
  BY <1>3 DEF Pay!Next, Pay!ApproveSale, Pay!VoidSale, Pay!MarkDay, Pay!SetPayType, Pay!CreateTier,
    Pay!UpdateTier, Pay!DeleteTier, Pay!DayPasses, Pay!ToggleTestData
<1>4. UNCHANGED Pay!vars => UNCHANGED <<inv, judged, req, reimbursed>>
  BY DEF Pay!vars
<1>. QED
  BY <1>1, <1>2, <1>3, <1>4

(* Any number of requests: whether a period is test data is decided when   *)
(* it is first claimed (submitMine).                                       *)
THEOREM FlagIsKept == ASSUME PayConstants PROVE Pay!Spec => [][Pay!KeepsFlag]_Pay!vars
<1>1. Pay!Init => PayShape
  BY PayInit
<1>2. PayShape /\ [Pay!Next]_Pay!vars => PayShape' /\ Pay!KeepsFlag
  BY PayKept
<1>. QED
  BY <1>1, <1>2, PTL DEF Pay!Spec

(* Requests that follow one another: the parts of a statement add up to    *)
(* its gross, and what is approved is what its reviewer had read           *)
(* (submitMine, editInvoice, approveInvoice).                              *)
THEOREM StatementsAlwaysHold ==
  ASSUME PayConstants, OneSlot
  PROVE  Pay!Spec => [](Pay!GrossAddsUp /\ Pay!ApprovedAsRead)
<1>1. Pay!Init => PayShape /\ PayFits
  BY PayInit
<1>2. PayShape /\ PayFits /\ [Pay!Next]_Pay!vars => (PayShape /\ PayFits)'
  BY PayKept
<1>3. PayFits => Pay!GrossAddsUp /\ Pay!ApprovedAsRead
  BY DEF PayFits
<1>. QED
  BY <1>1, <1>2, <1>3, PTL DEF Pay!Spec

(* They leave an approved statement as it is, with what it was reimbursed  *)
(* and whether it is test data (submitMine, editInvoice, setReimbursement).*)
THEOREM ApprovedStaysFrozen ==
  ASSUME PayConstants, OneSlot
  PROVE  Pay!Spec => Pay!ApprovedIsFrozen
<1>1. Pay!Init => PayShape /\ PayFits
  BY PayInit
<1>2. PayShape /\ PayFits /\ [Pay!Next]_Pay!vars =>
        (PayShape /\ PayFits)' /\ Pay!KeepsApproved /\ Pay!KeepsReimbursement /\ Pay!KeepsFlag
  BY PayKept DEF PayKeeps
<1>. QED
  BY <1>1, <1>2, PTL DEF Pay!Spec, Pay!ApprovedIsFrozen

-----------------------------------------------------------------------------
(* Rates                                                                   *)
CONSTANTS Currencies, Values, LastDay, MaxSaves

VARIABLES rates, history, day, form, saving

Fx == INSTANCE Rates

Snapshot == [from : Nat, rates : Fx!Partial]

(* There is a snapshot of the first day, and none of a day to come; and of *)
(* those up to any day one is the latest.                                  *)
Later(i, j) == \/ history[i].from > history[j].from
               \/ history[i].from = history[j].from /\ i >= j

SnapshotsFit ==
  /\ history \in Seq(Snapshot) /\ history # <<>>
  /\ history[1].from = 1
  /\ \A i \in DOMAIN history : history[i].from <= day
  /\ \A d \in Nat \ {0} : \E i \in Fx!Before(d) : \A j \in Fx!Before(d) : Later(i, j)

FxShape ==
  /\ rates \in Fx!Partial /\ day \in Nat \ {0} /\ SnapshotsFit
  /\ form \in [Admins -> Fx!Partial \cup {None}]
  /\ saving \in [Admins -> Fx!Partial \cup {None}]

LEMMA FxInit == Fx!RatesInit => FxShape /\ Fx!RatesAreTheNewest
<1>. SUFFICES ASSUME Fx!RatesInit PROVE FxShape /\ Fx!RatesAreTheNewest
  OBVIOUS
<1>1. rates \in Fx!Partial
  BY DEF Fx!RatesInit, Fx!Tables, Fx!Partial
<1>2. history = <<[from |-> 1, rates |-> rates]>> /\ [from |-> 1, rates |-> rates] \in Snapshot
  BY <1>1 DEF Fx!RatesInit, Snapshot
<1>3. ASSUME NEW d \in Nat \ {0}
      PROVE  \E i \in Fx!Before(d) : \A j \in Fx!Before(d) : Later(i, j)
  BY <1>2 DEF Fx!Before, Later
<1>. QED
  BY <1>1, <1>2, <1>3 DEF Fx!RatesInit, FxShape, SnapshotsFit, Fx!RatesAreTheNewest

(* A write adds a snapshot of today.                                       *)
LEMMA FxWrites ==
  ASSUME FxShape, NEW a \in Admins, Fx!Write(a)
  PROVE  /\ saving[a] \in Fx!Partial
         /\ history' \in Seq(Snapshot)
         /\ Len(history) \in Nat \ {0} /\ Len(history') = Len(history) + 1
         /\ \A i \in 1 .. Len(history) : history'[i] = history[i]
         /\ history'[Len(history) + 1] = [from |-> day, rates |-> saving[a]]
<1>1. saving[a] \in Fx!Partial
  BY DEF FxShape, Fx!Write
<1>2. [from |-> day, rates |-> saving[a]] \in Snapshot
  BY <1>1 DEF FxShape, Snapshot
<1>3. history' = Append(history, [from |-> day, rates |-> saving[a]]) /\ history \in Seq(Snapshot)
  BY DEF Fx!Write, Fx!Recorded, FxShape, SnapshotsFit
<1>4. history # <<>>
  BY DEF FxShape, SnapshotsFit
<1>. QED
  BY <1>1, <1>2, <1>3, <1>4

LEMMA FxKept == ASSUME FxShape, [Fx!RatesNext]_Fx!ratesVars PROVE FxShape'
<1>0. ASSUME UNCHANGED history, day' \in Nat, day <= day' PROVE SnapshotsFit'
  <2>1. \A i \in DOMAIN history : history[i] \in Snapshot /\ history[i].from <= day
    BY DEF FxShape, SnapshotsFit
  <2>2. \A i \in DOMAIN history : history[i].from <= day'
    BY <1>0, <2>1 DEF FxShape, Snapshot
  <2>. QED
    BY <1>0, <2>2 DEF FxShape, SnapshotsFit, Fx!Before, Later
<1>1. ASSUME NEW a \in Admins, Fx!Open(a) \/ Fx!Close(a) PROVE FxShape'
  BY <1>0, <1>1 DEF FxShape, Fx!Open, Fx!Close
<1>2. ASSUME NEW a \in Admins, NEW c \in Currencies, NEW v \in Values, Fx!Type(a, c, v) PROVE FxShape'
  <2>1. form[a] \in Fx!Partial
    BY <1>2 DEF FxShape, Fx!Type
  <2>2. [form[a] EXCEPT ![c] = v] \in Fx!Partial
    BY <2>1 DEF Fx!Partial
  <2>3. form' = [form EXCEPT ![a] = [form[a] EXCEPT ![c] = v]]
    BY <1>2 DEF Fx!Type
  <2>. QED
    BY <1>0, <1>2, <2>2, <2>3 DEF FxShape, Fx!Type
<1>3. ASSUME NEW a \in Admins, Fx!Read(a) PROVE FxShape'
  <2>1. form[a] \in Fx!Partial /\ rates \in Fx!Partial
    BY <1>3 DEF FxShape, Fx!Read
  <2>2. Fx!Merged(rates, form[a]) \in Fx!Partial
    BY <2>1 DEF Fx!Merged, Fx!Partial
  <2>. QED
    BY <1>0, <1>3, <2>2 DEF FxShape, Fx!Read
<1>4. ASSUME NEW a \in Admins, Fx!Write(a) PROVE FxShape'
  <2>1. SnapshotsFit'
    <3>1. /\ history \in Seq(Snapshot) /\ history' \in Seq(Snapshot)
          /\ Len(history) \in Nat \ {0} /\ Len(history') = Len(history) + 1
          /\ \A i \in 1 .. Len(history) : history'[i] = history[i]
          /\ history'[Len(history) + 1] = [from |-> day, rates |-> saving[a]]
      BY <1>4, FxWrites DEF FxShape, SnapshotsFit
    <3>2. history' # <<>> /\ UNCHANGED day /\ day \in Nat
      BY <1>4, <3>1 DEF Fx!Write, FxShape
    <3>3. history'[1].from = 1
      BY <3>1 DEF FxShape, SnapshotsFit
    <3>4. ASSUME NEW i \in 1 .. Len(history) + 1 PROVE history'[i].from <= day
      <4>1. CASE i \in 1 .. Len(history)
        BY <3>1, <4>1 DEF FxShape, SnapshotsFit
      <4>2. CASE i = Len(history) + 1
        BY <3>1, <3>2, <4>2
      <4>. QED
        BY <3>1, <4>1, <4>2
    <3>5. ASSUME NEW d \in Nat \ {0}
          PROVE  \E i \in Fx!Before(d)' : \A j \in Fx!Before(d)' : Later(i, j)'
      <4>1. DOMAIN history' = 1 .. Len(history) + 1 /\ DOMAIN history = 1 .. Len(history)
        BY <3>1
      <4>2. CASE day <= d
        <5>. PICK n \in DOMAIN history' : n = Len(history) + 1
          BY <3>1, <4>1
        <5>1. history'[n].from = day /\ n \in Fx!Before(d)'
          BY <3>1, <4>1, <4>2 DEF Fx!Before
        <5>2. ASSUME NEW j \in Fx!Before(d)' PROVE Later(n, j)'
          <6>1. j \in 1 .. n /\ history'[j].from <= day /\ history'[j] \in Snapshot
            BY <3>1, <3>4, <4>1 DEF Fx!Before
          <6>2. history'[j].from \in Nat
            BY <6>1 DEF Snapshot
          <6>. QED
            BY <3>2, <5>1, <6>1, <6>2 DEF Later
        <5>. QED
          BY <5>1, <5>2
      <4>3. CASE ~(day <= d)
        <5>1. Fx!Before(d)' = Fx!Before(d)
          BY <3>1, <4>1, <4>3 DEF Fx!Before
        <5>2. \A i \in Fx!Before(d) : history'[i] = history[i]
          BY <3>1 DEF Fx!Before
        <5>. QED
          BY <5>1, <5>2 DEF FxShape, SnapshotsFit, Later
      <4>. QED
        BY <4>2, <4>3
    <3>6. DOMAIN history' = 1 .. Len(history) + 1
      BY <3>1
    <3>. QED
      BY <3>1, <3>2, <3>3, <3>4, <3>5, <3>6 DEF SnapshotsFit
  <2>. QED
    BY <1>4, <2>1, FxWrites DEF FxShape, Fx!Write
<1>5. ASSUME NEW a \in Admins, Fx!Refresh(a) PROVE FxShape'
  <2>1. rates' \in Fx!Partial
    BY <1>5 DEF Fx!Refresh, Fx!Quotes, Fx!Tables, Fx!Partial
  <2>. QED
    BY <1>0, <1>5, <2>1 DEF FxShape, Fx!Refresh
<1>6. CASE Fx!Midnight
  BY <1>0, <1>6 DEF FxShape, Fx!Midnight
<1>7. CASE UNCHANGED Fx!ratesVars
  BY <1>0, <1>7 DEF FxShape, Fx!ratesVars
<1>. QED
  BY <1>1, <1>2, <1>3, <1>4, <1>5, <1>6, <1>7 DEF Fx!RatesNext

(* While no provider is asked, the rates in force are the newest snapshot, *)
(* whatever saves cross (updateFxRates; reports.service.ts: "they never    *)
(* disagree").                                                             *)
THEOREM SavedRatesAreTheNewest ==
  ASSUME "refresh" \notin Ops
  PROVE  Fx!RatesInit /\ [][Fx!RatesNext]_Fx!ratesVars => []Fx!RatesAreTheNewest
<1>1. FxShape /\ Fx!RatesAreTheNewest /\ [Fx!RatesNext]_Fx!ratesVars => Fx!RatesAreTheNewest'
  <2>. SUFFICES ASSUME FxShape, Fx!RatesAreTheNewest, [Fx!RatesNext]_Fx!ratesVars
                PROVE  Fx!RatesAreTheNewest'
    OBVIOUS
  <2>1. ASSUME NEW a \in Admins, Fx!Write(a) PROVE Fx!RatesAreTheNewest'
    <3>1. /\ Len(history) \in Nat \ {0} /\ Len(history') = Len(history) + 1
          /\ history'[Len(history) + 1] = [from |-> day, rates |-> saving[a]]
      BY <2>1, FxWrites
    <3>. QED
      BY <2>1, <3>1 DEF Fx!Write, Fx!RatesAreTheNewest
  <2>2. CASE UNCHANGED <<rates, history>>
    BY <2>2 DEF Fx!RatesAreTheNewest
  <2>. QED
    BY <2>1, <2>2 DEF Fx!RatesNext, Fx!ratesVars, Fx!Open, Fx!Close, Fx!Type, Fx!Read, Fx!Refresh,
      Fx!Midnight
<1>2. FxShape /\ [Fx!RatesNext]_Fx!ratesVars => FxShape'
  BY FxKept
<1>. QED
  BY <1>1, <1>2, FxInit, PTL

(* Whatever is saved or pulled in, a report for a day that is over keeps   *)
(* the rates it has (resolveFxRates).                                      *)
THEOREM PastRatesAlwaysStay ==
  Fx!RatesInit /\ [][Fx!RatesNext]_Fx!ratesVars => [][Fx!PastRatesStay]_Fx!ratesVars
<1>1. ASSUME FxShape, [Fx!RatesNext]_Fx!ratesVars, NEW d \in 1 .. day - 1
      PROVE  Fx!InForce(d)' = Fx!InForce(d)
  <2>0. history \in Seq(Snapshot) /\ 1 \in DOMAIN history /\ history[1].from = 1 /\ day \in Nat
    BY <1>1 DEF FxShape, SnapshotsFit
  <2>1. ASSUME NEW a \in Admins, Fx!Write(a)
        PROVE  /\ Fx!Before(d)' = Fx!Before(d)
               /\ \A i \in Fx!Before(d) : history'[i] = history[i]
    <3>1. /\ history' \in Seq(Snapshot) /\ Len(history) \in Nat /\ Len(history') = Len(history) + 1
          /\ \A i \in 1 .. Len(history) : history'[i] = history[i]
          /\ history'[Len(history) + 1] = [from |-> day, rates |-> saving[a]]
      BY <1>1, <2>1, FxWrites
    <3>2. DOMAIN history = 1 .. Len(history) /\ DOMAIN history' = 1 .. Len(history) + 1
      BY <2>0, <3>1
    <3>3. ~(day <= d)
      BY <2>0
    <3>. QED
      BY <3>1, <3>2, <3>3 DEF Fx!Before
  <2>2. ASSUME UNCHANGED history
        PROVE  /\ Fx!Before(d)' = Fx!Before(d)
               /\ \A i \in Fx!Before(d) : history'[i] = history[i]
    BY <2>2 DEF Fx!Before
  <2>3. /\ Fx!Before(d)' = Fx!Before(d)
        /\ \A i \in Fx!Before(d) : history'[i] = history[i]
    BY <1>1, <2>1, <2>2 DEF Fx!RatesNext, Fx!ratesVars, Fx!Open, Fx!Close, Fx!Type, Fx!Read, Fx!Refresh,
      Fx!Midnight
  <2>4. 1 \in Fx!Before(d)
    BY <2>0 DEF Fx!Before
  <2>5. \E i \in Fx!Before(d) : \A j \in Fx!Before(d) : Later(i, j)
    <3>1. d \in Nat \ {0}
      BY <2>0
    <3>. QED
      BY <1>1, <3>1 DEF FxShape, SnapshotsFit
  <2>6. \A i, j \in Fx!Before(d) : Later(i, j)' <=> Later(i, j)
    BY <2>3 DEF Later
  <2>. DEFINE B == Fx!Before(d)
              Latest == CHOOSE i \in B : \A j \in B : Later(i, j)
  <2>7. Latest \in B
    BY <2>5
  <2>8. Fx!InForce(d) = history[Latest].rates
    BY <2>4 DEF Fx!InForce, Later
  <2>9. Fx!InForce(d)' = history'[CHOOSE i \in B : \A j \in B : Later(i, j)'].rates
    BY <2>3, <2>4 DEF Fx!InForce, Later
  <2>10. (CHOOSE i \in B : \A j \in B : Later(i, j)') = Latest
    <3>. HIDE DEF B
    <3>. QED
      BY <2>6 DEF B
  <2>11. history'[Latest] = history[Latest]
    BY <2>3, <2>7
  <2>. QED
    BY <2>8, <2>9, <2>10, <2>11
<1>2. FxShape /\ [Fx!RatesNext]_Fx!ratesVars => FxShape' /\ Fx!PastRatesStay
  BY <1>1, FxKept DEF Fx!PastRatesStay
<1>. QED
  BY <1>2, FxInit, PTL

-----------------------------------------------------------------------------
(* Configuration                                                           *)
CONSTANTS Keys, Secrets, Env, Crossing, Garbled

VARIABLES stored, held, epoch, client, shown, draft, edited, save

Conf == INSTANCE Configuration

Kept == Values \cup {None, Garbled}

(* What the environment supplies is a value, and None is no save.          *)
ConfConstants ==
  /\ Env \in [Keys -> Values \cup {None}]
  /\ None \notin [at : {"committed"}] \cup [at : {"read"}, rows : [Keys -> Kept]]

(* What a save in flight carries.                                          *)
SaveFits(s) == s # None =>
  /\ s.at = "sent" => /\ DOMAIN s.entries \subseteq Keys
                     /\ \A k \in DOMAIN s.entries : s.entries[k] \in Values \cup {None}
  /\ s.at = "read" => s.rows \in [Keys -> Kept]

ConfShape ==
  /\ stored \in [Keys -> Kept] /\ held \in [Keys -> Kept]
  /\ epoch \in Nat /\ client.epoch \in Int /\ client.epoch <= epoch
  /\ draft \in [Admins -> [Keys -> Values \cup {None}]]
  /\ shown = [a \in Admins |-> shown[a]] /\ edited \in [Admins -> SUBSET Keys]
  /\ save = [a \in Admins |-> save[a]]
  /\ \A a \in Admins : SaveFits(save[a])

(* A field that shows something else than the group's has been typed in.   *)
FormsFit == \A a \in Admins, k \in Keys :
  draft[a][k] # shown[a][k].value => k \in edited[a]

(* Saves that follow one another.                                          *)
SavesFit ==
  /\ \A a, b \in Admins : save[a] # None /\ save[b] # None => a = b
  /\ (\A a \in Admins : save[a] = None \/ save[a].at = "sent") => held = stored
  /\ \A a \in Admins : save[a] # None /\ save[a].at = "read" => save[a].rows = stored

LEMMA SeedIs ==
  ASSUME ConfConstants, held \in [Keys -> Kept]
  PROVE  Conf!Seed(Conf!Told) \in [Keys -> Values \cup {None}]
<1>1. \A k \in Keys : Conf!InForce(k) \in Values \cup {None}
  BY DEF ConfConstants, Conf!InForce, Conf!Decoded, Kept
<1>. QED
  BY <1>1 DEF Conf!Seed, Conf!Told

LEMMA ConfStarts == ASSUME ConfConstants, Conf!ConfigInit
  PROVE ConfShape /\ FormsFit /\ SavesFit /\ Conf!ClientIsInForce
<1>1. held \in [Keys -> Kept]
  BY DEF Conf!ConfigInit, Conf!Entries, Kept
<1>. QED
  BY <1>1, SeedIs DEF Conf!ConfigInit, Conf!Entries, Kept, ConfShape, SaveFits, FormsFit, SavesFit,
    Conf!Seed, Conf!ClientIsInForce

LEMMA ConfKept == ASSUME ConfConstants, ConfShape, [Conf!ConfigNext]_Conf!configVars PROVE ConfShape'
<1>1. ASSUME NEW a \in Admins, Conf!Fetch(a) PROVE ConfShape'
  BY <1>1, SeedIs DEF ConfShape, Conf!Fetch, Conf!Reseeded
<1>2. ASSUME NEW a \in Admins, NEW k \in Keys, NEW v \in Conf!Entries, Conf!Type(a, k, v) PROVE ConfShape'
  <2>1. draft' \in [Admins -> [Keys -> Values \cup {None}]] /\ edited' \in [Admins -> SUBSET Keys]
    BY <1>2 DEF ConfShape, Conf!Type, Conf!Entries
  <2>. QED
    BY <1>2, <2>1 DEF ConfShape, Conf!Type
<1>3. ASSUME NEW a \in Admins, Conf!Save(a) PROVE ConfShape'
  <2>. DEFINE sent == [at |-> "sent", entries |-> [k \in Conf!Changed(a) |-> draft[a][k]]]
  <2>1. SaveFits(sent)
    BY DEF ConfShape, SaveFits, Conf!Changed
  <2>2. save' = [save EXCEPT ![a] = sent]
    BY <1>3 DEF Conf!Save
  <2>. HIDE DEF sent
  <2>. QED
    BY <1>3, <2>1, <2>2 DEF ConfShape, Conf!Save
<1>4. ASSUME NEW a \in Admins, Conf!Commit(a) PROVE ConfShape'
  <2>1. stored' \in [Keys -> Kept]
    <3>1. \A k \in DOMAIN save[a].entries : save[a].entries[k] \in Kept
      BY <1>4 DEF Conf!Commit, ConfShape, SaveFits, Kept
    <3>. QED
      BY <1>4, <3>1 DEF Conf!Commit, ConfShape, Conf!Writes
  <2>2. PICK s \in {None, [at |-> "committed"]} : save' = [save EXCEPT ![a] = s]
    BY <1>4 DEF Conf!Commit
  <2>3. SaveFits(s)
    BY DEF SaveFits
  <2>. QED
    BY <1>4, <2>1, <2>2, <2>3 DEF ConfShape, Conf!Commit
<1>5. ASSUME NEW a \in Admins, Conf!ReadRows(a) PROVE ConfShape'
  <2>. DEFINE read == [at |-> "read", rows |-> stored]
  <2>1. SaveFits(read)
    BY DEF ConfShape, SaveFits
  <2>2. save' = [save EXCEPT ![a] = read]
    BY <1>5 DEF Conf!ReadRows
  <2>. HIDE DEF read
  <2>. QED
    BY <1>5, <2>1, <2>2 DEF ConfShape, Conf!ReadRows
<1>6. ASSUME NEW a \in Admins, Conf!Reload(a) PROVE ConfShape'
  <2>1. SaveFits(None) /\ save[a].rows \in [Keys -> Kept]
    BY <1>6 DEF ConfShape, SaveFits, Conf!Reload
  <2>. QED
    BY <1>6, <2>1 DEF ConfShape, Conf!Reload, Conf!Reloaded, Conf!Bumped
<1>7. CASE Conf!Use
  BY <1>7 DEF ConfShape, Conf!Use
<1>8. CASE Conf!Restart
  <2>1. SaveFits(None)
    BY DEF SaveFits
  <2>. QED
    BY <1>8, <2>1 DEF ConfShape, Conf!Restart, Kept
<1>9. CASE UNCHANGED Conf!configVars
  BY <1>9 DEF ConfShape, Conf!configVars
<1>. QED
  BY <1>1, <1>2, <1>3, <1>4, <1>5, <1>6, <1>7, <1>8, <1>9 DEF Conf!ConfigNext

(* However saves cross, documents go through a client built from what is   *)
(* in force (getClient, reload).                                           *)
THEOREM ClientIsAlwaysInForce ==
  ASSUME ConfConstants
  PROVE  Conf!ConfigInit /\ [][Conf!ConfigNext]_Conf!configVars => []Conf!ClientIsInForce
<1>1. ASSUME ConfShape, Conf!ClientIsInForce, [Conf!ConfigNext]_Conf!configVars
      PROVE  Conf!ClientIsInForce'
  <2>1. CASE UNCHANGED <<held, epoch, client>>
    BY <1>1, <2>1 DEF Conf!ClientIsInForce, Conf!Built, Conf!InForce, Conf!Decoded
  <2>2. ASSUME NEW a \in Admins, Conf!Reload(a) PROVE Conf!ClientIsInForce'
    BY <1>1, <2>2 DEF Conf!ClientIsInForce, Conf!Reload, Conf!Bumped, ConfShape
  <2>3. CASE Conf!Use
    BY <2>3 DEF Conf!ClientIsInForce, Conf!Use, Conf!Built, Conf!InForce, Conf!Decoded
  <2>4. CASE Conf!Restart
    BY <2>4 DEF Conf!ClientIsInForce, Conf!Restart
  <2>. QED
    BY <1>1, <2>1, <2>2, <2>3, <2>4 DEF Conf!ConfigNext, Conf!configVars, Conf!Fetch, Conf!Type,
      Conf!Save, Conf!Commit, Conf!ReadRows
<1>. QED
  BY <1>1, ConfStarts, ConfKept, PTL

(* Saves that follow one another leave the readers the rows that are       *)
(* stored (reload).                                                        *)
THEOREM HeldIsAlwaysStored ==
  ASSUME ConfConstants, ~Crossing
  PROVE  Conf!ConfigInit /\ [][Conf!ConfigNext]_Conf!configVars => []Conf!HeldIsStored
<1>1. ASSUME ConfShape, SavesFit, [Conf!ConfigNext]_Conf!configVars PROVE SavesFit'
  <2>1. ASSUME NEW a \in Admins, Conf!Save(a) PROVE SavesFit'
    <3>1. /\ \A b \in Admins : save[b] = None
          /\ \A b \in Admins \ {a} : save'[b] = None
          /\ save'[a].at = "sent"
      BY <1>1, <2>1 DEF Conf!Save, ConfShape
    <3>. QED
      BY <1>1, <2>1, <3>1 DEF Conf!Save, SavesFit
  <2>2. ASSUME NEW a \in Admins, Conf!Commit(a) PROVE SavesFit'
    <3>1. /\ \A b \in Admins \ {a} : save[b] = None /\ save'[b] = None
          /\ held = stored /\ UNCHANGED held
      BY <1>1, <2>2 DEF Conf!Commit, SavesFit, ConfShape
    <3>2. CASE save'[a] = None /\ UNCHANGED stored
      BY <3>1, <3>2 DEF SavesFit
    <3>3. CASE save'[a] = [at |-> "committed"]
      <4>1. save'[a] # None /\ save'[a].at = "committed"
        BY <3>3 DEF ConfConstants
      <4>. QED
        BY <3>1, <4>1 DEF SavesFit
    <3>. QED
      BY <1>1, <2>2, <3>2, <3>3 DEF Conf!Commit, ConfShape
  <2>3. ASSUME NEW a \in Admins, Conf!ReadRows(a) PROVE SavesFit'
    <3>1. save[a] # None /\ \A b \in Admins \ {a} : save[b] = None /\ save'[b] = None
      BY <1>1, <2>3 DEF Conf!ReadRows, SavesFit, ConfShape
    <3>2. save'[a] = [at |-> "read", rows |-> stored] /\ UNCHANGED <<stored, held>>
      BY <1>1, <2>3 DEF Conf!ReadRows, ConfShape
    <3>3. save'[a] # None /\ save'[a].at = "read" /\ save'[a].rows = stored
      BY <1>1, <3>2 DEF ConfConstants, ConfShape
    <3>. QED
      BY <3>1, <3>2, <3>3 DEF SavesFit
  <2>4. ASSUME NEW a \in Admins, Conf!Reload(a) PROVE SavesFit'
    <3>1. /\ \A b \in Admins : save'[b] = None
          /\ held' = stored /\ UNCHANGED stored
      BY <1>1, <2>4 DEF Conf!Reload, Conf!Reloaded, SavesFit, ConfShape
    <3>. QED
      BY <3>1 DEF SavesFit
  <2>5. CASE Conf!Restart
    BY <2>5 DEF Conf!Restart, SavesFit
  <2>6. CASE UNCHANGED <<stored, held, save>>
    BY <1>1, <2>6 DEF SavesFit
  <2>. QED
    BY <1>1, <2>1, <2>2, <2>3, <2>4, <2>5, <2>6 DEF Conf!ConfigNext, Conf!configVars, Conf!Fetch,
      Conf!Type, Conf!Use
<1>2. SavesFit => Conf!HeldIsStored
  BY DEF SavesFit, Conf!HeldIsStored
<1>. QED
  BY <1>1, <1>2, ConfStarts, ConfKept, PTL

(* However saves cross, a save sends what was typed since its form last    *)
(* showed what the server says (ConfigGroupCard).                          *)
THEOREM OnlyTypedIsEverSent ==
  ASSUME ConfConstants
  PROVE  Conf!ConfigInit /\ [][Conf!ConfigNext]_Conf!configVars => [][Conf!OnlyTypedIsSent]_Conf!configVars
<1>1. ASSUME ConfShape, FormsFit, [Conf!ConfigNext]_Conf!configVars
      PROVE  FormsFit' /\ Conf!OnlyTypedIsSent
  <2>1. ASSUME NEW a \in Admins, Conf!Fetch(a) PROVE FormsFit'
    <3>1. \A b \in Admins \ {a} : UNCHANGED <<draft[b], shown[b], edited[b]>>
      BY <1>1, <2>1 DEF Conf!Fetch, ConfShape
    <3>2. \A k \in Keys : draft'[a][k] = shown'[a][k].value
      BY <1>1, <2>1 DEF Conf!Fetch, Conf!Reseeded, Conf!Seed, ConfShape
    <3>. QED
      BY <1>1, <3>1, <3>2 DEF FormsFit
  <2>2. ASSUME NEW a \in Admins, NEW k \in Keys, NEW v \in Conf!Entries, Conf!Type(a, k, v)
        PROVE  FormsFit'
    <3>1. /\ \A b \in Admins, j \in Keys : <<b, j>> # <<a, k>> =>
               draft'[b][j] = draft[b][j] /\ (j \in edited[b] => j \in edited'[b])
          /\ k \in edited'[a] /\ UNCHANGED shown
      BY <1>1, <2>2 DEF Conf!Type, ConfShape
    <3>. QED
      BY <1>1, <3>1 DEF FormsFit
  <2>3. ASSUME UNCHANGED <<draft, shown, edited>> PROVE FormsFit'
    BY <1>1, <2>3 DEF FormsFit
  <2>4. FormsFit'
    BY <1>1, <2>1, <2>2, <2>3 DEF Conf!ConfigNext, Conf!configVars, Conf!Save, Conf!Commit, Conf!ReadRows,
      Conf!Reload, Conf!Use, Conf!Restart
  <2>5. ASSUME NEW a \in Admins, Conf!Save(a) PROVE Conf!OnlyTypedIsSent
    <3>1. \A b \in Admins \ {a} : save'[b] = save[b]
      BY <1>1, <2>5 DEF Conf!Save, ConfShape
    <3>2. save'[a].entries = [k \in Conf!Changed(a) |-> draft[a][k]]
      BY <1>1, <2>5 DEF Conf!Save, ConfShape
    <3>3. Conf!Changed(a) \subseteq edited[a]
      BY <1>1 DEF FormsFit, Conf!Changed, Conf!Seed
    <3>. QED
      BY <3>1, <3>2, <3>3 DEF Conf!OnlyTypedIsSent
  <2>6. ASSUME \A a \in Admins : save[a] = None => save'[a] = None PROVE Conf!OnlyTypedIsSent
    BY <2>6 DEF Conf!OnlyTypedIsSent
  <2>7. ASSUME NEW a \in Admins, Conf!Commit(a) \/ Conf!ReadRows(a) \/ Conf!Reload(a)
        PROVE  \A b \in Admins : save[b] = None => save'[b] = None
    BY <1>1, <2>7 DEF Conf!Commit, Conf!ReadRows, Conf!Reload, ConfShape
  <2>8. ASSUME Conf!Restart PROVE Conf!OnlyTypedIsSent
    BY <2>6, <2>8 DEF Conf!Restart
  <2>9. ASSUME UNCHANGED save PROVE Conf!OnlyTypedIsSent
    BY <2>6, <2>9
  <2>. QED
    BY <1>1, <2>4, <2>5, <2>6, <2>7, <2>8, <2>9 DEF Conf!ConfigNext, Conf!configVars, Conf!Fetch,
      Conf!Type, Conf!Use
<1>. QED
  BY <1>1, ConfStarts, ConfKept, PTL

-----------------------------------------------------------------------------
(* MailForm                                                                *)
VARIABLES box, page, editor, update

MailBox == INSTANCE MailForm

(* What is sent was complete when it was sent; a list that shows the row   *)
(* has it; None is no row and no form.                                     *)
Sendable(sent) ==
  /\ sent.new \in BOOLEAN /\ sent.body \in MailBox!Forms
  /\ MailBox!needsHost(sent.body.provider) => sent.body.host # ""
  /\ MailBox!usesSmtp(sent.body.provider) => sent.body.login
  /\ sent.new => sent.body.typed

BoxConstants == None \notin MailBox!Boxes \cup MailBox!Forms

BoxShape ==
  /\ box \in MailBox!Boxes \cup {None} /\ MailBox!LooksAsItIs
  /\ page \in [Admins -> MailBox!Boxes \cup {None}]
  /\ \A a \in Admins : page[a] # None => box # None
  /\ editor \in [Admins -> MailBox!Forms \cup {None}]
  /\ update = [a \in Admins |-> update[a]]
  /\ \A a \in Admins : update[a] # None =>
       /\ Sendable(update[a])
       /\ ~update[a].new => box # None

LEMMA BoxKept == ASSUME BoxConstants, BoxShape, [MailBox!MailFormNext]_MailBox!mailVars PROVE BoxShape'
<1>1. ASSUME NEW a \in Admins, MailBox!Fetch(a) PROVE BoxShape'
  BY <1>1 DEF BoxShape, MailBox!Fetch, MailBox!LooksAsItIs
<1>2. ASSUME NEW a \in Admins, MailBox!Open(a) PROVE BoxShape'
  <2>1. [provider |-> "smtp", host |-> "", login |-> FALSE, typed |-> FALSE] \in MailBox!Forms
    BY DEF MailBox!Forms, MailBox!Providers, MailBox!Hosts
  <2>2. page[a] # None => MailBox!Filled(page[a]) \in MailBox!Forms
    BY DEF BoxShape, MailBox!Forms, MailBox!Boxes, MailBox!Filled
  <2>3. editor' \in [Admins -> MailBox!Forms \cup {None}]
    BY <1>2, <2>1, <2>2 DEF BoxShape, MailBox!Open
  <2>. QED
    BY <1>2, <2>3 DEF BoxShape, MailBox!Open, MailBox!LooksAsItIs
<1>3. ASSUME NEW a \in Admins, MailBox!Close(a) PROVE BoxShape'
  BY <1>3 DEF BoxShape, MailBox!Close, MailBox!LooksAsItIs
<1>4. ASSUME NEW a \in Admins, MailBox!Type(a) PROVE BoxShape'
  <2>1. editor[a] \in MailBox!Forms
    BY <1>4 DEF BoxShape, MailBox!Type
  <2>2. PICK f \in MailBox!Forms : editor' = [editor EXCEPT ![a] = f]
    <3>1. \A p \in MailBox!Providers : [editor[a] EXCEPT !.provider = p] \in MailBox!Forms
      BY <2>1 DEF MailBox!Forms
    <3>2. \A h \in MailBox!Hosts : [editor[a] EXCEPT !.host = h] \in MailBox!Forms
      BY <2>1 DEF MailBox!Forms
    <3>3. \A l \in BOOLEAN : [editor[a] EXCEPT !.login = l] \in MailBox!Forms
      BY <2>1 DEF MailBox!Forms
    <3>4. \A t \in BOOLEAN : [editor[a] EXCEPT !.typed = t] \in MailBox!Forms
      BY <2>1 DEF MailBox!Forms
    <3>. QED
      BY <1>4, <3>1, <3>2, <3>3, <3>4 DEF MailBox!Type
  <2>. QED
    BY <1>4, <2>2 DEF BoxShape, MailBox!Type, MailBox!LooksAsItIs
<1>5. ASSUME NEW a \in Admins, MailBox!Save(a) PROVE BoxShape'
  <2>. DEFINE sent == [new |-> page[a] = None, body |-> editor[a]]
  <2>1. Sendable(sent)
    BY <1>5 DEF BoxShape, Sendable, MailBox!Save, MailBox!complete, MailBox!needsSecret
  <2>2. ~sent.new => box # None
    BY DEF BoxShape
  <2>3. update' = [update EXCEPT ![a] = sent]
    BY <1>5 DEF MailBox!Save
  <2>. HIDE DEF sent
  <2>. QED
    BY <1>5, <2>1, <2>2, <2>3 DEF BoxShape, MailBox!Save, MailBox!LooksAsItIs
<1>6. ASSUME NEW a \in Admins, MailBox!Land(a) PROVE BoxShape'
  <2>1. Sendable(update[a]) /\ (~update[a].new => box # None)
    BY <1>6 DEF BoxShape, MailBox!Land
  <2>2. /\ update' = [update EXCEPT ![a] = None]
        /\ \A b \in Admins : update'[b] # None => update'[b] = update[b]
    BY <1>6 DEF BoxShape, MailBox!Land
  <2>3. CASE UNCHANGED <<box, page, editor>>
    BY <2>2, <2>3 DEF BoxShape, MailBox!LooksAsItIs
  <2>4. CASE ~MailBox!Refused(update[a])
    <3>. DEFINE kept == IF update[a].new /\ box # None THEN box ELSE MailBox!Stored(update[a])
    <3>1. /\ box' = kept /\ page' = [page EXCEPT ![a] = kept]
          /\ editor' = [editor EXCEPT ![a] = None]
      BY <1>6, <2>4 DEF MailBox!Land
    <3>2. CASE ~(update[a].new /\ box # None)
      <4>1. kept = MailBox!Stored(update[a])
        BY <3>2
      <4>2. MailBox!Stored(update[a]) \in MailBox!Boxes
        BY <2>1, <2>4, <3>2 DEF MailBox!Stored, MailBox!Boxes, MailBox!Forms, Sendable, BoxShape,
          MailBox!Refused, MailBox!Switched, MailBox!Hosts, MailBox!usesSmtp, MailBox!needsHost
      <4>3. LET b == MailBox!Stored(update[a])
            IN  /\ b.secret = b.provider
                /\ MailBox!usesSmtp(b.provider) <=> b.login
                /\ MailBox!needsHost(b.provider) <=> b.host # ""
                /\ b.provider = "relay" => b.host = "url"
        BY <2>1, <2>4, <3>2 DEF MailBox!Stored, MailBox!Boxes, MailBox!Forms, Sendable, BoxShape,
          MailBox!Refused, MailBox!Switched, MailBox!BadHost, MailBox!Hosts, MailBox!usesSmtp,
          MailBox!needsHost, MailBox!LooksAsItIs
      <4>4. box' \in MailBox!Boxes /\ box' # None
        BY <3>1, <4>1, <4>2 DEF BoxConstants
      <4>5. MailBox!LooksAsItIs'
        BY <3>1, <4>1, <4>3 DEF MailBox!LooksAsItIs
      <4>. QED
        BY <2>2, <3>1, <4>4, <4>5 DEF BoxShape
    <3>3. CASE update[a].new /\ box # None
      BY <2>2, <3>1, <3>3 DEF BoxShape, MailBox!LooksAsItIs
    <3>. QED
      BY <3>2, <3>3
  <2>. QED
    BY <1>6, <2>3, <2>4 DEF MailBox!Land
<1>7. CASE UNCHANGED MailBox!mailVars
  BY <1>7 DEF BoxShape, MailBox!mailVars, MailBox!LooksAsItIs
<1>. QED
  BY <1>1, <1>2, <1>3, <1>4, <1>5, <1>6, <1>7 DEF MailBox!MailFormNext

(* However the forms of any number of administrators cross, a row that     *)
(* looks configured is (create, update, validate).                         *)
THEOREM RowLooksAsItIs ==
  ASSUME BoxConstants
  PROVE  MailBox!MailFormInit /\ [][MailBox!MailFormNext]_MailBox!mailVars => []MailBox!LooksAsItIs
<1>1. MailBox!MailFormInit => BoxShape
  BY DEF MailBox!MailFormInit, BoxShape, MailBox!LooksAsItIs
<1>2. BoxShape /\ [MailBox!MailFormNext]_MailBox!mailVars => BoxShape'
  BY BoxKept
<1>3. BoxShape => MailBox!LooksAsItIs
  BY DEF BoxShape
<1>. QED
  BY <1>1, <1>2, <1>3, PTL

-----------------------------------------------------------------------------
(* RateCard                                                                *)
CONSTANTS Fields, Optional, Figures, OneField, MaxEdits

VARIABLES card, log, seen, typed, patch

Cards == INSTANCE RateCard

(* A blank form is a row, and None is not.                                 *)
CardConstants ==
  /\ None \notin Cards!Rows
  /\ \E r \in Cards!Rows : \A f \in Optional : r[f] = None

Figured == UNION {Figures[f] : f \in Fields}
Parts == UNION {[some -> Figured] : some \in SUBSET Fields}
CardEntry == [before : Parts \cup {<<>>}, after : Parts]

(* A request in flight makes a row, or says what it changes and from what. *)
PatchFits(p) ==
  /\ p.new \in BOOLEAN /\ p.after \in Parts
  /\ \A f \in DOMAIN p.after : p.after[f] \in Figures[f]
  /\ IF p.new THEN p.before = <<>> /\ DOMAIN p.after = Fields
     ELSE p.before \in Parts /\ DOMAIN p.before = DOMAIN p.after /\ DOMAIN p.after # {} /\ card # None

CardShape ==
  /\ card \in Cards!Rows \cup {None}
  /\ log \in Seq(CardEntry) /\ (card = None => log = <<>>)
  /\ typed \in [Admins -> Cards!Rows \cup {None}] /\ seen \in [Admins -> Cards!Rows \cup {None}]
  /\ \A a \in Admins : seen[a] # None => card # None /\ typed[a] # None
  /\ patch = [a \in Admins |-> patch[a]]
  /\ \A a \in Admins : patch[a] # None => PatchFits(patch[a])

LEMMA CardStarts == ASSUME CardConstants, Cards!CardInit PROVE CardShape /\ Cards!AuditTellsTheRow
BY DEF CardConstants, Cards!CardInit, CardShape, Cards!AuditTellsTheRow

(* What a request takes with it.                                           *)
LEMMA CardReads ==
  ASSUME CardConstants, CardShape, NEW a \in Admins, Cards!ReadNew(a) \/ Cards!Read(a)
  PROVE  /\ PatchFits(patch'[a])
         /\ \A b \in Admins \ {a} : patch'[b] = patch[b]
         /\ patch' = [b \in Admins |-> patch'[b]]
         /\ UNCHANGED <<card, log, seen, typed>>
<1>1. CASE Cards!ReadNew(a)
  <2>1. typed[a] \in Cards!Rows
    BY <1>1 DEF CardShape, Cards!ReadNew
  <2>2. typed[a] \in [Fields -> Figured] /\ \A f \in Fields : typed[a][f] \in Figures[f]
    BY <2>1 DEF Cards!Rows, Figured
  <2>3. typed[a] \in Parts
    BY <2>2 DEF Parts
  <2>4. patch' = [patch EXCEPT ![a] = [new |-> TRUE, before |-> <<>>, after |-> typed[a]]]
    BY <1>1 DEF Cards!ReadNew
  <2>5. PatchFits([new |-> TRUE, before |-> <<>>, after |-> typed[a]])
    BY <2>2, <2>3 DEF PatchFits
  <2>. QED
    BY <1>1, <2>4, <2>5 DEF CardShape, PatchFits, Cards!ReadNew
<1>2. CASE Cards!Read(a)
  <2>. DEFINE found == Cards!Changed(Cards!Sent(a), typed[a])
              before == [f \in {g \in found : card[g] # typed[a][g]} |-> card[f]]
              after == [f \in found |-> typed[a][f]]
  <2>1. typed[a] \in Cards!Rows /\ card \in Cards!Rows /\ card # None
    BY <1>2 DEF CardShape, Cards!Read
  <2>2. /\ \A f \in Fields : typed[a][f] \in Figures[f]
        /\ \A f \in Fields : typed[a][f] \in Figured /\ card[f] \in Figured
    BY <2>1 DEF Cards!Rows, Figured
  <2>3. found \subseteq Fields /\ {g \in found : card[g] # typed[a][g]} = found
    BY DEF Cards!Changed, Cards!Sent, Cards!Dirty
  <2>4. found # {} /\ patch' = [patch EXCEPT ![a] = [new |-> FALSE, before |-> before, after |-> after]]
    BY <1>2 DEF Cards!Read
  <2>. HIDE DEF found
  <2>5. before \in Parts /\ after \in Parts /\ DOMAIN before = found /\ DOMAIN after = found
    <3>1. before \in [found -> Figured] /\ after \in [found -> Figured]
      BY <2>2, <2>3
    <3>. QED
      BY <2>3, <3>1 DEF Parts
  <2>6. \A f \in found : after[f] \in Figures[f]
    BY <2>2, <2>3
  <2>. HIDE DEF before, after
  <2>7. PatchFits([new |-> FALSE, before |-> before, after |-> after])
    BY <2>1, <2>4, <2>5, <2>6 DEF PatchFits
  <2>. QED
    BY <1>2, <2>4, <2>7 DEF CardShape, PatchFits, Cards!Read
<1>. QED
  BY <1>1, <1>2

(* What a request writes: the row it says, and the entry that tells it.    *)
LEMMA CardWrites ==
  ASSUME CardConstants, CardShape, NEW a \in Admins, Cards!Write(a), ~Cards!Taken(a)
  PROVE  /\ PatchFits(patch[a])
         /\ card' \in Cards!Rows /\ card' # None
         /\ \A f \in DOMAIN patch[a].after : card'[f] = patch[a].after[f]
         /\ \A f \in Fields \ DOMAIN patch[a].after : card'[f] = card[f]
         /\ Cards!Entry(a) \in CardEntry /\ log' = Append(log, Cards!Entry(a))
         /\ Cards!Entry(a).before = patch[a].before
         /\ DOMAIN Cards!Entry(a).after =
              IF patch[a].new THEN Fields \ Optional ELSE DOMAIN patch[a].after
         /\ \A f \in DOMAIN Cards!Entry(a).after : Cards!Entry(a).after[f] = patch[a].after[f]
         /\ patch[a].new => card = None
<1>1. PatchFits(patch[a]) /\ (patch[a].new => card = None)
  BY DEF CardShape, Cards!Write, Cards!Taken
<1>2. DOMAIN patch[a].after \subseteq Fields /\ patch[a].after \in [DOMAIN patch[a].after -> Figured]
  BY <1>1 DEF PatchFits, Parts
<1>3. card' = [f \in Fields |-> IF f \in DOMAIN patch[a].after THEN patch[a].after[f] ELSE card[f]]
  BY DEF Cards!Write
<1>4. card' \in Cards!Rows
  <2>1. ASSUME NEW f \in Fields PROVE card'[f] \in Figures[f]
    <3>1. CASE patch[a].new
      BY <1>1, <1>3, <3>1 DEF PatchFits
    <3>2. CASE ~patch[a].new
      <4>1. card \in Cards!Rows
        BY <1>1, <3>2 DEF PatchFits, CardShape
      <4>. QED
        BY <1>1, <1>3, <4>1 DEF PatchFits, Cards!Rows
    <3>. QED
      BY <3>1, <3>2
  <2>. QED
    BY <1>3, <2>1 DEF Cards!Rows
<1>. DEFINE told == IF patch[a].new THEN Fields \ Optional ELSE DOMAIN patch[a].before
            after == [f \in told |-> patch[a].after[f]]
<1>5. Cards!Entry(a) = [before |-> patch[a].before, after |-> after]
  BY DEF Cards!Entry
<1>6. told \subseteq DOMAIN patch[a].after
      /\ told = IF patch[a].new THEN Fields \ Optional ELSE DOMAIN patch[a].after
  BY <1>1 DEF PatchFits
<1>7. after \in Parts
  <2>1. after \in [told -> Figured] /\ told \in SUBSET Fields
    BY <1>2, <1>6
  <2>. QED
    BY <2>1 DEF Parts
<1>8. Cards!Entry(a) \in CardEntry
  BY <1>1, <1>5, <1>7 DEF PatchFits, CardEntry
<1>9. log' = Append(log, Cards!Entry(a))
  BY DEF Cards!Write
<1>10. /\ Cards!Entry(a).before = patch[a].before
       /\ Cards!Entry(a).after = after
  BY <1>5
<1>. QED
  BY <1>1, <1>3, <1>4, <1>6, <1>8, <1>9, <1>10, <1>2 DEF CardConstants

LEMMA CardKept == ASSUME CardConstants, CardShape, [Cards!CardNext]_Cards!cardVars PROVE CardShape'
<1>1. ASSUME NEW a \in Admins, Cards!Fetch(a) PROVE CardShape'
  BY <1>1 DEF CardShape, PatchFits, Cards!Fetch
<1>2. ASSUME NEW a \in Admins, Cards!OpenNew(a) PROVE CardShape'
  <2>1. (CHOOSE r \in Cards!Rows : \A f \in Optional : r[f] = None) \in Cards!Rows
    BY DEF CardConstants
  <2>. DEFINE blank == CHOOSE r \in Cards!Rows : \A f \in Optional : r[f] = None
  <2>2. typed' = [typed EXCEPT ![a] = blank] /\ blank # None
    BY <1>2, <2>1 DEF Cards!OpenNew, CardConstants
  <2>. HIDE DEF blank
  <2>3. typed' \in [Admins -> Cards!Rows \cup {None}] /\ \A b \in Admins : typed[b] # None => typed'[b] # None
    BY <2>1, <2>2 DEF CardShape, blank
  <2>. QED
    BY <1>2, <2>3 DEF CardShape, PatchFits, Cards!OpenNew
<1>3. ASSUME NEW a \in Admins, Cards!Open(a) \/ Cards!Close(a) PROVE CardShape'
  BY <1>3 DEF CardShape, PatchFits, Cards!Open, Cards!Close
<1>4. ASSUME NEW a \in Admins, NEW f \in Fields, NEW v \in Figures[f], Cards!Type(a, f, v) PROVE CardShape'
  <2>1. typed[a] \in Cards!Rows /\ typed' = [typed EXCEPT ![a] = [typed[a] EXCEPT ![f] = v]]
    BY <1>4 DEF CardShape, Cards!Type
  <2>2. [typed[a] EXCEPT ![f] = v] \in Cards!Rows
    BY <2>1 DEF Cards!Rows
  <2>3. [typed[a] EXCEPT ![f] = v] # None
    BY <2>2 DEF CardConstants
  <2>. QED
    BY <1>4, <2>1, <2>2, <2>3 DEF CardShape, PatchFits, Cards!Type
<1>5. ASSUME NEW a \in Admins, Cards!ReadNew(a) \/ Cards!Read(a) PROVE CardShape'
  BY <1>5, CardReads DEF CardShape, PatchFits
<1>6. ASSUME NEW a \in Admins, Cards!Write(a) PROVE CardShape'
  <2>1. CASE Cards!Taken(a)
    BY <1>6, <2>1 DEF CardShape, PatchFits, Cards!Write
  <2>2. CASE ~Cards!Taken(a)
    <3>1. card' \in Cards!Rows /\ card' # None /\ log' \in Seq(CardEntry)
      BY <1>6, <2>2, CardWrites DEF CardShape
    <3>2. /\ seen' = [seen EXCEPT ![a] = None] /\ typed' = [typed EXCEPT ![a] = None]
          /\ patch' = [patch EXCEPT ![a] = None]
      BY <1>6, <2>2 DEF Cards!Write
    <3>. QED
      BY <3>1, <3>2 DEF CardShape, PatchFits
  <2>. QED
    BY <2>1, <2>2
<1>7. CASE UNCHANGED Cards!cardVars
  BY <1>7 DEF CardShape, PatchFits, Cards!cardVars
<1>. QED
  BY <1>1, <1>2, <1>3, <1>4, <1>5, <1>6, <1>7 DEF Cards!CardNext

(* However requests cross between read and write, the newest entry that    *)
(* speaks of a field gives the value it has, and a row is made once        *)
(* (createPackage, updatePackage, updateTax).                              *)
THEOREM AuditAlwaysTellsTheRow ==
  ASSUME CardConstants
  PROVE  Cards!CardInit /\ [][Cards!CardNext]_Cards!cardVars => []Cards!AuditTellsTheRow
<1>1. ASSUME CardShape, Cards!AuditTellsTheRow, [Cards!CardNext]_Cards!cardVars
      PROVE  Cards!AuditTellsTheRow'
  <2>1. CASE UNCHANGED <<card, log>>
    BY <1>1, <2>1 DEF Cards!AuditTellsTheRow
  <2>2. ASSUME NEW a \in Admins, Cards!Write(a), ~Cards!Taken(a) PROVE Cards!AuditTellsTheRow'
    <3>. DEFINE entry == Cards!Entry(a)
                n == Len(log)
    <3>1. /\ PatchFits(patch[a]) /\ (patch[a].new => card = None)
          /\ \A f \in DOMAIN patch[a].after : card'[f] = patch[a].after[f]
          /\ \A f \in Fields \ DOMAIN patch[a].after : card'[f] = card[f]
          /\ entry \in CardEntry /\ log' = Append(log, entry) /\ entry.before = patch[a].before
          /\ DOMAIN entry.after = IF patch[a].new THEN Fields \ Optional ELSE DOMAIN patch[a].after
          /\ \A f \in DOMAIN entry.after : entry.after[f] = patch[a].after[f]
      BY <1>1, <2>2, CardWrites
    <3>. HIDE DEF entry
    <3>2. /\ n \in Nat /\ DOMAIN log = 1 .. n /\ DOMAIN log' = 1 .. n + 1
          /\ \A i \in 1 .. n : log'[i] = log[i]
          /\ log'[n + 1] = entry
      BY <1>1, <3>1 DEF CardShape
    <3>. HIDE DEF n
    <3>3. \A i, j \in DOMAIN log' : log'[i].before = <<>> /\ log'[j].before = <<>> => i = j
      <4>1. CASE patch[a].new
        <5>1. n = 0
          BY <1>1, <3>1, <4>1 DEF CardShape, n
        <5>. QED
          BY <3>2, <5>1
      <4>2. CASE ~patch[a].new
        <5>1. entry.before # <<>>
          BY <3>1, <4>2 DEF PatchFits
        <5>. QED
          BY <1>1, <3>2, <5>1 DEF Cards!AuditTellsTheRow
      <4>. QED
        BY <4>1, <4>2
    <3>4. ASSUME NEW f \in Fields, {i \in DOMAIN log' : f \in DOMAIN log'[i].after} # {}
          PROVE  \E i \in {k \in DOMAIN log' : f \in DOMAIN log'[k].after} :
                   /\ \A j \in {k \in DOMAIN log' : f \in DOMAIN log'[k].after} : j <= i
                   /\ log'[i].after[f] = card'[f]
      <4>1. CASE f \in DOMAIN entry.after
        <5>1. f \in DOMAIN patch[a].after
          BY <3>1, <4>1 DEF PatchFits
        <5>2. log'[n + 1].after[f] = card'[f] /\ \A j \in DOMAIN log' : j <= n + 1
          BY <3>1, <3>2, <4>1, <5>1
        <5>. QED
          BY <3>2, <4>1, <5>2
      <4>2. CASE f \notin DOMAIN entry.after
        <5>1. {k \in DOMAIN log' : f \in DOMAIN log'[k].after} = {k \in DOMAIN log : f \in DOMAIN log[k].after}
          BY <3>2, <4>2
        <5>2. n # 0
          BY <3>2, <3>4, <5>1
        <5>3. ~patch[a].new
          BY <1>1, <3>1, <5>2 DEF CardShape, n
        <5>4. card'[f] = card[f]
          BY <3>1, <4>2, <5>3 DEF PatchFits
        <5>5. PICK i \in {k \in DOMAIN log : f \in DOMAIN log[k].after} :
                /\ \A j \in {k \in DOMAIN log : f \in DOMAIN log[k].after} : j <= i
                /\ log[i].after[f] = card[f]
          BY <1>1, <3>4, <5>1 DEF Cards!AuditTellsTheRow
        <5>. QED
          BY <3>2, <5>1, <5>4, <5>5
      <4>. QED
        BY <4>1, <4>2
    <3>. QED
      BY <3>3, <3>4 DEF Cards!AuditTellsTheRow
  <2>3. ASSUME NEW a \in Admins, Cards!Write(a), Cards!Taken(a) PROVE UNCHANGED <<card, log>>
    BY <2>3 DEF Cards!Write
  <2>. QED
    BY <1>1, <2>1, <2>2, <2>3 DEF Cards!CardNext, Cards!cardVars, Cards!Fetch, Cards!OpenNew, Cards!Open,
      Cards!Close, Cards!Type, Cards!ReadNew, Cards!Read
<1>. QED
  BY <1>1, CardStarts, CardKept, PTL

-----------------------------------------------------------------------------
(* Contacts                                                                *)
CONSTANTS Brands, Details, Reps, Office, Sales, Files

VARIABLES book, told

Book == INSTANCE Contacts

Contact == [by : Book!Users, details : Details]
Sold == [rep : Reps, brand : Brands]
FileRow == [brand : Brands, details : Details, valid : BOOLEAN]
Filing ==
  [kind : {"sale"}, user : Book!Users, sale : Sales, brand : Brands, details : Details,
   new : BOOLEAN, found : BOOLEAN, may : BOOLEAN]
Creating == [kind : {"create"}, user : Book!Users, brand : Brands, details : Details]
Answers == Seq({"in", "error"})
Reading ==
  [kind : {"import"}, user : Book!Users, file : DOMAIN Files, said : Answers, free : Brands \cup {None},
   before : SUBSET Brands]
Told == [file : DOMAIN Files, said : Answers, before : SUBSET Brands]

(* None is no contact, no sale, no answer and no brand.                    *)
BookConstants ==
  /\ None \notin Contact \cup Sold \cup Brands \cup Told
  /\ \A f \in DOMAIN Files : Files[f] \in Seq(FileRow)

(* Of the rows answered the good ones are in the book, and at most one of  *)
(* a brand is said to be in.                                               *)
SaidFits(f, said) ==
  /\ Len(said) <= Len(Files[f])
  /\ \A i \in 1 .. Len(said) :
       Files[f][i].valid \/ said[i] = "in" => book[Files[f][i].brand] # None
  /\ \A i, j \in 1 .. Len(said) :
       Files[f][i].brand = Files[f][j].brand /\ said[i] = "in" /\ said[j] = "in" => i = j

(* The row at hand, of a brand that was free when it was read.             *)
FreeFits(r) == r.free # None =>
  Len(r.said) < Book!Rows(r) /\ Book!Row(r).valid /\ r.free = Book!Row(r).brand

BookShape ==
  /\ book \in [Brands -> Contact \cup {None}]
  /\ sales \in [Sales -> Sold \cup {None}]
  /\ req \in [Reqs -> {Book!Idle} \cup Filing \cup Creating \cup Reading]
  /\ told \in [Book!Users -> Told \cup {None}]

BookFits ==
  /\ \A q \in Reqs : req[q].kind = "sale" =>
       /\ req[q].found => book[req[q].brand] # None
       /\ IF req[q].new THEN req[q].user \in Reps ELSE sales[req[q].sale] # None
  /\ \A q \in Reqs : req[q].kind = "import" =>
       SaidFits(req[q].file, req[q].said) /\ FreeFits(req[q])
  /\ \A u \in Book!Users : told[u] # None =>
       SaidFits(told[u].file, told[u].said) /\ Len(told[u].said) = Len(Files[told[u].file])

(* The brands remembered were in the book, and the rows said to be in are  *)
(* none of them, but the entries of who sent the file.                     *)
ClaimFits(u, f, said, before) ==
  /\ \A b \in before : book[b] # None
  /\ \A i \in 1 .. Len(said) : said[i] = "in" =>
       Files[f][i].brand \notin before /\ book[Files[f][i].brand] # None
         /\ book[Files[f][i].brand].by = u

BookClaims ==
  /\ \A q \in Reqs : req[q].kind = "import" =>
       ClaimFits(req[q].user, req[q].file, req[q].said, req[q].before)
  /\ \A u \in Book!Users : told[u] # None =>
       ClaimFits(u, told[u].file, told[u].said, told[u].before)

(* Who may write has seen the contact.                                     *)
SeersMay == \A q \in Reqs :
  req[q].kind = "sale" /\ req[q].may => Book!MaySee(req[q].user, req[q].brand)

(* Sales that are not amended are filed once.                              *)
SalesAreNew ==
  /\ \A q \in Reqs : req[q].kind = "sale" => req[q].new /\ sales[req[q].sale] = None
  /\ \A p, q \in Reqs :
       req[p].kind = "sale" /\ req[q].kind = "sale" /\ req[p].sale = req[q].sale => p = q

(* What each request is, by its kind.                                      *)
LEMMA Kinds == ASSUME BookShape, NEW q \in Reqs
  PROVE  /\ req[q] = Book!Idle => req[q].kind = "idle"
         /\ req[q].kind = "sale" => req[q] \in Filing
         /\ req[q].kind = "create" => req[q] \in Creating
         /\ req[q].kind = "import" => req[q] \in Reading
<1>1. req[q] \in {Book!Idle} \cup Filing \cup Creating \cup Reading
  BY DEF BookShape
<1>. QED
  BY <1>1 DEF Book!Idle, Filing, Creating, Reading

(* What a sale leaves of its contact.                                      *)
LEMMA ResolvedIs ==
  ASSUME BookConstants, BookShape, BookFits, NEW q \in Reqs, req[q].kind = "sale"
  PROVE  LET r == req[q] IN
         /\ Book!Resolved(r) \in Contact
         /\ book[r.brand] # None =>
              /\ Book!Resolved(r).by = book[r.brand].by
              /\ Book!Resolved(r) # book[r.brand] => r.may
<1>. DEFINE r == req[q]
<1>1. r \in Filing /\ (r.found => book[r.brand] # None)
  BY Kinds DEF BookFits
<1>2. book[r.brand] \in Contact \cup {None}
  BY <1>1 DEF BookShape, Filing
<1>3. [by |-> r.user, details |-> r.details] \in Contact
  BY <1>1 DEF Filing, Contact
<1>4. book[r.brand] # None =>
        /\ [book[r.brand] EXCEPT !.details = r.details] \in Contact
        /\ [book[r.brand] EXCEPT !.details = r.details].by = book[r.brand].by
  BY <1>1, <1>2 DEF Filing, Contact
<1>5. CASE ~r.found /\ book[r.brand] = None
  BY <1>3, <1>5 DEF Book!Resolved
<1>6. CASE ~r.found /\ book[r.brand] # None
  BY <1>2, <1>6 DEF Book!Resolved
<1>7. CASE r.found /\ r.may
  BY <1>1, <1>4, <1>7 DEF Book!Resolved
<1>8. CASE r.found /\ ~r.may
  BY <1>1, <1>2, <1>8 DEF Book!Resolved
<1>9. r.found \in BOOLEAN /\ r.may \in BOOLEAN
  BY <1>1 DEF Filing
<1>. QED
  BY <1>5, <1>6, <1>7, <1>8, <1>9

(* The steps that write the book: a sale, one contact, a row of a file.    *)
LEMMA FilesSale ==
  ASSUME BookConstants, BookShape, BookFits, NEW q \in Reqs, Book!FileSale(q)
  PROVE  LET r == req[q] IN
         /\ r \in Filing
         /\ book' = [book EXCEPT ![r.brand] = Book!Resolved(r)] /\ Book!Resolved(r) \in Contact
         /\ \E s \in Sold : /\ sales' = [sales EXCEPT ![r.sale] = s]
                            /\ s.rep = IF r.new THEN r.user ELSE sales[r.sale].rep
         /\ req' = [req EXCEPT ![q] = Book!Idle] /\ UNCHANGED told
<1>. DEFINE r == req[q]
            s == [rep |-> IF r.new THEN r.user ELSE sales[r.sale].rep, brand |-> r.brand]
<1>1. r \in Filing /\ r.kind = "sale"
  BY Kinds DEF Book!FileSale
<1>2. sales' = [sales EXCEPT ![r.sale] = s]
  BY DEF Book!FileSale
<1>3. s \in Sold
  BY <1>1 DEF BookShape, BookFits, Filing, Sold
<1>4. s.rep = IF r.new THEN r.user ELSE sales[r.sale].rep
  OBVIOUS
<1>. HIDE DEF s
<1>. QED
  BY <1>1, <1>2, <1>3, <1>4, ResolvedIs DEF Book!FileSale

LEMMA InsertsOne ==
  ASSUME BookConstants, BookShape, NEW q \in Reqs, Book!InsertOne(q)
  PROVE  LET r == req[q] IN
         /\ r \in Creating
         /\ \E c \in Contact :
              book' = [book EXCEPT ![r.brand] = IF book[r.brand] = None THEN c ELSE book[r.brand]]
         /\ req' = [req EXCEPT ![q] = Book!Idle] /\ UNCHANGED <<sales, told>>
<1>. DEFINE r == req[q]
            c == [by |-> r.user, details |-> r.details]
<1>1. r \in Creating
  BY Kinds DEF Book!InsertOne
<1>2. c \in Contact
  BY <1>1 DEF Creating, Contact
<1>3. book' = [book EXCEPT ![r.brand] = IF book[r.brand] = None THEN c ELSE book[r.brand]]
  BY DEF Book!InsertOne
<1>. HIDE DEF c
<1>. QED
  BY <1>1, <1>2, <1>3 DEF Book!InsertOne

LEMMA InsertsRow ==
  ASSUME BookConstants, BookShape, BookFits, NEW q \in Reqs, Book!InsertRow(q)
  PROVE  LET r == req[q]
             free == book[r.free] = None
         IN
         /\ r \in Reading /\ r.free \in Brands
         /\ \E c \in Contact : /\ c.by = r.user
                               /\ book' = IF free THEN [book EXCEPT ![r.free] = c] ELSE book
         /\ req' = [req EXCEPT ![q] = [r EXCEPT !.said = Append(@, IF free THEN "in" ELSE "error"),
                                               !.free = None]]
         /\ UNCHANGED <<sales, told>>
<1>. DEFINE r == req[q]
            c == [by |-> r.user, details |-> Book!Row(r).details]
<1>1. r \in Reading /\ r.kind = "import" /\ r.free \in Brands
  BY Kinds DEF Book!InsertRow, Reading
<1>2. Len(r.said) < Book!Rows(r)
  BY <1>1 DEF Book!InsertRow, BookFits, FreeFits
<1>3. Book!Row(r) \in FileRow
  BY <1>1, <1>2 DEF Reading, Answers, Book!Row, Book!Rows, BookConstants
<1>4. c \in Contact
  BY <1>1, <1>3 DEF Reading, Contact, FileRow
<1>5. book' = IF book[r.free] = None THEN [book EXCEPT ![r.free] = c] ELSE book
  BY DEF Book!InsertRow
<1>6. c.by = r.user
  OBVIOUS
<1>. HIDE DEF c
<1>. QED
  BY <1>1, <1>4, <1>5, <1>6 DEF Book!InsertRow

(* A contact stays, whoever entered it, and so does a sale.                *)
LEMMA BookGrows ==
  ASSUME BookConstants, BookShape, BookFits, [Book!ContactsNext]_Book!contactsVars
  PROVE  /\ book' \in [Brands -> Contact \cup {None}] /\ sales' \in [Sales -> Sold \cup {None}]
         /\ \A b \in Brands : book[b] # None => book'[b] # None /\ book'[b].by = book[b].by
         /\ \A s \in Sales : sales[s] # None => sales'[s] # None
<1>. DEFINE Goal == /\ book' \in [Brands -> Contact \cup {None}] /\ sales' \in [Sales -> Sold \cup {None}]
                    /\ \A b \in Brands : book[b] # None => book'[b] # None /\ book'[b].by = book[b].by
                    /\ \A s \in Sales : sales[s] # None => sales'[s] # None
<1>1. ASSUME NEW q \in Reqs, Book!FileSale(q) PROVE Goal
  <2>1. req[q] \in Filing /\ req[q].kind = "sale"
    BY <1>1, FilesSale DEF Filing
  <2>2. req[q].brand \in Brands /\ req[q].sale \in Sales
    BY <2>1 DEF Filing
  <2>3. /\ book' = [book EXCEPT ![req[q].brand] = Book!Resolved(req[q])]
        /\ Book!Resolved(req[q]) \in Contact
        /\ book[req[q].brand] # None => Book!Resolved(req[q]).by = book[req[q].brand].by
    BY <1>1, <2>1, FilesSale, ResolvedIs
  <2>4. PICK s \in Sold : sales' = [sales EXCEPT ![req[q].sale] = s]
    BY <1>1, FilesSale
  <2>. QED
    BY <2>2, <2>3, <2>4 DEF BookShape, BookConstants
<1>2. ASSUME NEW q \in Reqs, Book!InsertOne(q) PROVE Goal
  <2>1. req[q].brand \in Brands /\ UNCHANGED sales
    BY <1>2, InsertsOne DEF Creating
  <2>2. PICK c \in Contact :
          book' = [book EXCEPT ![req[q].brand] = IF book[req[q].brand] = None THEN c ELSE book[req[q].brand]]
    BY <1>2, InsertsOne
  <2>. QED
    BY <2>1, <2>2 DEF BookShape, BookConstants
<1>3. ASSUME NEW q \in Reqs, Book!InsertRow(q) PROVE Goal
  <2>1. req[q].free \in Brands /\ UNCHANGED sales
    BY <1>3, InsertsRow
  <2>2. PICK c \in Contact :
          book' = IF book[req[q].free] = None THEN [book EXCEPT ![req[q].free] = c] ELSE book
    BY <1>3, InsertsRow
  <2>. QED
    BY <2>1, <2>2 DEF BookShape, BookConstants
<1>4. CASE UNCHANGED <<book, sales>>
  BY <1>4 DEF BookShape
<1>. QED
  BY <1>1, <1>2, <1>3, <1>4 DEF Book!ContactsNext, Book!contactsVars, Book!Create, Book!Resolve,
    Book!Import, Book!ReadRow, Book!AnswerImport

LEMMA SaidStays ==
  ASSUME BookConstants, NEW f \in DOMAIN Files, NEW said \in Answers, SaidFits(f, said),
         \A b \in Brands : book[b] # None => book'[b] # None
  PROVE  SaidFits(f, said)'
<1>1. \A i \in 1 .. Len(said) : Files[f][i].brand \in Brands
  <2>1. Files[f] \in Seq(FileRow) /\ Len(said) <= Len(Files[f]) /\ Len(said) \in Nat
    BY DEF BookConstants, SaidFits, Answers
  <2>2. \A i \in 1 .. Len(said) : Files[f][i] \in FileRow
    BY <2>1
  <2>. QED
    BY <2>2 DEF FileRow
<1>. QED
  BY <1>1 DEF SaidFits

(* The answer to one row more.                                             *)
LEMMA SaidGrows ==
  ASSUME BookConstants, NEW f \in DOMAIN Files, NEW said \in Answers, NEW word \in {"in", "error"},
         SaidFits(f, said), Len(said) < Len(Files[f]),
         \A b \in Brands : book[b] # None => book'[b] # None,
         LET line == Files[f][Len(said) + 1]
         IN  /\ word = "in" => book[line.brand] = None /\ book'[line.brand] # None
             /\ word = "error" /\ line.valid => book'[line.brand] # None
  PROVE  SaidFits(f, Append(said, word))' /\ Append(said, word) \in Answers
<1>. DEFINE n == Len(said)
<1>0. said \in Seq({"in", "error"}) /\ Append(said, word) \in Seq({"in", "error"})
  BY DEF Answers
<1>. PICK more \in Answers : more = Append(said, word)
  BY <1>0 DEF Answers
<1>1. /\ n \in Nat /\ Len(more) = n + 1
      /\ \A i \in 1 .. n : more[i] = said[i]
      /\ more[n + 1] = word
  BY <1>0
<1>2. \A i \in 1 .. n + 1 : Files[f][i].brand \in Brands
  <2>1. Files[f] \in Seq(FileRow) /\ n + 1 <= Len(Files[f])
    BY <1>1 DEF BookConstants
  <2>2. \A i \in 1 .. n + 1 : Files[f][i] \in FileRow
    BY <1>1, <2>1
  <2>. QED
    BY <2>2 DEF FileRow
<1>. HIDE DEF n
<1>3. Len(more) <= Len(Files[f])
  BY <1>1 DEF n, BookConstants
<1>4. \A i \in 1 .. n + 1 : Files[f][i].valid \/ more[i] = "in" => book'[Files[f][i].brand] # None
  BY <1>1, <1>2 DEF n, SaidFits
<1>5. \A i, j \in 1 .. n + 1 :
        Files[f][i].brand = Files[f][j].brand /\ more[i] = "in" /\ more[j] = "in" => i = j
  BY <1>1, <1>2 DEF n, SaidFits
<1>6. SaidFits(f, more)'
  BY <1>1, <1>3, <1>4, <1>5 DEF SaidFits
<1>. QED
  BY <1>6

LEMMA BookShapeKept ==
  ASSUME BookConstants, BookShape, BookFits, [Book!ContactsNext]_Book!contactsVars PROVE BookShape'
<1>0. book' \in [Brands -> Contact \cup {None}] /\ sales' \in [Sales -> Sold \cup {None}]
  BY BookGrows
<1>. DEFINE Requests == {Book!Idle} \cup Filing \cup Creating \cup Reading
<1>1. ASSUME NEW q \in Reqs, NEW r \in Requests, req' = [req EXCEPT ![q] = r], UNCHANGED told
      PROVE  BookShape'
  BY <1>0, <1>1 DEF BookShape
<1>2. ASSUME NEW q \in Reqs, NEW u \in Book!Users, NEW s \in Sales, NEW b \in Brands, NEW d \in Details,
             Book!Resolve(q, u, s, b, d)
      PROVE  BookShape'
  <2>. DEFINE r == [kind |-> "sale", user |-> u, sale |-> s, brand |-> b, details |-> d,
                    new |-> sales[s] = None, found |-> book[b] # None,
                    may |-> book[b] # None /\ Book!MayEdit(u, b)]
  <2>1. r \in Filing
    BY DEF Filing
  <2>2. req' = [req EXCEPT ![q] = r] /\ UNCHANGED told
    BY <1>2 DEF Book!Resolve, Book!Take
  <2>. HIDE DEF r
  <2>. QED
    BY <1>1, <2>1, <2>2
<1>3. ASSUME NEW q \in Reqs, NEW u \in Book!Users, NEW b \in Brands, NEW d \in Details,
             Book!Create(q, u, b, d)
      PROVE  BookShape'
  <2>1. [kind |-> "create", user |-> u, brand |-> b, details |-> d] \in Creating
    BY DEF Creating
  <2>. QED
    BY <1>1, <1>3, <2>1 DEF Book!Create, Book!Take
<1>4. ASSUME NEW q \in Reqs, NEW u \in Book!Users, NEW f \in DOMAIN Files, Book!Import(q, u, f)
      PROVE  BookShape'
  <2>1. [kind |-> "import", user |-> u, file |-> f, said |-> <<>>, free |-> None,
         before |-> {b \in Brands : book[b] # None}] \in Reading
    BY DEF Reading, Answers
  <2>. QED
    BY <1>1, <1>4, <2>1 DEF Book!Import, Book!Take
<1>5. ASSUME NEW q \in Reqs, Book!FileSale(q) PROVE BookShape'
  BY <1>1, <1>5, FilesSale
<1>6. ASSUME NEW q \in Reqs, Book!InsertOne(q) PROVE BookShape'
  BY <1>1, <1>6, InsertsOne
<1>7. ASSUME NEW q \in Reqs, Book!ReadRow(q) PROVE BookShape'
  <2>1. req[q] \in Reading /\ Len(req[q].said) < Book!Rows(req[q])
    BY <1>7, Kinds DEF Book!ReadRow
  <2>2. PICK r : /\ req' = [req EXCEPT ![q] = r]
                 /\ \/ Book!Row(req[q]).valid /\ r = [req[q] EXCEPT !.free = Book!Row(req[q]).brand]
                    \/ r = [req[q] EXCEPT !.said = Append(@, "error")]
    BY <1>7 DEF Book!ReadRow
  <2>3. Book!Row(req[q]) \in FileRow
    BY <2>1 DEF Reading, Answers, Book!Row, Book!Rows, BookConstants
  <2>4. req[q].said \in Answers
    BY <2>1 DEF Reading
  <2>5. Append(req[q].said, "error") \in Answers
    BY <2>4 DEF Answers
  <2>6. r \in Reading
    BY <2>1, <2>2, <2>3, <2>5 DEF Reading, FileRow
  <2>. QED
    BY <1>1, <1>7, <2>2, <2>6 DEF Book!ReadRow
<1>8. ASSUME NEW q \in Reqs, Book!InsertRow(q) PROVE BookShape'
  <2>1. req[q] \in Reading
    BY <1>8, InsertsRow
  <2>2. PICK word \in {"in", "error"} :
          req' = [req EXCEPT ![q] = [req[q] EXCEPT !.said = Append(@, word), !.free = None]]
    BY <1>8, InsertsRow
  <2>3. req[q].said \in Answers
    BY <2>1 DEF Reading
  <2>4. Append(req[q].said, word) \in Answers
    BY <2>3 DEF Answers
  <2>5. [req[q] EXCEPT !.said = Append(@, word), !.free = None] \in Reading
    BY <2>1, <2>4 DEF Reading
  <2>. QED
    BY <1>1, <1>8, <2>2, <2>5, InsertsRow
<1>9. ASSUME NEW q \in Reqs, Book!AnswerImport(q) PROVE BookShape'
  <2>1. req[q] \in Reading
    BY <1>9, Kinds DEF Book!AnswerImport
  <2>2. [file |-> req[q].file, said |-> req[q].said, before |-> req[q].before] \in Told
    BY <2>1 DEF Reading, Told
  <2>. QED
    BY <1>0, <1>9, <2>2 DEF BookShape, Book!AnswerImport
<1>10. CASE UNCHANGED Book!contactsVars
  BY <1>0, <1>10 DEF BookShape, Book!contactsVars
<1>. QED
  BY <1>2, <1>3, <1>4, <1>5, <1>6, <1>7, <1>8, <1>9, <1>10 DEF Book!ContactsNext

(* What the requests in flight and the answers say stays true.             *)
LEMMA BookFitsKept ==
  ASSUME BookConstants, BookShape, BookFits, [Book!ContactsNext]_Book!contactsVars PROVE BookFits'
<1>0. /\ \A b \in Brands : book[b] # None => book'[b] # None
      /\ \A s \in Sales : sales[s] # None => sales'[s] # None
  BY BookGrows
<1>. DEFINE SaleFits(r) == /\ r.found => book[r.brand] # None
                           /\ IF r.new THEN r.user \in Reps ELSE sales[r.sale] # None
            FileFits(r) == SaidFits(r.file, r.said) /\ FreeFits(r)
            ToldFits(u) == told[u] # None =>
              SaidFits(told[u].file, told[u].said) /\ Len(told[u].said) = Len(Files[told[u].file])
<1>1. ASSUME NEW p \in Reqs, req'[p] = req[p]
      PROVE  /\ req'[p].kind = "sale" => SaleFits(req[p])'
             /\ req'[p].kind = "import" => FileFits(req[p])'
  <2>1. CASE req[p].kind = "sale"
    <3>1. req[p].brand \in Brands /\ req[p].sale \in Sales
      BY <2>1, Kinds DEF Filing
    <3>. QED
      BY <1>0, <1>1, <2>1, <3>1 DEF BookFits
  <2>2. CASE req[p].kind = "import"
    <3>1. req[p].file \in DOMAIN Files /\ req[p].said \in Answers
      BY <2>2, Kinds DEF Reading
    <3>. PICK f \in DOMAIN Files, said \in Answers : f = req[p].file /\ said = req[p].said
      BY <3>1
    <3>2. SaidFits(f, said)'
      BY <1>0, <2>2, SaidStays DEF BookFits
    <3>3. FreeFits(req[p])'
      BY <1>1, <2>2 DEF BookFits, FreeFits, Book!Rows, Book!Row
    <3>. QED
      BY <1>1, <2>2, <3>2, <3>3
  <2>. QED
    BY <1>1, <2>1, <2>2
<1>2. ASSUME NEW u \in Book!Users, told'[u] = told[u] PROVE ToldFits(u)'
  <2>. SUFFICES ASSUME told[u] # None PROVE ToldFits(u)'
    BY <1>2
  <2>1. told[u].file \in DOMAIN Files /\ told[u].said \in Answers
    BY DEF BookShape, Told
  <2>. PICK f \in DOMAIN Files, said \in Answers : f = told[u].file /\ said = told[u].said
    BY <2>1
  <2>2. SaidFits(f, said)' /\ Len(said) = Len(Files[f])
    BY <1>0, SaidStays DEF BookFits
  <2>. QED
    BY <1>2, <2>2
<1>3. ASSUME NEW q \in Reqs, \A p \in Reqs \ {q} : req'[p] = req[p],
             req'[q].kind = "sale" => SaleFits(req[q])',
             req'[q].kind = "import" => FileFits(req[q])',
             \A u \in Book!Users : ToldFits(u)'
      PROVE  BookFits'
  BY <1>1, <1>3 DEF BookFits
<1>4. ASSUME NEW q \in Reqs, NEW u \in Book!Users, NEW s \in Sales, NEW b \in Brands, NEW d \in Details,
             Book!Resolve(q, u, s, b, d)
      PROVE  BookFits'
  <2>1. /\ \A p \in Reqs \ {q} : req'[p] = req[p]
        /\ req'[q].kind = "sale" /\ req'[q].brand = b /\ req'[q].sale = s /\ req'[q].user = u
        /\ req'[q].found <=> book[b] # None
        /\ req'[q].new <=> sales[s] = None
        /\ UNCHANGED <<book, sales, told>>
        /\ sales[s] = None => u \in Reps
    BY <1>4 DEF Book!Resolve, Book!Take, BookShape
  <2>. QED
    BY <1>2, <1>3, <2>1
<1>5. ASSUME NEW q \in Reqs, NEW u \in Book!Users, NEW b \in Brands, NEW d \in Details,
             Book!Create(q, u, b, d)
      PROVE  BookFits'
  <2>1. /\ \A p \in Reqs \ {q} : req'[p] = req[p]
        /\ req'[q].kind = "create" /\ UNCHANGED <<book, sales, told>>
    BY <1>5 DEF Book!Create, Book!Take, BookShape
  <2>. QED
    BY <1>2, <1>3, <2>1
<1>6. ASSUME NEW q \in Reqs, NEW u \in Book!Users, NEW f \in DOMAIN Files, Book!Import(q, u, f)
      PROVE  BookFits'
  <2>1. /\ \A p \in Reqs \ {q} : req'[p] = req[p]
        /\ req'[q].kind = "import" /\ req'[q].file = f /\ req'[q].said = <<>> /\ req'[q].free = None
        /\ UNCHANGED <<book, sales, told>>
    BY <1>6 DEF Book!Import, Book!Take, BookShape
  <2>2. Len(Files[f]) \in Nat
    BY DEF BookConstants
  <2>3. FileFits(req[q])'
    BY <2>1, <2>2 DEF SaidFits, FreeFits
  <2>. QED
    BY <1>2, <1>3, <2>1, <2>3
<1>7. ASSUME NEW q \in Reqs, Book!FileSale(q) \/ Book!InsertOne(q) PROVE BookFits'
  <2>1. /\ \A p \in Reqs \ {q} : req'[p] = req[p]
        /\ req'[q].kind = "idle" /\ UNCHANGED told
    BY <1>7 DEF Book!FileSale, Book!InsertOne, Book!Idle, BookShape
  <2>. QED
    BY <1>2, <1>3, <2>1
<1>8. ASSUME NEW q \in Reqs, Book!ReadRow(q) PROVE BookFits'
  <2>. DEFINE line == Book!Row(req[q])
  <2>1. /\ req[q] \in Reading /\ req[q].kind = "import" /\ Len(req[q].said) < Len(Files[req[q].file])
        /\ UNCHANGED <<book, sales, told>>
        /\ \A p \in Reqs \ {q} : req'[p] = req[p]
    BY <1>8, Kinds DEF Book!ReadRow, Book!Rows, BookShape
  <2>2. SaidFits(req[q].file, req[q].said)
    BY <2>1 DEF BookFits
  <2>3. CASE line.valid /\ book[line.brand] = None
    <3>1. req'[q] = [req[q] EXCEPT !.free = line.brand]
      BY <1>8, <2>3 DEF Book!ReadRow, BookShape
    <3>2. /\ req'[q].said = req[q].said /\ req'[q].file = req[q].file
          /\ req'[q].free = line.brand /\ req'[q].kind = "import"
      BY <2>1, <3>1 DEF Reading
    <3>3. FreeFits(req[q])'
      BY <2>1, <2>3, <3>2 DEF FreeFits, Book!Row, Book!Rows
    <3>4. SaidFits(req[q].file, req[q].said)'
      BY <2>1, <2>2, <3>2 DEF SaidFits
    <3>. QED
      BY <1>2, <1>3, <2>1, <3>2, <3>3, <3>4
  <2>4. CASE ~(line.valid /\ book[line.brand] = None)
    <3>1. req'[q] = [req[q] EXCEPT !.said = Append(@, "error")] /\ req[q].free = None
      BY <1>8, <2>4 DEF Book!ReadRow, BookShape
    <3>2. /\ req'[q].said = Append(req[q].said, "error") /\ req'[q].file = req[q].file
          /\ req'[q].free = None /\ req'[q].kind = "import"
      BY <2>1, <3>1 DEF Reading
    <3>. PICK f \in DOMAIN Files, said \in Answers : f = req[q].file /\ said = req[q].said
      BY <2>1 DEF Reading
    <3>3. SaidFits(f, Append(said, "error"))'
      BY <1>0, <2>1, <2>2, <2>4, SaidGrows DEF Book!Row
    <3>4. FileFits(req[q])'
      BY <3>2, <3>3 DEF FreeFits
    <3>. QED
      BY <1>2, <1>3, <2>1, <3>2, <3>4
  <2>. QED
    BY <2>3, <2>4
<1>9. ASSUME NEW q \in Reqs, Book!InsertRow(q) PROVE BookFits'
  <2>. DEFINE line == Book!Row(req[q])
              free == book[req[q].free] = None
              word == IF free THEN "in" ELSE "error"
  <2>1. /\ req[q] \in Reading /\ req[q].kind = "import" /\ req[q].free \in Brands
        /\ Len(req[q].said) < Len(Files[req[q].file]) /\ req[q].free = line.brand
        /\ \A p \in Reqs \ {q} : req'[p] = req[p]
        /\ UNCHANGED told
    BY <1>9, InsertsRow, Kinds DEF Book!InsertRow, BookFits, FreeFits, Book!Rows, BookShape
  <2>2. SaidFits(req[q].file, req[q].said)
    BY <2>1 DEF BookFits
  <2>3. book'[req[q].free] # None
    <3>1. PICK c \in Contact : book' = IF free THEN [book EXCEPT ![req[q].free] = c] ELSE book
      BY <1>9, InsertsRow
    <3>. QED
      BY <2>1, <3>1 DEF BookShape, BookConstants
  <2>4. req'[q] = [req[q] EXCEPT !.said = Append(@, word), !.free = None]
    BY <1>9, InsertsRow DEF BookShape
  <2>5. /\ req'[q].said = Append(req[q].said, word) /\ req'[q].file = req[q].file
        /\ req'[q].free = None /\ req'[q].kind = "import"
    BY <2>1, <2>4 DEF Reading
  <2>. PICK f \in DOMAIN Files, said \in Answers : f = req[q].file /\ said = req[q].said
    BY <2>1 DEF Reading
  <2>. PICK w \in {"in", "error"} : w = word
    OBVIOUS
  <2>6. SaidFits(f, Append(said, w))'
    BY <1>0, <2>1, <2>2, <2>3, SaidGrows DEF Book!Row
  <2>7. FileFits(req[q])'
    BY <2>5, <2>6 DEF FreeFits
  <2>. QED
    BY <1>2, <1>3, <2>1, <2>5, <2>7
<1>10. ASSUME NEW q \in Reqs, Book!AnswerImport(q) PROVE BookFits'
  <2>1. /\ req[q] \in Reading /\ req[q].kind = "import" /\ Len(req[q].said) = Len(Files[req[q].file])
        /\ \A p \in Reqs \ {q} : req'[p] = req[p]
        /\ req'[q].kind = "idle" /\ UNCHANGED <<book, sales>>
    BY <1>10, Kinds DEF Book!AnswerImport, Book!Finished, Book!Rows, Book!Idle, BookShape
  <2>2. SaidFits(req[q].file, req[q].said)
    BY <2>1 DEF BookFits
  <2>. PICK u \in Book!Users : u = req[q].user
    BY <2>1 DEF Reading
  <2>. PICK f \in DOMAIN Files, said \in Answers : f = req[q].file /\ said = req[q].said
    BY <2>1 DEF Reading
  <2>3. /\ \A v \in Book!Users \ {u} : told'[v] = told[v]
        /\ told'[u].file = f /\ told'[u].said = said
    BY <1>10, <2>1 DEF Book!AnswerImport, BookShape
  <2>4. ToldFits(u)'
    <3>1. told'[u].file = f /\ told'[u].said = said
      BY <2>3
    <3>2. SaidFits(f, said)'
      BY <2>1, <2>2 DEF SaidFits
    <3>. QED
      BY <2>1, <3>1, <3>2
  <2>. QED
    BY <1>2, <1>3, <2>1, <2>3, <2>4
<1>11. CASE UNCHANGED Book!contactsVars
  BY <1>1, <1>2, <1>11 DEF BookFits, Book!contactsVars
<1>. QED
  BY <1>4, <1>5, <1>6, <1>7, <1>8, <1>9, <1>10, <1>11 DEF Book!ContactsNext

(* What was there when a file came, and who entered what, stays so.        *)
LEMMA ClaimStays ==
  ASSUME BookConstants, NEW u \in Book!Users, NEW f \in DOMAIN Files, NEW said \in Answers,
         NEW before \in SUBSET Brands, SaidFits(f, said), ClaimFits(u, f, said, before),
         \A b \in Brands : book[b] # None => book'[b] # None /\ book'[b].by = book[b].by
  PROVE  ClaimFits(u, f, said, before)'
<1>1. \A i \in 1 .. Len(said) : Files[f][i].brand \in Brands
  <2>1. Files[f] \in Seq(FileRow) /\ Len(said) <= Len(Files[f]) /\ Len(said) \in Nat
    BY DEF BookConstants, SaidFits, Answers
  <2>2. \A i \in 1 .. Len(said) : Files[f][i] \in FileRow
    BY <2>1
  <2>. QED
    BY <2>2 DEF FileRow
<1>. QED
  BY <1>1 DEF ClaimFits

LEMMA ClaimGrows ==
  ASSUME BookConstants, NEW u \in Book!Users, NEW f \in DOMAIN Files, NEW said \in Answers,
         NEW before \in SUBSET Brands, NEW word \in {"in", "error"}, ClaimFits(u, f, said, before)',
         LET b == Files[f][Len(said) + 1].brand
         IN  word = "in" => b \notin before /\ book'[b] # None /\ book'[b].by = u
  PROVE  ClaimFits(u, f, Append(said, word), before)'
<1>. DEFINE n == Len(said)
<1>0. said \in Seq({"in", "error"}) /\ Append(said, word) \in Seq({"in", "error"})
  BY DEF Answers
<1>. PICK more \in Answers : more = Append(said, word)
  BY <1>0 DEF Answers
<1>1. /\ n \in Nat /\ Len(more) = n + 1
      /\ \A i \in 1 .. n : more[i] = said[i]
      /\ more[n + 1] = word
  BY <1>0
<1>2. ASSUME NEW i \in 1 .. n + 1, more[i] = "in"
      PROVE  Files[f][i].brand \notin before /\ book'[Files[f][i].brand] # None
               /\ book'[Files[f][i].brand].by = u
  <2>1. CASE i \in 1 .. n
    BY <1>1, <1>2, <2>1 DEF ClaimFits
  <2>2. CASE i = n + 1
    BY <1>1, <1>2, <2>2
  <2>. QED
    BY <1>1, <2>1, <2>2
<1>3. \A b \in before : book'[b] # None
  BY DEF ClaimFits
<1>4. ClaimFits(u, f, more, before)'
  BY <1>1, <1>2, <1>3 DEF ClaimFits
<1>. QED
  BY <1>4

LEMMA BookClaimsKept ==
  ASSUME BookConstants, BookShape, BookFits, BookClaims, [Book!ContactsNext]_Book!contactsVars
  PROVE  BookClaims'
<1>0. \A b \in Brands : book[b] # None => book'[b] # None /\ book'[b].by = book[b].by
  BY BookGrows
<1>. DEFINE FileClaims(r) == ClaimFits(r.user, r.file, r.said, r.before)
            ToldClaims(u) == told[u] # None =>
              ClaimFits(u, told[u].file, told[u].said, told[u].before)
<1>1. ASSUME NEW p \in Reqs, req[p].kind = "import" PROVE FileClaims(req[p])' \/ req'[p] # req[p]
  <2>1. req[p] \in Reading
    BY <1>1, Kinds
  <2>. PICK u \in Book!Users, f \in DOMAIN Files, said \in Answers, before \in SUBSET Brands :
         u = req[p].user /\ f = req[p].file /\ said = req[p].said /\ before = req[p].before
    BY <2>1 DEF Reading
  <2>2. SaidFits(f, said) /\ ClaimFits(u, f, said, before)
    BY <1>1 DEF BookFits, BookClaims
  <2>3. ClaimFits(u, f, said, before)'
    BY <1>0, <2>2, ClaimStays
  <2>. QED
    BY <2>3
<1>2. ASSUME NEW u \in Book!Users, told'[u] = told[u] PROVE ToldClaims(u)'
  <2>. SUFFICES ASSUME told[u] # None PROVE ToldClaims(u)'
    BY <1>2
  <2>1. told[u] \in Told
    BY DEF BookShape
  <2>. PICK f \in DOMAIN Files, said \in Answers, before \in SUBSET Brands :
         f = told[u].file /\ said = told[u].said /\ before = told[u].before
    BY <2>1 DEF Told
  <2>2. SaidFits(f, said) /\ ClaimFits(u, f, said, before)
    BY DEF BookFits, BookClaims
  <2>3. ClaimFits(u, f, said, before)'
    BY <1>0, <2>2, ClaimStays
  <2>. QED
    BY <1>2, <2>3
<1>3. ASSUME NEW q \in Reqs, \A p \in Reqs \ {q} : req'[p] = req[p],
             req'[q].kind = "import" => FileClaims(req[q])',
             \A u \in Book!Users : ToldClaims(u)'
      PROVE  BookClaims'
  BY <1>1, <1>3 DEF BookClaims
<1>4. ASSUME NEW q \in Reqs, NEW u \in Book!Users, NEW s \in Sales, NEW b \in Brands, NEW d \in Details,
             Book!Resolve(q, u, s, b, d)
      PROVE  BookClaims'
  <2>1. /\ \A p \in Reqs \ {q} : req'[p] = req[p]
        /\ req'[q].kind # "import" /\ UNCHANGED told
    BY <1>4 DEF Book!Resolve, Book!Take, BookShape
  <2>. QED
    BY <1>2, <1>3, <2>1
<1>5. ASSUME NEW q \in Reqs, NEW u \in Book!Users, NEW b \in Brands, NEW d \in Details,
             Book!Create(q, u, b, d)
      PROVE  BookClaims'
  <2>1. /\ \A p \in Reqs \ {q} : req'[p] = req[p]
        /\ req'[q].kind # "import" /\ UNCHANGED told
    BY <1>5 DEF Book!Create, Book!Take, BookShape
  <2>. QED
    BY <1>2, <1>3, <2>1
<1>6. ASSUME NEW q \in Reqs, NEW u \in Book!Users, NEW f \in DOMAIN Files, Book!Import(q, u, f)
      PROVE  BookClaims'
  <2>1. /\ \A p \in Reqs \ {q} : req'[p] = req[p]
        /\ req'[q].said = <<>> /\ req'[q].before = {b \in Brands : book[b] # None}
        /\ UNCHANGED <<book, told>>
    BY <1>6 DEF Book!Import, Book!Take, BookShape
  <2>2. FileClaims(req[q])'
    BY <2>1 DEF ClaimFits
  <2>. QED
    BY <1>2, <1>3, <2>1, <2>2
<1>7. ASSUME NEW q \in Reqs, Book!FileSale(q) \/ Book!InsertOne(q) PROVE BookClaims'
  <2>1. /\ \A p \in Reqs \ {q} : req'[p] = req[p]
        /\ req'[q].kind = "idle" /\ UNCHANGED told
    BY <1>7 DEF Book!FileSale, Book!InsertOne, Book!Idle, BookShape
  <2>. QED
    BY <1>2, <1>3, <2>1
<1>8. ASSUME NEW q \in Reqs, Book!ReadRow(q) \/ Book!InsertRow(q) PROVE BookClaims'
  <2>1. req[q] \in Reading /\ req[q].kind = "import"
    BY <1>8, Kinds DEF Book!ReadRow, Book!InsertRow
  <2>. PICK u \in Book!Users, f \in DOMAIN Files, said \in Answers, before \in SUBSET Brands :
         u = req[q].user /\ f = req[q].file /\ said = req[q].said /\ before = req[q].before
    BY <2>1 DEF Reading
  <2>2. SaidFits(f, said) /\ ClaimFits(u, f, said, before)
    BY <2>1 DEF BookFits, BookClaims
  <2>3. ClaimFits(u, f, said, before)'
    BY <1>0, <2>2, ClaimStays
  <2>4. CASE Book!ReadRow(q)
    <3>1. /\ \A p \in Reqs \ {q} : req'[p] = req[p]
          /\ UNCHANGED told
          /\ \/ req'[q] = [req[q] EXCEPT !.free = Book!Row(req[q]).brand]
             \/ req'[q] = [req[q] EXCEPT !.said = Append(@, "error")]
      BY <2>4 DEF Book!ReadRow, BookShape
    <3>2. CASE req'[q] = [req[q] EXCEPT !.free = Book!Row(req[q]).brand]
      <4>1. /\ req'[q].user = u /\ req'[q].file = f /\ req'[q].said = said /\ req'[q].before = before
        BY <2>1, <3>2 DEF Reading
      <4>. QED
        BY <1>2, <1>3, <2>3, <3>1, <4>1
    <3>3. CASE req'[q] = [req[q] EXCEPT !.said = Append(@, "error")]
      <4>1. /\ req'[q].user = u /\ req'[q].file = f /\ req'[q].said = Append(said, "error")
            /\ req'[q].before = before
        BY <2>1, <3>3 DEF Reading
      <4>2. ClaimFits(u, f, Append(said, "error"), before)'
        BY <2>3, ClaimGrows
      <4>. QED
        BY <1>2, <1>3, <3>1, <4>1, <4>2
    <3>. QED
      BY <3>1, <3>2, <3>3
  <2>5. CASE Book!InsertRow(q)
    <3>. DEFINE free == book[req[q].free] = None
                word == IF free THEN "in" ELSE "error"
    <3>0. /\ req[q].free \in Brands /\ UNCHANGED told
          /\ req' = [req EXCEPT ![q] = [req[q] EXCEPT !.said = Append(@, word), !.free = None]]
      BY <2>5, InsertsRow
    <3>f. req[q].free = Book!Row(req[q]).brand
      <4>1. FreeFits(req[q]) /\ req[q].free # None
        BY <2>1, <2>5 DEF BookFits, Book!InsertRow
      <4>. QED
        BY <4>1 DEF FreeFits
    <3>1. /\ req[q].free \in Brands /\ req[q].free = Book!Row(req[q]).brand
          /\ \A p \in Reqs \ {q} : req'[p] = req[p]
          /\ UNCHANGED told
      BY <3>0, <3>f DEF BookShape
    <3>2. PICK c \in Contact : /\ c.by = u
                               /\ book' = IF free THEN [book EXCEPT ![req[q].free] = c] ELSE book
      BY <2>5, InsertsRow
    <3>3. free => book'[req[q].free] # None /\ book'[req[q].free].by = u
      BY <3>1, <3>2 DEF BookShape, BookConstants
    <3>4. free => req[q].free \notin before
      BY <2>2 DEF ClaimFits
    <3>5. req'[q] = [req[q] EXCEPT !.said = Append(@, word), !.free = None]
      BY <3>0 DEF BookShape
    <3>6. /\ req'[q].user = u /\ req'[q].file = f /\ req'[q].said = Append(said, word)
          /\ req'[q].before = before
      BY <2>1, <3>5 DEF Reading
    <3>. PICK w \in {"in", "error"} : w = word
      OBVIOUS
    <3>7. Files[f][Len(said) + 1].brand = req[q].free
      BY <3>1 DEF Book!Row
    <3>8. ClaimFits(u, f, Append(said, w), before)'
      BY <2>3, <3>3, <3>4, <3>7, ClaimGrows
    <3>. QED
      BY <1>2, <1>3, <3>1, <3>6, <3>8
  <2>. QED
    BY <1>8, <2>4, <2>5
<1>9. ASSUME NEW q \in Reqs, Book!AnswerImport(q) PROVE BookClaims'
  <2>1. /\ req[q] \in Reading /\ req[q].kind = "import"
        /\ \A p \in Reqs \ {q} : req'[p] = req[p]
        /\ req'[q].kind = "idle" /\ UNCHANGED <<book, sales>>
    BY <1>9, Kinds DEF Book!AnswerImport, Book!Idle, BookShape
  <2>. PICK u \in Book!Users, f \in DOMAIN Files, said \in Answers, before \in SUBSET Brands :
         u = req[q].user /\ f = req[q].file /\ said = req[q].said /\ before = req[q].before
    BY <2>1 DEF Reading
  <2>2. ClaimFits(u, f, said, before)
    BY <2>1 DEF BookClaims
  <2>3. ClaimFits(u, f, said, before)'
    BY <2>1, <2>2 DEF ClaimFits
  <2>4. /\ \A v \in Book!Users \ {u} : told'[v] = told[v]
        /\ told'[u].file = f /\ told'[u].said = said /\ told'[u].before = before
    BY <1>9, <2>1 DEF Book!AnswerImport, BookShape
  <2>5. ToldClaims(u)'
    BY <2>3, <2>4
  <2>. QED
    BY <1>2, <1>3, <2>1, <2>4, <2>5
<1>10. CASE UNCHANGED Book!contactsVars
  BY <1>1, <1>2, <1>10 DEF BookClaims, Book!contactsVars
<1>. QED
  BY <1>4, <1>5, <1>6, <1>7, <1>8, <1>9, <1>10 DEF Book!ContactsNext

(* However files, new contacts and sales cross: when a file has been       *)
(* answered, its good rows are in the book, and a row said to be in was    *)
(* not there before the file, is the entry of who sent it, and is the only *)
(* one of its brand that is counted (importCsv).                           *)
THEOREM GoodRowsAreAlwaysIn ==
  ASSUME BookConstants
  PROVE  Book!ContactsInit /\ [][Book!ContactsNext]_Book!contactsVars => []Book!GoodRowsAreIn
<1>1. Book!ContactsInit => BookShape /\ BookFits /\ BookClaims
  BY DEF Book!ContactsInit, BookShape, BookFits, BookClaims, Book!Idle
<1>2. BookShape /\ BookFits /\ BookClaims /\ [Book!ContactsNext]_Book!contactsVars =>
        BookShape' /\ BookFits' /\ BookClaims'
  BY BookShapeKept, BookFitsKept, BookClaimsKept
<1>3. BookShape /\ BookFits /\ BookClaims => Book!GoodRowsAreIn
  <2>. SUFFICES ASSUME BookFits, BookShape, BookClaims, NEW u \in Book!Users, told[u] # None
                PROVE  LET file == Files[told[u].file]
                       IN  /\ Len(told[u].said) = Len(file)
                           /\ \A i \in DOMAIN file : file[i].valid => book[file[i].brand] # None
                           /\ \A i \in DOMAIN file : told[u].said[i] = "in" =>
                                file[i].brand \notin told[u].before /\ book[file[i].brand].by = u
                           /\ \A i, j \in DOMAIN file :
                                file[i].brand = file[j].brand /\ told[u].said[i] = "in"
                                  /\ told[u].said[j] = "in" => i = j
    BY DEF Book!GoodRowsAreIn
  <2>1. SaidFits(told[u].file, told[u].said) /\ Len(told[u].said) = Len(Files[told[u].file])
    BY DEF BookFits
  <2>2. told[u].file \in DOMAIN Files
    BY DEF BookShape, Told
  <2>3. DOMAIN Files[told[u].file] = 1 .. Len(told[u].said)
    BY <2>1, <2>2 DEF BookConstants
  <2>4. ClaimFits(u, told[u].file, told[u].said, told[u].before)
    BY DEF BookClaims
  <2>. QED
    BY <2>1, <2>3, <2>4 DEF SaidFits, ClaimFits
<1>. QED
  BY <1>1, <1>2, <1>3, PTL

(* Who saw a contact still sees it, while sales do not change hands.       *)
LEMMA SeesStill ==
  ASSUME BookConstants, BookShape, BookFits, [Book!ContactsNext]_Book!contactsVars,
         NEW u \in Book!Users, NEW b \in Brands, Book!MaySee(u, b),
         \A s \in Sales : sales[s] # None => sales'[s] = sales[s]
  PROVE  Book!MaySee(u, b)'
BY BookGrows DEF Book!MaySee

LEMMA SeersKept ==
  ASSUME BookConstants, BookShape, BookFits, SeersMay, OneSlot \/ SalesAreNew,
         "amend" \in Ops => OneSlot, [Book!ContactsNext]_Book!contactsVars
  PROVE  SeersMay' /\ (OneSlot \/ SalesAreNew')
<1>0. ASSUME NEW p \in Reqs, req'[p] = req[p], req[p].kind = "sale", req[p].may,
             \A s \in Sales : sales[s] # None => sales'[s] = sales[s]
      PROVE  Book!MaySee(req[p].user, req[p].brand)'
  <2>. PICK u \in Book!Users, b \in Brands : u = req[p].user /\ b = req[p].brand
    BY <1>0, Kinds DEF Filing
  <2>1. Book!MaySee(u, b)'
    BY <1>0, SeesStill DEF SeersMay
  <2>. QED
    BY <1>0, <2>1
<1>1. ASSUME NEW q \in Reqs, NEW u \in Book!Users, NEW s \in Sales, NEW b \in Brands, NEW d \in Details,
             Book!Resolve(q, u, s, b, d)
      PROVE  SeersMay' /\ (OneSlot \/ SalesAreNew')
  <2>1. /\ \A p \in Reqs \ {q} : req'[p] = req[p]
        /\ req'[q].kind = "sale" /\ req'[q].brand = b /\ req'[q].sale = s /\ req'[q].user = u
        /\ req'[q].new = (sales[s] = None)
        /\ req'[q].may => Book!MaySee(u, b)
        /\ UNCHANGED <<book, sales, told>>
    BY <1>1 DEF Book!Resolve, Book!Take, BookShape, Book!MayEdit
  <2>2. Book!MaySee(u, b) => Book!MaySee(u, b)'
    BY <2>1 DEF Book!MaySee
  <2>3. SeersMay'
    BY <1>0, <2>1, <2>2 DEF SeersMay
  <2>4. CASE OneSlot
    BY <2>3, <2>4
  <2>5. CASE ~OneSlot
    <3>1. SalesAreNew /\ sales[s] = None /\ \A p \in Reqs : req[p].kind = "sale" => req[p].sale # s
      BY <1>1, <2>5 DEF Book!Resolve
    <3>2. req'[q].new /\ sales'[req'[q].sale] = None
      BY <2>1, <3>1
    <3>3. \A p \in Reqs \ {q} : req'[p].kind = "sale" => req'[p].new /\ sales'[req'[p].sale] = None
      BY <2>1, <3>1 DEF SalesAreNew
    <3>4. \A p \in Reqs \ {q} : req'[p].kind = "sale" => req'[p].sale # req'[q].sale
      BY <2>1, <3>1
    <3>5. \A p, o \in Reqs \ {q} :
            req'[p].kind = "sale" /\ req'[o].kind = "sale" /\ req'[p].sale = req'[o].sale => p = o
      BY <2>1, <3>1 DEF SalesAreNew
    <3>6. SalesAreNew'
      BY <3>2, <3>3, <3>4, <3>5 DEF SalesAreNew
    <3>. QED
      BY <2>3, <3>6
  <2>. QED
    BY <2>4, <2>5
<1>2. ASSUME NEW q \in Reqs, Book!FileSale(q) PROVE SeersMay' /\ (OneSlot \/ SalesAreNew')
  <2>1. /\ req[q] \in Filing /\ req[q].kind = "sale" /\ req'[q].kind = "idle"
        /\ \A p \in Reqs \ {q} : req'[p] = req[p]
        /\ \A s \in Sales \ {req[q].sale} : sales'[s] = sales[s]
    BY <1>2, FilesSale DEF Filing, BookShape, Book!Idle
  <2>2. CASE OneSlot
    <3>1. \A p \in Reqs : req'[p].kind = "idle"
      BY <2>1, <2>2 DEF OneSlot
    <3>. QED
      BY <2>2, <3>1 DEF SeersMay
  <2>3. CASE ~OneSlot
    <3>1. /\ SalesAreNew /\ sales[req[q].sale] = None
          /\ \A s \in Sales : sales[s] # None => sales'[s] = sales[s]
      BY <2>1, <2>3 DEF SalesAreNew
    <3>2. SeersMay'
      BY <1>0, <2>1, <3>1 DEF SeersMay
    <3>3. \A p \in Reqs \ {q} : req[p].kind = "sale" => req[p] \in Filing
      BY Kinds
    <3>4. SalesAreNew'
      BY <2>1, <3>1, <3>3 DEF SalesAreNew, Filing
    <3>. QED
      BY <3>2, <3>4
  <2>. QED
    BY <2>2, <2>3
<1>3. ASSUME NEW q \in Reqs, \A p \in Reqs \ {q} : req'[p] = req[p], req'[q].kind # "sale", UNCHANGED sales
      PROVE  SeersMay' /\ (OneSlot \/ SalesAreNew')
  <2>1. SeersMay'
    BY <1>0, <1>3 DEF SeersMay
  <2>. QED
    BY <1>3, <2>1 DEF SalesAreNew
<1>4. ASSUME NEW q \in Reqs, NEW u \in Book!Users, NEW b \in Brands, NEW d \in Details,
             Book!Create(q, u, b, d)
      PROVE  SeersMay' /\ (OneSlot \/ SalesAreNew')
  BY <1>3, <1>4 DEF Book!Create, Book!Take, BookShape
<1>5. ASSUME NEW q \in Reqs, NEW u \in Book!Users, NEW f \in DOMAIN Files, Book!Import(q, u, f)
      PROVE  SeersMay' /\ (OneSlot \/ SalesAreNew')
  BY <1>3, <1>5 DEF Book!Import, Book!Take, BookShape
<1>6. ASSUME NEW q \in Reqs, Book!InsertOne(q) \/ Book!AnswerImport(q)
      PROVE  SeersMay' /\ (OneSlot \/ SalesAreNew')
  BY <1>3, <1>6 DEF Book!InsertOne, Book!AnswerImport, Book!Idle, BookShape
<1>7. ASSUME NEW q \in Reqs, Book!ReadRow(q) \/ Book!InsertRow(q)
      PROVE  SeersMay' /\ (OneSlot \/ SalesAreNew')
  <2>1. /\ req[q] \in Reading /\ UNCHANGED sales
        /\ \A p \in Reqs \ {q} : req'[p] = req[p]
    BY <1>7, Kinds DEF Book!ReadRow, Book!InsertRow, BookShape
  <2>2. CASE Book!InsertRow(q)
    <3>1. PICK r : r = [req[q] EXCEPT !.said = Append(@, IF book[req[q].free] = None THEN "in" ELSE "error"),
                                      !.free = None]
      OBVIOUS
    <3>2. req'[q] = r
      BY <2>2, <3>1, InsertsRow DEF BookShape
    <3>3. r.kind = "import"
      BY <2>1, <3>1 DEF Reading
    <3>. QED
      BY <1>3, <2>1, <3>2, <3>3
  <2>3. CASE Book!ReadRow(q)
    <3>1. \/ req'[q] = [req[q] EXCEPT !.free = Book!Row(req[q]).brand]
          \/ req'[q] = [req[q] EXCEPT !.said = Append(@, "error")]
      BY <2>3 DEF Book!ReadRow, BookShape
    <3>2. req'[q].kind = "import"
      BY <2>1, <3>1 DEF Reading
    <3>. QED
      BY <1>3, <2>1, <3>2
  <2>. QED
    BY <1>7, <2>2, <2>3
<1>8. CASE UNCHANGED Book!contactsVars
  BY <1>0, <1>8 DEF SeersMay, SalesAreNew, Book!contactsVars
<1>. QED
  BY <1>1, <1>2, <1>4, <1>5, <1>6, <1>7, <1>8 DEF Book!ContactsNext

(* Whatever sales of a brand cross, while none is amended, and whatever is *)
(* amended, by requests that follow one another: nobody writes over a      *)
(* contact they could not see (resolveContact).                            *)
THEOREM OnlyTheirsIsEverWritten ==
  ASSUME BookConstants, "amend" \in Ops => OneSlot
  PROVE  Book!ContactsInit /\ [][Book!ContactsNext]_Book!contactsVars
           => [][Book!OnlyTheirsIsWritten]_Book!contactsVars
<1>. DEFINE Seen == BookShape /\ BookFits /\ SeersMay /\ (OneSlot \/ SalesAreNew)
<1>1. Book!ContactsInit => Seen
  BY DEF Book!ContactsInit, BookShape, BookFits, SeersMay, SalesAreNew, Book!Idle
<1>2. Seen /\ [Book!ContactsNext]_Book!contactsVars => Seen'
  BY BookShapeKept, BookFitsKept, SeersKept
<1>3. ASSUME Seen, [Book!ContactsNext]_Book!contactsVars PROVE Book!OnlyTheirsIsWritten
  <2>1. ASSUME NEW q \in Reqs, Book!FileSale(q) PROVE Book!OnlyTheirsIsWritten
    <3>1. /\ req[q] \in Filing /\ req[q].kind = "sale" /\ req'[q] = Book!Idle
          /\ book' = [book EXCEPT ![req[q].brand] = Book!Resolved(req[q])]
      BY <1>3, <2>1, FilesSale DEF Filing, BookShape
    <3>2. \A b \in Brands \ {req[q].brand} : book'[b] = book[b]
      BY <1>3, <3>1 DEF BookShape
    <3>3. book[req[q].brand] # None /\ book'[req[q].brand] # book[req[q].brand]
            => Book!MaySee(req[q].user, req[q].brand)
      BY <1>3, <3>1, ResolvedIs DEF SeersMay, BookShape, Filing
    <3>. QED
      BY <3>1, <3>2, <3>3 DEF Book!OnlyTheirsIsWritten
  <2>2. ASSUME NEW q \in Reqs, Book!InsertOne(q) PROVE Book!OnlyTheirsIsWritten
    BY <1>3, <2>2 DEF Book!InsertOne, Book!OnlyTheirsIsWritten, BookShape
  <2>3. ASSUME NEW q \in Reqs, Book!InsertRow(q) PROVE Book!OnlyTheirsIsWritten
    BY <1>3, <2>3 DEF Book!InsertRow, Book!OnlyTheirsIsWritten, BookShape
  <2>4. CASE UNCHANGED book
    BY <2>4 DEF Book!OnlyTheirsIsWritten
  <2>. QED
    BY <1>3, <2>1, <2>2, <2>3, <2>4 DEF Book!ContactsNext, Book!contactsVars, Book!Create, Book!Resolve,
      Book!Import, Book!ReadRow, Book!AnswerImport
<1>. QED
  BY <1>1, <1>2, <1>3, PTL
=============================================================================
