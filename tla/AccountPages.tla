---------------------------- MODULE AccountPages ----------------------------
(***************************************************************************)
(* The administration's pages for one invitation and the account it makes: *)
(* its form, the queue of sign-ups and the table of users, each with a     *)
(* form filled when it was opened and posted whole, and the handlers that  *)
(* write what differs from the row they read (InvitesTab,                  *)
(* InvitationDetailModal, PendingUserDetailModal, UserDetailModal of       *)
(* Admin.tsx; AdminService.updateInvitation, updateUser, approveUser,      *)
(* rejectUser).                                                            *)
(***************************************************************************)
EXTENDS Naturals, FiniteSets

CONSTANTS
  Roles, Admins,
  PayTypes,     \* the pay types, "COMMISSION_ONLY" among them
  Ops,          \* of "invite", "queue", "users", "api": what is offered here
  Crossing,     \* TRUE: a request may be read while another is in flight
  MaxSteps,     \* bound on the requests
  None

VARIABLES
  invite,  \* [status, role] of the invitation
  account, \* [status, role, payType, earns] of the account
  seen,    \* both, as each administrator's page last fetched them
  form,    \* the form each has open: [of, row], row as typed, or None
  sent,    \* the request of each in flight, read and checked, or None
  steps

pageVars == <<invite, account, seen, form, sent, steps>>

Rows == [status : {"none", "PENDING", "ACTIVE", "DISABLED", "REJECTED"}, role : Roles,
         payType : PayTypes, earns : BOOLEAN]
Now == [invite |-> invite, account |-> account]

PagesInit ==
  /\ \E role \in Roles :
       /\ invite = [status |-> "ACTIVE", role |-> role]
       /\ \E type \in PayTypes : account =
            [status |-> IF "invite" \in Ops THEN "none" ELSE "ACTIVE",
             role |-> role, payType |-> type, earns |-> TRUE]
  /\ seen = [a \in Admins |-> Now]
  /\ form = [a \in Admins |-> None] /\ sent = [a \in Admins |-> None]
  /\ steps = 0

-----------------------------------------------------------------------------
(* signup: the invitation is used and the account waits; verifyOtp: its    *)
(* owner has entered the code.                                             *)
Redeem ==
  /\ "invite" \in Ops /\ invite.status = "ACTIVE"
  /\ invite' = [invite EXCEPT !.status = "USED"]
  /\ account' = [account EXCEPT !.status = "PENDING", !.role = invite.role]
  /\ UNCHANGED <<seen, form, sent, steps>>

Verify ==
  /\ "invite" \in Ops /\ account.status = "PENDING"
  /\ account' = [account EXCEPT !.status = "ACTIVE"]
  /\ UNCHANGED <<invite, seen, form, sent, steps>>

(* The page: a refetch, which takes the form along when its row is gone.   *)
Listed(of, now) ==
  CASE of = "invite" -> TRUE
    [] of = "queue" -> now.account.status = "PENDING"
    [] of = "users" -> now.account.status # "none"

Fetch(a) ==
  /\ seen[a] # Now
  /\ seen' = [seen EXCEPT ![a] = Now]
  /\ form' = [form EXCEPT ![a] = IF @ # None /\ ~Listed(@.of, Now) THEN None ELSE @]
  /\ UNCHANGED <<invite, account, sent, steps>>

ShownRow(a, of) == IF of = "invite" THEN seen[a].invite ELSE seen[a].account

Open(a, of) ==
  /\ of \in Ops /\ form[a] = None /\ sent[a] = None /\ Listed(of, seen[a])
  /\ form' = [form EXCEPT ![a] = [of |-> of, row |-> ShownRow(a, of)]]
  /\ UNCHANGED <<invite, account, seen, sent, steps>>

Close(a) ==
  /\ form[a] # None /\ sent[a] = None
  /\ form' = [form EXCEPT ![a] = None]
  /\ UNCHANGED <<invite, account, seen, sent, steps>>

(* A redeemed invitation cannot be typed over, a commission-only account   *)
(* earns one, and a status is for accounts that have been decided.         *)
Locked(a) == form[a].of = "invite" /\ seen[a].invite.status = "USED"
Decided(row) == row.status \in {"ACTIVE", "DISABLED"}

Type(a) ==
  /\ form[a] # None /\ sent[a] = None /\ ~Locked(a)
  /\ \/ \E role \in Roles \ {form[a].row.role} :
          form' = [form EXCEPT ![a].row.role = role]
     \/ /\ form[a].of = "users"
        /\ \/ \E type \in PayTypes \ {form[a].row.payType} :
                form' = [form EXCEPT ![a].row.payType = type]
           \/ /\ form[a].row.payType # "COMMISSION_ONLY"
              /\ form' = [form EXCEPT ![a].row.earns = ~@]
           \/ /\ Decided(seen[a].account) /\ Decided(form[a].row)
              /\ \E status \in {"ACTIVE", "DISABLED"} \ {form[a].row.status} :
                   form' = [form EXCEPT ![a].row.status = status]
  /\ UNCHANGED <<invite, account, seen, sent, steps>>

(* What the form shows and what it posts of it.                            *)
Typed(a) ==
  LET row == form[a].row
  IN  IF form[a].of = "users"
      THEN [row EXCEPT !.earns = @ \/ row.payType = "COMMISSION_ONLY"] ELSE row

Posted(a) ==
  LET posted == IF form[a].of # "users" THEN {"role"}
                ELSE {"role", "payType", "earns"} \cup IF Decided(seen[a].account) THEN {"status"} ELSE {}
  IN  [f \in posted |-> Typed(a)[f]]

(* Mutant: nothing typed is in the way of an approval.                     *)
Dirty_Never(a) == FALSE

Dirty(a) == Typed(a) # ShownRow(a, form[a].of)

Free(a) ==
  /\ sent[a] = None /\ steps < MaxSteps
  /\ ~Crossing => \A b \in Admins : sent[b] = None

Send(a, kind, patch, shown) ==
  /\ sent' = [sent EXCEPT ![a] =
       [kind |-> kind, patch |-> patch, shown |-> shown, current |-> seen[a] = Now]]
  /\ steps' = steps + 1
  /\ UNCHANGED <<invite, account, seen, form>>

(* Of a patch, what differs from the row: the rest is not written.         *)
Differs(patch, row) ==
  [f \in {g \in DOMAIN patch : patch[g] # row[g]} |-> patch[f]]

-----------------------------------------------------------------------------
(* updateInvitation: not once it is redeemed.                              *)
SaveInvitation(a) ==
  /\ Free(a) /\ form[a] # None /\ form[a].of = "invite" /\ ~Locked(a) /\ form[a].row.role # seen[a].invite.role
  /\ invite.status # "USED"
  /\ Send(a, "invite", Differs(Posted(a), invite), form[a].row)

RevokeInvitation(a) ==
  /\ Free(a) /\ "invite" \in Ops /\ seen[a].invite.status = "ACTIVE" /\ invite.status = "ACTIVE"
  /\ Send(a, "invite", [status |-> "REVOKED"], None)

(* Mutant: the pay basis is judged as it was sent, not as it lands.        *)
PayIsWhole_Sent(patch) ==
  ~({"payType", "earns"} \subseteq DOMAIN patch /\ patch.payType = "COMMISSION_ONLY" /\ ~patch.earns)

(* updateUser: a commission-only account must earn commission.             *)
PayIsWhole(patch) ==
  LET Landing(f) == IF f \in DOMAIN patch THEN patch[f] ELSE account[f]
  IN  ~(Landing("payType") = "COMMISSION_ONLY" /\ ~Landing("earns"))

StatusMayChange(patch) ==
  "status" \in DOMAIN patch /\ patch.status # account.status => Decided(account)

SaveAccount(a) ==
  /\ Free(a) /\ form[a] # None /\ form[a].of \in {"queue", "users"} /\ Dirty(a)
  /\ PayIsWhole(Posted(a)) /\ StatusMayChange(Posted(a))
  /\ Send(a, "account", Differs(Posted(a), account), form[a].row)

(* A client that sends one field of it.                                    *)
PatchAccount(a) ==
  /\ "api" \in Ops /\ Free(a)
  /\ \E patch \in [{"payType"} -> PayTypes] \cup [{"earns"} -> BOOLEAN] :
       PayIsWhole(patch) /\ Send(a, "account", Differs(patch, account), None)

(* approveUser, rejectUser, from the row or from the form.                 *)
Decide(a, status) ==
  /\ Free(a) /\ "queue" \in Ops /\ Listed("queue", seen[a])
  /\ form[a] # None => form[a].of = "queue" /\ (status = "ACTIVE" => ~Dirty(a))
  /\ account.status = "PENDING"
  /\ Send(a, "account", [status |-> status], IF form[a] = None THEN seen[a].account ELSE form[a].row)

(* The write, by id; the form closes.                                      *)
Written(row, patch) == [f \in DOMAIN row |-> IF f \in DOMAIN patch THEN patch[f] ELSE row[f]]

Land(a) ==
  /\ sent[a] # None
  /\ IF sent[a].kind = "invite"
     THEN invite' = Written(invite, sent[a].patch) /\ UNCHANGED account
     ELSE account' = Written(account, sent[a].patch) /\ UNCHANGED invite
  /\ sent' = [sent EXCEPT ![a] = None] /\ form' = [form EXCEPT ![a] = None]
  /\ UNCHANGED <<seen, steps>>

PagesNext ==
  \/ Redeem \/ Verify
  \/ \E a \in Admins :
       \/ Fetch(a) \/ Close(a) \/ Type(a) \/ Land(a)
       \/ \E of \in {"invite", "queue", "users"} : Open(a, of)
       \/ SaveInvitation(a) \/ RevokeInvitation(a) \/ SaveAccount(a) \/ PatchAccount(a)
       \/ \E status \in {"ACTIVE", "REJECTED"} : Decide(a, status)

-----------------------------------------------------------------------------
PagesTypeOK ==
  /\ invite.status \in {"ACTIVE", "USED", "REVOKED"} /\ invite.role \in Roles
  /\ account \in Rows
  /\ \A a \in Admins : sent[a] # None => sent[a].kind \in {"invite", "account"}

(* Who approves off a current page lets in the role it showed, whatever    *)
(* was typed and not saved ("the role someone is approving is the whole    *)
(* point"), one request at a time.                                         *)
ApprovedAsShown ==
  \A a \in Admins :
    /\ sent[a] # None /\ sent'[a] = None /\ sent[a].current
    /\ "status" \in DOMAIN sent[a].patch /\ sent[a].patch.status = "ACTIVE"
    /\ account.status = "PENDING"
    => account'.role = sent[a].shown.role

(* Nobody is paid on commission alone and earns none (updateUser: "the two *)
(* fields are checked against the state the edit lands in"), one request   *)
(* at a time, however old the form that was saved.                         *)
PaidSomehow == ~(account.payType = "COMMISSION_ONLY" /\ ~account.earns)
=============================================================================
