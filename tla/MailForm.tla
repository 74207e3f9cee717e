------------------------------ MODULE MailForm ------------------------------
(***************************************************************************)
(* One mail account as administrators add and edit it: the row, the list   *)
(* each page last got, the form open on it, what the form lets through,    *)
(* and what the handler makes of what is sent (MailAccountsCard and        *)
(* MailAccountForm of AdminConfig.tsx, MailAccountService.create, update). *)
(*                                                                         *)
(* A provider decides what the other fields mean.  Of the password, only   *)
(* the provider it was sent for is kept, and whether one is typed.  Each   *)
(* handler runs whole (MailAccounts has them cross).                       *)
(***************************************************************************)
CONSTANTS
  Admins,
  None

VARIABLES
  box,    \* the row, or None: [provider, host, login, secret]
  page,   \* the row as each page's list shows it
  editor, \* what each form shows, or None when it is closed
  update  \* what each page has sent and not had answered, or None

mailVars == <<box, page, editor, update>>

Providers == {"smtp", "relay", "resend"}
usesSmtp(p) == p = "smtp"
needsHost(p) == p \in {"smtp", "relay"}

(* A host is a server's name, the URL of a relay, or blank.                *)
Hosts == {"", "name", "url"}
Forms == [provider : Providers, host : Hosts, login : BOOLEAN, typed : BOOLEAN]
Boxes == [provider : Providers, host : Hosts, login : BOOLEAN, secret : Providers]

MailFormInit ==
  /\ box = None
  /\ page = [a \in Admins |-> None]
  /\ editor = [a \in Admins |-> None] /\ update = [a \in Admins |-> None]

-----------------------------------------------------------------------------
(* The list is fetched on a mount.                                         *)
Fetch(a) ==
  /\ page[a] # box
  /\ page' = [page EXCEPT ![a] = box]
  /\ UNCHANGED <<box, editor, update>>

(* The form is filled when it opens, and not again; the password is blank. *)
Filled(row) ==
  [provider |-> row.provider, host |-> row.host, login |-> row.login, typed |-> FALSE]

Open(a) ==
  /\ editor[a] = None
  /\ editor' = [editor EXCEPT ![a] =
       IF page[a] = None THEN [provider |-> "smtp", host |-> "", login |-> FALSE, typed |-> FALSE]
       ELSE Filled(page[a])]
  /\ UNCHANGED <<box, page, update>>

Close(a) ==
  /\ editor[a] # None /\ update[a] = None
  /\ editor' = [editor EXCEPT ![a] = None]
  /\ UNCHANGED <<box, page, update>>

(* The fields a provider has are the ones shown; what another's hold stays.*)
Type(a) ==
  /\ editor[a] # None /\ update[a] = None
  /\ \/ \E p \in Providers : editor' = [editor EXCEPT ![a].provider = p]
     \/ /\ needsHost(editor[a].provider)
        /\ \E h \in Hosts : editor' = [editor EXCEPT ![a].host = h]
     \/ /\ usesSmtp(editor[a].provider)
        /\ \E l \in BOOLEAN : editor' = [editor EXCEPT ![a].login = l]
     \/ \E t \in BOOLEAN : editor' = [editor EXCEPT ![a].typed = t]
  /\ UNCHANGED <<box, page, update>>

needsSecret(a) == page[a] = None \/ page[a].provider # editor[a].provider

(* Mutant: a provider that dials a server is saved without its login.      *)
complete_NoLogin(a) ==
  /\ needsHost(editor[a].provider) => editor[a].host # ""
  /\ needsSecret(a) => editor[a].typed

complete(a) ==
  /\ needsHost(editor[a].provider) => editor[a].host # ""
  /\ usesSmtp(editor[a].provider) => editor[a].login
  /\ needsSecret(a) => editor[a].typed

Save(a) ==
  /\ editor[a] # None /\ update[a] = None /\ complete(a)
  /\ update' = [update EXCEPT ![a] = [new |-> page[a] = None, body |-> editor[a]]]
  /\ UNCHANGED <<box, page, editor>>

-----------------------------------------------------------------------------
(* Mutants: the stored password is carried over to another provider; a     *)
(* relay's address is not looked at.                                       *)
Switched_Never(body) == FALSE
BadHost_Never(body) == FALSE

(* A change of provider needs its password, and its host.                  *)
Switched(body) ==
  /\ body.provider # box.provider
  /\ ~body.typed \/ (needsHost(body.provider) /\ body.host = "")

(* validate: a relay's is a full https:// URL.                             *)
BadHost(body) == body.provider = "relay" /\ body.host = "name"

(* create demands the whole set; an edit, what the provider does not have. *)
Refused(sent) ==
  \/ BadHost(sent.body)
  \/ IF sent.new
     THEN \/ ~sent.body.typed
          \/ needsHost(sent.body.provider) /\ sent.body.host = ""
          \/ usesSmtp(sent.body.provider) /\ ~sent.body.login
     ELSE Switched(sent.body)

(* What the row becomes: a blank keeps what is there, and what the         *)
(* provider does not use is blanked.                                       *)
Stored(sent) ==
  LET body == sent.body
  IN  [provider |-> body.provider,
       host |-> IF ~needsHost(body.provider) THEN ""
                ELSE IF body.host = "" THEN box.host ELSE body.host,
       login |-> usesSmtp(body.provider) /\ (body.login \/ (~sent.new /\ box.login)),
       secret |-> IF body.typed THEN body.provider ELSE box.secret]

(* The answer is the list, and closes the form; an error leaves it open.   *)
(* A second account is a row of its own.                                   *)
Land(a) ==
  /\ update[a] # None
  /\ IF Refused(update[a]) THEN UNCHANGED <<box, page, editor>>
     ELSE /\ box' = IF update[a].new /\ box # None THEN box ELSE Stored(update[a])
          /\ page' = [page EXCEPT ![a] = box']
          /\ editor' = [editor EXCEPT ![a] = None]
  /\ update' = [update EXCEPT ![a] = None]

MailFormNext == \E a \in Admins :
  Fetch(a) \/ Open(a) \/ Close(a) \/ Type(a) \/ Save(a) \/ Land(a)

-----------------------------------------------------------------------------
MailFormTypeOK ==
  /\ box = None \/ box \in Boxes
  /\ \A a \in Admins : page[a] = None \/ page[a] \in Boxes
  /\ \A a \in Admins : editor[a] = None \/ editor[a] \in Forms
  /\ \A a \in Admins : update[a] # None => update[a].body \in Forms

(* A row that looks configured is: its password was given for the provider *)
(* it has ("an SMTP password is not an API key", update), a server has a   *)
(* login, a relay a URL, and what needs no host names none.                *)
LooksAsItIs == box # None =>
  /\ box.secret = box.provider
  /\ usesSmtp(box.provider) <=> box.login
  /\ needsHost(box.provider) <=> box.host # ""
  /\ box.provider = "relay" => box.host = "url"
=============================================================================
