----------------------------- MODULE Messaging -----------------------------
(***************************************************************************)
(* One conversation: its members, its messages, everyone's receipt cursors *)
(* (MessagingService), and the socket rooms that carry it                  *)
(* (MessagingGateway).  Requests and connections are split at their        *)
(* awaits; presence and rooms are memory and are lost with the process.    *)
(* Everyone has one socket, which closes when its connection handler is    *)
(* done; sockets that close earlier are the subject of Presence.           *)
(***************************************************************************)
EXTENDS Integers, FiniteSets, FiniteSetsExt

CONSTANTS
  People,
  Kind,        \* DM or GROUP
  Reqs,        \* request slots
  Ops,         \* operations offered: create, add, remove, send, read, crash
  MaxMessages, \* bound on sequence numbers
  MaxSends,    \* bound on the sends at work at once
  None

VARIABLES
  exists,   \* the conversation has been created
  members,  \* its ConversationParticipant rows
  admins,   \* the members with isAdmin
  messages, \* the committed messages: number and sender
  nextSeq,  \* the sequence behind Message.seq: the last number handed out
  cursor,   \* lastReadSeq and lastDeliveredSeq of each member
  since,    \* the last number handed out when each member was entered
  online,   \* presence: who has a registered socket
  own,      \* whose socket has joined its personal room
  room,     \* whose socket has joined the conversation's room
  conn,     \* connection handlers at work, and connections that are up
  req       \* the requests in flight

vars == <<exists, members, admins, messages, nextSeq, cursor, since, online, own, room, conn, req>>
rows == <<exists, members, admins, since>>
thread == <<messages, nextSeq>>
sockets == <<online, own, room, conn>>

Seqs == {m.seq : m \in messages}
Latest == Max(Seqs \cup {0})
AtStart == [read |-> 0, delivered |-> 0]
Others(p) == People \ {p}

At(r, step) == req[r] # None /\ req[r].at = step
Begin(r, step, what) == req' = [req EXCEPT ![r] = [what EXCEPT !.at = step]]
Finish(r) == req' = [req EXCEPT ![r] = None]
Request(by) == [at |-> None, by |-> by, whom |-> None, seq |-> 0, to |-> {}]

Init ==
  /\ exists = FALSE /\ members = {} /\ admins = {}
  /\ messages = {} /\ nextSeq = 0
  /\ cursor = [p \in People |-> AtStart] /\ since = [p \in People |-> 0]
  /\ online = {} /\ own = {} /\ room = {}
  /\ conn = [p \in People |-> None] /\ req = [r \in Reqs |-> None]

-----------------------------------------------------------------------------
(* createConversation: a DM that is there is answered, also when the       *)
(* unique dmKey says so; who creates it puts everyone's sockets in.        *)
Named(ps, by) == IF Kind = "DM" THEN People ELSE ps \cup {by}

LookForThread(r, by, ps) ==
  /\ "create" \in Ops /\ req[r] = None
  /\ Named(ps, by) # {by} /\ ~exists
  /\ Begin(r, "create", [Request(by) EXCEPT !.to = Named(ps, by)])
  /\ UNCHANGED <<rows, thread, cursor, sockets>>

Create(r) ==
  /\ At(r, "create") /\ ~exists
  /\ exists' = TRUE /\ members' = req[r].to
  /\ admins' = IF Kind = "GROUP" THEN {req[r].by} ELSE {}
  /\ since' = [p \in People |-> IF p \in members' THEN nextSeq ELSE since[p]]
  /\ Begin(r, "announce", req[r])
  /\ UNCHANGED <<thread, cursor, sockets>>

(* dispatchConversation.                                                   *)
Announce(r) ==
  /\ At(r, "announce")
  /\ room' = room \cup (req[r].to \cap own)
  /\ Finish(r)
  /\ UNCHANGED <<rows, thread, cursor, online, own, conn>>

(* addParticipants; the conversation is announced to whoever is in it when *)
(* it is read again.                                                       *)
ReadForAdd(r, by, p) ==
  /\ "add" \in Ops /\ Kind = "GROUP" /\ req[r] = None
  /\ by \in admins /\ p \notin members
  /\ Begin(r, "add", [Request(by) EXCEPT !.whom = p])
  /\ UNCHANGED <<rows, thread, cursor, sockets>>

Add(r) ==
  /\ At(r, "add")
  /\ LET p == req[r].whom IN
     /\ members' = members \cup {p}
     /\ since' = IF p \in members THEN since ELSE [since EXCEPT ![p] = nextSeq]
  /\ Begin(r, "members", req[r])
  /\ UNCHANGED <<exists, admins, thread, cursor, sockets>>

(* Mutant: only who was there before hears of it.                          *)
Announced_Before(r) == members \ {req[r].whom}

Announced(r) == members

ReadMembers(r) ==
  /\ At(r, "members")
  /\ Begin(r, "announce", [req[r] EXCEPT !.to = Announced(r)])
  /\ UNCHANGED <<rows, thread, cursor, sockets>>

(* removeParticipant: by an administrator, or of oneself.                  *)
ReadForRemove(r, by, p) ==
  /\ "remove" \in Ops /\ Kind = "GROUP" /\ req[r] = None
  /\ by \in members /\ (p = by \/ by \in admins)
  /\ Begin(r, "remove", [Request(by) EXCEPT !.whom = p])
  /\ UNCHANGED <<rows, thread, cursor, sockets>>

(* Mutant: who is removed remains an administrator.                        *)
AdminsWithout_All(p) == admins

AdminsWithout(p) == admins \ {p}

Remove(r) ==
  /\ At(r, "remove")
  /\ LET p == req[r].whom IN
     /\ members' = members \ {p} /\ admins' = AdminsWithout(p)
     /\ cursor' = [cursor EXCEPT ![p] = AtStart] /\ since' = [since EXCEPT ![p] = 0]
  /\ Begin(r, "members", req[r])
  /\ UNCHANGED <<exists, thread, sockets>>

-----------------------------------------------------------------------------
(* GREATEST: a stale client cannot move a cursor back.                     *)
Greatest(m, n) == Max({m, n})

(* Mutant: a read raises only the read cursor.                             *)
Read_Alone(c, seq) == [c EXCEPT !.read = Greatest(@, seq)]

ReadTo(c, seq) == [read |-> Greatest(c.read, seq), delivered |-> Greatest(c.delivered, seq)]

(* Mutant: the delivered cursor is held only to what was read.             *)
Delivered_Set(c, seq) == [c EXCEPT !.delivered = Greatest(c.read, seq)]

DeliveredTo(c, seq) == [c EXCEPT !.delivered = Greatest(@, seq)]

Raised(ps, seq) == [p \in People |-> IF p \in ps \cap members THEN DeliveredTo(cursor[p], seq)
                                                               ELSE cursor[p]]

(* sendMessage: the number is taken when the row is inserted, and the      *)
(* sender's cursors are set to it in the same transaction.                 *)
Sending == {r \in Reqs : \E step \in {"insert", "commit", "recipients", "join", "mark"} : At(r, step)}

StartSend(r, by) ==
  /\ "send" \in Ops /\ req[r] = None
  /\ Cardinality(Sending) < MaxSends
  /\ by \in members
  /\ Begin(r, "insert", Request(by))
  /\ UNCHANGED <<rows, thread, cursor, sockets>>

InsertMessage(r) ==
  /\ At(r, "insert") /\ nextSeq < MaxMessages
  /\ nextSeq' = nextSeq + 1
  /\ Begin(r, "commit", [req[r] EXCEPT !.seq = nextSeq'])
  /\ UNCHANGED <<rows, messages, cursor, sockets>>

(* Mutant: the message is taken for unread by its own sender.              *)
Sent_Unread(c, seq) == [c EXCEPT !.delivered = seq]

Sent(c, seq) == [read |-> seq, delivered |-> seq]

CommitMessage(r) ==
  /\ At(r, "commit")
  /\ LET p == req[r].by
         seq == req[r].seq IN
     /\ messages' = messages \cup {[seq |-> seq, from |-> p]}
     /\ cursor' = IF p \in members THEN [cursor EXCEPT ![p] = Sent(@, seq)] ELSE cursor
  /\ Begin(r, "recipients", req[r])
  /\ UNCHANGED <<rows, nextSeq, sockets>>

ReadRecipients(r) ==
  /\ At(r, "recipients")
  /\ Begin(r, "join", [req[r] EXCEPT !.to = members \ {req[r].by}])
  /\ UNCHANGED <<rows, thread, cursor, sockets>>

(* dispatchMessage: sockets join, the message goes out, and whoever is     *)
(* online then has it.                                                     *)
JoinRoom(r) ==
  /\ At(r, "join")
  /\ room' = room \cup ((req[r].to \cup {req[r].by}) \cap own)
  /\ Begin(r, "mark", [req[r] EXCEPT !.to = @ \cap online])
  /\ UNCHANGED <<rows, thread, cursor, online, own, conn>>

MarkRecipients(r) ==
  /\ At(r, "mark")
  /\ cursor' = Raised(req[r].to, req[r].seq)
  /\ Finish(r)
  /\ UNCHANGED <<rows, thread, sockets>>

(* markRead (REST or socket) and markDelivered, up to a message the        *)
(* client has.                                                             *)
StartRead(r, by, seq) ==
  /\ "read" \in Ops /\ req[r] = None
  /\ by \in members /\ seq \in Seqs
  /\ Begin(r, "read", [Request(by) EXCEPT !.seq = seq])
  /\ UNCHANGED <<rows, thread, cursor, sockets>>

Read(r) ==
  /\ At(r, "read")
  /\ LET p == req[r].by IN
     cursor' = IF p \in members THEN [cursor EXCEPT ![p] = ReadTo(@, req[r].seq)] ELSE cursor
  /\ Finish(r)
  /\ UNCHANGED <<rows, thread, sockets>>

MarkDelivered(by, seq) ==
  /\ "read" \in Ops /\ conn[by] = "up" /\ seq \in Seqs
  /\ cursor' = Raised({by}, seq)
  /\ UNCHANGED <<rows, thread, sockets, req>>

(* A request is refused or rolled back before it has changed anything.     *)
Refuse(r) ==
  /\ \E step \in {"create", "add", "remove", "insert", "commit", "read"} : At(r, step)
  /\ Finish(r)
  /\ UNCHANGED <<rows, thread, cursor, sockets>>

-----------------------------------------------------------------------------
(* handleConnection: registered, personal room, conversations read and     *)
(* joined, then everything that waits is marked delivered.                 *)
Connect(p) ==
  /\ conn[p] = None
  /\ online' = online \cup {p}
  /\ conn' = [conn EXCEPT ![p] = "own"]
  /\ UNCHANGED <<rows, thread, cursor, own, room, req>>

JoinOwnRoom(p) ==
  /\ conn[p] = "own"
  /\ own' = own \cup {p}
  /\ conn' = [conn EXCEPT ![p] = "read"]
  /\ UNCHANGED <<rows, thread, cursor, online, room, req>>

ReadConversations(p) ==
  /\ conn[p] = "read"
  /\ conn' = [conn EXCEPT ![p] = IF p \in members THEN "enter" ELSE "deliver"]
  /\ UNCHANGED <<rows, thread, cursor, online, own, room, req>>

EnterRooms(p) ==
  /\ conn[p] = "enter"
  /\ room' = room \cup {p}
  /\ conn' = [conn EXCEPT ![p] = "deliver"]
  /\ UNCHANGED <<rows, thread, cursor, online, own, req>>

(* Mutant: nothing is caught up with.                                      *)
Waiting_None == 0

Waiting == Latest

MarkAllDelivered(p) ==
  /\ conn[p] = "deliver"
  /\ cursor' = Raised({p}, Waiting)
  /\ conn' = [conn EXCEPT ![p] = "up"]
  /\ UNCHANGED <<rows, thread, online, own, room, req>>

Disconnect(p) ==
  /\ conn[p] = "up"
  /\ online' = online \ {p} /\ own' = own \ {p} /\ room' = room \ {p}
  /\ conn' = [conn EXCEPT ![p] = None]
  /\ UNCHANGED <<rows, thread, cursor, req>>

(* The process stops and starts again.                                     *)
Crash ==
  /\ "crash" \in Ops
  /\ online' = {} /\ own' = {} /\ room' = {}
  /\ conn' = [p \in People |-> None] /\ req' = [r \in Reqs |-> None]
  /\ UNCHANGED <<rows, thread, cursor>>

Step(r) ==
  \/ \E by \in People : \/ \E ps \in SUBSET Others(by) : LookForThread(r, by, ps)
                        \/ \E p \in People : ReadForAdd(r, by, p) \/ ReadForRemove(r, by, p)
                        \/ StartSend(r, by)
                        \/ \E seq \in 1 .. MaxMessages : StartRead(r, by, seq)
  \/ Create(r) \/ Announce(r) \/ Add(r) \/ ReadMembers(r) \/ Remove(r)
  \/ InsertMessage(r) \/ CommitMessage(r) \/ ReadRecipients(r) \/ JoinRoom(r)
  \/ MarkRecipients(r) \/ Read(r) \/ Refuse(r)

Socket(p) ==
  \/ Connect(p) \/ JoinOwnRoom(p) \/ ReadConversations(p) \/ EnterRooms(p)
  \/ MarkAllDelivered(p) \/ Disconnect(p)
  \/ \E seq \in 1 .. MaxMessages : MarkDelivered(p, seq)

Next == (\E r \in Reqs : Step(r)) \/ (\E p \in People : Socket(p)) \/ Crash

Spec == Init /\ [][Next]_vars

-----------------------------------------------------------------------------
Quiet == /\ \A r \in Reqs : req[r] = None
         /\ \A p \in People : conn[p] \in {None, "up"}

MessagingTypeOK ==
  /\ exists \in BOOLEAN /\ members \subseteq People /\ admins \subseteq members
  /\ messages \subseteq [seq : 1 .. nextSeq, from : People] /\ nextSeq \in 0 .. MaxMessages
  /\ cursor \in [People -> [read : 0 .. nextSeq, delivered : 0 .. nextSeq]]
  /\ since \in [People -> 0 .. nextSeq]
  /\ room \subseteq own /\ own \subseteq online
  /\ \A p \in People : p \in online <=> conn[p] # None

(* Whoever is online has everything that was sent since they came in       *)
(* marked as delivered: between the catch-up of handleConnection and the   *)
(* marks of dispatchMessage no message falls through.                      *)
NothingWaitsOnline == Quiet =>
  \A p \in online \cap members, m \in messages :
    m.seq > since[p] => cursor[p].delivered >= m.seq

(* Whoever is online has joined the room of their conversation, whichever  *)
(* of connecting and being entered came first (handleConnection,           *)
(* dispatchConversation).                                                  *)
MembersAreInRoom == Quiet => online \cap members \subseteq room

(* What has been read has been delivered ("read implies it", markRead).    *)
ReadBehindDelivered == \A p \in People : cursor[p].read <= cursor[p].delivered

(* "It moves a cursor forward, never backwards": while one stays a member. *)
OnlyForward == \A p \in members \cap members' :
  /\ cursor'[p].read >= cursor[p].read
  /\ cursor'[p].delivered >= cursor[p].delivered

CursorsForward == [][OnlyForward]_vars

(* One's own message is never unread to oneself (sendMessage).             *)
OwnIsRead == \A m \in messages :
  m.from \in members /\ m.seq > since[m.from] => cursor[m.from].read >= m.seq

(* What is sent reaches whoever is there, whoever connects or is entered   *)
(* meanwhile; what is read was delivered, and what one sent one has read   *)
(* (dispatchMessage, handleConnection, markRead, markDelivered).           *)
NobodyMissesAMessage ==
  NothingWaitsOnline /\ MembersAreInRoom /\ ReadBehindDelivered /\ OwnIsRead

(* Only members hear the conversation.                                     *)
OnlyMembersHear == Quiet => room \subseteq members
=============================================================================
