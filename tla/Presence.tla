------------------------------ MODULE Presence ------------------------------
(***************************************************************************)
(* One person's sockets, the gateway's memory of them and the UserSession  *)
(* rows of the Logs screen: MessagingGateway.handleConnection and          *)
(* handleDisconnect, split at their awaits, with ActivityService's         *)
(* openSession, closeSession and the sweep at boot.  A crash loses the     *)
(* memory and keeps the rows.                                              *)
(***************************************************************************)
EXTENDS Naturals, Sequences, FiniteSets, FiniteSetsExt

CONSTANTS
  Sockets,
  Ops,     \* what may happen: crash, nosweep, telemetry (a failing log),
           \* early (a socket closes whatever its handlers are at),
           \* return (a socket opens while a handler of another is at work)
  MaxRows, \* bound on the sessions opened
  None

VARIABLES
  running,  \* the process is up
  alive,    \* the sockets that are connected
  presence, \* the sockets registered for the person
  known,    \* sessionByUser: the session remembered
  rows,     \* the UserSession rows in order of opening: open or ended
  opening,  \* handleConnection of each socket: where it is, the row it made
  closing   \* handleDisconnect of each socket: where it is, the row to end

vars == <<running, alive, presence, known, rows, opening, closing>>
memory == <<presence, known>>

Idle == [at |-> None, row |-> None]
Open == {i \in DOMAIN rows : rows[i] = "open"}
AllIdle == [s \in Sockets |-> Idle]
AtWork == {s \in Sockets : opening[s] # Idle \/ closing[s] # Idle}
(* How far apart the handlers of two sockets may be.                       *)
MayOpen == "return" \in Ops \/ \A s \in Sockets : closing[s] = Idle
MayClose == "early" \in Ops \/ AtWork = {}

Moves(h, s, step, row) == h' = [h EXCEPT ![s] = [at |-> step, row |-> row]]
Done(h, s) == h' = [h EXCEPT ![s] = Idle]

Init ==
  /\ running = TRUE /\ alive = {}
  /\ presence = {} /\ known = None
  /\ rows = << >> /\ opening = AllIdle /\ closing = AllIdle

-----------------------------------------------------------------------------
Arrive(s) ==
  /\ running /\ s \notin alive /\ s \notin AtWork
  /\ MayOpen
  /\ alive' = alive \cup {s}
  /\ Moves(opening, s, "verify", None)
  /\ UNCHANGED <<running, memory, rows, closing>>

(* verifySession refuses: the server closes the socket.                    *)
TurnAway(s) ==
  /\ opening[s].at = "verify"
  /\ alive' = alive \ {s}
  /\ Done(opening, s)
  /\ UNCHANGED <<running, memory, rows, closing>>

(* Mutant: every socket opens a session.                                   *)
OpensSession_Always == TRUE

OpensSession == presence = {}

Register(s) ==
  /\ opening[s].at = "verify"
  /\ presence' = presence \cup {s}
  /\ IF OpensSession THEN Moves(opening, s, "open", None) ELSE Done(opening, s)
  /\ UNCHANGED <<running, alive, known, rows, closing>>

(* openSession: the row, then its log line; a failure of either is let go. *)
InsertSession(s) ==
  /\ opening[s].at = "open" /\ Len(rows) < MaxRows
  /\ rows' = Append(rows, "open")
  /\ Moves(opening, s, "remember", Len(rows'))
  /\ UNCHANGED <<running, alive, memory, closing>>

(* Mutant: the socket is remembered in place of its session.               *)
Remembered_Socket(s) == s

Remembered(s) == opening[s].row

RememberSession(s) ==
  /\ opening[s].at = "remember"
  /\ known' = Remembered(s)
  /\ Done(opening, s)
  /\ UNCHANGED <<running, alive, presence, rows, closing>>

LoseSession(s) ==
  /\ "telemetry" \in Ops /\ opening[s].at = "remember"
  /\ Done(opening, s)
  /\ UNCHANGED <<running, alive, memory, rows, closing>>

(* handleDisconnect, up to its first await.  A socket that was never       *)
(* registered has no user and is not handled.                              *)
(* Mutant: any socket that closes takes the person offline.                *)
Offline_Any(s) == {}

Offline(s) == presence \ {s}

Leave(s) ==
  /\ s \in alive /\ MayClose
  /\ alive' = alive \ {s}
  /\ IF opening[s].at = "verify" THEN UNCHANGED <<presence, closing>> ELSE
       /\ presence' = Offline(s)
       /\ IF s \in presence /\ presence' = {} THEN Moves(closing, s, "seen", None)
                                              ELSE UNCHANGED closing
  /\ UNCHANGED <<running, known, rows, opening>>

(* lastSeenAt is written and everyone told; then the remembered session is *)
(* taken.                                                                  *)
TakeSession(s) ==
  /\ closing[s].at = "seen"
  /\ Moves(closing, s, "find", known)
  /\ known' = None
  /\ UNCHANGED <<running, alive, presence, rows, opening>>

(* closeSession: the session remembered, or else the last one still open.  *)
(* Mutant: nothing to fall back on.                                        *)
Found_Remembered(s) == closing[s].row

Found(s) == IF closing[s].row # None THEN closing[s].row
            ELSE IF Open = {} THEN None ELSE Max(Open)

FindSession(s) ==
  /\ closing[s].at = "find"
  /\ LET row == Found(s) IN
     IF row # None /\ row \in Open THEN Moves(closing, s, "end", row) ELSE Done(closing, s)
  /\ UNCHANGED <<running, alive, memory, rows, opening>>

EndSession(s) ==
  /\ closing[s].at = "end"
  /\ rows' = [rows EXCEPT ![closing[s].row] = "ended"]
  /\ Done(closing, s)
  /\ UNCHANGED <<running, alive, memory, opening>>

-----------------------------------------------------------------------------
Crash ==
  /\ "crash" \in Ops /\ running
  /\ running' = FALSE /\ alive' = {} /\ presence' = {} /\ known' = None
  /\ opening' = AllIdle /\ closing' = AllIdle
  /\ UNCHANGED rows

(* Mutant: the sweep ends what the process remembers.                      *)
Swept_Remembered == [i \in DOMAIN rows |-> IF i = known THEN "ended" ELSE rows[i]]

Swept == [i \in DOMAIN rows |-> "ended"]

(* onModuleInit: before any socket.                                        *)
Boot ==
  /\ ~running
  /\ running' = TRUE
  /\ rows' = Swept
  /\ UNCHANGED <<alive, memory, opening, closing>>

BootWithoutSweep ==
  /\ "nosweep" \in Ops /\ ~running
  /\ running' = TRUE
  /\ UNCHANGED <<alive, memory, rows, opening, closing>>

Handler(s) ==
  \/ Register(s) \/ InsertSession(s) \/ RememberSession(s) \/ LoseSession(s)
  \/ TakeSession(s) \/ FindSession(s) \/ EndSession(s)

Next ==
  \/ \E s \in Sockets : Arrive(s) \/ TurnAway(s) \/ Handler(s) \/ Leave(s)
  \/ Crash \/ Boot \/ BootWithoutSweep

Spec == Init /\ [][Next]_vars

-----------------------------------------------------------------------------
Quiet == running /\ AtWork = {}

PresenceTypeOK ==
  /\ running \in BOOLEAN /\ alive \subseteq Sockets /\ presence \subseteq Sockets
  /\ known \in DOMAIN rows \cup {None}
  /\ rows \in Seq({"open", "ended"}) /\ Len(rows) <= MaxRows
  /\ \A s \in Sockets : \A h \in {opening[s], closing[s]} : h.row \in DOMAIN rows \cup {None}

(* "Online iff the set is non-empty": the sockets registered are those     *)
(* that are there.                                                         *)
PresenceIsLive == Quiet => presence = alive

(* "A still-open session is someone online right now": none is left open   *)
(* when the last socket goes, by a crash or by a lost log line, and whoever*)
(* is online has one.                                                      *)
SessionWhileOnline == Quiet => (Open # {} <=> presence # {})

(* One session spans the whole online period, whatever sockets come and    *)
(* go in it.                                                               *)
OneSessionAtATime == Cardinality(Open) <= 1

(* Who is shown online is, and one session spans the time (isOnline,       *)
(* openSession, closeSession).                                             *)
PresenceIsTrue == PresenceIsLive /\ SessionWhileOnline /\ OneSessionAtATime

(* "Either way a session can never be orphaned open by an in-memory timing *)
(* gap": nobody online, no session open.                                   *)
NoOrphan == Quiet /\ presence = {} => Open = {}
=============================================================================
