----------------------------- MODULE ChatClient -----------------------------
(***************************************************************************)
(* The browser's side of a direct conversation (lib/messaging.ts,          *)
(* Messages.tsx): what my cache holds of the thread, of the list of        *)
(* conversations and of the other's presence, kept by events of the socket *)
(* and by fetches that they overtake.  The server is what Messaging says   *)
(* of it: numbers in order of commit, cursors that go forward, messages    *)
(* sent to the room once they are committed, in any order.                 *)
(*                                                                         *)
(* What may cross is a choice: messages, with one another and with the     *)
(* answer to a fetch of the thread ("late"), the list and what is read or  *)
(* ticked meanwhile ("race"), a connection that drops and comes back       *)
(* ("drop").                                                               *)
(***************************************************************************)
EXTENDS Naturals, Sequences, FiniteSets, SequencesExt

CONSTANTS
  Ops,
  MaxMessages, \* bound on the messages of the conversation
  MaxMoves,    \* bound on the other's comings and goings
  None, Asked

VARIABLES
  exists,   \* the conversation has been created
  sent,     \* who sent each committed message
  due,      \* the messages committed and not yet sent to the room
  mine,     \* my read cursor
  theirs,   \* the other's cursors
  there,    \* the other is online
  moves,    \* how often they came or went
  link,     \* my socket is connected
  wire,     \* the events on their way to me
  reading,  \* the read I have emitted and the server has not taken, 0 for none
  open,     \* the conversation is the one selected
  thread,   \* the cached messages, None before they came
  fetching, \* the fetch of the thread: None, Asked or the number it has answered up to
  list,     \* the cached conversation, None while it is not in the list
  asking,   \* the fetch of the list: None, Asked or its answer
  shown,    \* the presence heard of, None before any
  latest    \* the message the pane has last marked read, 0 before one

server == <<exists, sent, due, mine, theirs, there, moves>>
cache == <<open, thread, fetching, list, asking, shown, latest>>
vars == <<server, link, wire, reading, cache>>

Committed == DOMAIN sent
Newest == Len(sent)
Greatest(m, n) == IF m > n THEN m ELSE n
ReadUpTo(c, n) == [read |-> Greatest(c.read, n), delivered |-> Greatest(c.delivered, n)]
DeliveredUpTo(c, n) == [c EXCEPT !.delivered = Greatest(@, n)]

(* unreadCount, and the conversation as listConversations answers it.      *)
Unread == Cardinality({n \in Committed : sent[n] = "they" /\ n > mine})
Listed == IF exists THEN [unread |-> Unread, ticks |-> theirs, online |-> there] ELSE None

Init ==
  /\ exists = FALSE /\ sent = <<>> /\ due = {} /\ mine = 0
  /\ theirs = [read |-> 0, delivered |-> 0] /\ there \in BOOLEAN /\ moves = 0
  /\ link = TRUE /\ wire = <<>> /\ reading = 0
  /\ open = FALSE /\ thread = None /\ fetching = None
  /\ list = None /\ asking = None /\ shown = None /\ latest = 0

-----------------------------------------------------------------------------
(* What the server tells my socket, if there is one.                       *)
Told(events) == wire' = IF link THEN wire \o events ELSE wire

Event(kind) == [kind |-> kind, seq |-> 0, ticks |-> None, online |-> FALSE]
Receipt(c) == [Event("receipt") EXCEPT !.ticks = c]

(* A conversation is begun: by me it is selected, and looked for in the    *)
(* list; by the other it is announced.                                     *)
Create(by) ==
  /\ ~exists
  /\ exists' = TRUE
  /\ open' = (by = "me")
  /\ asking' = IF by = "me" THEN Asked ELSE asking
  /\ Told(<<Event("conversation")>>)
  /\ UNCHANGED <<sent, due, mine, theirs, there, moves, link, reading, thread, fetching, list, shown, latest>>

(* The composer, under the conversation that is selected and listed.       *)
Composing == open /\ list # None

(* sendMessage sets the sender's own cursors.                              *)
Commit(by) ==
  /\ exists /\ Newest < MaxMessages
  /\ by = "me" => Composing
  /\ sent' = Append(sent, by) /\ due' = due \cup {Newest + 1}
  /\ mine' = IF by = "me" THEN Newest + 1 ELSE mine
  /\ theirs' = IF by = "they" THEN ReadUpTo(theirs, Newest + 1) ELSE theirs
  /\ UNCHANGED <<exists, there, moves, link, wire, reading, cache>>

(* dispatchMessage: the room hears of it, and whoever is online has it.    *)
Late(n) == (fetching \notin {None, Asked} /\ n > fetching) \/ (\E m \in due : m < n)

Dispatch(n) ==
  /\ n \in due /\ ("late" \in Ops \/ ~ Late(n))
  /\ due' = due \ {n}
  /\ theirs' = IF there /\ sent[n] = "me" THEN DeliveredUpTo(theirs, n) ELSE theirs
  /\ Told(<<[Event("message") EXCEPT !.seq = n]>>
            \o IF there /\ sent[n] = "me" THEN <<Receipt(theirs')>> ELSE <<>>)
  /\ UNCHANGED <<exists, sent, mine, there, moves, link, reading, cache>>

(* The other reads, comes and goes (markRead, handleConnection).           *)
TheyRead(n) ==
  /\ there /\ n \in Committed /\ n > theirs.read
  /\ theirs' = ReadUpTo(theirs, n)
  /\ Told(<<Receipt(theirs')>>)
  /\ UNCHANGED <<exists, sent, due, mine, there, moves, link, reading, cache>>

TheyMove ==
  /\ exists /\ moves < MaxMoves
  /\ there' = ~there /\ moves' = moves + 1
  /\ theirs' = IF there THEN theirs ELSE DeliveredUpTo(theirs, Newest)
  /\ Told((IF there THEN <<>> ELSE <<Receipt(theirs')>>)
            \o <<[Event("presence") EXCEPT !.online = there']>>)
  /\ UNCHANGED <<exists, sent, due, mine, link, reading, cache>>

(* onRead: what was emitted while the socket was down waits for it.        *)
TakeRead ==
  /\ link /\ reading > 0
  /\ mine' = Greatest(mine, reading) /\ reading' = 0
  /\ UNCHANGED <<exists, sent, due, theirs, there, moves, link, wire, cache>>

-----------------------------------------------------------------------------
(* upsertMessage.  Mutant: a message that was fetched is added again.      *)
Upserted_Again(t, n) == IF t = None THEN None ELSE Append(t, n)

Upserted(t, n) == IF t = None \/ n \in Range(t) THEN t ELSE Append(t, n)

(* applyReceipt: the greater of what is cached and what is heard.          *)
(* Mutant: a tick is raised for having been sent.                          *)
Ticked_Sent(l, c) == IF l = None THEN None ELSE [l EXCEPT !.ticks = DeliveredUpTo(@, c.delivered + 1)]

Ticked(l, c) ==
  IF l = None THEN None
  ELSE [l EXCEPT !.ticks = [read |-> Greatest(@.read, c.read),
                            delivered |-> Greatest(@.delivered, c.delivered)]]

(* The ticks at a bubble, if it is a message of mine.                      *)
tickState(n, c) ==
  CASE c.read >= n -> "read" [] c.read < n /\ c.delivered >= n -> "delivered" [] OTHER -> "sent"

Bubble(n) == IF sent[n] = "me" THEN tickState(n, list.ticks) ELSE "none"

(* Mutant: my badge waits for the list.                                    *)
Cleared_Not(l) == l

Cleared(l) == IF l = None THEN None ELSE [l EXCEPT !.unread = 0]

(* ChatPane: whenever the open thread's tail changes it is marked read, my *)
(* badge cleared at once.                                                  *)
TailOf(t) == IF t = None \/ t = <<>> THEN 0 ELSE t[Len(t)]

Shown(t, l, marked) ==
  IF open /\ l # None /\ TailOf(t) \notin {0, marked}
  THEN /\ reading' = Greatest(reading, TailOf(t)) /\ latest' = TailOf(t) /\ list' = Cleared(l)
  ELSE /\ UNCHANGED reading /\ latest' = marked /\ list' = l

(* Mutant: a message does not have the list fetched again.                 *)
Refreshed_Not(kind) == IF kind = "conversation" THEN Asked ELSE asking

(* onMessage and onConversation; a fetch of the list at work is given up.  *)
Refreshed(kind) == IF kind \in {"message", "conversation"} THEN Asked ELSE asking

Hear ==
  /\ link /\ wire # <<>>
  /\ LET e == Head(wire) IN
     /\ thread' = IF e.kind = "message" THEN Upserted(thread, e.seq) ELSE thread
     /\ asking' = Refreshed(e.kind)
     /\ shown' = IF e.kind = "presence" THEN e.online ELSE shown
     /\ Shown(thread', IF e.kind = "receipt" THEN Ticked(list, e.ticks) ELSE list, latest)
  /\ wire' = SubSeq(wire, 2, Len(wire))
  /\ UNCHANGED <<server, link, open, fetching>>

(* The pane opens on a thread that is fetched anew, whatever is cached.    *)
Select ==
  /\ list # None /\ ~open
  /\ open' = TRUE /\ fetching' = Asked
  /\ IF TailOf(thread) # 0
     THEN /\ reading' = Greatest(reading, TailOf(thread)) /\ latest' = TailOf(thread) /\ list' = Cleared(list)
     ELSE UNCHANGED <<reading, latest, list>>
  /\ UNCHANGED <<server, link, wire, thread, asking, shown>>

Leave ==
  /\ open /\ list # None
  /\ open' = FALSE /\ latest' = 0
  /\ UNCHANGED <<server, link, wire, reading, thread, fetching, list, asking, shown>>

AnswerThread ==
  /\ fetching = Asked
  /\ fetching' = Newest
  /\ UNCHANGED <<server, link, wire, reading, open, thread, list, asking, shown, latest>>

ThreadArrives ==
  /\ fetching \notin {None, Asked}
  /\ thread' = [n \in 1 .. fetching |-> n] /\ fetching' = None
  /\ Shown(thread', list, latest)
  /\ UNCHANGED <<server, link, wire, open, asking, shown>>

(* The list is answered, and arrives; a conversation that was selected     *)
(* before it was listed has its thread fetched then.                       *)
AnswerList ==
  /\ asking = Asked /\ "race" \in Ops
  /\ asking' = Listed
  /\ UNCHANGED <<server, link, wire, reading, open, thread, fetching, list, shown, latest>>

Arriving == IF "race" \in Ops THEN asking ELSE Listed

ListArrives ==
  /\ IF "race" \in Ops THEN asking \notin {None, Asked} ELSE asking = Asked /\ reading = 0
  /\ asking' = None
  /\ fetching' = IF open /\ list = None /\ Arriving # None THEN Asked ELSE fetching
  /\ Shown(thread, Arriving, latest)
  /\ UNCHANGED <<server, link, wire, open, thread, shown>>

(* The connection drops, with what was on it, and is made again.           *)
Drop ==
  /\ "drop" \in Ops /\ link
  /\ link' = FALSE /\ wire' = <<>>
  /\ UNCHANGED <<server, reading, cache>>

Reconnect ==
  /\ ~link
  /\ link' = TRUE
  /\ UNCHANGED <<server, wire, reading, cache>>

Next ==
  \/ \E by \in {"me", "they"} : Create(by) \/ Commit(by)
  \/ \E n \in 1 .. MaxMessages : Dispatch(n) \/ TheyRead(n)
  \/ TheyMove \/ TakeRead \/ Hear \/ Select \/ Leave
  \/ AnswerThread \/ ThreadArrives \/ AnswerList \/ ListArrives
  \/ Drop \/ Reconnect

Spec == Init /\ [][Next]_vars

-----------------------------------------------------------------------------
AtRest ==
  /\ link /\ wire = <<>> /\ due = {} /\ reading = 0
  /\ fetching = None /\ asking = None

ClientTypeOK ==
  /\ mine \in 0 .. Newest /\ theirs \in [read : 0 .. Newest, delivered : 0 .. Newest]
  /\ due \subseteq Committed /\ reading \in {0} \cup Committed /\ latest \in {0} \cup Committed
  /\ thread # None => Range(thread) \subseteq Committed
  /\ list # None => exists

(* However events and fetches cross, a message stands once in the thread   *)
(* (upsertMessage).                                                        *)
OnceInThread == thread # None => IsInjective(thread)

(* However they cross, and whatever is lost, no message of mine is ticked  *)
(* for more than has become of it (Bubble, applyReceipt).                  *)
TicksAreTrue == list # None => \A n \in Committed :
  /\ Bubble(n) = "read" => theirs.read >= n
  /\ Bubble(n) = "delivered" => theirs.delivered >= n

(* When nothing is on its way any more: the thread has every message, if   *)
(* none came out of turn; the ticks are the server's, if none came while   *)
(* the list was fetched; with neither, the badge is the server's and an    *)
(* open thread is read; and the presence shown is theirs.                  *)
ThreadIsWhole == AtRest /\ "late" \notin Ops /\ thread # None => Range(thread) = Committed

BadgeIsTrue == AtRest /\ Ops \cap {"late", "race"} = {} /\ list # None =>
  list.unread = Unread /\ (open => Unread = 0)

TicksAreCurrent == AtRest /\ "race" \notin Ops /\ list # None => list.ticks = theirs

PresenceIsCurrent == AtRest /\ list # None =>
  (IF shown = None THEN list.online ELSE shown) = there

ClientKeepsUp ==
  /\ OnceInThread /\ TicksAreTrue
  /\ "drop" \notin Ops => ThreadIsWhole /\ BadgeIsTrue /\ TicksAreCurrent /\ PresenceIsCurrent
=============================================================================
