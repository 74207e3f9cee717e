------------------------------- MODULE MCDesk -------------------------------
(***************************************************************************)
(* The console for TLC: its pages over the server they call (SaleForm,     *)
(* SaleEdit, SalePage), its socket side (Messaging, Presence and           *)
(* SocketThrottle) and what its browser keeps of a conversation            *)
(* (ChatClient).  A behaviour follows one part from its start.             *)
(***************************************************************************)
EXTENDS Naturals, Sequences, FiniteSets, TLC

CONSTANTS
  e1, e2, p1, p2, a1, a2, t1, t2, f1, f2, rep, mgr, acct, chief, \* the pages
  Talkers, r1, Reqs, CrossingMessages, ReadMessages, GroupMessages, \* Messaging
  Crowd, CrowdRows, Pair, PairRows,                              \* Presence
  typing, read, events, Typings, Calls, Ttl, Block, SweepEvery,  \* SocketThrottle
  MaxSaid, FewSaid, MaxMoves, FewMoves,                          \* ChatClient
  None, Asked

VARIABLES
  part, \* which of the instances below runs
  card, shown, form, anchor,
  phase, sent, created, sales, due, todo, failed, chosen, docs, plan,
  sale, stored, cache, seed, touched,
  record, limit, page, thresholds, dialog,
  exists, members, admins, messages, nextSeq, cursor, since, online, own, room, conn, req,
  running, alive, presence, known, rows, opening, closing,
  windows, sweepIn, plain, verdict, passed,
  begun, said, owed, mine, theirs, there, moves, link, wire, reading,
  open, thread, fetching, list, asking, heard, latest

fields == <<card, shown, form, anchor>>
intake == <<phase, sent, created, sales, due, todo, failed, chosen, docs, plan>>
editing == <<sale, stored, cache, seed, touched>>
judging == <<record, limit, page, thresholds, dialog>>
pages == <<fields, intake, editing, judging>>

talk == <<exists, members, admins, messages, nextSeq, cursor, since, online, own, room, conn, req>>
sessions == <<running, alive, presence, known, rows, opening, closing>>
limits == <<windows, sweepIn, plain, verdict, passed>>
sockets == <<talk, sessions, limits>>

chat == <<begun, said, owed, mine, theirs, there, moves, link, wire, reading,
          open, thread, fetching, list, asking, heard, latest>>

-----------------------------------------------------------------------------
(* A rate card on which a package has no price at one show, an add-on is   *)
(* free, another is sold at one show only, and figures need rounding, some of them *)
(* from half a cent: 15 % of 10.70 and 5 % tax on 0.70 are halves that a   *)
(* browser really loses.                                                   *)
FirstCard ==
  [price |-> (p1 :> (e1 :> 1070 @@ e2 :> None) @@ p2 :> (e1 :> 70 @@ e2 :> 700)),
   sells |-> (e1 :> {a1, a2} @@ e2 :> {a2}),
   addon |-> (a1 :> 333 @@ a2 :> 0),
   rate |-> (t1 :> 5000 @@ t2 :> 12500)]

(* The same after a price rose, an add-on and a tax went.                  *)
SecondCard ==
  [FirstCard EXCEPT !.price[p1][e1] = 2000, !.sells[e1] = {a2}, !.rate[t1] = None]

Nothing == [type |-> "PCT", value |-> 0]
Percent == [type |-> "PCT", value |-> 1500]
Amount == [type |-> "AMT", value |-> 100]

(* Everything typed, over a rate card that stays and over one that changes.*)
Intake == INSTANCE SaleForm WITH
  Events <- {e1, e2}, Packages <- {p1, p2}, Addons <- {a1, a2}, Taxes <- {t1, t2},
  Cards <- {FirstCard}, Files <- {}, Discounts <- {Percent, Amount}, Deposits <- {0},
  Overrides <- {None, 333}, Counts <- {None}, Amounts <- {}, Ops <- {}, MaxSales <- 0

Changing == INSTANCE SaleForm WITH
  Events <- {e1}, Packages <- {p1}, Addons <- {a1}, Taxes <- {t1, t2},
  Cards <- {FirstCard, SecondCard}, Files <- {}, Discounts <- {Amount}, Deposits <- {0},
  Overrides <- {}, Counts <- {None}, Amounts <- {}, Ops <- {"send", "card"}, MaxSales <- 1

(* Everything that can fail after the sale was made, and answers lost.     *)
Sending == INSTANCE SaleForm WITH
  Events <- {e1}, Packages <- {p1}, Addons <- {}, Taxes <- {t1},
  Cards <- {FirstCard}, Files <- {f1, f2}, Discounts <- {Nothing}, Deposits <- {0, 1120},
  Overrides <- {}, Counts <- {None, 3}, Amounts <- {1}, Ops <- {"send", "hasty", "fail", "pay"},
  MaxSales <- 2

Losing == INSTANCE SaleForm WITH
  Events <- {e1}, Packages <- {p1}, Addons <- {}, Taxes <- {t1},
  Cards <- {FirstCard}, Files <- {f1}, Discounts <- {Percent}, Deposits <- {0},
  Overrides <- {}, Counts <- {None, 2}, Amounts <- {}, Ops <- {"send", "fail", "lost"}, MaxSales <- 2

-----------------------------------------------------------------------------
(* Sales customized in name, in price, in both and not at all.             *)
Plain ==
  [event |-> e1, package |-> p1, addons |-> {}, customized |-> FALSE, fully |-> FALSE,
   named |-> FALSE, override |-> None, discount |-> Percent, deposit |-> 0]

FirstSales ==
  {Plain, [Plain EXCEPT !.addons = {a1}],
   [Plain EXCEPT !.customized = TRUE, !.named = TRUE],
   [Plain EXCEPT !.customized = TRUE, !.override = 333],
   [Plain EXCEPT !.customized = TRUE, !.override = 333, !.named = TRUE, !.fully = TRUE, !.addons = {a1}]}

Taxed == [rate |-> 5000, addonRate |-> 12500]

Amending == INSTANCE SaleEdit WITH
  Events <- {e1, e2}, Packages <- {p1, p2}, Addons <- {a1, a2}, Taxes <- {t1, t2},
  Cards <- {FirstCard}, FirstSales <- FirstSales,
  Rates <- {Taxed, [rate |-> 8875, addonRate |-> None]}, Discounts <- {Percent, Amount},
  Overrides <- {None, 333}, Ops <- {}

Saving == INSTANCE SaleEdit WITH
  Events <- {e1}, Packages <- {p1}, Addons <- {a1}, Taxes <- {t1, t2},
  Cards <- {FirstCard, SecondCard}, FirstSales <- FirstSales, Rates <- {Taxed},
  Discounts <- {Amount}, Overrides <- {}, Ops <- {"save", "card", "other", "cached"}

Deciding == INSTANCE SaleEdit WITH
  Events <- {e1}, Packages <- {p1}, Addons <- {a1}, Taxes <- {t1, t2},
  Cards <- {FirstCard}, FirstSales <- {Plain}, Rates <- {Taxed},
  Discounts <- {Amount}, Overrides <- {}, Ops <- {"save", "decide", "cached"}

-----------------------------------------------------------------------------
(* The plan and its dialog, with the representative at another page; the   *)
(* queue, an accountant's own sale in it, as the threshold moves; and the  *)
(* rest of a sale's way, before all three kinds of people.                 *)
Sold(offs, customs) == [total: {3}, off: offs, custom: customs]

Paying == INSTANCE SalePage WITH
  shown <- thresholds, Owner <- rep, Accounting <- {acct}, Managers <- {}, Terms <- Sold({0}, {FALSE}),
  Limits <- {5}, Amounts <- {}, Numbers <- {}, Ops <- {"plan", "mark", "draw"},
  MaxInsts <- 3, MaxLines <- 2, MaxPaid <- 3

Drawing == INSTANCE SalePage WITH
  shown <- thresholds, Owner <- acct, Accounting <- {acct}, Managers <- {}, Terms <- Sold({0}, {FALSE}),
  Limits <- {5}, Amounts <- {1}, Numbers <- {}, Ops <- {"plan", "clear", "pay", "draw"},
  MaxInsts <- 2, MaxLines <- 2, MaxPaid <- 3

Undoing == INSTANCE SalePage WITH
  shown <- thresholds, Owner <- rep, Accounting <- {acct}, Managers <- {}, Terms <- Sold({0}, {FALSE}),
  Limits <- {5}, Amounts <- {}, Numbers <- {}, Ops <- {"plan", "mark", "unmark"},
  MaxInsts <- 2, MaxLines <- 2, MaxPaid <- 3

Approving == INSTANCE SalePage WITH
  shown <- thresholds, Owner <- chief, Accounting <- {acct, chief}, Managers <- {},
  Terms <- Sold({10}, BOOLEAN), Limits <- {5, 20}, Amounts <- {}, Numbers <- {},
  Ops <- {"approve", "edit", "limit"}, MaxInsts <- 0, MaxLines <- 0, MaxPaid <- 0

Filing == INSTANCE SalePage WITH
  shown <- thresholds, Owner <- rep, Accounting <- {acct}, Managers <- {}, Terms <- Sold({0}, {FALSE}),
  Limits <- {5}, Amounts <- {}, Numbers <- {"typed"},
  Ops <- {"edit", "approve", "return", "reject", "void", "unvoid", "generate", "number", "export"},
  MaxInsts <- 0, MaxLines <- 0, MaxPaid <- 0

Visiting == INSTANCE SalePage WITH
  shown <- thresholds, Owner <- acct, Accounting <- {acct}, Managers <- {mgr}, Terms <- Sold({0}, {FALSE}),
  Limits <- {5}, Amounts <- {}, Numbers <- {"typed"}, Ops <- {"edit", "approve", "return", "number"},
  MaxInsts <- 0, MaxLines <- 0, MaxPaid <- 0

-----------------------------------------------------------------------------
(* Two people: sends and connections crossing, and the process stopping;   *)
(* receipts and sends, one request at a time; a group that they enter and  *)
(* leave while another request is at work.                                 *)
Direct == INSTANCE Messaging WITH
  People <- Talkers, Kind <- "DM", Ops <- {"create", "send", "crash"},
  MaxMessages <- CrossingMessages, MaxSends <- 1

Reading == INSTANCE Messaging WITH
  People <- Talkers, Kind <- "DM", Reqs <- {r1}, Ops <- {"create", "send", "read"},
  MaxMessages <- ReadMessages, MaxSends <- 1

Group == INSTANCE Messaging WITH
  People <- Talkers, Kind <- "GROUP", Ops <- {"create", "add", "remove", "send"},
  MaxMessages <- GroupMessages, MaxSends <- 1

ASSUME MessagesAreBounded ==
  {CrossingMessages, ReadMessages, GroupMessages} \subseteq Nat /\ IsFiniteSet(Reqs)

(* One person with three sockets, whose handlers follow one another, a     *)
(* log that fails and a process that stops.                                *)
Sessions == INSTANCE Presence WITH
  Sockets <- Crowd, Ops <- {"crash", "telemetry"}, MaxRows <- CrowdRows

(* The same where the sweep at boot fails, which the process survives.     *)
Unswept == INSTANCE Presence WITH
  Sockets <- Pair, Ops <- {"crash", "nosweep"}, MaxRows <- PairRows

ASSUME SessionsAreBounded == {CrowdRows, PairRows} \subseteq Nat

(* Two buckets of the table: one event counts in both, one in the second.  *)
Buckets == <<typing, events>>

Limits == INSTANCE SocketThrottle WITH
  Events <- {typing, read}, Buckets <- Buckets,
  AppliesTo <- (typing :> {typing} @@ events :> {typing, read}),
  Limit <- (typing :> Typings @@ events :> Calls)

(* A block of the table is as long as its window, or longer.               *)
ASSUME TableIsSound == Limits!ThrottleAssumption /\ Block >= Ttl

-----------------------------------------------------------------------------
(* What the browser keeps: with nothing crossing, the other coming and     *)
(* going or two messages said; messages out of turn; answers to the list   *)
(* that are overtaken, on a connection that drops.                         *)
Meeting == INSTANCE ChatClient WITH
  exists <- begun, sent <- said, due <- owed, shown <- heard,
  Ops <- {}, MaxMessages <- FewSaid

Chatting == INSTANCE ChatClient WITH
  exists <- begun, sent <- said, due <- owed, shown <- heard,
  Ops <- {}, MaxMessages <- MaxSaid, MaxMoves <- 0

Crossing == INSTANCE ChatClient WITH
  exists <- begun, sent <- said, due <- owed, shown <- heard,
  Ops <- {"late"}, MaxMessages <- MaxSaid, MaxMoves <- 0

Dropping == INSTANCE ChatClient WITH
  exists <- begun, sent <- said, due <- owed, shown <- heard,
  Ops <- {"race", "drop"}, MaxMessages <- FewSaid, MaxMoves <- FewMoves

ASSUME ChatIsBounded == {MaxSaid, FewSaid, MaxMoves, FewMoves} \subseteq Nat /\ Asked # None

-----------------------------------------------------------------------------
NoFields == card = None /\ shown = None /\ form = None /\ anchor = None

NoIntake ==
  /\ phase = None /\ sent = None /\ created = None /\ sales = None /\ due = None
  /\ todo = None /\ failed = None /\ chosen = None /\ docs = None /\ plan = None

NoEditing == sale = None /\ stored = None /\ cache = None /\ seed = None /\ touched = None

NoJudging ==
  record = None /\ limit = None /\ page = None /\ thresholds = None /\ dialog = None

NoPages == NoFields /\ NoIntake /\ NoEditing /\ NoJudging

PagesInit ==
  \/ /\ NoEditing /\ NoJudging
     /\ \/ part = "intake" /\ Intake!Init
        \/ part = "changing" /\ Changing!Init
        \/ part = "sending" /\ Sending!Init
        \/ part = "losing" /\ Losing!Init
  \/ /\ NoIntake /\ NoJudging
     /\ \/ part = "amending" /\ Amending!Init
        \/ part = "saving" /\ Saving!Init
        \/ part = "deciding" /\ Deciding!Init
  \/ /\ NoFields /\ NoIntake /\ NoEditing
     /\ \/ part = "paying" /\ Paying!Init
        \/ part = "drawing" /\ Drawing!Init
        \/ part = "undoing" /\ Undoing!Init
        \/ part = "visiting" /\ Visiting!Init
        \/ part = "approving" /\ Approving!Init
        \/ part = "filing" /\ Filing!Init

PagesNext ==
  \/ part = "intake" /\ Intake!Next /\ UNCHANGED <<editing, judging>>
  \/ part = "changing" /\ Changing!Next /\ UNCHANGED <<editing, judging>>
  \/ part = "sending" /\ Sending!Next /\ UNCHANGED <<editing, judging>>
  \/ part = "losing" /\ Losing!Next /\ UNCHANGED <<editing, judging>>
  \/ part = "amending" /\ Amending!Next /\ UNCHANGED <<intake, judging>>
  \/ part = "saving" /\ Saving!Next /\ UNCHANGED <<intake, judging>>
  \/ part = "deciding" /\ Deciding!Next /\ UNCHANGED <<intake, judging>>
  \/ part = "paying" /\ Paying!Next /\ UNCHANGED <<fields, intake, editing>>
  \/ part = "drawing" /\ Drawing!Next /\ UNCHANGED <<fields, intake, editing>>
  \/ part = "undoing" /\ Undoing!Next /\ UNCHANGED <<fields, intake, editing>>
  \/ part = "visiting" /\ Visiting!Next /\ UNCHANGED <<fields, intake, editing>>
  \/ part = "approving" /\ Approving!Next /\ UNCHANGED <<fields, intake, editing>>
  \/ part = "filing" /\ Filing!Next /\ UNCHANGED <<fields, intake, editing>>

NoTalk ==
  /\ exists = None /\ members = None /\ admins = None /\ messages = None /\ nextSeq = None
  /\ cursor = None /\ since = None /\ online = None /\ own = None /\ room = None
  /\ conn = None /\ req = None

NoSessions ==
  /\ running = None /\ alive = None /\ presence = None /\ known = None
  /\ rows = None /\ opening = None /\ closing = None

NoLimits ==
  /\ windows = None /\ sweepIn = None /\ plain = None /\ verdict = None /\ passed = None

NoSockets == NoTalk /\ NoSessions /\ NoLimits

NoChat ==
  /\ begun = None /\ said = None /\ owed = None /\ mine = None /\ theirs = None
  /\ there = None /\ moves = None /\ link = None /\ wire = None /\ reading = None
  /\ open = None /\ thread = None /\ fetching = None /\ list = None /\ asking = None
  /\ heard = None /\ latest = None

SocketsInit ==
  \/ /\ NoSessions /\ NoLimits
     /\ \/ part = "direct" /\ Direct!Init
        \/ part = "reading" /\ Reading!Init
        \/ part = "group" /\ Group!Init
  \/ /\ NoTalk /\ NoLimits
     /\ \/ part = "sessions" /\ Sessions!Init
        \/ part = "unswept" /\ Unswept!Init
  \/ NoTalk /\ NoSessions /\ part = "limits" /\ Limits!Init

ChatInit ==
  \/ part = "meeting" /\ Meeting!Init
  \/ part = "chatting" /\ Chatting!Init
  \/ part = "crossing" /\ Crossing!Init
  \/ part = "dropping" /\ Dropping!Init

Init ==
  \/ NoPages /\ NoChat /\ SocketsInit
  \/ NoSockets /\ NoChat /\ PagesInit
  \/ NoPages /\ NoSockets /\ ChatInit

SocketsNext ==
  \/ part = "direct" /\ Direct!Next /\ UNCHANGED <<sessions, limits>>
  \/ part = "reading" /\ Reading!Next /\ UNCHANGED <<sessions, limits>>
  \/ part = "group" /\ Group!Next /\ UNCHANGED <<sessions, limits>>
  \/ part = "sessions" /\ Sessions!Next /\ UNCHANGED <<talk, limits>>
  \/ part = "unswept" /\ Unswept!Next /\ UNCHANGED <<talk, limits>>
  \/ part = "limits" /\ Limits!Next /\ UNCHANGED <<talk, sessions>>

ChatNext ==
  \/ part = "meeting" /\ Meeting!Next
  \/ part = "chatting" /\ Chatting!Next
  \/ part = "crossing" /\ Crossing!Next
  \/ part = "dropping" /\ Dropping!Next

Next ==
  /\ UNCHANGED part
  /\ \/ SocketsNext /\ UNCHANGED <<pages, chat>>
     \/ PagesNext /\ UNCHANGED <<sockets, chat>>
     \/ ChatNext /\ UNCHANGED <<pages, sockets>>

Spec == Init /\ [][Next]_<<part, pages, sockets, chat>>

-----------------------------------------------------------------------------
PagesTypeOK ==
  /\ part = "intake" => Intake!SaleFormTypeOK
  /\ part = "changing" => Changing!SaleFormTypeOK
  /\ part = "sending" => Sending!SaleFormTypeOK
  /\ part = "losing" => Losing!SaleFormTypeOK
  /\ part = "amending" => Amending!SaleEditTypeOK
  /\ part = "saving" => Saving!SaleEditTypeOK
  /\ part = "deciding" => Deciding!SaleEditTypeOK
  /\ part = "paying" => Paying!SalePageTypeOK
  /\ part = "drawing" => Drawing!SalePageTypeOK
  /\ part = "undoing" => Undoing!SalePageTypeOK
  /\ part = "visiting" => Visiting!SalePageTypeOK
  /\ part = "approving" => Approving!SalePageTypeOK
  /\ part = "filing" => Filing!SalePageTypeOK

(* What the forms show and let through is what the server takes and        *)
(* charges, while the rate card is the one they show (preview, ready;      *)
(* resolveSale, compute).                                                  *)
FormsAreHonest ==
  /\ part = "intake" =>
       /\ Intake!ReadyIsAccepted /\ Intake!PreviewIsPrice
       /\ Intake!AddonsAtFullPrice /\ Intake!OverrideIsOfPackage
  /\ part = "changing" => Changing!ReadyIsAccepted /\ Changing!PreviewIsPrice
  /\ part = "amending" => Amending!EditIsPrice /\ Amending!EditOverridesItsPackage
  /\ part = "deciding" => Deciding!EditIsAllowed

(* A form opened on a sale and saved as it is leaves its figures alone     *)
(* (the seeding of EditSubmission.tsx, update).                            *)
UntouchedEditIsIdle ==
  /\ part = "amending" => Amending!UntouchedKeepsFigures
  /\ part = "saving" => Saving!UntouchedKeepsFigures

(* However often the form is sent again, it makes one sale, whose files    *)
(* are each attached once and whose plan adds up (createdRef, the flush).  *)
TakenInOnce ==
  /\ part = "sending" => Sending!OneSale /\ Sending!NoFileLost /\ Sending!PlanTiesOut
  /\ part = "losing" => Losing!NoFileDropped

(* What a sale's page and the queue offer on the record as it is, the      *)
(* server takes (SubmissionDetail.tsx, InstallmentsCard.tsx, Queue.tsx).   *)
OffersAreTaken ==
  /\ part = "paying" => Paying!OffersAreTaken
  /\ part = "drawing" => Drawing!OffersAreTaken
  /\ part = "undoing" => Undoing!OffersAreTaken
  /\ part = "visiting" => Visiting!OffersAreTaken
  /\ part = "approving" => Approving!OffersAreTaken
  /\ part = "filing" => Filing!OffersAreTaken

(* A dialog that says it only asks for a second sign-off decides nothing   *)
(* (ActionModal).                                                          *)
AskingDecidesNothing == [][part = "approving" => Approving!RequestOnlyAsks]_judging

DeskTypeOK ==
  /\ PagesTypeOK
  /\ part = "direct" => Direct!MessagingTypeOK
  /\ part = "reading" => Reading!MessagingTypeOK
  /\ part = "group" => Group!MessagingTypeOK
  /\ part = "sessions" => Sessions!PresenceTypeOK
  /\ part = "unswept" => Unswept!PresenceTypeOK
  /\ part = "limits" => Limits!ThrottleTypeOK
  /\ part = "meeting" => Meeting!ClientTypeOK
  /\ part = "chatting" => Chatting!ClientTypeOK
  /\ part = "crossing" => Crossing!ClientTypeOK
  /\ part = "dropping" => Dropping!ClientTypeOK

(* Nobody misses a message, whatever part of the conversation's life is    *)
(* followed (dispatchMessage, handleConnection, markRead, markDelivered);  *)
(* and the browser keeps up with what it is told (useMessagingRealtime,    *)
(* ChatPane).                                                              *)
NobodyMissesAMessage ==
  /\ part = "direct" => Direct!NobodyMissesAMessage
  /\ part = "group" => Group!NobodyMissesAMessage
  /\ part = "reading" => Reading!NobodyMissesAMessage
  /\ part = "meeting" => Meeting!ClientKeepsUp
  /\ part = "chatting" => Chatting!ClientKeepsUp
  /\ part = "crossing" => Crossing!ClientKeepsUp
  /\ part = "dropping" => Dropping!ClientKeepsUp

(* Cursors move forward only; a record fetched under a form takes nothing  *)
(* that was typed; an instalment marked or undone, from however old a      *)
(* page, moves the amount shown (markRead, markDelivered; seeded; setPlan).*)
NothingIsTakenBack ==
  [][/\ part = "direct" => Direct!OnlyForward
     /\ part = "group" => Group!OnlyForward
     /\ part = "reading" => Reading!OnlyForward
     /\ part = "saving" => Saving!TypedStays
     /\ part = "paying" => Paying!PostsWhatItShows
     /\ part = "undoing" => Undoing!PostsWhatItShows
     /\ part = "drawing" => Drawing!PostsWhatItShows]_<<pages, sockets>>

(* Who is shown online is, and one session spans the time (isOnline,       *)
(* openSession, closeSession), handlers following one another.             *)
PresenceIsTrue ==
  /\ part = "sessions" => Sessions!PresenceIsTrue
  /\ part = "unswept" => Unswept!PresenceIsLive

(* Sweeps change no answer of the limit, and what a flooder gets through   *)
(* is bounded (SocketThrottle.check, sweep).                               *)
FloodIsBounded == part = "limits" => Limits!SweepIsInvisible /\ Limits!BurstIsBounded

Symmetry == Permutations(Reqs) \cup Permutations(Talkers)
=============================================================================
