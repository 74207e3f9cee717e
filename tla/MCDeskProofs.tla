---------------------------- MODULE MCDeskProofs ----------------------------
(***************************************************************************)
(* What the run Desk checks of conversations, presence and the rate limit, *)
(* for every value of MCDesk's constants.  A behaviour follows one part    *)
(* from its start, and a part is a behaviour of the module it instantiates;*)
(* each lemma ...Is says that MCDesk's instance of the module and that of  *)
(* DeskProofs are the same, each ...Holds brings the theorem over.         *)
(***************************************************************************)
EXTENDS MCDesk, TLAPS, FiniteSetTheorems

state == <<part, pages, sockets, chat>>

(* The part decides which side of the program steps.                       *)
LEMMA SocketsRun ==
  part \in {"direct", "reading", "group", "sessions", "unswept", "limits"} => ~PagesNext /\ ~ChatNext
BY DEF PagesNext, ChatNext

LEMMA ChatRun ==
  part \in {"meeting", "chatting", "crossing", "dropping"} => ~PagesNext /\ ~SocketsNext
BY DEF PagesNext, SocketsNext

(* The parts direct, meeting, sessions and limits.                         *)
One == INSTANCE DeskProofs WITH
  People <- Talkers, Kind <- "DM", Reqs <- Reqs, Ops <- {"create", "send", "crash"},
  MaxMessages <- CrossingMessages, MaxSends <- 1,
  ChatOps <- {}, MaxSaid <- FewSaid, MaxMoves <- MaxMoves, cached <- thread,
  Sockets <- Crowd, SocketOps <- {"crash", "telemetry"}, MaxRows <- CrowdRows, logged <- rows,
  Events <- {typing, read}, AppliesTo <- (typing :> {typing} @@ events :> {typing, read}),
  Limit <- (typing :> Typings @@ events :> Calls)

(* None and Asked are none of the values a variable holds, and the rates   *)
(* are those of a table.                                                   *)
NothingElse == One!Sound /\ One!ClientConstants /\ One!InTurn /\ One!LimitsConstants

LEMMA DirectIs ==
  /\ Direct!Init => One!Init
  /\ Direct!Next => One!Next
  /\ One!NobodyMissesAMessage => Direct!NobodyMissesAMessage
BY DEF
    Direct!Init, Direct!AtStart, Direct!Next, Direct!Step, Direct!Others, Direct!LookForThread,
    Direct!Named, Direct!Begin, Direct!Request, Direct!rows, Direct!thread, Direct!sockets,
    Direct!ReadForAdd, Direct!ReadForRemove, Direct!StartSend, Direct!Sending, Direct!At,
    Direct!StartRead, Direct!Seqs, Direct!Create, Direct!Announce, Direct!Finish, Direct!Add,
    Direct!ReadMembers, Direct!Announced, Direct!Remove, Direct!AdminsWithout, Direct!InsertMessage,
    Direct!CommitMessage, Direct!Sent, Direct!ReadRecipients, Direct!JoinRoom,
    Direct!MarkRecipients, Direct!Raised, Direct!DeliveredTo, Direct!Greatest, Direct!Read,
    Direct!ReadTo, Direct!Refuse, Direct!Socket, Direct!Connect, Direct!JoinOwnRoom,
    Direct!ReadConversations, Direct!EnterRooms, Direct!MarkAllDelivered, Direct!Waiting,
    Direct!Latest, Direct!Disconnect, Direct!MarkDelivered, Direct!Crash,
    Direct!NobodyMissesAMessage, Direct!NothingWaitsOnline, Direct!Quiet, Direct!MembersAreInRoom,
    Direct!ReadBehindDelivered, Direct!OwnIsRead, Direct!Cardinality, Direct!IsFiniteSet,
    Direct!Max, One!Init, One!AtStart, One!Next, One!Step, One!Others, One!LookForThread, One!Named,
    One!Begin, One!Request, One!rows, One!thread, One!sockets, One!ReadForAdd, One!ReadForRemove,
    One!StartSend, One!Sending, One!At, One!StartRead, One!Seqs, One!Create, One!Announce,
    One!Finish, One!Add, One!ReadMembers, One!Announced, One!Remove, One!AdminsWithout,
    One!InsertMessage, One!CommitMessage, One!Sent, One!ReadRecipients, One!JoinRoom,
    One!MarkRecipients, One!Raised, One!DeliveredTo, One!Greatest, One!Read, One!ReadTo, One!Refuse,
    One!Socket, One!Connect, One!JoinOwnRoom, One!ReadConversations, One!EnterRooms,
    One!MarkAllDelivered, One!Waiting, One!Latest, One!Disconnect, One!MarkDelivered, One!Crash,
    One!NobodyMissesAMessage, One!NothingWaitsOnline, One!Quiet, One!MembersAreInRoom,
    One!ReadBehindDelivered, One!OwnIsRead, One!Cardinality, One!IsFiniteSet, One!Max

LEMMA DirectHolds ==
  ASSUME NothingElse
  PROVE  Spec => [](part = "direct" => Direct!NobodyMissesAMessage)
<1>1. Init /\ part = "direct" => One!Init
  BY DirectIs DEF Init, PagesInit, SocketsInit, ChatInit
<1>2. [Next]_state =>
        /\ part = "direct" => (part = "direct")' /\ [One!Next]_(One!vars)
        /\ ~(part = "direct") => ~(part = "direct")'
  BY DirectIs, SocketsRun DEF Next, SocketsNext, state, sockets, talk, One!vars
<1>3. One!Spec => []One!NobodyMissesAMessage
  BY One!NobodyEverMissesAMessage, NothingElse, MessagesAreBounded, FS_Singleton DEF
  NothingElse, One!Sound, One!IsFiniteSet, IsFiniteSet, One!Steps, One!ConnSteps, One!Requests
<1>. QED
  BY <1>1, <1>2, <1>3, DirectIs, PTL DEF Spec, One!Spec, state

LEMMA MeetingIs ==
  /\ Meeting!Init => One!Client!Init
  /\ Meeting!Next => One!Client!Next
  /\ One!Client!ClientKeepsUp => Meeting!ClientKeepsUp
BY Zenon DEF
    Meeting!Init, Meeting!Next, Meeting!Create, Meeting!Told, Meeting!Event, Meeting!Commit,
    Meeting!Newest, Meeting!Composing, Meeting!ReadUpTo, Meeting!Greatest, Meeting!cache,
    Meeting!Dispatch, Meeting!Late, Meeting!DeliveredUpTo, Meeting!Receipt, Meeting!TheyRead,
    Meeting!Committed, Meeting!TheyMove, Meeting!TakeRead, Meeting!Hear, Meeting!Upserted,
    Meeting!Refreshed, Meeting!Shown, Meeting!TailOf, Meeting!Cleared, Meeting!Ticked,
    Meeting!server, Meeting!Select, Meeting!Leave, Meeting!AnswerThread, Meeting!ThreadArrives,
    Meeting!AnswerList, Meeting!Listed, Meeting!Unread, Meeting!ListArrives, Meeting!Arriving,
    Meeting!Drop, Meeting!Reconnect, Meeting!ClientKeepsUp, Meeting!OnceInThread,
    Meeting!TicksAreTrue, Meeting!Bubble, Meeting!tickState, Meeting!ThreadIsWhole, Meeting!AtRest,
    Meeting!BadgeIsTrue, Meeting!TicksAreCurrent, Meeting!PresenceIsCurrent, Meeting!Cardinality,
    Meeting!IsFiniteSet, Meeting!Range, Meeting!IsInjective, One!Client!Init, One!Client!Next,
    One!Client!Create, One!Client!Told, One!Client!Event, One!Client!Commit, One!Client!Newest,
    One!Client!Composing, One!Client!ReadUpTo, One!Client!Greatest, One!Client!cache,
    One!Client!Dispatch, One!Client!Late, One!Client!DeliveredUpTo, One!Client!Receipt,
    One!Client!TheyRead, One!Client!Committed, One!Client!TheyMove, One!Client!TakeRead,
    One!Client!Hear, One!Client!Upserted, One!Client!Refreshed, One!Client!Shown, One!Client!TailOf,
    One!Client!Cleared, One!Client!Ticked, One!Client!server, One!Client!Select, One!Client!Leave,
    One!Client!AnswerThread, One!Client!ThreadArrives, One!Client!AnswerList, One!Client!Listed,
    One!Client!Unread, One!Client!ListArrives, One!Client!Arriving, One!Client!Drop,
    One!Client!Reconnect, One!Client!ClientKeepsUp, One!Client!OnceInThread,
    One!Client!TicksAreTrue, One!Client!Bubble, One!Client!tickState, One!Client!ThreadIsWhole,
    One!Client!AtRest, One!Client!BadgeIsTrue, One!Client!TicksAreCurrent,
    One!Client!PresenceIsCurrent, One!Client!Cardinality, One!Client!IsFiniteSet, One!Client!Range,
    One!Client!IsInjective

LEMMA MeetingHolds ==
  ASSUME NothingElse
  PROVE  Spec => [](part = "meeting" => Meeting!ClientKeepsUp)
<1>1. Init /\ part = "meeting" => One!Client!Init
  BY MeetingIs DEF Init, PagesInit, SocketsInit, ChatInit
<1>2. [Next]_state =>
        /\ part = "meeting" => (part = "meeting")' /\ [One!Client!Next]_(One!Client!vars)
        /\ ~(part = "meeting") => ~(part = "meeting")'
  BY MeetingIs, ChatRun DEF Next, ChatNext, state, chat, One!Client!vars,
     One!Client!server, One!Client!cache
<1>3. One!Client!Spec => []One!Client!ClientKeepsUp
  BY One!ClientAlwaysKeepsUp, NothingElse, ChatIsBounded DEF NothingElse, One!ClientConstants,
  One!Chat, One!ClientCursor
<1>. QED
  BY <1>1, <1>2, <1>3, MeetingIs, PTL DEF Spec, One!Client!Spec, state

LEMMA SessionsIs ==
  /\ Sessions!Init => One!Gate!Init
  /\ Sessions!Next => One!Gate!Next
  /\ One!Gate!PresenceIsTrue => Sessions!PresenceIsTrue
BY DEF
    Sessions!Init, Sessions!AllIdle, Sessions!Idle, Sessions!Next, Sessions!Arrive, Sessions!AtWork,
    Sessions!MayOpen, Sessions!Moves, Sessions!memory, Sessions!TurnAway, Sessions!Done,
    Sessions!Handler, Sessions!Register, Sessions!OpensSession, Sessions!InsertSession,
    Sessions!RememberSession, Sessions!Remembered, Sessions!LoseSession, Sessions!TakeSession,
    Sessions!FindSession, Sessions!Found, Sessions!Open, Sessions!EndSession, Sessions!Leave,
    Sessions!MayClose, Sessions!Offline, Sessions!Crash, Sessions!Boot, Sessions!Swept,
    Sessions!BootWithoutSweep, Sessions!PresenceIsTrue, Sessions!PresenceIsLive, Sessions!Quiet,
    Sessions!SessionWhileOnline, Sessions!OneSessionAtATime, Sessions!Cardinality,
    Sessions!IsFiniteSet, Sessions!Max, One!Gate!Init, One!Gate!AllIdle, One!Gate!Idle,
    One!Gate!Next, One!Gate!Arrive, One!Gate!AtWork, One!Gate!MayOpen, One!Gate!Moves,
    One!Gate!memory, One!Gate!TurnAway, One!Gate!Done, One!Gate!Handler, One!Gate!Register,
    One!Gate!OpensSession, One!Gate!InsertSession, One!Gate!RememberSession, One!Gate!Remembered,
    One!Gate!LoseSession, One!Gate!TakeSession, One!Gate!FindSession, One!Gate!Found, One!Gate!Open,
    One!Gate!EndSession, One!Gate!Leave, One!Gate!MayClose, One!Gate!Offline, One!Gate!Crash,
    One!Gate!Boot, One!Gate!Swept, One!Gate!BootWithoutSweep, One!Gate!PresenceIsTrue,
    One!Gate!PresenceIsLive, One!Gate!Quiet, One!Gate!SessionWhileOnline,
    One!Gate!OneSessionAtATime, One!Gate!Cardinality, One!Gate!IsFiniteSet, One!Gate!Max

LEMMA SessionsHolds ==
  ASSUME NothingElse
  PROVE  Spec => [](part = "sessions" => Sessions!PresenceIsTrue)
<1>1. Init /\ part = "sessions" => One!Gate!Init
  BY SessionsIs DEF Init, PagesInit, SocketsInit, ChatInit
<1>2. [Next]_state =>
        /\ part = "sessions" => (part = "sessions")' /\ [One!Gate!Next]_(One!Gate!vars)
        /\ ~(part = "sessions") => ~(part = "sessions")'
  BY SessionsIs, SocketsRun DEF Next, SocketsNext, state, sockets, sessions, One!Gate!vars
<1>3. One!Gate!Spec => []One!Gate!PresenceIsTrue
  BY One!PresenceAlwaysTrue, NothingElse, SessionsAreBounded DEF NothingElse, One!InTurn,
  One!OpeningSteps, One!ClosingSteps
<1>. QED
  BY <1>1, <1>2, <1>3, SessionsIs, PTL DEF Spec, One!Gate!Spec, state

LEMMA LimitsIs ==
  /\ Limits!Init => One!Limits!Init
  /\ Limits!Next => One!Limits!Next
  /\ One!Limits!SweepIsInvisible => Limits!SweepIsInvisible
  /\ One!Limits!BurstIsBounded => Limits!BurstIsBounded
BY DEF
    Limits!Init, Limits!Names, Limits!Next, Limits!Tick, Limits!Older, Limits!Down, Limits!Check,
    Limits!After, Limits!ChargedBuckets, Limits!Applicable, Limits!Refusing, Limits!Refuses,
    Limits!Shut, Limits!Breach, Limits!Stale, Limits!Charged, Limits!Blocked, Limits!Fresh,
    Limits!Swept, Limits!Expired, Limits!Allowed, Limits!Passing, Limits!SweepIsInvisible,
    Limits!BurstIsBounded, Limits!Cardinality, Limits!IsFiniteSet, One!Limits!Init,
    One!Limits!Names, One!Limits!Next, One!Limits!Tick, One!Limits!Older, One!Limits!Down,
    One!Limits!Check, One!Limits!After, One!Limits!ChargedBuckets, One!Limits!Applicable,
    One!Limits!Refusing, One!Limits!Refuses, One!Limits!Shut, One!Limits!Breach, One!Limits!Stale,
    One!Limits!Charged, One!Limits!Blocked, One!Limits!Fresh, One!Limits!Swept, One!Limits!Expired,
    One!Limits!Allowed, One!Limits!Passing, One!Limits!SweepIsInvisible, One!Limits!BurstIsBounded,
    One!Limits!Cardinality, One!Limits!IsFiniteSet

LEMMA LimitsHolds ==
  ASSUME NothingElse
  PROVE  Spec => [](part = "limits" => Limits!SweepIsInvisible
                    /\ Limits!BurstIsBounded)
<1>1. Init /\ part = "limits" => One!Limits!Init
  BY LimitsIs DEF Init, PagesInit, SocketsInit, ChatInit
<1>2. [Next]_state =>
        /\ part = "limits" => (part = "limits")' /\ [One!Limits!Next]_(One!Limits!vars)
        /\ ~(part = "limits") => ~(part = "limits")'
  BY LimitsIs, SocketsRun DEF Next, SocketsNext, state, sockets, limits, One!Limits!vars
<1>3. One!Limits!Spec => []One!Limits!SweepIsInvisible
  BY One!SweepIsNeverSeen, NothingElse DEF NothingElse
<1>4. One!Limits!Spec => []One!Limits!BurstIsBounded
  BY One!BurstIsAlwaysBounded, NothingElse DEF NothingElse
<1>. QED
  BY <1>1, <1>2, <1>3, <1>4, LimitsIs, PTL DEF Spec, One!Limits!Spec, state

(* The parts reading, chatting and unswept.                                *)
Two == INSTANCE DeskProofs WITH
  People <- Talkers, Kind <- "DM", Reqs <- {r1}, Ops <- {"create", "send", "read"},
  MaxMessages <- ReadMessages, MaxSends <- 1,
  ChatOps <- {}, MaxSaid <- MaxSaid, MaxMoves <- 0, cached <- thread,
  Sockets <- Pair, SocketOps <- {"crash", "nosweep"}, MaxRows <- PairRows, logged <- rows,
  Events <- {typing, read}, AppliesTo <- (typing :> {typing} @@ events :> {typing, read}),
  Limit <- (typing :> Typings @@ events :> Calls)

LEMMA ReadingIs ==
  /\ Reading!Init => Two!Init
  /\ Reading!Next => Two!Next
  /\ Two!NobodyMissesAMessage => Reading!NobodyMissesAMessage
<1>1. Reading!Init => Two!Init
  BY Zenon DEF
    Reading!Init, Reading!AtStart, Two!Init, Two!AtStart
<1>2. Two!NobodyMissesAMessage => Reading!NobodyMissesAMessage
  BY Zenon DEF
    Reading!NobodyMissesAMessage, Reading!NothingWaitsOnline, Reading!Quiet,
    Reading!MembersAreInRoom, Reading!ReadBehindDelivered, Reading!OwnIsRead,
    Two!NobodyMissesAMessage, Two!NothingWaitsOnline, Two!Quiet, Two!MembersAreInRoom,
    Two!ReadBehindDelivered, Two!OwnIsRead
<1>3. ASSUME NEW r, NEW by, NEW ps, NEW p, NEW seq
      PROVE  /\ Reading!LookForThread(r, by, ps) => Two!LookForThread(r, by, ps)
             /\ Reading!ReadForAdd(r, by, p) => Two!ReadForAdd(r, by, p)
             /\ Reading!ReadForRemove(r, by, p) => Two!ReadForRemove(r, by, p)
             /\ Reading!StartSend(r, by) => Two!StartSend(r, by)
             /\ Reading!StartRead(r, by, seq) => Two!StartRead(r, by, seq)
             /\ Reading!Create(r) => Two!Create(r)
             /\ Reading!Announce(r) => Two!Announce(r)
             /\ Reading!Add(r) => Two!Add(r)
  BY Zenon DEF
    Reading!LookForThread, Reading!Named, Reading!Begin, Reading!Request, Reading!rows,
    Reading!thread, Reading!sockets, Reading!ReadForAdd, Reading!ReadForRemove, Reading!StartSend,
    Reading!Sending, Reading!At, Reading!StartRead, Reading!Seqs, Reading!Create, Reading!Announce,
    Reading!Finish, Reading!Add, Reading!Cardinality, Reading!IsFiniteSet, Two!LookForThread,
    Two!Named, Two!Begin, Two!Request, Two!rows, Two!thread, Two!sockets, Two!ReadForAdd,
    Two!ReadForRemove, Two!StartSend, Two!Sending, Two!At, Two!StartRead, Two!Seqs, Two!Create,
    Two!Announce, Two!Finish, Two!Add, Two!Cardinality, Two!IsFiniteSet
<1>4. ASSUME NEW r
      PROVE  /\ Reading!ReadMembers(r) => Two!ReadMembers(r)
             /\ Reading!Remove(r) => Two!Remove(r)
             /\ Reading!InsertMessage(r) => Two!InsertMessage(r)
             /\ Reading!CommitMessage(r) => Two!CommitMessage(r)
             /\ Reading!ReadRecipients(r) => Two!ReadRecipients(r)
             /\ Reading!JoinRoom(r) => Two!JoinRoom(r)
             /\ Reading!MarkRecipients(r) => Two!MarkRecipients(r)
             /\ Reading!Read(r) => Two!Read(r)
             /\ Reading!Refuse(r) => Two!Refuse(r)
  BY Zenon DEF
    Reading!ReadMembers, Reading!At, Reading!Begin, Reading!Announced, Reading!rows, Reading!thread,
    Reading!sockets, Reading!Remove, Reading!AdminsWithout, Reading!AtStart, Reading!InsertMessage,
    Reading!CommitMessage, Reading!Sent, Reading!ReadRecipients, Reading!JoinRoom,
    Reading!MarkRecipients, Reading!Raised, Reading!DeliveredTo, Reading!Greatest, Reading!Finish,
    Reading!Read, Reading!ReadTo, Reading!Refuse, Reading!Max, Two!ReadMembers, Two!At, Two!Begin,
    Two!Announced, Two!rows, Two!thread, Two!sockets, Two!Remove, Two!AdminsWithout, Two!AtStart,
    Two!InsertMessage, Two!CommitMessage, Two!Sent, Two!ReadRecipients, Two!JoinRoom,
    Two!MarkRecipients, Two!Raised, Two!DeliveredTo, Two!Greatest, Two!Finish, Two!Read, Two!ReadTo,
    Two!Refuse, Two!Max
<1>5. ASSUME NEW p, NEW seq
      PROVE  /\ Reading!Connect(p) => Two!Connect(p)
             /\ Reading!JoinOwnRoom(p) => Two!JoinOwnRoom(p)
             /\ Reading!ReadConversations(p) => Two!ReadConversations(p)
             /\ Reading!EnterRooms(p) => Two!EnterRooms(p)
             /\ Reading!MarkAllDelivered(p) => Two!MarkAllDelivered(p)
             /\ Reading!Disconnect(p) => Two!Disconnect(p)
             /\ Reading!MarkDelivered(p, seq) => Two!MarkDelivered(p, seq)
             /\ Reading!Crash => Two!Crash
  BY Zenon DEF
    Reading!Connect, Reading!rows, Reading!thread, Reading!JoinOwnRoom, Reading!ReadConversations,
    Reading!EnterRooms, Reading!MarkAllDelivered, Reading!Raised, Reading!DeliveredTo,
    Reading!Greatest, Reading!Waiting, Reading!Latest, Reading!Seqs, Reading!Disconnect,
    Reading!MarkDelivered, Reading!sockets, Reading!Crash, Reading!Max, Two!Connect, Two!rows,
    Two!thread, Two!JoinOwnRoom, Two!ReadConversations, Two!EnterRooms, Two!MarkAllDelivered,
    Two!Raised, Two!DeliveredTo, Two!Greatest, Two!Waiting, Two!Latest, Two!Seqs, Two!Disconnect,
    Two!MarkDelivered, Two!sockets, Two!Crash, Two!Max
<1>6. ASSUME NEW r PROVE Reading!Step(r) => Two!Step(r)
  BY Zenon, <1>3, <1>4, <1>5 DEF Reading!Step, Reading!Others, Two!Step, Two!Others
<1>7. ASSUME NEW p PROVE Reading!Socket(p) => Two!Socket(p)
  BY Zenon, <1>3, <1>4, <1>5 DEF Reading!Socket, Two!Socket
<1>8. Reading!Next => Two!Next
  BY Zenon, <1>5, <1>6, <1>7 DEF Reading!Next, Two!Next
<1>. QED
  BY <1>1, <1>2, <1>8

LEMMA ReadingHolds ==
  ASSUME NothingElse
  PROVE  Spec => [](part = "reading" => Reading!NobodyMissesAMessage)
<1>1. Init /\ part = "reading" => Two!Init
  BY ReadingIs DEF Init, PagesInit, SocketsInit, ChatInit
<1>2. [Next]_state =>
        /\ part = "reading" => (part = "reading")' /\ [Two!Next]_(Two!vars)
        /\ ~(part = "reading") => ~(part = "reading")'
  BY ReadingIs, SocketsRun DEF Next, SocketsNext, state, sockets, talk, Two!vars
<1>3. Two!Spec => []Two!NobodyMissesAMessage
  BY Two!NobodyEverMissesAMessage, NothingElse, MessagesAreBounded, FS_Singleton DEF
  NothingElse, Two!Sound, Two!IsFiniteSet, IsFiniteSet, Two!Steps, Two!ConnSteps, Two!Requests,
  One!Sound, One!Steps, One!ConnSteps, One!Requests
<1>. QED
  BY <1>1, <1>2, <1>3, ReadingIs, PTL DEF Spec, Two!Spec, state

LEMMA ChattingIs ==
  /\ Chatting!Init => Two!Client!Init
  /\ Chatting!Next => Two!Client!Next
  /\ Two!Client!ClientKeepsUp => Chatting!ClientKeepsUp
<1>1. Chatting!Init => Two!Client!Init
  BY Zenon DEF
    Chatting!Init, Two!Client!Init
<1>2. Two!Client!ClientKeepsUp => Chatting!ClientKeepsUp
  BY Zenon DEF
    Chatting!ClientKeepsUp, Chatting!OnceInThread, Chatting!TicksAreTrue, Chatting!Committed,
    Chatting!Bubble, Chatting!tickState, Chatting!ThreadIsWhole, Chatting!AtRest,
    Chatting!BadgeIsTrue, Chatting!Unread, Chatting!TicksAreCurrent, Chatting!PresenceIsCurrent,
    Chatting!Cardinality, Chatting!IsFiniteSet, Chatting!Range, Chatting!IsInjective,
    Two!Client!ClientKeepsUp, Two!Client!OnceInThread, Two!Client!TicksAreTrue,
    Two!Client!Committed, Two!Client!Bubble, Two!Client!tickState, Two!Client!ThreadIsWhole,
    Two!Client!AtRest, Two!Client!BadgeIsTrue, Two!Client!Unread, Two!Client!TicksAreCurrent,
    Two!Client!PresenceIsCurrent, Two!Client!Cardinality, Two!Client!IsFiniteSet, Two!Client!Range,
    Two!Client!IsInjective
<1>3. ASSUME NEW by, NEW n
      PROVE  /\ Chatting!Create(by) => Two!Client!Create(by)
             /\ Chatting!Commit(by) => Two!Client!Commit(by)
             /\ Chatting!Dispatch(n) => Two!Client!Dispatch(n)
             /\ Chatting!TheyRead(n) => Two!Client!TheyRead(n)
  BY Zenon DEF
    Chatting!Create, Chatting!Told, Chatting!Event, Chatting!Commit, Chatting!Newest,
    Chatting!Composing, Chatting!ReadUpTo, Chatting!Greatest, Chatting!cache, Chatting!Dispatch,
    Chatting!Late, Chatting!DeliveredUpTo, Chatting!Receipt, Chatting!TheyRead, Chatting!Committed,
    Two!Client!Create, Two!Client!Told, Two!Client!Event, Two!Client!Commit, Two!Client!Newest,
    Two!Client!Composing, Two!Client!ReadUpTo, Two!Client!Greatest, Two!Client!cache,
    Two!Client!Dispatch, Two!Client!Late, Two!Client!DeliveredUpTo, Two!Client!Receipt,
    Two!Client!TheyRead, Two!Client!Committed
<1>4. /\ Chatting!TheyMove => Two!Client!TheyMove
      /\ Chatting!TakeRead => Two!Client!TakeRead
      /\ Chatting!Hear => Two!Client!Hear
      /\ Chatting!Select => Two!Client!Select
      /\ Chatting!Leave => Two!Client!Leave
  BY Zenon DEF
    Chatting!TheyMove, Chatting!DeliveredUpTo, Chatting!Greatest, Chatting!Newest, Chatting!Told,
    Chatting!Receipt, Chatting!Event, Chatting!cache, Chatting!TakeRead, Chatting!Hear,
    Chatting!Upserted, Chatting!Refreshed, Chatting!Shown, Chatting!TailOf, Chatting!Cleared,
    Chatting!Ticked, Chatting!server, Chatting!Select, Chatting!Leave, Chatting!Range,
    Two!Client!TheyMove, Two!Client!DeliveredUpTo, Two!Client!Greatest, Two!Client!Newest,
    Two!Client!Told, Two!Client!Receipt, Two!Client!Event, Two!Client!cache, Two!Client!TakeRead,
    Two!Client!Hear, Two!Client!Upserted, Two!Client!Refreshed, Two!Client!Shown, Two!Client!TailOf,
    Two!Client!Cleared, Two!Client!Ticked, Two!Client!server, Two!Client!Select, Two!Client!Leave,
    Two!Client!Range
<1>5. /\ Chatting!AnswerThread => Two!Client!AnswerThread
      /\ Chatting!ThreadArrives => Two!Client!ThreadArrives
      /\ Chatting!AnswerList => Two!Client!AnswerList
      /\ Chatting!ListArrives => Two!Client!ListArrives
      /\ Chatting!Drop => Two!Client!Drop
      /\ Chatting!Reconnect => Two!Client!Reconnect
  BY Zenon DEF
    Chatting!AnswerThread, Chatting!Newest, Chatting!server, Chatting!ThreadArrives, Chatting!Shown,
    Chatting!TailOf, Chatting!Greatest, Chatting!Cleared, Chatting!AnswerList, Chatting!Listed,
    Chatting!Unread, Chatting!Committed, Chatting!ListArrives, Chatting!Arriving, Chatting!Drop,
    Chatting!cache, Chatting!Reconnect, Chatting!Cardinality, Chatting!IsFiniteSet,
    Two!Client!AnswerThread, Two!Client!Newest, Two!Client!server, Two!Client!ThreadArrives,
    Two!Client!Shown, Two!Client!TailOf, Two!Client!Greatest, Two!Client!Cleared,
    Two!Client!AnswerList, Two!Client!Listed, Two!Client!Unread, Two!Client!Committed,
    Two!Client!ListArrives, Two!Client!Arriving, Two!Client!Drop, Two!Client!cache,
    Two!Client!Reconnect, Two!Client!Cardinality, Two!Client!IsFiniteSet
<1>6. Chatting!Next => Two!Client!Next
  BY Zenon, <1>3, <1>4, <1>5 DEF Chatting!Next, Two!Client!Next
<1>. QED
  BY <1>1, <1>2, <1>6

LEMMA ChattingHolds ==
  ASSUME NothingElse
  PROVE  Spec => [](part = "chatting" => Chatting!ClientKeepsUp)
<1>1. Init /\ part = "chatting" => Two!Client!Init
  BY ChattingIs DEF Init, PagesInit, SocketsInit, ChatInit
<1>2. [Next]_state =>
        /\ part = "chatting" => (part = "chatting")' /\ [Two!Client!Next]_(Two!Client!vars)
        /\ ~(part = "chatting") => ~(part = "chatting")'
  BY ChattingIs, ChatRun DEF Next, ChatNext, state, chat, Two!Client!vars,
     Two!Client!server, Two!Client!cache
<1>3. Two!Client!Spec => []Two!Client!ClientKeepsUp
  BY Two!ClientAlwaysKeepsUp, NothingElse, ChatIsBounded DEF NothingElse, Two!ClientConstants,
  Two!Chat, Two!ClientCursor, One!ClientConstants, One!Chat, One!ClientCursor
<1>. QED
  BY <1>1, <1>2, <1>3, ChattingIs, PTL DEF Spec, Two!Client!Spec, state

LEMMA UnsweptIs ==
  /\ Unswept!Init => Two!Gate!Init
  /\ Unswept!Next => Two!Gate!Next
  /\ Two!Gate!PresenceIsLive => Unswept!PresenceIsLive
BY DEF
    Unswept!Init, Unswept!AllIdle, Unswept!Idle, Unswept!Next, Unswept!Arrive, Unswept!AtWork,
    Unswept!MayOpen, Unswept!Moves, Unswept!memory, Unswept!TurnAway, Unswept!Done, Unswept!Handler,
    Unswept!Register, Unswept!OpensSession, Unswept!InsertSession, Unswept!RememberSession,
    Unswept!Remembered, Unswept!LoseSession, Unswept!TakeSession, Unswept!FindSession,
    Unswept!Found, Unswept!Open, Unswept!EndSession, Unswept!Leave, Unswept!MayClose,
    Unswept!Offline, Unswept!Crash, Unswept!Boot, Unswept!Swept, Unswept!BootWithoutSweep,
    Unswept!PresenceIsLive, Unswept!Quiet, Unswept!Max, Two!Gate!Init, Two!Gate!AllIdle,
    Two!Gate!Idle, Two!Gate!Next, Two!Gate!Arrive, Two!Gate!AtWork, Two!Gate!MayOpen,
    Two!Gate!Moves, Two!Gate!memory, Two!Gate!TurnAway, Two!Gate!Done, Two!Gate!Handler,
    Two!Gate!Register, Two!Gate!OpensSession, Two!Gate!InsertSession, Two!Gate!RememberSession,
    Two!Gate!Remembered, Two!Gate!LoseSession, Two!Gate!TakeSession, Two!Gate!FindSession,
    Two!Gate!Found, Two!Gate!Open, Two!Gate!EndSession, Two!Gate!Leave, Two!Gate!MayClose,
    Two!Gate!Offline, Two!Gate!Crash, Two!Gate!Boot, Two!Gate!Swept, Two!Gate!BootWithoutSweep,
    Two!Gate!PresenceIsLive, Two!Gate!Quiet, Two!Gate!Max

LEMMA UnsweptHolds ==
  ASSUME NothingElse
  PROVE  Spec => [](part = "unswept" => Unswept!PresenceIsLive)
<1>1. Init /\ part = "unswept" => Two!Gate!Init
  BY UnsweptIs DEF Init, PagesInit, SocketsInit, ChatInit
<1>2. [Next]_state =>
        /\ part = "unswept" => (part = "unswept")' /\ [Two!Gate!Next]_(Two!Gate!vars)
        /\ ~(part = "unswept") => ~(part = "unswept")'
  BY UnsweptIs, SocketsRun DEF Next, SocketsNext, state, sockets, sessions, Two!Gate!vars
<1>3. Two!Gate!Spec => []Two!Gate!PresenceIsLive
  BY Two!PresenceAlwaysLive, NothingElse, SessionsAreBounded DEF NothingElse, Two!InTurn,
  Two!OpeningSteps, Two!ClosingSteps, One!InTurn, One!OpeningSteps, One!ClosingSteps
<1>. QED
  BY <1>1, <1>2, <1>3, UnsweptIs, PTL DEF Spec, Two!Gate!Spec, state

(* The parts group and crossing.                                           *)
Three == INSTANCE DeskProofs WITH
  People <- Talkers, Kind <- "GROUP", Reqs <- Reqs, Ops <- {"create", "add", "remove", "send"},
  MaxMessages <- GroupMessages, MaxSends <- 1,
  ChatOps <- {"late"}, MaxSaid <- MaxSaid, MaxMoves <- 0, cached <- thread,
  Sockets <- Pair, SocketOps <- {"crash", "nosweep"}, MaxRows <- PairRows, logged <- rows,
  Events <- {typing, read}, AppliesTo <- (typing :> {typing} @@ events :> {typing, read}),
  Limit <- (typing :> Typings @@ events :> Calls)

LEMMA GroupIs ==
  /\ Group!Init => Three!Init
  /\ Group!Next => Three!Next
  /\ Three!NobodyMissesAMessage => Group!NobodyMissesAMessage
<1>1. Group!Init => Three!Init
  BY Zenon DEF
    Group!Init, Group!AtStart, Three!Init, Three!AtStart
<1>2. Three!NobodyMissesAMessage => Group!NobodyMissesAMessage
  BY Zenon DEF
    Group!NobodyMissesAMessage, Group!NothingWaitsOnline, Group!Quiet, Group!MembersAreInRoom,
    Group!ReadBehindDelivered, Group!OwnIsRead, Three!NobodyMissesAMessage,
    Three!NothingWaitsOnline, Three!Quiet, Three!MembersAreInRoom, Three!ReadBehindDelivered,
    Three!OwnIsRead
<1>3. ASSUME NEW r, NEW by, NEW ps, NEW p, NEW seq
      PROVE  /\ Group!LookForThread(r, by, ps) => Three!LookForThread(r, by, ps)
             /\ Group!ReadForAdd(r, by, p) => Three!ReadForAdd(r, by, p)
             /\ Group!ReadForRemove(r, by, p) => Three!ReadForRemove(r, by, p)
             /\ Group!StartSend(r, by) => Three!StartSend(r, by)
             /\ Group!StartRead(r, by, seq) => Three!StartRead(r, by, seq)
             /\ Group!Create(r) => Three!Create(r)
             /\ Group!Announce(r) => Three!Announce(r)
             /\ Group!Add(r) => Three!Add(r)
  BY Zenon DEF
    Group!LookForThread, Group!Named, Group!Begin, Group!Request, Group!rows, Group!thread,
    Group!sockets, Group!ReadForAdd, Group!ReadForRemove, Group!StartSend, Group!Sending, Group!At,
    Group!StartRead, Group!Seqs, Group!Create, Group!Announce, Group!Finish, Group!Add,
    Group!Cardinality, Group!IsFiniteSet, Three!LookForThread, Three!Named, Three!Begin,
    Three!Request, Three!rows, Three!thread, Three!sockets, Three!ReadForAdd, Three!ReadForRemove,
    Three!StartSend, Three!Sending, Three!At, Three!StartRead, Three!Seqs, Three!Create,
    Three!Announce, Three!Finish, Three!Add, Three!Cardinality, Three!IsFiniteSet
<1>4. ASSUME NEW r
      PROVE  /\ Group!ReadMembers(r) => Three!ReadMembers(r)
             /\ Group!Remove(r) => Three!Remove(r)
             /\ Group!InsertMessage(r) => Three!InsertMessage(r)
             /\ Group!CommitMessage(r) => Three!CommitMessage(r)
             /\ Group!ReadRecipients(r) => Three!ReadRecipients(r)
             /\ Group!JoinRoom(r) => Three!JoinRoom(r)
             /\ Group!MarkRecipients(r) => Three!MarkRecipients(r)
             /\ Group!Read(r) => Three!Read(r)
             /\ Group!Refuse(r) => Three!Refuse(r)
  BY Zenon DEF
    Group!ReadMembers, Group!At, Group!Begin, Group!Announced, Group!rows, Group!thread,
    Group!sockets, Group!Remove, Group!AdminsWithout, Group!AtStart, Group!InsertMessage,
    Group!CommitMessage, Group!Sent, Group!ReadRecipients, Group!JoinRoom, Group!MarkRecipients,
    Group!Raised, Group!DeliveredTo, Group!Greatest, Group!Finish, Group!Read, Group!ReadTo,
    Group!Refuse, Group!Max, Three!ReadMembers, Three!At, Three!Begin, Three!Announced, Three!rows,
    Three!thread, Three!sockets, Three!Remove, Three!AdminsWithout, Three!AtStart,
    Three!InsertMessage, Three!CommitMessage, Three!Sent, Three!ReadRecipients, Three!JoinRoom,
    Three!MarkRecipients, Three!Raised, Three!DeliveredTo, Three!Greatest, Three!Finish, Three!Read,
    Three!ReadTo, Three!Refuse, Three!Max
<1>5. ASSUME NEW p, NEW seq
      PROVE  /\ Group!Connect(p) => Three!Connect(p)
             /\ Group!JoinOwnRoom(p) => Three!JoinOwnRoom(p)
             /\ Group!ReadConversations(p) => Three!ReadConversations(p)
             /\ Group!EnterRooms(p) => Three!EnterRooms(p)
             /\ Group!MarkAllDelivered(p) => Three!MarkAllDelivered(p)
             /\ Group!Disconnect(p) => Three!Disconnect(p)
             /\ Group!MarkDelivered(p, seq) => Three!MarkDelivered(p, seq)
             /\ Group!Crash => Three!Crash
  BY Zenon DEF
    Group!Connect, Group!rows, Group!thread, Group!JoinOwnRoom, Group!ReadConversations,
    Group!EnterRooms, Group!MarkAllDelivered, Group!Raised, Group!DeliveredTo, Group!Greatest,
    Group!Waiting, Group!Latest, Group!Seqs, Group!Disconnect, Group!MarkDelivered, Group!sockets,
    Group!Crash, Group!Max, Three!Connect, Three!rows, Three!thread, Three!JoinOwnRoom,
    Three!ReadConversations, Three!EnterRooms, Three!MarkAllDelivered, Three!Raised,
    Three!DeliveredTo, Three!Greatest, Three!Waiting, Three!Latest, Three!Seqs, Three!Disconnect,
    Three!MarkDelivered, Three!sockets, Three!Crash, Three!Max
<1>6. ASSUME NEW r PROVE Group!Step(r) => Three!Step(r)
  BY Zenon, <1>3, <1>4, <1>5 DEF Group!Step, Group!Others, Three!Step, Three!Others
<1>7. ASSUME NEW p PROVE Group!Socket(p) => Three!Socket(p)
  BY Zenon, <1>3, <1>4, <1>5 DEF Group!Socket, Three!Socket
<1>8. Group!Next => Three!Next
  BY Zenon, <1>5, <1>6, <1>7 DEF Group!Next, Three!Next
<1>. QED
  BY <1>1, <1>2, <1>8

LEMMA GroupHolds ==
  ASSUME NothingElse
  PROVE  Spec => [](part = "group" => Group!NobodyMissesAMessage)
<1>1. Init /\ part = "group" => Three!Init
  BY GroupIs DEF Init, PagesInit, SocketsInit, ChatInit
<1>2. [Next]_state =>
        /\ part = "group" => (part = "group")' /\ [Three!Next]_(Three!vars)
        /\ ~(part = "group") => ~(part = "group")'
  BY GroupIs, SocketsRun DEF Next, SocketsNext, state, sockets, talk, Three!vars
<1>3. Three!Spec => []Three!NobodyMissesAMessage
  BY Three!NobodyEverMissesAMessage, NothingElse, MessagesAreBounded, FS_Singleton DEF
  NothingElse, Three!Sound, Three!IsFiniteSet, IsFiniteSet, Three!Steps, Three!ConnSteps,
  Three!Requests, One!Sound, One!Steps, One!ConnSteps, One!Requests
<1>. QED
  BY <1>1, <1>2, <1>3, GroupIs, PTL DEF Spec, Three!Spec, state

LEMMA CrossingIs ==
  /\ Crossing!Init => Three!Client!Init
  /\ Crossing!Next => Three!Client!Next
  /\ Three!Client!ClientKeepsUp => Crossing!ClientKeepsUp
<1>1. Crossing!Init => Three!Client!Init
  BY Zenon DEF
    Crossing!Init, Three!Client!Init
<1>2. Three!Client!ClientKeepsUp => Crossing!ClientKeepsUp
  BY Zenon DEF
    Crossing!ClientKeepsUp, Crossing!OnceInThread, Crossing!TicksAreTrue, Crossing!Committed,
    Crossing!Bubble, Crossing!tickState, Crossing!ThreadIsWhole, Crossing!AtRest,
    Crossing!BadgeIsTrue, Crossing!Unread, Crossing!TicksAreCurrent, Crossing!PresenceIsCurrent,
    Crossing!Cardinality, Crossing!IsFiniteSet, Crossing!Range, Crossing!IsInjective,
    Three!Client!ClientKeepsUp, Three!Client!OnceInThread, Three!Client!TicksAreTrue,
    Three!Client!Committed, Three!Client!Bubble, Three!Client!tickState, Three!Client!ThreadIsWhole,
    Three!Client!AtRest, Three!Client!BadgeIsTrue, Three!Client!Unread,
    Three!Client!TicksAreCurrent, Three!Client!PresenceIsCurrent, Three!Client!Cardinality,
    Three!Client!IsFiniteSet, Three!Client!Range, Three!Client!IsInjective
<1>3. ASSUME NEW by, NEW n
      PROVE  /\ Crossing!Create(by) => Three!Client!Create(by)
             /\ Crossing!Commit(by) => Three!Client!Commit(by)
             /\ Crossing!Dispatch(n) => Three!Client!Dispatch(n)
             /\ Crossing!TheyRead(n) => Three!Client!TheyRead(n)
  BY Zenon DEF
    Crossing!Create, Crossing!Told, Crossing!Event, Crossing!Commit, Crossing!Newest,
    Crossing!Composing, Crossing!ReadUpTo, Crossing!Greatest, Crossing!cache, Crossing!Dispatch,
    Crossing!Late, Crossing!DeliveredUpTo, Crossing!Receipt, Crossing!TheyRead, Crossing!Committed,
    Three!Client!Create, Three!Client!Told, Three!Client!Event, Three!Client!Commit,
    Three!Client!Newest, Three!Client!Composing, Three!Client!ReadUpTo, Three!Client!Greatest,
    Three!Client!cache, Three!Client!Dispatch, Three!Client!Late, Three!Client!DeliveredUpTo,
    Three!Client!Receipt, Three!Client!TheyRead, Three!Client!Committed
<1>4. /\ Crossing!TheyMove => Three!Client!TheyMove
      /\ Crossing!TakeRead => Three!Client!TakeRead
      /\ Crossing!Hear => Three!Client!Hear
      /\ Crossing!Select => Three!Client!Select
      /\ Crossing!Leave => Three!Client!Leave
  BY Zenon DEF
    Crossing!TheyMove, Crossing!DeliveredUpTo, Crossing!Greatest, Crossing!Newest, Crossing!Told,
    Crossing!Receipt, Crossing!Event, Crossing!cache, Crossing!TakeRead, Crossing!Hear,
    Crossing!Upserted, Crossing!Refreshed, Crossing!Shown, Crossing!TailOf, Crossing!Cleared,
    Crossing!Ticked, Crossing!server, Crossing!Select, Crossing!Leave, Crossing!Range,
    Three!Client!TheyMove, Three!Client!DeliveredUpTo, Three!Client!Greatest, Three!Client!Newest,
    Three!Client!Told, Three!Client!Receipt, Three!Client!Event, Three!Client!cache,
    Three!Client!TakeRead, Three!Client!Hear, Three!Client!Upserted, Three!Client!Refreshed,
    Three!Client!Shown, Three!Client!TailOf, Three!Client!Cleared, Three!Client!Ticked,
    Three!Client!server, Three!Client!Select, Three!Client!Leave, Three!Client!Range
<1>5. /\ Crossing!AnswerThread => Three!Client!AnswerThread
      /\ Crossing!ThreadArrives => Three!Client!ThreadArrives
      /\ Crossing!AnswerList => Three!Client!AnswerList
      /\ Crossing!ListArrives => Three!Client!ListArrives
      /\ Crossing!Drop => Three!Client!Drop
      /\ Crossing!Reconnect => Three!Client!Reconnect
  BY Zenon DEF
    Crossing!AnswerThread, Crossing!Newest, Crossing!server, Crossing!ThreadArrives, Crossing!Shown,
    Crossing!TailOf, Crossing!Greatest, Crossing!Cleared, Crossing!AnswerList, Crossing!Listed,
    Crossing!Unread, Crossing!Committed, Crossing!ListArrives, Crossing!Arriving, Crossing!Drop,
    Crossing!cache, Crossing!Reconnect, Crossing!Cardinality, Crossing!IsFiniteSet,
    Three!Client!AnswerThread, Three!Client!Newest, Three!Client!server, Three!Client!ThreadArrives,
    Three!Client!Shown, Three!Client!TailOf, Three!Client!Greatest, Three!Client!Cleared,
    Three!Client!AnswerList, Three!Client!Listed, Three!Client!Unread, Three!Client!Committed,
    Three!Client!ListArrives, Three!Client!Arriving, Three!Client!Drop, Three!Client!cache,
    Three!Client!Reconnect, Three!Client!Cardinality, Three!Client!IsFiniteSet
<1>6. Crossing!Next => Three!Client!Next
  BY Zenon, <1>3, <1>4, <1>5 DEF Crossing!Next, Three!Client!Next
<1>. QED
  BY <1>1, <1>2, <1>6

LEMMA CrossingHolds ==
  ASSUME NothingElse
  PROVE  Spec => [](part = "crossing" => Crossing!ClientKeepsUp)
<1>1. Init /\ part = "crossing" => Three!Client!Init
  BY CrossingIs DEF Init, PagesInit, SocketsInit, ChatInit
<1>2. [Next]_state =>
        /\ part = "crossing" => (part = "crossing")' /\ [Three!Client!Next]_(Three!Client!vars)
        /\ ~(part = "crossing") => ~(part = "crossing")'
  BY CrossingIs, ChatRun DEF Next, ChatNext, state, chat, Three!Client!vars,
     Three!Client!server, Three!Client!cache
<1>3. Three!Client!Spec => []Three!Client!ClientKeepsUp
  BY Three!ClientAlwaysKeepsUp, NothingElse, ChatIsBounded DEF NothingElse,
  Three!ClientConstants, Three!Chat, Three!ClientCursor, One!ClientConstants, One!Chat,
  One!ClientCursor
<1>. QED
  BY <1>1, <1>2, <1>3, CrossingIs, PTL DEF Spec, Three!Client!Spec, state

(* The part dropping.                                                      *)
Four == INSTANCE DeskProofs WITH
  People <- Talkers, Kind <- "GROUP", Reqs <- Reqs, Ops <- {"create", "add", "remove", "send"},
  MaxMessages <- GroupMessages, MaxSends <- 1,
  ChatOps <- {"race", "drop"}, MaxSaid <- FewSaid, MaxMoves <- FewMoves, cached <- thread,
  Sockets <- Pair, SocketOps <- {"crash", "nosweep"}, MaxRows <- PairRows, logged <- rows,
  Events <- {typing, read}, AppliesTo <- (typing :> {typing} @@ events :> {typing, read}),
  Limit <- (typing :> Typings @@ events :> Calls)

LEMMA DroppingIs ==
  /\ Dropping!Init => Four!Client!Init
  /\ Dropping!Next => Four!Client!Next
  /\ Four!Client!ClientKeepsUp => Dropping!ClientKeepsUp
<1>1. Dropping!Init => Four!Client!Init
  BY Zenon DEF
    Dropping!Init, Four!Client!Init
<1>2. Four!Client!ClientKeepsUp => Dropping!ClientKeepsUp
  BY Zenon DEF
    Dropping!ClientKeepsUp, Dropping!OnceInThread, Dropping!TicksAreTrue, Dropping!Committed,
    Dropping!Bubble, Dropping!tickState, Dropping!ThreadIsWhole, Dropping!AtRest,
    Dropping!BadgeIsTrue, Dropping!Unread, Dropping!TicksAreCurrent, Dropping!PresenceIsCurrent,
    Dropping!Cardinality, Dropping!IsFiniteSet, Dropping!Range, Dropping!IsInjective,
    Four!Client!ClientKeepsUp, Four!Client!OnceInThread, Four!Client!TicksAreTrue,
    Four!Client!Committed, Four!Client!Bubble, Four!Client!tickState, Four!Client!ThreadIsWhole,
    Four!Client!AtRest, Four!Client!BadgeIsTrue, Four!Client!Unread, Four!Client!TicksAreCurrent,
    Four!Client!PresenceIsCurrent, Four!Client!Cardinality, Four!Client!IsFiniteSet,
    Four!Client!Range, Four!Client!IsInjective
<1>3. ASSUME NEW by
      PROVE  /\ Dropping!Create(by) => Four!Client!Create(by)
             /\ Dropping!Commit(by) => Four!Client!Commit(by)
  BY Zenon DEF
    Dropping!Create, Dropping!Told, Dropping!Event, Dropping!Commit, Dropping!Newest,
    Dropping!Composing, Dropping!ReadUpTo, Dropping!Greatest, Dropping!cache, Four!Client!Create,
    Four!Client!Told, Four!Client!Event, Four!Client!Commit, Four!Client!Newest,
    Four!Client!Composing, Four!Client!ReadUpTo, Four!Client!Greatest, Four!Client!cache
<1>4. ASSUME NEW n
      PROVE  /\ Dropping!Dispatch(n) => Four!Client!Dispatch(n)
             /\ Dropping!TheyRead(n) => Four!Client!TheyRead(n)
  BY Zenon DEF
    Dropping!Dispatch, Dropping!Late, Dropping!DeliveredUpTo, Dropping!Greatest, Dropping!Told,
    Dropping!Event, Dropping!Receipt, Dropping!cache, Dropping!TheyRead, Dropping!Committed,
    Dropping!ReadUpTo, Four!Client!Dispatch, Four!Client!Late, Four!Client!DeliveredUpTo,
    Four!Client!Greatest, Four!Client!Told, Four!Client!Event, Four!Client!Receipt,
    Four!Client!cache, Four!Client!TheyRead, Four!Client!Committed, Four!Client!ReadUpTo
<1>5. /\ Dropping!TheyMove => Four!Client!TheyMove
      /\ Dropping!TakeRead => Four!Client!TakeRead
  BY Zenon DEF
    Dropping!TheyMove, Dropping!DeliveredUpTo, Dropping!Greatest, Dropping!Newest, Dropping!Told,
    Dropping!Receipt, Dropping!Event, Dropping!cache, Dropping!TakeRead, Four!Client!TheyMove,
    Four!Client!DeliveredUpTo, Four!Client!Greatest, Four!Client!Newest, Four!Client!Told,
    Four!Client!Receipt, Four!Client!Event, Four!Client!cache, Four!Client!TakeRead
<1>6. Dropping!Hear => Four!Client!Hear
  BY Zenon DEF
    Dropping!Hear, Dropping!Upserted, Dropping!Refreshed, Dropping!Shown, Dropping!TailOf,
    Dropping!Greatest, Dropping!Cleared, Dropping!Ticked, Dropping!server, Dropping!Range,
    Four!Client!Hear, Four!Client!Upserted, Four!Client!Refreshed, Four!Client!Shown,
    Four!Client!TailOf, Four!Client!Greatest, Four!Client!Cleared, Four!Client!Ticked,
    Four!Client!server, Four!Client!Range
<1>7. /\ Dropping!Select => Four!Client!Select
      /\ Dropping!Leave => Four!Client!Leave
      /\ Dropping!AnswerThread => Four!Client!AnswerThread
  BY Zenon DEF
    Dropping!Select, Dropping!TailOf, Dropping!Greatest, Dropping!Cleared, Dropping!server,
    Dropping!Leave, Dropping!AnswerThread, Dropping!Newest, Four!Client!Select, Four!Client!TailOf,
    Four!Client!Greatest, Four!Client!Cleared, Four!Client!server, Four!Client!Leave,
    Four!Client!AnswerThread, Four!Client!Newest
<1>8. /\ Dropping!ThreadArrives => Four!Client!ThreadArrives
      /\ Dropping!AnswerList => Four!Client!AnswerList
  BY Zenon DEF
    Dropping!ThreadArrives, Dropping!Shown, Dropping!TailOf, Dropping!Greatest, Dropping!Cleared,
    Dropping!server, Dropping!AnswerList, Dropping!Listed, Dropping!Unread, Dropping!Committed,
    Dropping!Cardinality, Dropping!IsFiniteSet, Four!Client!ThreadArrives, Four!Client!Shown,
    Four!Client!TailOf, Four!Client!Greatest, Four!Client!Cleared, Four!Client!server,
    Four!Client!AnswerList, Four!Client!Listed, Four!Client!Unread, Four!Client!Committed,
    Four!Client!Cardinality, Four!Client!IsFiniteSet
<1>9. Dropping!ListArrives => Four!Client!ListArrives
  BY Zenon DEF
    Dropping!ListArrives, Dropping!Arriving, Dropping!Listed, Dropping!Unread, Dropping!Committed,
    Dropping!Shown, Dropping!TailOf, Dropping!Greatest, Dropping!Cleared, Dropping!server,
    Dropping!Cardinality, Dropping!IsFiniteSet, Four!Client!ListArrives, Four!Client!Arriving,
    Four!Client!Listed, Four!Client!Unread, Four!Client!Committed, Four!Client!Shown,
    Four!Client!TailOf, Four!Client!Greatest, Four!Client!Cleared, Four!Client!server,
    Four!Client!Cardinality, Four!Client!IsFiniteSet
<1>10. /\ Dropping!Drop => Four!Client!Drop
       /\ Dropping!Reconnect => Four!Client!Reconnect
  BY Zenon DEF
    Dropping!Drop, Dropping!server, Dropping!cache, Dropping!Reconnect, Four!Client!Drop,
    Four!Client!server, Four!Client!cache, Four!Client!Reconnect
<1>11. Dropping!Next => Four!Client!Next
  BY Zenon, <1>3, <1>4, <1>5, <1>6, <1>7, <1>8, <1>9, <1>10 DEF Dropping!Next, Four!Client!Next
<1>. QED
  BY <1>1, <1>2, <1>11

LEMMA DroppingHolds ==
  ASSUME NothingElse
  PROVE  Spec => [](part = "dropping" => Dropping!ClientKeepsUp)
<1>1. Init /\ part = "dropping" => Four!Client!Init
  BY DroppingIs DEF Init, PagesInit, SocketsInit, ChatInit
<1>2. [Next]_state =>
        /\ part = "dropping" => (part = "dropping")' /\ [Four!Client!Next]_(Four!Client!vars)
        /\ ~(part = "dropping") => ~(part = "dropping")'
  BY DroppingIs, ChatRun DEF Next, ChatNext, state, chat, Four!Client!vars,
     Four!Client!server, Four!Client!cache
<1>3. Four!Client!Spec => []Four!Client!ClientKeepsUp
  BY Four!ClientAlwaysKeepsUp, NothingElse, ChatIsBounded DEF NothingElse, Four!ClientConstants,
  Four!Chat, Four!ClientCursor, One!ClientConstants, One!Chat, One!ClientCursor
<1>. QED
  BY <1>1, <1>2, <1>3, DroppingIs, PTL DEF Spec, Four!Client!Spec, state

-----------------------------------------------------------------------------
(* NobodyMissesAMessage: a member who is online has what was said or is    *)
(* being told, in a conversation of two, where it is read, and in a group  *)
(* (MessagingService, MessagingGateway); and the browser's copy says no    *)
(* more than the server and catches up (useMessagingRealtime).             *)
THEOREM NobodyMissesAMessageThroughout == ASSUME NothingElse PROVE Spec => []NobodyMissesAMessage
BY DirectHolds, ReadingHolds, GroupHolds, MeetingHolds, ChattingHolds, CrossingHolds, DroppingHolds,
   PTL DEF NobodyMissesAMessage

(* PresenceIsTrue: who is shown online is, and one session spans the time  *)
(* (PresenceService), handlers following one another.                      *)
THEOREM PresenceIsTrueThroughout == ASSUME NothingElse PROVE Spec => []PresenceIsTrue
BY SessionsHolds, UnsweptHolds, PTL DEF PresenceIsTrue

(* FloodIsBounded: a sweep changes no answer, and a bucket passes fewer    *)
(* than twice its limit in a window (SocketThrottle).                      *)
THEOREM FloodIsBoundedThroughout == ASSUME NothingElse PROVE Spec => []FloodIsBounded
BY LimitsHolds, PTL DEF FloodIsBounded
=============================================================================
