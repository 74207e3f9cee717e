------------------------------- MODULE Shows -------------------------------
(***************************************************************************)
(* The shows of one brand and the seasons they run in: the forms that add  *)
(* a show under several seasons or change one and copy it into others, and *)
(* the requests behind them (AdminService.createEvents, updateEvent,       *)
(* createSeason, updateSeason, deleteSeason; NewEventModal, EventModal of  *)
(* Admin.tsx).                                                             *)
(*                                                                         *)
(* A show's id is made of its city and the abbreviation of its season when *)
(* it was added; city and season may change, the id stays.  A request      *)
(* checks in one step and writes, all of it or nothing, in another.        *)
(***************************************************************************)
EXTENDS Integers, FiniteSets, Sequences, SequencesExt

CONSTANTS
  Cities, Labels, \* Labels: what a season may be called
  Short,          \* of each label, its abbreviation: initials and year
  Admins,
  Ops,            \* of "add", "edit", "city", "season"
  MaxShows,
  None

VARIABLES
  shows,   \* of each id <<city, abbreviation>> there is, [city, season]
  seasons, \* the labels there are
  page,    \* the catalogue each administrator's page last fetched
  modal,   \* the form open on it: [kind, id, picked, city], or None
  req      \* its request in flight, checked: [announced, current, id, moved, city, added], or None

showsVars == <<shows, seasons, page, modal, req>>

Ids == Cities \X {Short[l] : l \in Labels}
Catalogue == [shows |-> shows, seasons |-> seasons]

ShowsInit ==
  /\ shows = <<>> /\ seasons \in SUBSET Labels
  /\ page = [a \in Admins |-> Catalogue]
  /\ modal = [a \in Admins |-> None] /\ req = [a \in Admins |-> None]

-----------------------------------------------------------------------------
(* The page.                                                               *)
Fetch(a) ==
  /\ page[a] # Catalogue
  /\ page' = [page EXCEPT ![a] = Catalogue]
  /\ UNCHANGED <<shows, seasons, modal, req>>

EventId(city, label) == <<city, Short[label]>>

OpenNew(a, l, c) ==
  /\ "add" \in Ops /\ modal[a] = None /\ l \in page[a].seasons
  /\ modal' = [modal EXCEPT ![a] = [kind |-> "new", id |-> None, picked |-> <<l>>, city |-> c]]
  /\ UNCHANGED <<shows, seasons, page, req>>

OpenShow(a, id) ==
  /\ "edit" \in Ops /\ modal[a] = None /\ id \in DOMAIN page[a].shows
  /\ LET show == page[a].shows[id]
     IN  modal' = [modal EXCEPT ![a] =
           [kind |-> "edit", id |-> id, picked |-> <<show.season>>, city |-> show.city]]
  /\ UNCHANGED <<shows, seasons, page, req>>

Close(a) ==
  /\ modal[a] # None /\ req[a] = None
  /\ modal' = [modal EXCEPT ![a] = None]
  /\ UNCHANGED <<shows, seasons, page, req>>

(* The show as the page has it, and the seasons it runs in there already.  *)
Shown(a) == page[a].shows[modal[a].id]
Sibling(a, l) ==
  /\ modal[a].kind = "edit" /\ l # Shown(a).season
  /\ EventId(modal[a].city, l) \in DOMAIN page[a].shows \ {modal[a].id}

Offered(a) ==
  page[a].seasons \cup IF modal[a].kind = "edit" THEN {Shown(a).season} ELSE {}

Tick(a, l) ==
  /\ modal[a] # None /\ req[a] = None /\ l \in Offered(a) /\ ~Sibling(a, l)
  /\ modal' = [modal EXCEPT ![a].picked =
       IF Contains(@, l) THEN SelectSeq(@, LAMBDA k : k # l) ELSE Append(@, l)]
  /\ UNCHANGED <<shows, seasons, page, req>>

ChooseCity(a, c) ==
  /\ modal[a] # None /\ req[a] = None /\ c # modal[a].city
  /\ modal[a].kind = "edit" => "city" \in Ops
  /\ modal' = [modal EXCEPT ![a].city = c]
  /\ UNCHANGED <<shows, seasons, page, req>>

(* What the form says it will add.                                         *)
PageOwn(a) ==
  IF Contains(modal[a].picked, Shown(a).season) THEN Shown(a).season ELSE Head(modal[a].picked)

Announced(a) ==
  IF modal[a].kind = "new"
  THEN {EventId(modal[a].city, l) : l \in ToSet(modal[a].picked) \cap page[a].seasons}
  ELSE {EventId(modal[a].city, l) :
          l \in {k \in ToSet(modal[a].picked) \cap Offered(a) : k # PageOwn(a) /\ ~Sibling(a, k)}}

(* What it sends.                                                          *)
Sent(a) == SelectSeq(modal[a].picked, LAMBDA l : ~Sibling(a, l))

-----------------------------------------------------------------------------
(* Mutant: the show moves to the first season listed, its own or not.      *)
Own_First(id, sent) == Head(sent)

(* The show keeps its own season if it is listed, else moves to the first. *)
Own(id, sent) ==
  IF Contains(sent, shows[id].season) THEN shows[id].season ELSE Head(sent)

(* The seasons a show is added under, in the order they are written.       *)
Extra(id, sent) ==
  IF id = None THEN sent ELSE SelectSeq(sent, LAMBDA l : l # Own(id, sent))

IdsOf(city, labels) == {EventId(city, l) : l \in ToSet(labels)}

(* createEvents, updateEvent: every season is known and no id is taken.    *)
Check(a) ==
  /\ modal[a] # None /\ req[a] = None /\ modal[a].picked # <<>>
  /\ LET id == modal[a].id
         sent == Sent(a)
         own == IF id = None THEN None ELSE Own(id, sent)
         extra == Extra(id, sent)
         city == modal[a].city
     IN  /\ sent # <<>>
         /\ ToSet(extra) \subseteq seasons
         /\ id # None =>
              /\ own # shows[id].season => own \in seasons
              /\ own # shows[id].season \/ city # shows[id].city \/ extra # <<>>
         /\ IdsOf(city, extra) \cap DOMAIN shows = {}
         /\ Cardinality(DOMAIN shows) + Len(extra) <= MaxShows
         /\ req' = [req EXCEPT ![a] = [
              announced |-> Announced(a), current |-> page[a] = Catalogue, id |-> id,
              moved |-> IF id = None THEN None ELSE [city |-> city, season |-> own],
              city |-> city, added |-> extra]]
  /\ UNCHANGED <<shows, seasons, page, modal>>

(* Mutant: the shows are written one by one, those that can be.            *)
Refused_Never(r) == FALSE

(* The ids are unique: one taken by now, or twice in the request, and the  *)
(* transaction is undone.                                                  *)
Refused(r) ==
  \/ IdsOf(r.city, r.added) \cap DOMAIN shows # {}
  \/ Cardinality(IdsOf(r.city, r.added)) # Len(r.added)

AddedShow(r, id) ==
  [city |-> r.city, season |-> r.added[CHOOSE i \in DOMAIN r.added : EventId(r.city, r.added[i]) = id]]

Write(a) ==
  LET r == req[a]
  IN  /\ r # None
      /\ IF Refused(r) THEN UNCHANGED <<shows, page, modal>>
         ELSE /\ shows' = [id \in DOMAIN shows \cup IdsOf(r.city, r.added) |->
                   IF id = r.id THEN r.moved
                   ELSE IF id \in DOMAIN shows THEN shows[id] ELSE AddedShow(r, id)]
              /\ modal' = [modal EXCEPT ![a] = None]
              /\ UNCHANGED page
      /\ req' = [req EXCEPT ![a] = None]
      /\ UNCHANGED seasons

-----------------------------------------------------------------------------
(* createSeason, updateSeason, deleteSeason: no show is touched.           *)
AddSeason(l) ==
  /\ "season" \in Ops /\ l \notin seasons /\ seasons' = seasons \cup {l}
  /\ UNCHANGED <<shows, page, modal, req>>

RenameSeason(k, l) ==
  /\ "season" \in Ops /\ k \in seasons /\ l \notin seasons
  /\ seasons' = (seasons \ {k}) \cup {l}
  /\ UNCHANGED <<shows, page, modal, req>>

DeleteSeason(l) ==
  /\ "season" \in Ops /\ l \in seasons /\ seasons' = seasons \ {l}
  /\ UNCHANGED <<shows, page, modal, req>>

ShowsNext ==
  \/ \E a \in Admins :
       \/ Fetch(a) \/ Close(a) \/ Check(a) \/ Write(a)
       \/ \E l \in Labels : Tick(a, l) \/ \E c \in Cities : OpenNew(a, l, c)
       \/ \E c \in Cities : ChooseCity(a, c)
       \/ \E id \in Ids : OpenShow(a, id)
  \/ \E l \in Labels :
       AddSeason(l) \/ DeleteSeason(l) \/ \E k \in Labels : RenameSeason(k, l)

-----------------------------------------------------------------------------
ShowsTypeOK ==
  /\ DOMAIN shows \subseteq Ids
  /\ \A id \in DOMAIN shows : shows[id].city \in Cities /\ shows[id].season \in Labels
  /\ \A a \in Admins : modal[a] # None => ToSet(modal[a].picked) \subseteq Labels
  /\ \A a \in Admins : req[a] # None => modal[a] # None

(* A save off a current page adds the shows its form said it would, all of *)
(* them, and leaves every other show but its own alone; or it adds none    *)
(* (createEvents: "a clash on one season leaves none of them half-added";  *)
(* EventModal: "Also adds ... shows, filed as").  Not kept when the form   *)
(* changes the show's city or another moves the show while it is open.     *)
AddedAsAnnounced ==
  \A a \in Admins : shows' # shows /\ req[a] # None /\ req[a].current /\ req'[a] = None =>
    /\ DOMAIN shows' \ DOMAIN shows = req[a].announced
    /\ \A id \in DOMAIN shows \ {req[a].id} : shows'[id] = shows[id]
=============================================================================
