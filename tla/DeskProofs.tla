---------------------------- MODULE DeskProofs ----------------------------
(***************************************************************************)
(* For any number of people, requests, messages and sockets.  The server's *)
(* conversation: nobody who is a member and online misses a message, and   *)
(* what is read was delivered.  The browser's copy of it: it never says    *)
(* more than the server, and what it leaves behind is on its way.  The     *)
(* sockets: while the handlers of two of them follow one another, whoever  *)
(* is shown online is, and one session spans the time, across crashes and  *)
(* lost log lines.  The rate limit, for any table of buckets: a sweep      *)
(* changes no answer, and a bucket passes at most twice its limit in its   *)
(* window.                                                                 *)
(***************************************************************************)
EXTENDS Messaging, Sequences, FiniteSetTheorems, SequenceTheorems, TLAPS

(* What the constants are: None is no state and no request.                *)
Steps == {"create", "announce", "add", "members", "remove", "insert", "commit",
          "recipients", "join", "mark", "read"}
ConnSteps == {"own", "read", "enter", "deliver", "up"}
Requests == [at : Steps \cup {None}, by : People, whom : People \cup {None},
             seq : Nat, to : SUBSET People]
Sound ==
  /\ MaxMessages \in Nat /\ IsFiniteSet(Reqs)
  /\ None \notin Steps \cup ConnSteps \cup People \cup Requests

-----------------------------------------------------------------------------
(* The largest member of a bounded set of numbers (well-foundedness of the *)
(* distance from the bound).                                               *)
LEMMA MaxOfBounded ==
  ASSUME NEW n \in Nat, NEW S \in SUBSET (0 .. n), S # {}
  PROVE  Max(S) \in S /\ \A y \in S : Max(S) >= y
<1>. DEFINE T == {n - x : x \in S}
<1>1. T \subseteq Nat /\ T # {}
  OBVIOUS
<1>. DEFINE R == {p \in Nat \X Nat : p[1] < p[2]}
<1>w. IsWellFoundedOn(R, Nat)
  BY NatLessThanWellFounded DEF OpToRel
<1>2. PICK t \in T : \A u \in T : ~ (<<u, t>> \in R)
  <2>. HIDE DEF R, T
  <2>. QED
    BY <1>1, <1>w, WFMin
<1>3. PICK x \in S : t = n - x
  OBVIOUS
<1>4. ASSUME NEW y \in S PROVE x >= y
  <2>1. n - y \in T /\ n - y \in Nat /\ t \in Nat
    BY <1>1
  <2>2. ~(n - y < t)
    BY <1>2, <2>1
  <2>. QED
    BY <1>3, <2>1, <2>2
<1>5. \E m \in S : \A y \in S : m >= y
  BY <1>4
<1>. QED
  BY <1>5 DEF Max

LEMMA GreatestOfTwo ==
  ASSUME NEW m \in Nat, NEW n \in Nat
  PROVE  Greatest(m, n) = IF m >= n THEN m ELSE n
<1>. DEFINE g == IF m >= n THEN m ELSE n
<1>1. g \in {m, n} /\ \A y \in {m, n} : g >= y
  OBVIOUS
<1>2. \A x \in {m, n} : (\A y \in {m, n} : x >= y) => x = g
  OBVIOUS
<1>. QED
  BY <1>1, <1>2 DEF Greatest, Max

-----------------------------------------------------------------------------
(* What a request at work has on it, n the last number handed out.         *)
Fits(q, n) ==
  /\ q \in Requests /\ q.at \in Steps /\ q.seq <= n
  /\ q.at = "create" => q.by \in q.to
  /\ q.at \in {"add", "remove"} => q.whom \in People
  /\ q.at \in {"commit", "recipients", "join", "mark", "read"} => q.seq >= 1

Cursors(n) == [read : 0 .. n, delivered : 0 .. n]

(* The types, and that a connection is in its own room once it has joined. *)
Shape ==
  /\ MessagingTypeOK
  /\ conn \in [People -> ConnSteps \cup {None}]
  /\ \A p \in People : conn[p] \in ConnSteps \ {"own"} => p \in own
  /\ req \in [Reqs -> Requests \cup {None}]
  /\ \A r \in Reqs : req[r] # None => Fits(req[r], nextSeq)

LEMMA ShapeInit == ASSUME Sound PROVE Init => Shape
<1>. SUFFICES ASSUME Init PROVE Shape
  OBVIOUS
<1>1. nextSeq = 0 /\ cursor \in [People -> [read : 0 .. nextSeq, delivered : 0 .. nextSeq]]
  BY DEF Init, AtStart
<1>2. MessagingTypeOK
  <2>1. since \in [People -> 0 .. nextSeq] /\ nextSeq \in 0 .. MaxMessages
    BY <1>1 DEF Init, Sound
  <2>2. exists \in BOOLEAN /\ members = {} /\ admins = {} /\ messages = {}
    BY DEF Init
  <2>3. room = {} /\ own = {} /\ online = {} /\ \A p \in People : conn[p] = None
    BY DEF Init
  <2>. QED
    BY <1>1, <2>1, <2>2, <2>3 DEF MessagingTypeOK
<1>3. conn \in [People -> ConnSteps \cup {None}] /\ \A p \in People : conn[p] \notin ConnSteps
  BY DEF Init, Sound
<1>4. req \in [Reqs -> Requests \cup {None}] /\ \A r \in Reqs : req[r] = None
  BY DEF Init
<1>. QED
  BY <1>2, <1>3, <1>4 DEF Shape

(* A request written anew, or done.                                        *)
LEMMA Rewritten ==
  ASSUME Sound, Shape, NEW r \in Reqs, NEW q, req' = [req EXCEPT ![r] = q],
         nextSeq' \in Nat, nextSeq' >= nextSeq, q = None \/ Fits(q, nextSeq')
  PROVE  /\ req' \in [Reqs -> Requests \cup {None}]
         /\ \A o \in Reqs : req'[o] # None => Fits(req'[o], nextSeq')
         /\ req'[r] = q /\ \A o \in Reqs \ {r} : req'[o] = req[o]
<1>1. q \in Requests \cup {None}
  BY DEF Fits
<1>2. req'[r] = q /\ \A o \in Reqs \ {r} : req'[o] = req[o]
  BY DEF Shape
<1>3. req' \in [Reqs -> Requests \cup {None}]
  BY <1>1 DEF Shape
<1>4. ASSUME NEW o \in Reqs \ {r}, req[o] # None PROVE Fits(req[o], nextSeq')
  <2>1. Fits(req[o], nextSeq) /\ nextSeq \in Nat
    BY <1>4 DEF Shape, MessagingTypeOK, Sound
  <2>2. req[o].seq \in Nat
    BY <2>1 DEF Fits, Requests
  <2>. QED
    BY <2>1, <2>2 DEF Fits
<1>. QED
  BY <1>2, <1>3, <1>4

LEMMA RequestType ==
  ASSUME Sound, NEW by \in People
  PROVE  /\ Request(by) \in Requests /\ Request(by).by = by /\ Request(by).seq = 0
         /\ Request(by).to = {}
  BY DEF Request, Requests

(* What marking does to a cursor.                                          *)
LEMMA DeliveredType ==
  ASSUME NEW n \in Nat, NEW c \in Cursors(n), NEW seq \in 0 .. n
  PROVE  /\ DeliveredTo(c, seq) \in Cursors(n)
         /\ DeliveredTo(c, seq).read = c.read
         /\ DeliveredTo(c, seq).delivered \in {c.delivered, seq}
         /\ DeliveredTo(c, seq).delivered >= c.delivered
         /\ DeliveredTo(c, seq).delivered >= seq
<1>1. c.delivered \in Nat /\ seq \in Nat
  BY DEF Cursors
<1>2. Greatest(c.delivered, seq) = IF c.delivered >= seq THEN c.delivered ELSE seq
  BY <1>1, GreatestOfTwo
<1>3. DeliveredTo(c, seq) = [c EXCEPT !.delivered = Greatest(c.delivered, seq)]
  BY DEF DeliveredTo, Cursors
<1>. QED
  BY <1>1, <1>2, <1>3 DEF Cursors

LEMMA ReadType ==
  ASSUME NEW n \in Nat, NEW c \in Cursors(n), NEW seq \in 0 .. n
  PROVE  /\ ReadTo(c, seq) \in Cursors(n)
         /\ ReadTo(c, seq).read \in {c.read, seq}
         /\ ReadTo(c, seq).delivered \in {c.delivered, seq}
         /\ ReadTo(c, seq).read >= c.read /\ ReadTo(c, seq).read >= seq
         /\ ReadTo(c, seq).delivered >= c.delivered
         /\ c.read <= c.delivered => ReadTo(c, seq).read <= ReadTo(c, seq).delivered
<1>1. c.delivered \in Nat /\ c.read \in Nat /\ seq \in Nat
  BY DEF Cursors
<1>2. /\ Greatest(c.delivered, seq) = IF c.delivered >= seq THEN c.delivered ELSE seq
      /\ Greatest(c.read, seq) = IF c.read >= seq THEN c.read ELSE seq
  BY <1>1, GreatestOfTwo
<1>. QED
  BY <1>1, <1>2 DEF Cursors, ReadTo

LEMMA RaisedType ==
  ASSUME Sound, Shape, NEW ps \in SUBSET People, NEW seq \in 0 .. nextSeq
  PROVE  /\ Raised(ps, seq) \in [People -> Cursors(nextSeq)]
         /\ \A p \in People : /\ Raised(ps, seq)[p].read = cursor[p].read
                              /\ Raised(ps, seq)[p].delivered >= cursor[p].delivered
                              /\ Raised(ps, seq)[p].delivered \in {cursor[p].delivered, seq}
                              /\ p \in ps \cap members => Raised(ps, seq)[p].delivered >= seq
<1>1. nextSeq \in Nat /\ cursor \in [People -> Cursors(nextSeq)]
  BY DEF Sound, Shape, MessagingTypeOK, Cursors
<1>2. \A p \in People : /\ cursor[p].delivered \in Nat /\ cursor[p] \in Cursors(nextSeq)
  BY <1>1 DEF Cursors
<1>3. ASSUME NEW p \in People
      PROVE  /\ Raised(ps, seq)[p] \in Cursors(nextSeq)
             /\ Raised(ps, seq)[p].read = cursor[p].read
             /\ Raised(ps, seq)[p].delivered >= cursor[p].delivered
             /\ Raised(ps, seq)[p].delivered \in {cursor[p].delivered, seq}
             /\ p \in ps \cap members => Raised(ps, seq)[p].delivered >= seq
  <2>1. CASE p \in ps \cap members
    <3>1. Raised(ps, seq)[p] = DeliveredTo(cursor[p], seq)
      BY <2>1 DEF Raised
    <3>. QED
      BY <1>1, <1>2, <3>1, DeliveredType
  <2>2. CASE p \notin ps \cap members
    <3>1. Raised(ps, seq)[p] = cursor[p]
      BY <2>2 DEF Raised
    <3>. QED
      BY <1>2, <2>2, <3>1
  <2>. QED
    BY <2>1, <2>2
<1>4. Raised(ps, seq) = [p \in People |-> Raised(ps, seq)[p]]
  BY DEF Raised
<1>. QED
  BY <1>3, <1>4

LEMMA LatestType ==
  ASSUME Sound, Shape
  PROVE  Latest \in Seqs \cup {0} /\ Latest \in 0 .. nextSeq /\ \A m \in messages : m.seq <= Latest
<1>1. nextSeq \in Nat /\ \A m \in messages : m.seq \in 1 .. nextSeq
  BY DEF Sound, Shape, MessagingTypeOK
<1>2. Seqs \cup {0} \in SUBSET (0 .. nextSeq) /\ Seqs \cup {0} # {}
  BY <1>1 DEF Seqs
<1>3. Latest \in Seqs \cup {0} /\ \A y \in Seqs \cup {0} : Latest >= y
  BY <1>1, <1>2, MaxOfBounded DEF Latest
<1>. QED
  BY <1>1, <1>2, <1>3 DEF Seqs

-----------------------------------------------------------------------------
(* The part of the types that the rows and the thread make, and the part   *)
(* the sockets make.                                                       *)
RowsOK ==
  /\ exists \in BOOLEAN /\ members \subseteq People /\ admins \subseteq members
  /\ messages \subseteq [seq : 1 .. nextSeq, from : People] /\ nextSeq \in 0 .. MaxMessages
  /\ cursor \in [People -> Cursors(nextSeq)] /\ since \in [People -> 0 .. nextSeq]
SocketsOK ==
  /\ room \subseteq own /\ own \subseteq online
  /\ conn \in [People -> ConnSteps \cup {None}]
  /\ \A p \in People : conn[p] \in ConnSteps \ {"own"} => p \in own
  /\ \A p \in People : p \in online <=> conn[p] # None
RequestsOK ==
  /\ req \in [Reqs -> Requests \cup {None}]
  /\ \A r \in Reqs : req[r] # None => Fits(req[r], nextSeq)

LEMMA ShapeParts == Shape <=> RowsOK /\ SocketsOK /\ RequestsOK
  BY DEF Shape, RowsOK, SocketsOK, RequestsOK, MessagingTypeOK, Cursors

LEMMA ShapePartsNext == Shape' <=> RowsOK' /\ SocketsOK' /\ RequestsOK'
  BY ShapeParts, PTL

(* A request starts, goes on or is refused, and neither rows nor sockets   *)
(* change.                                                                 *)
LEMMA ShapeBegin ==
  ASSUME Sound, Shape, NEW r \in Reqs, NEW q, req' = [req EXCEPT ![r] = q],
         q = None \/ Fits(q, nextSeq), UNCHANGED <<rows, thread, cursor, sockets>>
  PROVE  Shape'
<1>1. nextSeq \in Nat
  BY DEF Sound, Shape, MessagingTypeOK
<1>2. RequestsOK'
  <2>1. nextSeq' = nextSeq
    BY DEF thread
  <2>2. nextSeq' \in Nat /\ nextSeq' >= nextSeq /\ (q = None \/ Fits(q, nextSeq'))
    BY <1>1, <2>1
  <2>3. /\ req' \in [Reqs -> Requests \cup {None}]
        /\ \A o \in Reqs : req'[o] # None => Fits(req'[o], nextSeq')
    BY <2>2, Rewritten
  <2>. QED
    BY <2>3 DEF RequestsOK, Fits
<1>3. RowsOK' /\ SocketsOK'
  BY ShapeParts DEF RowsOK, SocketsOK, rows, thread, sockets
<1>. QED
  BY <1>2, <1>3, ShapePartsNext

(* A request that changes rows, messages or cursors, and no socket.        *)
LEMMA ShapeWrite ==
  ASSUME Sound, Shape, NEW r \in Reqs, NEW q, req' = [req EXCEPT ![r] = q],
         nextSeq' \in Nat, nextSeq' >= nextSeq, q = None \/ Fits(q, nextSeq'),
         RowsOK', UNCHANGED sockets
  PROVE  Shape'
<1>1. /\ req' \in [Reqs -> Requests \cup {None}]
      /\ \A o \in Reqs : req'[o] # None => Fits(req'[o], nextSeq')
  BY Rewritten
<1>2. RequestsOK'
  BY <1>1 DEF RequestsOK, Fits
<1>3. SocketsOK'
  BY ShapeParts DEF SocketsOK, sockets
<1>. QED
  BY <1>2, <1>3, ShapePartsNext

LEMMA ShapeRows ==
  ASSUME Sound, Shape, NEW r \in Reqs, NEW q, req' = [req EXCEPT ![r] = q],
         nextSeq' = nextSeq, q = None \/ Fits(q, nextSeq), RowsOK', UNCHANGED sockets
  PROVE  Shape'
<1>1. nextSeq' \in Nat /\ nextSeq' >= nextSeq /\ (q = None \/ Fits(q, nextSeq'))
  BY DEF Sound, Shape, MessagingTypeOK
<1>. QED
  BY <1>1, ShapeWrite

(* A request after which only sockets have joined a room.                  *)
LEMMA ShapeJoins ==
  ASSUME Sound, Shape, NEW r \in Reqs, NEW q, req' = [req EXCEPT ![r] = q],
         q = None \/ Fits(q, nextSeq), UNCHANGED <<rows, thread, cursor, online, own, conn>>,
         room' \subseteq own
  PROVE  Shape'
<1>1. nextSeq' = nextSeq /\ nextSeq \in Nat
  BY DEF thread, Sound, Shape, MessagingTypeOK
<1>2. nextSeq' \in Nat /\ nextSeq' >= nextSeq /\ (q = None \/ Fits(q, nextSeq'))
  BY <1>1
<1>3. /\ req' \in [Reqs -> Requests \cup {None}]
      /\ \A o \in Reqs : req'[o] # None => Fits(req'[o], nextSeq')
  BY <1>2, Rewritten
<1>4. RequestsOK'
  BY <1>3 DEF RequestsOK, Fits
<1>5. SocketsOK' /\ RowsOK'
  BY ShapeParts DEF SocketsOK, RowsOK, rows, thread
<1>. QED
  BY <1>4, <1>5, ShapePartsNext

(* What a request at work is.                                              *)
LEMMA AtWork ==
  ASSUME Sound, Shape, NEW r \in Reqs, NEW step \in Steps, At(r, step)
  PROVE  /\ Fits(req[r], nextSeq) /\ req[r] \in Requests /\ req[r].by \in People
         /\ req[r].to \subseteq People /\ req[r].seq \in 0 .. nextSeq /\ nextSeq \in Nat
         /\ \A next \in Steps \ {"create", "add", "remove", "commit", "recipients", "join",
                                 "mark", "read"} :
              Fits([req[r] EXCEPT !.at = next], nextSeq)
<1>1. Fits(req[r], nextSeq) /\ nextSeq \in Nat
  BY DEF Shape, At, MessagingTypeOK, Sound
<1>2. req[r] \in Requests /\ req[r].seq \in 0 .. nextSeq
  BY <1>1 DEF Fits, Requests
<1>3. req[r].by \in People /\ req[r].to \subseteq People
  BY <1>2 DEF Requests
<1>4. ASSUME NEW next \in Steps \ {"create", "add", "remove", "commit", "recipients", "join",
                                   "mark", "read"}
      PROVE  Fits([req[r] EXCEPT !.at = next], nextSeq)
  <2>1. [req[r] EXCEPT !.at = next] \in Requests
    BY <1>2 DEF Requests
  <2>2. /\ [req[r] EXCEPT !.at = next].at = next
        /\ [req[r] EXCEPT !.at = next].seq = req[r].seq
    BY <1>2 DEF Requests
  <2>. QED
    BY <1>1, <2>1, <2>2 DEF Fits
<1>. QED
  BY <1>1, <1>2, <1>3, <1>4

(* The requests, each step of theirs.                                      *)
LEMMA ShapeStep ==
  ASSUME Sound, Shape, NEW r \in Reqs, Step(r)
  PROVE  Shape'
<1>t. /\ nextSeq \in Nat /\ RowsOK /\ SocketsOK
      /\ cursor \in [People -> Cursors(nextSeq)] /\ since \in [People -> 0 .. nextSeq]
  BY ShapeParts DEF RowsOK, Sound
<1>1. ASSUME NEW by \in People, NEW ps \in SUBSET Others(by), LookForThread(r, by, ps)
      PROVE  Shape'
  <2>. DEFINE w == [Request(by) EXCEPT !.to = Named(ps, by)]
             q == [w EXCEPT !.at = "create"]
  <2>1. Named(ps, by) \in SUBSET People /\ by \in Named(ps, by)
    BY DEF Named, Others
  <2>w. w \in Requests /\ w.seq = 0 /\ w.by = by /\ w.to = Named(ps, by)
    BY <2>1, RequestType DEF Requests
  <2>2. q \in Requests /\ q.at = "create" /\ q.seq = 0 /\ q.by = by /\ q.to = Named(ps, by)
    <3>. HIDE DEF w
    <3>. QED
      BY <2>w DEF Requests, Steps
  <2>3. Fits(q, nextSeq)
    BY <1>t, <2>1, <2>2 DEF Fits, Steps
  <2>. QED
    BY <1>1, <2>3, ShapeBegin DEF LookForThread, Begin
<1>2. ASSUME NEW by \in People, NEW p \in People, ReadForAdd(r, by, p) \/ ReadForRemove(r, by, p)
      PROVE  Shape'
  <2>1. ASSUME NEW step \in {"add", "remove"}
        PROVE  Fits([[Request(by) EXCEPT !.whom = p] EXCEPT !.at = step], nextSeq)
    <3>. DEFINE w == [Request(by) EXCEPT !.whom = p]
             q == [w EXCEPT !.at = step]
    <3>w. w \in Requests /\ w.seq = 0 /\ w.whom = p
      BY RequestType DEF Requests
    <3>1. q \in Requests /\ q.at = step /\ q.seq = 0 /\ q.whom = p
      <4>. HIDE DEF w
      <4>. QED
        BY <3>w DEF Requests, Steps
    <3>. QED
      BY <1>t, <3>1 DEF Fits, Steps
  <2>. QED
    BY <1>2, <2>1, ShapeBegin DEF ReadForAdd, ReadForRemove, Begin
<1>3. ASSUME NEW by \in People, StartSend(r, by) PROVE Shape'
  <2>. DEFINE q == [Request(by) EXCEPT !.at = "insert"]
  <2>1. q \in Requests /\ q.at = "insert" /\ q.seq = 0
    BY RequestType DEF Requests, Steps
  <2>2. Fits(q, nextSeq)
    BY <1>t, <2>1 DEF Fits, Steps
  <2>. QED
    BY <1>3, <2>2, ShapeBegin DEF StartSend, Begin
<1>4. ASSUME NEW by \in People, NEW seq \in 1 .. MaxMessages, StartRead(r, by, seq) PROVE Shape'
  <2>. DEFINE w == [Request(by) EXCEPT !.seq = seq]
             q == [w EXCEPT !.at = "read"]
  <2>1. seq \in Seqs /\ seq \in Nat /\ seq >= 1
    BY <1>4 DEF StartRead, Sound
  <2>2. seq <= nextSeq
    BY <1>t, <2>1 DEF Seqs, RowsOK
  <2>w. w \in Requests /\ w.seq = seq
    BY <2>1, RequestType DEF Requests
  <2>3. q \in Requests /\ q.at = "read" /\ q.seq = seq
    <3>. HIDE DEF w
    <3>. QED
      BY <2>w DEF Requests, Steps
  <2>4. Fits(q, nextSeq)
    BY <2>1, <2>2, <2>3 DEF Fits, Steps
  <2>. QED
    BY <1>4, <2>4, ShapeBegin DEF StartRead, Begin
<1>5. CASE Create(r)
  <2>1. Fits(req[r], nextSeq) /\ req[r].to \subseteq People /\ req[r].by \in req[r].to
    BY <1>5, AtWork DEF Create, At, Steps, Fits
  <2>2. Fits([req[r] EXCEPT !.at = "announce"], nextSeq)
    BY <1>5, AtWork DEF Create, Steps
  <2>3. /\ nextSeq' = nextSeq /\ messages' = messages /\ cursor' = cursor /\ exists' = TRUE
        /\ members' = req[r].to /\ admins' \subseteq members'
    BY <1>5, <2>1 DEF Create, thread
  <2>4. since' \in [People -> 0 .. nextSeq]
    BY <1>5, <1>t DEF Create
  <2>5. RowsOK'
    BY <1>t, <2>1, <2>3, <2>4 DEF RowsOK
  <2>. QED
    BY <1>5, <1>t, <2>2, <2>3, <2>5, ShapeRows DEF Create, Begin
<1>6. CASE Announce(r)
  <2>1. room' \subseteq own
    BY <1>6, <1>t DEF Announce, SocketsOK
  <2>. QED
    BY <1>6, <2>1, ShapeJoins DEF Announce, Finish
<1>7. CASE Add(r)
  <2>1. req[r].whom \in People /\ Fits([req[r] EXCEPT !.at = "members"], nextSeq)
    BY <1>7, AtWork DEF Add, At, Steps, Fits
  <2>2. /\ members' = members \cup {req[r].whom} /\ exists' = exists /\ admins' = admins
        /\ nextSeq' = nextSeq /\ messages' = messages /\ cursor' = cursor
    BY <1>7 DEF Add, thread
  <2>3. since' \in [People -> 0 .. nextSeq]
    BY <1>7, <1>t, <2>1 DEF Add
  <2>4. RowsOK'
    BY <1>t, <2>1, <2>2, <2>3 DEF RowsOK
  <2>. QED
    BY <1>7, <1>t, <2>1, <2>2, <2>4, ShapeRows DEF Add, Begin
<1>8. CASE ReadMembers(r)
  <2>. DEFINE q == [[req[r] EXCEPT !.to = Announced(r)] EXCEPT !.at = "announce"]
  <2>1. Announced(r) \in SUBSET People
    BY <1>t DEF Announced, RowsOK
  <2>2. Fits(req[r], nextSeq) /\ req[r] \in Requests
    BY <1>8, AtWork DEF ReadMembers, Steps
  <2>3. q \in Requests /\ q.at = "announce" /\ q.seq = req[r].seq
    BY <2>1, <2>2 DEF Requests, Steps
  <2>4. Fits(q, nextSeq)
    BY <2>2, <2>3 DEF Fits, Steps
  <2>. QED
    BY <1>8, <2>4, ShapeBegin DEF ReadMembers, Begin
<1>9. CASE Remove(r)
  <2>1. req[r].whom \in People /\ Fits([req[r] EXCEPT !.at = "members"], nextSeq)
    BY <1>9, AtWork DEF Remove, At, Steps, Fits
  <2>2. /\ members' = members \ {req[r].whom} /\ admins' = admins \ {req[r].whom}
        /\ exists' = exists /\ nextSeq' = nextSeq /\ messages' = messages
    BY <1>9 DEF Remove, thread, AdminsWithout
  <2>3. since' \in [People -> 0 .. nextSeq] /\ cursor' \in [People -> Cursors(nextSeq)]
    BY <1>9, <1>t, <2>1 DEF Remove, AtStart, Cursors
  <2>4. RowsOK'
    BY <1>t, <2>2, <2>3 DEF RowsOK
  <2>. QED
    BY <1>9, <1>t, <2>1, <2>2, <2>4, ShapeRows DEF Remove, Begin
<1>10. CASE InsertMessage(r)
  <2>. DEFINE w == [req[r] EXCEPT !.seq = nextSeq']
             q == [w EXCEPT !.at = "commit"]
  <2>1. nextSeq' = nextSeq + 1 /\ nextSeq' <= MaxMessages
    BY <1>10, <1>t DEF InsertMessage, Sound
  <2>2. req[r] \in Requests
    BY <1>10, AtWork DEF InsertMessage, Steps
  <2>3. q \in Requests /\ q.at = "commit" /\ q.seq = nextSeq'
    <3>w. w \in Requests /\ w.seq = nextSeq'
      BY <1>t, <2>1, <2>2 DEF Requests
    <3>. HIDE DEF w
    <3>. QED
      BY <3>w DEF Requests, Steps
  <2>4. Fits(q, nextSeq')
    BY <1>t, <2>1, <2>3 DEF Fits, Steps
  <2>5. cursor' = cursor /\ messages' = messages /\ UNCHANGED rows
    BY <1>10 DEF InsertMessage
  <2>6. cursor \in [People -> Cursors(nextSeq')] /\ since \in [People -> 0 .. nextSeq']
    <3>1. \A n \in 0 .. nextSeq : n \in 0 .. nextSeq'
      BY <1>t, <2>1
    <3>. QED
      BY <1>t, <3>1 DEF Cursors
  <2>7. messages \subseteq [seq : 1 .. nextSeq', from : People]
    <3>1. \A n \in 1 .. nextSeq : n \in 1 .. nextSeq'
      BY <1>t, <2>1
    <3>. QED
      BY <1>t, <3>1 DEF RowsOK
  <2>8. nextSeq' \in 0 .. MaxMessages
    BY <1>t, <2>1 DEF Sound
  <2>9. RowsOK'
    BY <1>t, <2>5, <2>6, <2>7, <2>8 DEF RowsOK, rows, Cursors
  <2>10. nextSeq' \in Nat /\ nextSeq' >= nextSeq
    BY <1>t, <2>1
  <2>. HIDE DEF q
  <2>11. req' = [req EXCEPT ![r] = q] /\ UNCHANGED sockets
    BY <1>10 DEF InsertMessage, Begin, q
  <2>. QED
    BY <2>4, <2>9, <2>10, <2>11, ShapeWrite
<1>11. CASE CommitMessage(r)
  <2>. DEFINE q == [req[r] EXCEPT !.at = "recipients"]
  <2>1. /\ Fits(req[r], nextSeq) /\ req[r] \in Requests /\ req[r].by \in People
        /\ req[r].seq \in 1 .. nextSeq /\ req[r].at = "commit"
    BY <1>11, AtWork DEF CommitMessage, At, Steps, Fits
  <2>2. q \in Requests /\ q.at = "recipients" /\ q.seq = req[r].seq
    BY <2>1 DEF Requests, Steps
  <2>3. Fits(q, nextSeq)
    BY <2>1, <2>2 DEF Fits, Steps
  <2>4. /\ messages' = messages \cup {[seq |-> req[r].seq, from |-> req[r].by]}
        /\ nextSeq' = nextSeq /\ UNCHANGED rows
    BY <1>11 DEF CommitMessage
  <2>5. cursor' \in [People -> Cursors(nextSeq)]
    BY <1>11, <1>t, <2>1 DEF CommitMessage, Sent, Cursors
  <2>6. messages' \subseteq [seq : 1 .. nextSeq, from : People]
    BY <1>t, <2>1, <2>4 DEF RowsOK
  <2>7. RowsOK'
    BY <1>t, <2>4, <2>5, <2>6 DEF RowsOK, rows
  <2>. QED
    BY <1>11, <1>t, <2>3, <2>4, <2>7, ShapeRows DEF CommitMessage, Begin
<1>12. CASE ReadRecipients(r)
  <2>. DEFINE q == [[req[r] EXCEPT !.to = members \ {req[r].by}] EXCEPT !.at = "join"]
  <2>1. Fits(req[r], nextSeq) /\ req[r] \in Requests /\ req[r].at = "recipients"
    BY <1>12, AtWork DEF ReadRecipients, At, Steps
  <2>2. q \in Requests /\ q.at = "join" /\ q.seq = req[r].seq
    BY <1>t, <2>1 DEF Requests, Steps, RowsOK
  <2>3. Fits(q, nextSeq)
    BY <2>1, <2>2 DEF Fits, Steps
  <2>. QED
    BY <1>12, <2>3, ShapeBegin DEF ReadRecipients, Begin
<1>13. CASE JoinRoom(r)
  <2>. DEFINE q == [[req[r] EXCEPT !.to = @ \cap online] EXCEPT !.at = "mark"]
  <2>1. Fits(req[r], nextSeq) /\ req[r] \in Requests /\ req[r].at = "join"
    BY <1>13, AtWork DEF JoinRoom, At, Steps
  <2>2. q \in Requests /\ q.at = "mark" /\ q.seq = req[r].seq
    BY <2>1 DEF Requests, Steps
  <2>3. Fits(q, nextSeq)
    BY <2>1, <2>2 DEF Fits, Steps
  <2>4. room' \subseteq own
    BY <1>13, <1>t DEF JoinRoom, SocketsOK
  <2>. QED
    BY <1>13, <2>3, <2>4, ShapeJoins DEF JoinRoom, Begin
<1>14. CASE MarkRecipients(r)
  <2>1. req[r].to \in SUBSET People /\ req[r].seq \in 0 .. nextSeq
    BY <1>14, AtWork DEF MarkRecipients, Steps
  <2>2. cursor' \in [People -> Cursors(nextSeq)] /\ UNCHANGED <<rows, thread, sockets>>
    BY <1>14, <2>1, RaisedType DEF MarkRecipients
  <2>3. RowsOK' /\ nextSeq' = nextSeq
    BY <1>t, <2>2 DEF RowsOK, rows, thread
  <2>. QED
    BY <1>14, <1>t, <2>3, ShapeRows DEF MarkRecipients, Finish
<1>15. CASE Read(r)
  <2>1. req[r].by \in People /\ req[r].seq \in 0 .. nextSeq
    BY <1>15, AtWork DEF Read, Steps
  <2>2. ReadTo(cursor[req[r].by], req[r].seq) \in Cursors(nextSeq)
    BY <1>t, <2>1, ReadType
  <2>3. cursor' \in [People -> Cursors(nextSeq)] /\ UNCHANGED <<rows, thread, sockets>>
    BY <1>15, <1>t, <2>2 DEF Read
  <2>4. RowsOK' /\ nextSeq' = nextSeq
    BY <1>t, <2>3 DEF RowsOK, rows, thread
  <2>. QED
    BY <1>15, <1>t, <2>4, ShapeRows DEF Read, Finish
<1>16. CASE Refuse(r)
  BY <1>16, ShapeBegin DEF Refuse, Finish
<1>. QED
  BY <1>1, <1>2, <1>3, <1>4, <1>5, <1>6, <1>7, <1>8, <1>9, <1>10, <1>11, <1>12, <1>13, <1>14,
     <1>15, <1>16
  DEF Step

(* The sockets, and the end of the process.                                *)
LEMMA ShapeSocket ==
  ASSUME Sound, Shape, NEW p \in People, Socket(p)
  PROVE  Shape'
<1>t. nextSeq \in Nat /\ RowsOK /\ SocketsOK /\ RequestsOK
  BY ShapeParts DEF RowsOK, Sound
<1>n. None \notin ConnSteps
  BY DEF Sound
<1>r. ASSUME UNCHANGED <<rows, thread, cursor, req>> PROVE RowsOK' /\ RequestsOK'
  BY <1>t, <1>r DEF RowsOK, RequestsOK, rows, thread, Fits
<1>c. ASSUME UNCHANGED <<rows, thread, sockets, req>>, cursor' \in [People -> Cursors(nextSeq)]
      PROVE  Shape'
  <2>1. RowsOK' /\ RequestsOK' /\ SocketsOK'
    BY <1>t, <1>c DEF RowsOK, RequestsOK, SocketsOK, rows, thread, sockets, Fits
  <2>. QED
    BY <2>1, ShapePartsNext
<1>1. CASE Connect(p) \/ JoinOwnRoom(p) \/ ReadConversations(p) \/ EnterRooms(p)
  <2>1. SocketsOK'
    BY <1>1, <1>t, <1>n
    DEF SocketsOK, Connect, JoinOwnRoom, ReadConversations, EnterRooms, ConnSteps
  <2>2. UNCHANGED <<rows, thread, cursor, req>>
    BY <1>1 DEF Connect, JoinOwnRoom, ReadConversations, EnterRooms
  <2>. QED
    BY <1>r, <2>1, <2>2, ShapePartsNext
<1>2. CASE MarkAllDelivered(p)
  <2>1. SocketsOK'
    BY <1>2, <1>t, <1>n DEF SocketsOK, MarkAllDelivered, ConnSteps
  <2>2. cursor' \in [People -> Cursors(nextSeq)]
    BY <1>2, LatestType, RaisedType DEF MarkAllDelivered, Waiting
  <2>3. RowsOK' /\ RequestsOK'
    BY <1>2, <1>t, <2>2 DEF MarkAllDelivered, RowsOK, RequestsOK, rows, thread, Fits
  <2>. QED
    BY <2>1, <2>3, ShapePartsNext
<1>3. CASE Disconnect(p)
  <2>1. SocketsOK'
    BY <1>3, <1>t, <1>n DEF SocketsOK, Disconnect, ConnSteps
  <2>. QED
    BY <1>3, <1>r, <2>1, ShapePartsNext DEF Disconnect
<1>4. ASSUME NEW seq \in 1 .. MaxMessages, MarkDelivered(p, seq) PROVE Shape'
  <2>1. seq \in 0 .. nextSeq
    BY <1>4, <1>t DEF MarkDelivered, Seqs, RowsOK
  <2>2. cursor' \in [People -> Cursors(nextSeq)]
    BY <1>4, <2>1, RaisedType DEF MarkDelivered
  <2>. QED
    BY <1>4, <1>c, <2>2 DEF MarkDelivered
<1>. QED
  BY <1>1, <1>2, <1>3, <1>4 DEF Socket

LEMMA ShapeCrash == ASSUME Sound, Shape, Crash PROVE Shape'
<1>t. RowsOK
  BY ShapeParts
<1>1. RowsOK'
  BY <1>t DEF Crash, RowsOK, rows, thread
<1>2. SocketsOK'
  BY DEF Crash, SocketsOK, Sound
<1>3. RequestsOK'
  BY DEF Crash, RequestsOK
<1>. QED
  BY <1>1, <1>2, <1>3, ShapePartsNext

LEMMA ShapeNext == ASSUME Sound PROVE Shape /\ [Next]_vars => Shape'
<1>. SUFFICES ASSUME Shape, [Next]_vars PROVE Shape'
  OBVIOUS
<1>1. CASE UNCHANGED vars
  <2>1. RowsOK' /\ SocketsOK' /\ RequestsOK'
    BY <1>1, ShapeParts DEF vars, RowsOK, SocketsOK, RequestsOK, Fits
  <2>. QED
    BY <2>1, ShapePartsNext
<1>. QED
  BY <1>1, ShapeStep, ShapeSocket, ShapeCrash DEF Next

(* Every reachable state is well typed; in particular no cursor passes the *)
(* last number handed out, and a socket in a room is registered.           *)
THEOREM MessagingTypeCorrect ==
  ASSUME Sound
  PROVE  Spec => []MessagingTypeOK
<1>1. Shape => MessagingTypeOK
  BY DEF Shape
<1>. QED
  BY <1>1, ShapeInit, ShapeNext, PTL DEF Spec

-----------------------------------------------------------------------------
(* A member who is online is in the room, or on the way: the connection    *)
(* has yet to read the conversations and enter, or a request is about to   *)
(* announce them.                                                          *)
Entering(p) ==
  \/ p \in room
  \/ conn[p] \in {"own", "read", "enter"}
  \/ \E r \in Reqs : At(r, "members") /\ req[r].whom = p
  \/ \E r \in Reqs : At(r, "announce") /\ p \in req[r].to

RoomInv == \A p \in online \cap members : Entering(p)

LEMMA RoomInit == Init => RoomInv
  BY DEF Init, RoomInv

(* A request that announces nobody does not change who is on the way.      *)
LEMMA RoomFrame ==
  ASSUME Shape, RoomInv, NEW r \in Reqs, NEW q, req' = [req EXCEPT ![r] = q],
         ~At(r, "members"), ~At(r, "announce"), UNCHANGED <<room, conn, online>>,
         NEW p \in online \cap members
  PROVE  Entering(p)'
<1>1. \A o \in Reqs \ {r} : req'[o] = req[o]
  BY DEF Shape
<1>2. Entering(p)
  BY DEF RoomInv
<1>3. CASE p \in room \/ conn[p] \in {"own", "read", "enter"}
  BY <1>3 DEF Entering
<1>4. ASSUME NEW o \in Reqs, At(o, "members"), req[o].whom = p PROVE Entering(p)'
  <2>1. req'[o] = req[o]
    BY <1>1, <1>4
  <2>. QED
    BY <1>4, <2>1 DEF Entering, At
<1>5. ASSUME NEW o \in Reqs, At(o, "announce"), p \in req[o].to PROVE Entering(p)'
  <2>1. req'[o] = req[o]
    BY <1>1, <1>5
  <2>. QED
    BY <1>5, <2>1 DEF Entering, At
<1>. QED
  BY <1>2, <1>3, <1>4, <1>5 DEF Entering

LEMMA RoomStep ==
  ASSUME Sound, Shape, RoomInv, NEW r \in Reqs, Step(r)
  PROVE  RoomInv'
<1>t. /\ req \in [Reqs -> Requests \cup {None}] /\ RowsOK /\ SocketsOK
      /\ None \notin Requests
  BY ShapeParts DEF Shape, Sound
<1>f. ASSUME NEW q, req' = [req EXCEPT ![r] = q], ~At(r, "members"), ~At(r, "announce"),
             UNCHANGED <<room, conn, online>>, members' \subseteq members
      PROVE  RoomInv'
  <2>1. \A p \in online \cap members : Entering(p)'
    BY <1>f, RoomFrame
  <2>. QED
    BY <1>f, <2>1 DEF RoomInv
<1>1. ASSUME NEW by \in People, NEW ps \in SUBSET Others(by), LookForThread(r, by, ps)
      PROVE  RoomInv'
  BY <1>1, <1>f DEF LookForThread, Begin, At, rows, sockets
<1>2. ASSUME NEW by \in People, NEW p \in People, ReadForAdd(r, by, p) \/ ReadForRemove(r, by, p)
      PROVE  RoomInv'
  BY <1>2, <1>f DEF ReadForAdd, ReadForRemove, Begin, At, rows, sockets
<1>3. ASSUME NEW by \in People, StartSend(r, by) PROVE RoomInv'
  BY <1>3, <1>f DEF StartSend, Begin, At, rows, sockets
<1>4. ASSUME NEW by \in People, NEW seq \in 1 .. MaxMessages, StartRead(r, by, seq) PROVE RoomInv'
  BY <1>4, <1>f DEF StartRead, Begin, At, rows, sockets
<1>5. CASE Create(r)
  <2>1. req[r] \in Requests
    BY <1>5, AtWork DEF Create, Steps
  <2>2. req'[r] \in Requests /\ req'[r].at = "announce" /\ req'[r].to = req[r].to
    BY <1>5, <1>t, <2>1 DEF Create, Begin, Requests, Steps
  <2>3. members' = req[r].to
    BY <1>5 DEF Create
  <2>4. \A p \in members' : Entering(p)'
    BY <1>t, <2>2, <2>3 DEF Entering, At
  <2>. QED
    BY <2>4 DEF RoomInv
<1>6. CASE Announce(r)
  <2>1. /\ members' = members /\ online' = online /\ conn' = conn
        /\ room' = room \cup (req[r].to \cap own)
        /\ \A o \in Reqs \ {r} : req'[o] = req[o]
    BY <1>6, <1>t DEF Announce, Finish, rows
  <2>2. ASSUME NEW p \in online \cap members PROVE Entering(p)'
    <3>1. Entering(p) /\ p \in People
      BY <1>t DEF RoomInv, RowsOK
    <3>2. conn[p] \in {"own"} \/ p \in own
      BY <1>t, <3>1 DEF SocketsOK
    <3>3. CASE p \in room \/ conn[p] \in {"own", "read", "enter"}
      BY <2>1, <3>3 DEF Entering
    <3>4. CASE \E o \in Reqs : At(o, "members") /\ req[o].whom = p
      <4>1. PICK o \in Reqs : At(o, "members") /\ req[o].whom = p
        BY <3>4
      <4>2. req'[o] = req[o]
        BY <1>6, <2>1, <4>1 DEF Announce, At
      <4>. QED
        BY <4>1, <4>2 DEF Entering, At
    <3>5. CASE \E o \in Reqs : At(o, "announce") /\ p \in req[o].to
      <4>1. PICK o \in Reqs : At(o, "announce") /\ p \in req[o].to
        BY <3>5
      <4>2. CASE o = r
        BY <2>1, <3>2, <4>1, <4>2 DEF Entering
      <4>3. CASE o # r
        <5>1. req'[o] = req[o]
          BY <2>1, <4>3
        <5>. QED
          BY <4>1, <5>1 DEF Entering, At
      <4>. QED
        BY <4>2, <4>3
    <3>. QED
      BY <3>1, <3>3, <3>4, <3>5 DEF Entering
  <2>. QED
    BY <2>1, <2>2 DEF RoomInv
<1>7. CASE Add(r)
  <2>1. req[r] \in Requests
    BY <1>7, AtWork DEF Add, Steps
  <2>2. req'[r] \in Requests /\ req'[r].at = "members" /\ req'[r].whom = req[r].whom
    BY <1>7, <1>t, <2>1 DEF Add, Begin, Requests, Steps
  <2>3. \A p \in {req[r].whom} : Entering(p)'
    BY <1>t, <2>2 DEF Entering, At
  <2>4. \A p \in online \cap members : Entering(p)'
    BY <1>7, RoomFrame DEF Add, Begin, At, sockets
  <2>. QED
    <3>1. members' = members \cup {req[r].whom} /\ online' = online
      BY <1>7 DEF Add, sockets
    <3>2. \A p \in online' \cap members' : Entering(p)'
      BY <2>3, <2>4, <3>1
    <3>. QED
      BY <3>2 DEF RoomInv
<1>8. CASE ReadMembers(r)
  <2>1. req[r] \in Requests
    BY <1>8, AtWork DEF ReadMembers, Steps
  <2>2. req'[r] \in Requests /\ req'[r].at = "announce" /\ req'[r].to = members
    BY <1>8, <1>t, <2>1 DEF ReadMembers, Begin, Requests, Steps, Announced, RowsOK
  <2>3. \A p \in members : Entering(p)'
    BY <1>t, <2>2 DEF Entering, At
  <2>. QED
    BY <1>8, <2>3 DEF RoomInv, ReadMembers, rows
<1>9. CASE Remove(r)
  BY <1>9, <1>f DEF Remove, Begin, At, sockets
<1>10. CASE InsertMessage(r)
  BY <1>10, <1>f DEF InsertMessage, Begin, At, rows, sockets
<1>11. CASE CommitMessage(r)
  BY <1>11, <1>f DEF CommitMessage, Begin, At, rows, sockets
<1>12. CASE ReadRecipients(r)
  BY <1>12, <1>f DEF ReadRecipients, Begin, At, rows, sockets
<1>13. CASE JoinRoom(r)
  <2>1. /\ members' = members /\ online' = online /\ conn' = conn /\ room \subseteq room'
        /\ \A o \in Reqs \ {r} : req'[o] = req[o]
        /\ ~At(r, "members") /\ ~At(r, "announce")
    BY <1>13, <1>t DEF JoinRoom, Begin, rows, At
  <2>2. ASSUME NEW p \in online \cap members PROVE Entering(p)'
    <3>1. Entering(p)
      BY DEF RoomInv
    <3>2. CASE p \in room \/ conn[p] \in {"own", "read", "enter"}
      BY <2>1, <3>2 DEF Entering
    <3>3. ASSUME NEW o \in Reqs, At(o, "members"), req[o].whom = p PROVE Entering(p)'
      <4>1. req'[o] = req[o]
        BY <2>1, <3>3
      <4>. QED
        BY <3>3, <4>1 DEF Entering, At
    <3>4. ASSUME NEW o \in Reqs, At(o, "announce"), p \in req[o].to PROVE Entering(p)'
      <4>1. req'[o] = req[o]
        BY <2>1, <3>4
      <4>. QED
        BY <3>4, <4>1 DEF Entering, At
    <3>. QED
      BY <3>1, <3>2, <3>3, <3>4 DEF Entering
  <2>. QED
    BY <2>1, <2>2 DEF RoomInv
<1>14. CASE MarkRecipients(r)
  BY <1>14, <1>f DEF MarkRecipients, Finish, At, rows, sockets
<1>15. CASE Read(r)
  BY <1>15, <1>f DEF Read, Finish, At, rows, sockets
<1>16. CASE Refuse(r)
  BY <1>16, <1>f DEF Refuse, Finish, At, rows, sockets
<1>. QED
  BY <1>1, <1>2, <1>3, <1>4, <1>5, <1>6, <1>7, <1>8, <1>9, <1>10, <1>11, <1>12, <1>13, <1>14,
     <1>15, <1>16
  DEF Step

LEMMA RoomSocket ==
  ASSUME Sound, Shape, RoomInv, NEW p \in People, Socket(p)
  PROVE  RoomInv'
<1>t. RowsOK /\ SocketsOK
  BY ShapeParts
(* The others' connections are as they were.                               *)
<1>o. ASSUME members' = members, req' = req, NEW x \in online \cap members,
             conn'[x] = conn[x], x \in room => x \in room'
      PROVE  Entering(x)'
  <2>1. Entering(x)
    BY DEF RoomInv
  <2>. QED
    BY <1>o, <2>1 DEF Entering, At
<1>m. \A x \in online \cap members : x \in People
  BY <1>t DEF RowsOK
<1>1. CASE Connect(p)
  <2>1. /\ members' = members /\ req' = req /\ online' = online \cup {p} /\ room' = room
        /\ conn'[p] = "own" /\ \A x \in People \ {p} : conn'[x] = conn[x]
    BY <1>1, <1>t DEF Connect, rows, SocketsOK
  <2>2. Entering(p)'
    BY <2>1 DEF Entering
  <2>3. \A x \in (online \cap members) \ {p} : Entering(x)'
    BY <2>1, <1>o, <1>m
  <2>. QED
    BY <2>1, <2>2, <2>3 DEF RoomInv
<1>2. CASE JoinOwnRoom(p)
  <2>1. /\ members' = members /\ req' = req /\ online' = online /\ room' = room
        /\ conn'[p] = "read" /\ \A x \in People \ {p} : conn'[x] = conn[x]
    BY <1>2, <1>t DEF JoinOwnRoom, rows, SocketsOK
  <2>2. Entering(p)'
    BY <2>1 DEF Entering
  <2>3. \A x \in (online \cap members) \ {p} : Entering(x)'
    BY <2>1, <1>o, <1>m
  <2>. QED
    BY <2>1, <2>2, <2>3 DEF RoomInv
<1>3. CASE ReadConversations(p)
  <2>1. /\ members' = members /\ req' = req /\ online' = online /\ room' = room
        /\ \A x \in People \ {p} : conn'[x] = conn[x]
        /\ p \in members => conn'[p] = "enter"
    BY <1>3, <1>t DEF ReadConversations, rows, SocketsOK
  <2>2. p \in members => Entering(p)'
    BY <2>1 DEF Entering
  <2>3. \A x \in (online \cap members) \ {p} : Entering(x)'
    BY <2>1, <1>o, <1>m
  <2>. QED
    BY <2>1, <2>2, <2>3 DEF RoomInv
<1>4. CASE EnterRooms(p)
  <2>1. /\ members' = members /\ req' = req /\ online' = online /\ room' = room \cup {p}
        /\ \A x \in People \ {p} : conn'[x] = conn[x]
    BY <1>4, <1>t DEF EnterRooms, rows, SocketsOK
  <2>2. Entering(p)'
    BY <2>1 DEF Entering
  <2>3. \A x \in (online \cap members) \ {p} : Entering(x)'
    BY <2>1, <1>o, <1>m
  <2>. QED
    BY <2>1, <2>2, <2>3 DEF RoomInv
<1>5. CASE MarkAllDelivered(p)
  <2>1. /\ members' = members /\ req' = req /\ online' = online /\ room' = room
        /\ conn[p] = "deliver" /\ \A x \in People \ {p} : conn'[x] = conn[x]
    BY <1>5, <1>t DEF MarkAllDelivered, rows, SocketsOK
  <2>2. p \in online \cap members => Entering(p)'
    BY <2>1 DEF Entering, RoomInv, At
  <2>3. \A x \in (online \cap members) \ {p} : Entering(x)'
    BY <2>1, <1>o, <1>m
  <2>. QED
    BY <2>1, <2>2, <2>3 DEF RoomInv
<1>6. CASE Disconnect(p)
  <2>1. /\ members' = members /\ req' = req /\ online' = online \ {p} /\ room' = room \ {p}
        /\ \A x \in People \ {p} : conn'[x] = conn[x]
    BY <1>6, <1>t DEF Disconnect, rows, SocketsOK
  <2>2. \A x \in (online \cap members) \ {p} : Entering(x)'
    BY <2>1, <1>o, <1>m
  <2>. QED
    BY <2>1, <2>2 DEF RoomInv
<1>7. ASSUME NEW seq \in 1 .. MaxMessages, MarkDelivered(p, seq) PROVE RoomInv'
  BY <1>7 DEF MarkDelivered, RoomInv, Entering, At, rows, sockets
<1>. QED
  BY <1>1, <1>2, <1>3, <1>4, <1>5, <1>6, <1>7 DEF Socket

(* Whatever comes first, being entered or connecting, and whoever else is  *)
(* entered, removed or connecting meanwhile: once nothing is at work, each *)
(* member who is online has joined the room of the conversation            *)
(* (handleConnection, dispatchConversation).                               *)
THEOREM MembersAlwaysInRoom ==
  ASSUME Sound
  PROVE  Spec => []MembersAreInRoom
<1>1. Shape /\ RoomInv /\ [Next]_vars => RoomInv'
  <2>. SUFFICES ASSUME Shape, RoomInv, [Next]_vars PROVE RoomInv'
    OBVIOUS
  <2>1. CASE UNCHANGED vars
    BY <2>1 DEF vars, RoomInv, Entering, At
  <2>2. CASE Crash
    BY <2>2 DEF Crash, RoomInv
  <2>. QED
    BY <2>1, <2>2, RoomStep, RoomSocket DEF Next
<1>2. Shape /\ RoomInv => MembersAreInRoom
  <2>. SUFFICES ASSUME Shape, RoomInv, Quiet, NEW p \in online \cap members PROVE p \in room
    BY DEF MembersAreInRoom
  <2>1. p \in People /\ conn[p] \in {None, "up"} /\ conn[p] # None
    BY DEF Shape, MessagingTypeOK, Quiet
  <2>2. \A r \in Reqs : ~At(r, "members") /\ ~At(r, "announce")
    BY DEF Quiet, At
  <2>. QED
    BY <2>1, <2>2 DEF RoomInv, Entering
<1>. QED
  BY <1>1, <1>2, RoomInit, ShapeInit, ShapeNext, PTL DEF Spec

-----------------------------------------------------------------------------
(* One message is sent at a time.  Then the number of the message about to *)
(* be committed is the highest, a cursor and a receipt under way stand at  *)
(* a message there is, and each message that a member who is online has    *)
(* not had yet is on its way: the connection will catch up with it, or the *)
(* send will mark it.                                                      *)
Sends == {"insert", "commit", "recipients", "join", "mark"}
InSend(q) == q # None /\ q.at \in Sends
OneSender == \A r, o \in Reqs : InSend(req[r]) /\ InSend(req[o]) => r = o

Above(q, ms) == q # None /\ q.at = "commit" => \A m \in ms : m.seq < q.seq
Points(q, seqs) == q # None /\ q.at \in {"recipients", "join", "mark", "read"} => q.seq \in seqs

Catching == {"own", "read", "enter", "deliver"}
Waits(q, m, p) ==
  /\ q # None /\ q.seq = m.seq
  /\ \/ q.at = "recipients" /\ p # q.by
     \/ q.at \in {"join", "mark"} /\ p \in q.to
Hears(m, p) ==
  \/ cursor[p].delivered >= m.seq
  \/ conn[p] \in Catching
  \/ \E r \in Reqs : Waits(req[r], m, p)

Fresh == \A r \in Reqs : Above(req[r], messages)
Pointed == \A r \in Reqs : Points(req[r], Seqs)
Placed == \A p \in People : cursor[p].read \in Seqs \cup {0} /\ cursor[p].delivered \in Seqs \cup {0}
Heard == \A p \in online \cap members, m \in messages : m.seq > since[p] => Hears(m, p)

SendInv == OneSender /\ Fresh /\ Pointed /\ Placed /\ Heard /\ OwnIsRead

LEMMA SendInit == Init => SendInv
  BY DEF Init, SendInv, OneSender, InSend, Fresh, Above, Pointed, Points, Placed, Seqs, AtStart,
         Heard, OwnIsRead

(* A step after which r's request is q loses nobody: who is waiting for a  *)
(* message has it now, or it is on its way to them by q, or they were      *)
(* waiting for it before and not by r's request.                           *)
LosesNone(r, q) ==
  \A p \in online' \cap members', m \in messages' :
    m.seq > since'[p] =>
      \/ cursor'[p].delivered >= m.seq
      \/ Waits(q, m, p)
      \/ /\ p \in online \cap members /\ m \in messages /\ m.seq > since[p]
         /\ cursor'[p].delivered >= cursor[p].delivered
         /\ conn'[p] = conn[p] /\ ~Waits(req[r], m, p)

(* What is left to show of a request's step.                               *)
LEMMA SendFrame ==
  ASSUME Shape, Shape', SendInv, NEW r \in Reqs, NEW q, req' = [req EXCEPT ![r] = q],
         InSend(q) => InSend(req[r]) \/ \A o \in Reqs : ~InSend(req[o]),
         messages' = messages \/ (messages \subseteq messages' /\ InSend(req[r])),
         Above(q, messages'), Points(q, Seqs'), Placed', OwnIsRead', LosesNone(r, q)
  PROVE  SendInv'
<1>1. req'[r] = q /\ \A o \in Reqs \ {r} : req'[o] = req[o]
  BY DEF Shape
<1>2. OneSender'
  <2>. SUFFICES ASSUME NEW a \in Reqs, NEW b \in Reqs, InSend(req'[a]), InSend(req'[b])
                PROVE  a = b
    BY DEF OneSender, InSend
  <2>1. \A o \in Reqs \ {r} : InSend(req'[o]) => InSend(req[o])
    BY <1>1
  <2>2. InSend(req'[r]) => InSend(req[r]) \/ \A o \in Reqs : ~InSend(req[o])
    BY <1>1
  <2>. QED
    BY <2>1, <2>2 DEF SendInv, OneSender
<1>3. Fresh'
  <2>. SUFFICES ASSUME NEW o \in Reqs PROVE Above(req'[o], messages')
    BY DEF Fresh, Above
  <2>1. CASE o = r
    BY <1>1, <2>1
  <2>2. CASE o # r
    <3>1. req'[o] = req[o] /\ Above(req[o], messages)
      BY <1>1, <2>2 DEF SendInv, Fresh
    <3>2. CASE messages' = messages
      BY <3>1, <3>2
    <3>3. CASE InSend(req[r])
      <4>1. ~InSend(req[o])
        BY <2>2, <3>3 DEF SendInv, OneSender
      <4>. QED
        BY <3>1, <4>1 DEF InSend, Above, Sends
    <3>. QED
      BY <3>2, <3>3
  <2>. QED
    BY <2>1, <2>2
<1>4. Seqs \subseteq Seqs'
  BY DEF Seqs
<1>5. Pointed'
  <2>. SUFFICES ASSUME NEW o \in Reqs PROVE Points(req'[o], Seqs')
    BY DEF Pointed, Points
  <2>1. CASE o = r
    BY <1>1, <2>1
  <2>2. CASE o # r
    BY <1>1, <1>4, <2>2 DEF SendInv, Pointed, Points
  <2>. QED
    BY <2>1, <2>2
<1>6. Heard'
  <2>. SUFFICES ASSUME NEW p \in online' \cap members', NEW m \in messages', m.seq > since'[p]
                PROVE  \/ cursor'[p].delivered >= m.seq
                       \/ conn'[p] \in Catching
                       \/ \E o \in Reqs : Waits(req'[o], m, p)
    BY DEF Heard, Hears, Waits
  <2>1. CASE Waits(q, m, p)
    BY <1>1, <2>1
  <2>2. CASE /\ p \in online \cap members /\ m \in messages /\ m.seq > since[p]
             /\ cursor'[p].delivered >= cursor[p].delivered
             /\ conn'[p] = conn[p] /\ ~Waits(req[r], m, p)
    <3>1. Hears(m, p)
      BY <2>2 DEF SendInv, Heard
    <3>2. CASE cursor[p].delivered >= m.seq
      <4>1. p \in People
        BY <2>2 DEF Shape, MessagingTypeOK
      <4>2. cursor[p].delivered \in Nat /\ m.seq \in Nat
        BY <2>2, <4>1 DEF Shape, MessagingTypeOK
      <4>3. cursor'[p].delivered \in Nat
        BY <4>1 DEF Shape, MessagingTypeOK
      <4>. QED
        BY <2>2, <3>2, <4>2, <4>3
    <3>3. ASSUME NEW o \in Reqs, Waits(req[o], m, p) PROVE Waits(req'[o], m, p)
      BY <1>1, <2>2, <3>3
    <3>. QED
      BY <2>2, <3>1, <3>2, <3>3 DEF Hears
  <2>. QED
    BY <2>1, <2>2 DEF LosesNone
<1>. QED
  BY <1>2, <1>3, <1>5, <1>6 DEF SendInv

(* A step that marks nothing and commits nothing, of a request that has no *)
(* marks to make: who is a member afterwards was one before, or has been   *)
(* entered after everything there is.                                      *)
LEMMA SendQuiet ==
  ASSUME Shape, Shape', SendInv, NEW r \in Reqs, NEW q, req' = [req EXCEPT ![r] = q],
         InSend(q) => InSend(req[r]) \/ \A o \in Reqs : ~InSend(req[o]),
         req[r] = None \/ req[r].at \notin {"recipients", "join", "mark"},
         messages' = messages, online' = online, conn' = conn,
         Above(q, messages), Points(q, Seqs), Placed',
         \A p \in members' : /\ cursor'[p] = cursor[p]
                             /\ (p \in members /\ since'[p] = since[p]) \/ since'[p] >= nextSeq
  PROVE  SendInv'
<1>t. nextSeq \in Nat /\ \A m \in messages : m.seq \in 1 .. nextSeq
  BY DEF Shape, MessagingTypeOK
<1>n. \A p \in members' : p \in People /\ since'[p] \in Nat /\ cursor[p].delivered \in Nat
  BY DEF Shape, MessagingTypeOK
<1>1. ASSUME NEW p \in members', NEW m \in messages, m.seq > since'[p]
      PROVE  p \in members /\ m.seq > since[p]
  BY <1>1, <1>t, <1>n
<1>2. OwnIsRead'
  <2>. SUFFICES ASSUME NEW m \in messages', m.from \in members', m.seq > since'[m.from]
                PROVE  cursor'[m.from].read >= m.seq
    BY DEF OwnIsRead
  <2>. QED
    BY <1>1 DEF SendInv, OwnIsRead
<1>3. ASSUME NEW p \in online' \cap members', NEW m \in messages', m.seq > since'[p]
      PROVE  /\ p \in online \cap members /\ m \in messages /\ m.seq > since[p]
             /\ cursor'[p].delivered >= cursor[p].delivered
             /\ conn'[p] = conn[p] /\ ~Waits(req[r], m, p)
  BY <1>1, <1>3, <1>n DEF Waits
<1>4. Above(q, messages') /\ Points(q, Seqs')
  BY DEF Seqs
<1>5. LosesNone(r, q)
  BY <1>3 DEF LosesNone
<1>. QED
  BY <1>2, <1>4, <1>5, SendFrame

(* A message is inserted only while no other is being sent.                *)
LEMMA NoneSending ==
  ASSUME Sound, MaxSends = 1, Cardinality(Sending) < MaxSends
  PROVE  \A o \in Reqs : ~InSend(req[o])
<1>1. IsFiniteSet(Sending)
  BY FS_Subset DEF Sound, Sending
<1>2. Cardinality(Sending) \in Nat
  BY <1>1, FS_CardinalityType
<1>3. Sending = {}
  BY <1>1, <1>2, FS_EmptySet
<1>. QED
  BY <1>3 DEF Sending, InSend, Sends, At

(* The requests that neither commit nor mark.                              *)
LEMMA SendBegins ==
  ASSUME Sound, MaxSends = 1, Shape, Shape', SendInv, NEW r \in Reqs,
         \/ \E by \in People : \/ \E ps \in SUBSET Others(by) : LookForThread(r, by, ps)
                               \/ \E p \in People : ReadForAdd(r, by, p) \/ ReadForRemove(r, by, p)
                               \/ StartSend(r, by)
                               \/ \E seq \in 1 .. MaxMessages : StartRead(r, by, seq)
         \/ Announce(r) \/ ReadMembers(r) \/ InsertMessage(r) \/ Refuse(r)
  PROVE  SendInv'
<1>t. nextSeq \in Nat /\ \A m \in messages : m.seq \in 1 .. nextSeq
  BY DEF Shape, MessagingTypeOK
<1>p. SendInv /\ Placed
  BY DEF SendInv
<1>q. ASSUME NEW q, req' = [req EXCEPT ![r] = q], ~InSend(q), q = None \/ q.at # "read",
             req[r] = None \/ req[r].at \notin {"recipients", "join", "mark"},
             UNCHANGED <<rows, thread, cursor, online, conn>>
      PROVE  SendInv'
  <2>1. Above(q, messages) /\ Points(q, Seqs)
    BY <1>q DEF InSend, Above, Points, Sends
  <2>2. Placed' /\ messages' = messages /\ cursor' = cursor /\ members' = members /\ since' = since
    BY <1>q, <1>p DEF Placed, Seqs, rows, thread
  <2>3. \A p \in members' : /\ cursor'[p] = cursor[p]
                            /\ (p \in members /\ since'[p] = since[p]) \/ since'[p] >= nextSeq
    BY <2>2
  <2>. QED
    BY <1>q, <2>1, <2>2, <2>3, SendQuiet
<1>1. ASSUME NEW by \in People, NEW ps \in SUBSET Others(by), LookForThread(r, by, ps)
      PROVE  SendInv'
  <2>. DEFINE w == [Request(by) EXCEPT !.to = Named(ps, by)]
             q == [w EXCEPT !.at = "create"]
  <2>1. q.at = "create"
    BY DEF Request
  <2>2. ~InSend(q)
    BY <2>1 DEF InSend, Sends
  <2>3. /\ req' = [req EXCEPT ![r] = q] /\ req[r] = None
        /\ UNCHANGED <<rows, thread, cursor, online, conn>>
    BY <1>1 DEF LookForThread, Begin, sockets
  <2>. HIDE DEF q
  <2>. QED
    BY <1>q, <2>1, <2>2, <2>3
<1>2. ASSUME NEW by \in People, NEW p \in People, ReadForAdd(r, by, p) \/ ReadForRemove(r, by, p)
      PROVE  SendInv'
  <2>1. PICK step \in {"add", "remove"} :
          /\ req' = [req EXCEPT ![r] = [[Request(by) EXCEPT !.whom = p] EXCEPT !.at = step]]
          /\ req[r] = None /\ UNCHANGED <<rows, thread, cursor, online, conn>>
    BY <1>2 DEF ReadForAdd, ReadForRemove, Begin, sockets
  <2>. DEFINE q == [[Request(by) EXCEPT !.whom = p] EXCEPT !.at = step]
  <2>2. q.at = step
    BY DEF Request
  <2>3. ~InSend(q) /\ q.at # "read"
    BY <2>2 DEF InSend, Sends
  <2>4. req' = [req EXCEPT ![r] = q]
    BY <2>1
  <2>. HIDE DEF q
  <2>. QED
    BY <1>q, <2>1, <2>3, <2>4
<1>3. ASSUME NEW by \in People, StartSend(r, by) PROVE SendInv'
  <2>. DEFINE q == [Request(by) EXCEPT !.at = "insert"]
  <2>1. q.at = "insert"
    BY DEF Request
  <2>2. \A o \in Reqs : ~InSend(req[o])
    BY <1>3, NoneSending DEF StartSend
  <2>3. Above(q, messages) /\ Points(q, Seqs)
    BY <2>1 DEF Above, Points
  <2>4. /\ req' = [req EXCEPT ![r] = q] /\ req[r] = None
        /\ messages' = messages /\ online' = online /\ conn' = conn
        /\ cursor' = cursor /\ members' = members /\ since' = since
    BY <1>3 DEF StartSend, Begin, sockets, rows, thread
  <2>5. Placed'
    BY <1>p, <2>4 DEF Placed, Seqs
  <2>. HIDE DEF q
  <2>. QED
    BY <2>2, <2>3, <2>4, <2>5, SendQuiet
<1>4. ASSUME NEW by \in People, NEW seq \in 1 .. MaxMessages, StartRead(r, by, seq) PROVE SendInv'
  <2>. DEFINE w == [Request(by) EXCEPT !.seq = seq]
             q == [w EXCEPT !.at = "read"]
  <2>1. q.at = "read" /\ q.seq = seq /\ seq \in Seqs
    BY <1>4 DEF Request, StartRead
  <2>2. ~InSend(q)
    BY <2>1 DEF InSend, Sends
  <2>3. Above(q, messages) /\ Points(q, Seqs)
    BY <2>1 DEF Above, Points
  <2>4. /\ req' = [req EXCEPT ![r] = q] /\ req[r] = None
        /\ messages' = messages /\ online' = online /\ conn' = conn
        /\ cursor' = cursor /\ members' = members /\ since' = since
    BY <1>4 DEF StartRead, Begin, sockets, rows, thread
  <2>5. Placed'
    BY <1>p, <2>4 DEF Placed, Seqs
  <2>. HIDE DEF q
  <2>. QED
    BY <2>2, <2>3, <2>4, <2>5, SendQuiet
<1>5. CASE Announce(r)
  <2>1. /\ req' = [req EXCEPT ![r] = None] /\ req[r].at = "announce"
        /\ UNCHANGED <<rows, thread, cursor, online, conn>>
    BY <1>5 DEF Announce, Finish, At
  <2>2. ~InSend(None)
    BY DEF InSend
  <2>. QED
    BY <1>q, <2>1, <2>2
<1>6. CASE ReadMembers(r)
  <2>. DEFINE w == [req[r] EXCEPT !.to = Announced(r)]
             q == [w EXCEPT !.at = "announce"]
  <2>1. req[r] \in Requests /\ req[r].at = "members"
    BY <1>6, AtWork DEF ReadMembers, Steps, At
  <2>2. q.at = "announce"
    BY <2>1 DEF Requests
  <2>3. ~InSend(q)
    BY <2>2 DEF InSend, Sends
  <2>4. req' = [req EXCEPT ![r] = q] /\ UNCHANGED <<rows, thread, cursor, online, conn>>
    BY <1>6 DEF ReadMembers, Begin, sockets
  <2>. HIDE DEF q
  <2>. QED
    BY <1>q, <2>1, <2>2, <2>3, <2>4
<1>7. CASE InsertMessage(r)
  <2>. DEFINE w == [req[r] EXCEPT !.seq = nextSeq']
             q == [w EXCEPT !.at = "commit"]
  <2>1. req[r] \in Requests /\ req[r].at = "insert" /\ req[r] # None
    BY <1>7, AtWork DEF InsertMessage, Steps, At
  <2>2. nextSeq' = nextSeq + 1
    BY <1>7 DEF InsertMessage
  <2>3. q.at = "commit" /\ q.seq = nextSeq'
    BY <2>1 DEF Requests
  <2>4. Above(q, messages) /\ Points(q, Seqs) /\ InSend(req[r])
    BY <1>t, <2>1, <2>2, <2>3 DEF Above, Points, InSend, Sends
  <2>5. /\ messages' = messages /\ online' = online /\ conn' = conn
        /\ cursor' = cursor /\ members' = members /\ since' = since
    BY <1>7 DEF InsertMessage, sockets, rows
  <2>6. Placed'
    BY <1>p, <2>5 DEF Placed, Seqs
  <2>7. req' = [req EXCEPT ![r] = q]
    BY <1>7 DEF InsertMessage, Begin
  <2>. HIDE DEF q
  <2>. QED
    BY <2>1, <2>4, <2>5, <2>6, <2>7, SendQuiet
<1>8. CASE Refuse(r)
  <2>1. /\ req' = [req EXCEPT ![r] = None]
        /\ req[r].at \in {"create", "add", "remove", "insert", "commit", "read"}
        /\ UNCHANGED <<rows, thread, cursor, online, conn>>
    BY <1>8 DEF Refuse, Finish, At, sockets
  <2>2. ~InSend(None)
    BY DEF InSend
  <2>. QED
    BY <1>q, <2>1, <2>2
<1>. QED
  BY <1>1, <1>2, <1>3, <1>4, <1>5, <1>6, <1>7, <1>8

(* Who is entered hears from then on; who leaves hears nothing more.       *)
LEMMA SendRows ==
  ASSUME Sound, Shape, Shape', SendInv, NEW r \in Reqs, Create(r) \/ Add(r) \/ Remove(r)
  PROVE  SendInv'
<1>t. nextSeq \in Nat /\ since \in [People -> 0 .. nextSeq] /\ cursor \in [People -> Cursors(nextSeq)]
  BY DEF Shape, MessagingTypeOK, Cursors
<1>p. Placed
  BY DEF SendInv
<1>q. ASSUME NEW q, req' = [req EXCEPT ![r] = q], ~InSend(q), q.at # "read",
             req[r].at \notin {"recipients", "join", "mark"},
             UNCHANGED <<thread, online, conn>>, Placed',
             \A p \in members' : /\ cursor'[p] = cursor[p]
                                 /\ (p \in members /\ since'[p] = since[p]) \/ since'[p] >= nextSeq
      PROVE  SendInv'
  <2>1. Above(q, messages) /\ Points(q, Seqs)
    BY <1>q DEF InSend, Above, Points, Sends
  <2>2. messages' = messages /\ online' = online /\ conn' = conn
    BY <1>q DEF thread
  <2>. QED
    BY <1>q, <2>1, <2>2, SendQuiet
<1>1. CASE Create(r)
  <2>. DEFINE q == [req[r] EXCEPT !.at = "announce"]
  <2>1. req[r] \in Requests /\ req[r].at = "create" /\ req[r].to \subseteq People
    BY <1>1, AtWork DEF Create, Steps, At
  <2>2. q.at = "announce"
    BY <2>1 DEF Requests
  <2>3. ~InSend(q)
    BY <2>2 DEF InSend, Sends
  <2>4. /\ req' = [req EXCEPT ![r] = q] /\ UNCHANGED <<thread, online, conn>> /\ cursor' = cursor
        /\ members' = req[r].to
    BY <1>1 DEF Create, Begin, sockets
  <2>5. Placed'
    BY <1>p, <2>4 DEF Placed, Seqs, thread
  <2>6. \A p \in members' : since'[p] = nextSeq
    BY <1>1, <2>1, <2>4 DEF Create
  <2>7. \A p \in members' : /\ cursor'[p] = cursor[p] /\ since'[p] >= nextSeq
    BY <1>t, <2>4, <2>6
  <2>. HIDE DEF q
  <2>. QED
    BY <1>q, <2>1, <2>2, <2>3, <2>4, <2>5, <2>7
<1>2. CASE Add(r)
  <2>. DEFINE q == [req[r] EXCEPT !.at = "members"]
  <2>1. /\ req[r] \in Requests /\ req[r].at = "add" /\ req[r].whom \in People
    BY <1>2, AtWork DEF Add, Steps, At, Fits
  <2>2. q.at = "members"
    BY <2>1 DEF Requests
  <2>3. ~InSend(q)
    BY <2>2 DEF InSend, Sends
  <2>4. /\ req' = [req EXCEPT ![r] = q] /\ UNCHANGED <<thread, online, conn>> /\ cursor' = cursor
        /\ members' = members \cup {req[r].whom}
        /\ since' = IF req[r].whom \in members THEN since ELSE [since EXCEPT ![req[r].whom] = nextSeq]
    BY <1>2 DEF Add, Begin, sockets
  <2>5. Placed'
    BY <1>p, <2>4 DEF Placed, Seqs, thread
  <2>6. members \subseteq People
    BY DEF Shape, MessagingTypeOK
  <2>7. ASSUME NEW p \in members'
        PROVE  (p \in members /\ since'[p] = since[p]) \/ since'[p] >= nextSeq
    BY <1>t, <2>1, <2>4, <2>6, <2>7
  <2>8. \A p \in members' : /\ cursor'[p] = cursor[p]
                            /\ (p \in members /\ since'[p] = since[p]) \/ since'[p] >= nextSeq
    BY <2>4, <2>7
  <2>. HIDE DEF q
  <2>. QED
    BY <1>q, <2>1, <2>2, <2>3, <2>4, <2>5, <2>8
<1>3. CASE Remove(r)
  <2>. DEFINE q == [req[r] EXCEPT !.at = "members"]
  <2>1. req[r] \in Requests /\ req[r].at = "remove" /\ req[r].whom \in People
    BY <1>3, AtWork DEF Remove, Steps, At, Fits
  <2>2. q.at = "members"
    BY <2>1 DEF Requests
  <2>3. ~InSend(q)
    BY <2>2 DEF InSend, Sends
  <2>4. /\ req' = [req EXCEPT ![r] = q] /\ UNCHANGED <<thread, online, conn>>
        /\ members' = members \ {req[r].whom}
        /\ cursor' = [cursor EXCEPT ![req[r].whom] = AtStart]
        /\ since' = [since EXCEPT ![req[r].whom] = 0]
    BY <1>3 DEF Remove, Begin, sockets
  <2>5. Placed'
    BY <1>t, <1>p, <2>1, <2>4 DEF Placed, Seqs, thread, AtStart
  <2>6. members \subseteq People
    BY DEF Shape, MessagingTypeOK
  <2>7. \A p \in members' : /\ cursor'[p] = cursor[p] /\ p \in members /\ since'[p] = since[p]
    BY <1>t, <2>4, <2>6
  <2>. HIDE DEF q
  <2>. QED
    BY <1>q, <2>1, <2>2, <2>3, <2>4, <2>5, <2>7
<1>. QED
  BY <1>1, <1>2, <1>3

(* The steps of a send after its number is taken, and a read.              *)
LEMMA SendMarks ==
  ASSUME Sound, Shape, Shape', SendInv, NEW r \in Reqs,
         ReadRecipients(r) \/ JoinRoom(r) \/ MarkRecipients(r) \/ Read(r)
  PROVE  SendInv'
<1>t. /\ nextSeq \in Nat /\ since \in [People -> 0 .. nextSeq] /\ members \subseteq People
      /\ cursor \in [People -> Cursors(nextSeq)]
      /\ \A p \in People : cursor[p].read \in Nat /\ cursor[p].delivered \in Nat
      /\ \A m \in messages : m.seq \in Nat /\ m.from \in People
  BY DEF Shape, MessagingTypeOK, Cursors
<1>p. Placed /\ OwnIsRead /\ Pointed
  BY DEF SendInv
<1>c. ASSUME NEW q, req' = [req EXCEPT ![r] = q], InSend(q) => InSend(req[r]),
             q = None \/ q.at # "commit", Points(q, Seqs),
             UNCHANGED <<rows, thread, online, conn>>, Placed',
             \A p \in People : /\ cursor'[p].read \in Nat /\ cursor'[p].read >= cursor[p].read
                               /\ cursor'[p].delivered >= cursor[p].delivered,
             \A p \in online \cap members, m \in messages : Waits(req[r], m, p) =>
               cursor'[p].delivered >= m.seq \/ Waits(q, m, p)
      PROVE  SendInv'
  <2>1. /\ messages' = messages /\ online' = online /\ conn' = conn
        /\ members' = members /\ since' = since
    BY <1>c DEF rows, thread
  <2>2. Above(q, messages') /\ Points(q, Seqs')
    BY <1>c, <2>1 DEF Above, Seqs
  <2>3. OwnIsRead'
    <3>. SUFFICES ASSUME NEW m \in messages', m.from \in members', m.seq > since'[m.from]
                  PROVE  cursor'[m.from].read >= m.seq
      BY DEF OwnIsRead
    <3>1. cursor[m.from].read >= m.seq /\ m.from \in People /\ m \in messages
      BY <1>t, <1>p, <2>1 DEF OwnIsRead
    <3>2. /\ cursor'[m.from].read \in Nat /\ cursor'[m.from].read >= cursor[m.from].read
          /\ cursor[m.from].read \in Nat /\ m.seq \in Nat
      BY <1>c, <1>t, <3>1
    <3>. QED
      BY <3>1, <3>2
  <2>4. ASSUME NEW p \in online' \cap members', NEW m \in messages', m.seq > since'[p]
        PROVE  \/ cursor'[p].delivered >= m.seq
               \/ Waits(q, m, p)
               \/ /\ p \in online \cap members /\ m \in messages /\ m.seq > since[p]
                  /\ cursor'[p].delivered >= cursor[p].delivered
                  /\ conn'[p] = conn[p] /\ ~Waits(req[r], m, p)
    BY <1>c, <1>t, <2>1, <2>4
  <2>5. LosesNone(r, q)
    BY <2>4 DEF LosesNone
  <2>6. InSend(q) => InSend(req[r]) \/ \A o \in Reqs : ~InSend(req[o])
    BY <1>c
  <2>. QED
    BY <1>c, <2>1, <2>2, <2>3, <2>5, <2>6, SendFrame
<1>1. CASE ReadRecipients(r)
  <2>. DEFINE w == [req[r] EXCEPT !.to = members \ {req[r].by}]
             q == [w EXCEPT !.at = "join"]
  <2>1. req[r] \in Requests /\ req[r].at = "recipients" /\ req[r] # None
    BY <1>1, AtWork DEF ReadRecipients, Steps, At
  <2>2. q.at = "join" /\ q.seq = req[r].seq /\ q.to = members \ {req[r].by} /\ q \in Requests
    BY <1>t, <2>1 DEF Requests, Steps
  <2>3. InSend(req[r]) /\ Points(q, Seqs) /\ q # None
    BY <1>p, <2>1, <2>2 DEF InSend, Points, Pointed, Sends, Sound
  <2>4. req' = [req EXCEPT ![r] = q] /\ UNCHANGED <<rows, thread, online, conn>> /\ cursor' = cursor
    BY <1>1 DEF ReadRecipients, Begin, sockets
  <2>5. Placed'
    BY <1>p, <2>4 DEF Placed, Seqs, thread
  <2>6. ASSUME NEW p \in online \cap members, NEW m \in messages, Waits(req[r], m, p)
        PROVE  Waits(q, m, p)
    BY <2>1, <2>2, <2>3, <2>6 DEF Waits
  <2>7. \A p \in People : /\ cursor'[p].read \in Nat /\ cursor'[p].read >= cursor[p].read
                          /\ cursor'[p].delivered >= cursor[p].delivered
    BY <1>t, <2>4
  <2>. HIDE DEF q
  <2>. QED
    BY <1>c, <2>2, <2>3, <2>4, <2>5, <2>6, <2>7
<1>2. CASE JoinRoom(r)
  <2>. DEFINE w == [req[r] EXCEPT !.to = @ \cap online]
             q == [w EXCEPT !.at = "mark"]
  <2>1. req[r] \in Requests /\ req[r].at = "join" /\ req[r] # None
    BY <1>2, AtWork DEF JoinRoom, Steps, At
  <2>2. q.at = "mark" /\ q.seq = req[r].seq /\ q.to = req[r].to \cap online /\ q \in Requests
    BY <1>t, <2>1 DEF Requests, Steps
  <2>3. InSend(req[r]) /\ Points(q, Seqs) /\ q # None
    BY <1>p, <2>1, <2>2 DEF InSend, Points, Pointed, Sends, Sound
  <2>4. req' = [req EXCEPT ![r] = q] /\ UNCHANGED <<rows, thread, online, conn>> /\ cursor' = cursor
    BY <1>2 DEF JoinRoom, Begin
  <2>5. Placed'
    BY <1>p, <2>4 DEF Placed, Seqs, thread
  <2>6. ASSUME NEW p \in online \cap members, NEW m \in messages, Waits(req[r], m, p)
        PROVE  Waits(q, m, p)
    BY <2>1, <2>2, <2>3, <2>6 DEF Waits
  <2>7. \A p \in People : /\ cursor'[p].read \in Nat /\ cursor'[p].read >= cursor[p].read
                          /\ cursor'[p].delivered >= cursor[p].delivered
    BY <1>t, <2>4
  <2>. HIDE DEF q
  <2>. QED
    BY <1>c, <2>2, <2>3, <2>4, <2>5, <2>6, <2>7
<1>3. CASE MarkRecipients(r)
  <2>1. /\ req[r].to \in SUBSET People /\ req[r].seq \in 0 .. nextSeq /\ req[r] \in Requests
        /\ req[r].at = "mark" /\ req[r] # None
    BY <1>3, AtWork DEF MarkRecipients, Steps, At
  <2>2. cursor' = Raised(req[r].to, req[r].seq) /\ req' = [req EXCEPT ![r] = None]
        /\ UNCHANGED <<rows, thread, online, conn>>
    BY <1>3 DEF MarkRecipients, Finish, sockets
  <2>3. \A p \in People : /\ cursor'[p].read = cursor[p].read
                          /\ cursor'[p].delivered >= cursor[p].delivered
                          /\ cursor'[p].delivered \in {cursor[p].delivered, req[r].seq}
                          /\ p \in req[r].to \cap members => cursor'[p].delivered >= req[r].seq
    BY <2>1, <2>2, RaisedType
  <2>4. req[r].seq \in Seqs
    BY <1>p, <2>1 DEF Pointed, Points
  <2>5. Seqs' = Seqs
    BY <2>2 DEF Seqs, thread
  <2>6. Placed'
    BY <1>p, <2>3, <2>4, <2>5 DEF Placed
  <2>7. ASSUME NEW p \in online \cap members, NEW m \in messages, Waits(req[r], m, p)
        PROVE  cursor'[p].delivered >= m.seq
    BY <1>t, <2>1, <2>3, <2>7 DEF Waits
  <2>8. \A p \in People : cursor'[p].read \in Nat /\ cursor'[p].read >= cursor[p].read
    BY <1>t, <2>3
  <2>9. ~InSend(None) /\ Points(None, Seqs)
    BY DEF InSend, Points
  <2>. QED
    BY <1>c, <2>2, <2>3, <2>6, <2>7, <2>8, <2>9
<1>4. CASE Read(r)
  <2>1. req[r].by \in People /\ req[r].seq \in 0 .. nextSeq /\ req[r].at = "read" /\ req[r] # None
    BY <1>4, AtWork DEF Read, Steps, At
  <2>2. /\ req' = [req EXCEPT ![r] = None] /\ UNCHANGED <<rows, thread, online, conn>>
        /\ cursor' = IF req[r].by \in members
                     THEN [cursor EXCEPT ![req[r].by] = ReadTo(@, req[r].seq)] ELSE cursor
    BY <1>4 DEF Read, Finish, sockets
  <2>. DEFINE c == ReadTo(cursor[req[r].by], req[r].seq)
  <2>3. /\ c.read \in {cursor[req[r].by].read, req[r].seq} /\ c.read >= cursor[req[r].by].read
        /\ c.delivered \in {cursor[req[r].by].delivered, req[r].seq}
        /\ c.delivered >= cursor[req[r].by].delivered
    BY <1>t, <2>1, ReadType
  <2>. HIDE DEF c
  <2>4. \A p \in People \ {req[r].by} : cursor'[p] = cursor[p]
    BY <1>t, <2>2
  <2>5. cursor'[req[r].by] \in {c, cursor[req[r].by]}
    BY <1>t, <2>1, <2>2 DEF c
  <2>6. req[r].seq \in Seqs
    BY <1>p, <2>1 DEF Pointed, Points
  <2>7. Seqs' = Seqs
    BY <2>2 DEF Seqs, thread
  <2>8. Placed'
    <3>. SUFFICES ASSUME NEW p \in People
                  PROVE  cursor'[p].read \in Seqs \cup {0} /\ cursor'[p].delivered \in Seqs \cup {0}
      BY <2>7 DEF Placed
    <3>. QED
      BY <1>p, <2>3, <2>4, <2>5, <2>6 DEF Placed
  <2>9. ASSUME NEW p \in People
        PROVE  /\ cursor'[p].read \in Nat /\ cursor'[p].read >= cursor[p].read
               /\ cursor'[p].delivered >= cursor[p].delivered
    BY <1>t, <2>1, <2>3, <2>4, <2>5
  <2>10. /\ ~InSend(None) /\ Points(None, Seqs)
         /\ \A m \in messages, p \in members : ~Waits(req[r], m, p)
    BY <2>1 DEF InSend, Points, Waits
  <2>. QED
    BY <1>c, <2>2, <2>8, <2>9, <2>10
<1>. QED
  BY <1>1, <1>2, <1>3, <1>4

(* The message appears with the highest number there is: its sender has    *)
(* it, and everyone else waits for it.                                     *)
LEMMA SendCommit ==
  ASSUME Sound, Shape, Shape', SendInv, NEW r \in Reqs, CommitMessage(r)
  PROVE  /\ SendInv'
         /\ \A p \in members : /\ cursor'[p].read >= cursor[p].read
                               /\ cursor'[p].delivered >= cursor[p].delivered
<1>. DEFINE q == [req[r] EXCEPT !.at = "recipients"]
            by == req[r].by
            seq == req[r].seq
<1>t. /\ nextSeq \in Nat /\ since \in [People -> 0 .. nextSeq] /\ members \subseteq People
      /\ cursor \in [People -> Cursors(nextSeq)]
      /\ \A p \in People : cursor[p].read \in Nat /\ cursor[p].delivered \in Nat
      /\ \A m \in messages : m.seq \in Nat /\ m.from \in People
  BY DEF Shape, MessagingTypeOK, Cursors
<1>p. Placed /\ OwnIsRead /\ Fresh
  BY DEF SendInv
<1>1. /\ req[r] \in Requests /\ req[r].at = "commit" /\ req[r] # None
      /\ by \in People /\ seq \in Nat
  BY AtWork DEF CommitMessage, Steps, At
<1>2. q \in Requests /\ q.at = "recipients" /\ q.seq = seq /\ q.by = by /\ q # None
  BY <1>1 DEF Requests, Steps, Sound
<1>3. /\ req' = [req EXCEPT ![r] = q] /\ members' = members /\ since' = since
      /\ messages' = messages \cup {[seq |-> seq, from |-> by]}
      /\ cursor' = IF by \in members THEN [cursor EXCEPT ![by] = Sent(@, seq)] ELSE cursor
      /\ online' = online /\ conn' = conn
  BY DEF CommitMessage, Begin, rows, sockets
<1>. HIDE DEF q
<1>4. \A m \in messages : m.seq < seq
  BY <1>p, <1>1 DEF Fresh, Above
<1>5. \A n \in Seqs \cup {0} : n \in Nat /\ n <= seq
  BY <1>t, <1>1, <1>4 DEF Seqs
<1>6. Seqs' = Seqs \cup {seq}
  <2>. DEFINE new == [seq |-> seq, from |-> by]
  <2>1. messages' = messages \cup {new} /\ new.seq = seq
    BY <1>3
  <2>. HIDE DEF new, seq
  <2>2. \A n : (\E m \in messages' : n = m.seq) <=> (n = seq \/ \E m \in messages : n = m.seq)
    BY <2>1
  <2>. QED
    BY <2>2 DEF Seqs
<1>7. /\ \A p \in People \ {by} : cursor'[p] = cursor[p]
      /\ by \in members => cursor'[by].read = seq /\ cursor'[by].delivered = seq
      /\ by \notin members => cursor'[by] = cursor[by]
  BY <1>t, <1>1, <1>3 DEF Sent
<1>8. ASSUME NEW p \in People
      PROVE  /\ cursor'[p].read >= cursor[p].read
             /\ cursor'[p].delivered >= cursor[p].delivered
             /\ cursor'[p].read \in Seqs' \cup {0} /\ cursor'[p].delivered \in Seqs' \cup {0}
             /\ cursor'[p].read \in Nat /\ cursor'[p].delivered \in Nat
  <2>1. cursor[p].read \in Seqs \cup {0} /\ cursor[p].delivered \in Seqs \cup {0}
    BY <1>p DEF Placed
  <2>2. CASE p = by /\ by \in members
    BY <1>1, <1>5, <1>6, <1>7, <2>1, <2>2
  <2>3. CASE cursor'[p] = cursor[p]
    BY <1>t, <1>6, <2>1, <2>3
  <2>. QED
    BY <1>7, <2>2, <2>3
<1>9. Placed'
  BY <1>8 DEF Placed
<1>10. Above(q, messages') /\ Points(q, Seqs') /\ InSend(req[r])
  BY <1>1, <1>2, <1>6 DEF Above, Points, InSend, Sends
<1>11. OwnIsRead'
  <2>. SUFFICES ASSUME NEW m \in messages', m.from \in members', m.seq > since'[m.from]
                PROVE  cursor'[m.from].read >= m.seq
    BY DEF OwnIsRead
  <2>1. CASE m \in messages
    <3>1. cursor[m.from].read >= m.seq /\ m.from \in People /\ m.seq \in Nat
      BY <1>t, <1>p, <1>3, <2>1 DEF OwnIsRead
    <3>. QED
      BY <1>t, <1>8, <3>1
  <2>2. CASE m = [seq |-> seq, from |-> by]
    BY <1>1, <1>3, <1>7, <2>2
  <2>. QED
    BY <1>3, <2>1, <2>2
<1>12. LosesNone(r, q)
  <2>. SUFFICES ASSUME NEW p \in online \cap members, NEW m \in messages', m.seq > since[p]
                PROVE  \/ cursor'[p].delivered >= m.seq
                       \/ Waits(q, m, p)
                       \/ /\ m \in messages /\ cursor'[p].delivered >= cursor[p].delivered
                          /\ ~Waits(req[r], m, p)
    BY <1>3 DEF LosesNone
  <2>1. CASE m \in messages
    BY <1>t, <1>1, <1>8, <2>1 DEF Waits
  <2>2. CASE m = [seq |-> seq, from |-> by]
    <3>1. CASE p = by
      BY <1>1, <1>7, <2>2, <3>1
    <3>2. CASE p # by
      BY <1>2, <2>2, <3>2 DEF Waits
    <3>. QED
      BY <3>1, <3>2
  <2>. QED
    BY <1>3, <2>1, <2>2
<1>13. messages' = messages \/ (messages \subseteq messages' /\ InSend(req[r]))
  BY <1>3, <1>10
<1>14. SendInv'
  BY <1>3, <1>9, <1>10, <1>11, <1>12, <1>13, SendFrame
<1>. QED
  BY <1>t, <1>8, <1>14

(* Connecting catches up with everything there is; a message committed     *)
(* after the catch-up is marked by its send, which looks at who is online. *)
LEMMA SendSocket ==
  ASSUME Sound, Shape, Shape', SendInv, NEW p \in People, Socket(p)
  PROVE  SendInv'
<1>t. /\ nextSeq \in Nat /\ since \in [People -> 0 .. nextSeq] /\ members \subseteq People
      /\ cursor \in [People -> Cursors(nextSeq)] /\ conn \in [People -> ConnSteps \cup {None}]
      /\ \A x \in People : cursor[x].read \in Nat /\ cursor[x].delivered \in Nat
      /\ \A x \in People : cursor'[x].delivered \in Nat
      /\ \A m \in messages : m.seq \in Nat /\ m.from \in People
  BY DEF Shape, MessagingTypeOK, Cursors
<1>p. Placed /\ OwnIsRead /\ Fresh /\ Pointed /\ OneSender /\ Heard
  BY DEF SendInv
<1>c. ASSUME UNCHANGED <<rows, thread, req>>, Placed',
             \A x \in People : /\ cursor'[x].read = cursor[x].read
                               /\ cursor'[x].delivered >= cursor[x].delivered,
             \A x \in (online' \cap members') \ {p} : x \in online /\ conn'[x] = conn[x],
             p \in online' \cap members' =>
               \/ conn'[p] \in Catching
               \/ \A m \in messages : cursor'[p].delivered >= m.seq
               \/ p \in online /\ conn'[p] = conn[p]
      PROVE  SendInv'
  <2>1. /\ members' = members /\ since' = since /\ messages' = messages /\ req' = req
    BY <1>c DEF rows, thread
  <2>2. OneSender' /\ Fresh' /\ Pointed'
    BY <1>p, <2>1 DEF OneSender, Fresh, Pointed, InSend, Above, Points, Seqs
  <2>3. OwnIsRead'
    BY <1>c, <1>t, <1>p, <2>1 DEF OwnIsRead
  <2>4. ASSUME NEW x \in online' \cap members', NEW m \in messages, m.seq > since[x]
        PROVE  \/ cursor'[x].delivered >= m.seq
               \/ conn'[x] \in Catching
               \/ \E r \in Reqs : Waits(req[r], m, x)
    <3>1. CASE x \in online /\ conn'[x] = conn[x]
      <4>1. Hears(m, x) /\ x \in People
        BY <1>p, <1>t, <2>1, <2>4, <3>1 DEF Heard
      <4>2. cursor[x].delivered >= m.seq => cursor'[x].delivered >= m.seq
        BY <1>c, <1>t, <4>1
      <4>. QED
        BY <3>1, <4>1, <4>2 DEF Hears
    <3>2. CASE ~(x \in online /\ conn'[x] = conn[x])
      BY <1>c, <2>4, <3>2
    <3>. QED
      BY <3>1, <3>2
  <2>5. Heard'
    <3>. SUFFICES ASSUME NEW x \in online' \cap members', NEW m \in messages', m.seq > since'[x]
                  PROVE  \/ cursor'[x].delivered >= m.seq
                         \/ conn'[x] \in Catching
                         \/ \E r \in Reqs : Waits(req'[r], m, x)
      BY DEF Heard, Hears, Waits
    <3>. QED
      BY <2>1, <2>4
  <2>. QED
    BY <1>c, <2>2, <2>3, <2>5 DEF SendInv
<1>n. None \notin ConnSteps
  BY DEF Sound
<1>1. CASE Connect(p) \/ JoinOwnRoom(p) \/ ReadConversations(p) \/ EnterRooms(p) \/ Disconnect(p)
  <2>1. /\ UNCHANGED <<rows, thread, req>> /\ cursor' = cursor
        /\ \A x \in People \ {p} : conn'[x] = conn[x]
        /\ \A x \in online' \ {p} : x \in online
    BY <1>1, <1>t
    DEF Connect, JoinOwnRoom, ReadConversations, EnterRooms, Disconnect
  <2>2. p \in online' => conn'[p] \in Catching
    BY <1>1, <1>t
    DEF Connect, JoinOwnRoom, ReadConversations, EnterRooms, Disconnect, Catching
  <2>3. Placed'
    BY <1>p, <2>1 DEF Placed, Seqs, thread
  <2>4. members' = members
    BY <2>1 DEF rows
  <2>5. /\ \A x \in People : /\ cursor'[x].read = cursor[x].read
                             /\ cursor'[x].delivered >= cursor[x].delivered
        /\ \A x \in (online' \cap members') \ {p} : x \in online /\ conn'[x] = conn[x]
    BY <1>t, <2>1, <2>4
  <2>. QED
    BY <1>c, <2>1, <2>2, <2>3, <2>5
<1>d. ASSUME NEW seq \in Seqs \cup {0}, seq \in 0 .. nextSeq, cursor' = Raised({p}, seq),
             UNCHANGED <<rows, thread, online>>
      PROVE  /\ \A x \in People : /\ cursor'[x].read = cursor[x].read
                                  /\ cursor'[x].delivered >= cursor[x].delivered
             /\ p \in members => cursor'[p].delivered >= seq
             /\ Placed' /\ members' = members /\ online' = online
  <2>1. \A x \in People : /\ cursor'[x].read = cursor[x].read
                          /\ cursor'[x].delivered >= cursor[x].delivered
                          /\ cursor'[x].delivered \in {cursor[x].delivered, seq}
                          /\ x \in {p} \cap members => cursor'[x].delivered >= seq
    BY <1>d, RaisedType
  <2>2. Seqs' = Seqs /\ members' = members
    BY <1>d DEF Seqs, thread, rows
  <2>3. Placed'
    BY <1>p, <1>d, <2>1, <2>2 DEF Placed
  <2>. QED
    BY <1>d, <2>1, <2>2, <2>3
<1>2. CASE MarkAllDelivered(p)
  <2>1. /\ Latest \in Seqs \cup {0} /\ Latest \in 0 .. nextSeq
        /\ \A m \in messages : m.seq <= Latest
    BY LatestType
  <2>2. /\ cursor' = Raised({p}, Latest) /\ UNCHANGED <<rows, thread, req, online>>
        /\ \A x \in People \ {p} : conn'[x] = conn[x]
    BY <1>2, <1>t DEF MarkAllDelivered, Waiting
  <2>3. /\ \A x \in People : /\ cursor'[x].read = cursor[x].read
                             /\ cursor'[x].delivered >= cursor[x].delivered
        /\ p \in members => cursor'[p].delivered >= Latest
        /\ Placed' /\ members' = members /\ online' = online
    BY <1>d, <2>1, <2>2
  <2>4. p \in members => \A m \in messages : cursor'[p].delivered >= m.seq
    <3>. SUFFICES ASSUME p \in members, NEW m \in messages PROVE cursor'[p].delivered >= m.seq
      OBVIOUS
    <3>1. m.seq <= Latest /\ m.seq \in Nat /\ Latest \in Nat /\ cursor'[p].delivered \in Nat
      BY <1>t, <2>1
    <3>. QED
      BY <2>3, <3>1
  <2>5. \A x \in (online' \cap members') \ {p} : x \in online /\ conn'[x] = conn[x]
    BY <1>t, <2>2, <2>3
  <2>. QED
    BY <1>c, <2>2, <2>3, <2>4, <2>5
<1>3. ASSUME NEW seq \in 1 .. MaxMessages, MarkDelivered(p, seq) PROVE SendInv'
  <2>1. /\ seq \in Seqs \cup {0} /\ cursor' = Raised({p}, seq)
        /\ UNCHANGED <<rows, thread, req, online>> /\ conn' = conn
    BY <1>3 DEF MarkDelivered, sockets
  <2>2. seq \in 0 .. nextSeq
    BY <1>3 DEF MarkDelivered, Shape, MessagingTypeOK, Seqs
  <2>3. /\ \A x \in People : /\ cursor'[x].read = cursor[x].read
                             /\ cursor'[x].delivered >= cursor[x].delivered
        /\ Placed' /\ members' = members /\ online' = online
    BY <1>d, <2>1, <2>2
  <2>4. \A x \in online' \cap members' : x \in online /\ conn'[x] = conn[x]
    BY <2>1, <2>3
  <2>. QED
    BY <1>c, <2>1, <2>3, <2>4
<1>. QED
  BY <1>1, <1>2, <1>3 DEF Socket

LEMMA SendNext ==
  ASSUME Sound, MaxSends = 1
  PROVE  Shape /\ SendInv /\ [Next]_vars => SendInv'
<1>. SUFFICES ASSUME Shape, SendInv, [Next]_vars PROVE SendInv'
  OBVIOUS
<1>s. Shape'
  BY ShapeNext
<1>1. CASE UNCHANGED vars
  BY <1>1
  DEF vars, SendInv, OneSender, InSend, Fresh, Above, Pointed, Points, Placed, Seqs, Heard, Hears,
      Waits, OwnIsRead
<1>2. CASE Crash
  <2>1. /\ online' = {} /\ \A r \in Reqs : req'[r] = None
        /\ UNCHANGED <<rows, thread, cursor>>
    BY <1>2 DEF Crash
  <2>2. OneSender' /\ Fresh' /\ Pointed' /\ Heard'
    BY <2>1 DEF OneSender, InSend, Fresh, Above, Pointed, Points, Heard
  <2>3. Placed' /\ OwnIsRead'
    BY <2>1 DEF SendInv, Placed, Seqs, OwnIsRead, rows, thread
  <2>. QED
    BY <2>2, <2>3 DEF SendInv
<1>3. ASSUME NEW r \in Reqs, Step(r) PROVE SendInv'
  BY <1>3, <1>s, SendBegins, SendRows, SendMarks, SendCommit DEF Step
<1>. QED
  BY <1>1, <1>2, <1>3, <1>s, SendSocket DEF Next

(* What a step other than a commit does to a cursor.                       *)
LEMMA CursorSteps ==
  ASSUME Sound, Shape, Next, \A r \in Reqs : ~CommitMessage(r), NEW p \in People
  PROVE  \/ /\ cursor'[p].read >= cursor[p].read /\ cursor'[p].delivered >= cursor[p].delivered
            /\ cursor[p].read <= cursor[p].delivered => cursor'[p].read <= cursor'[p].delivered
         \/ p \notin members' /\ cursor'[p] = AtStart
<1>t. /\ nextSeq \in Nat /\ cursor \in [People -> Cursors(nextSeq)]
      /\ cursor[p].read \in Nat /\ cursor[p].delivered \in Nat /\ members \subseteq People
  BY DEF Shape, MessagingTypeOK, Cursors
<1>s. Shape'
  BY ShapeNext
<1>n. cursor'[p].read \in Nat /\ cursor'[p].delivered \in Nat
  BY <1>s DEF Shape, MessagingTypeOK
<1>r. ASSUME NEW ps \in SUBSET People, NEW seq \in 0 .. nextSeq, cursor' = Raised(ps, seq)
      PROVE  /\ cursor'[p].read = cursor[p].read /\ cursor'[p].delivered >= cursor[p].delivered
  BY <1>r, RaisedType
<1>1. CASE cursor' = cursor
  BY <1>t, <1>1
<1>2. ASSUME NEW r \in Reqs, Remove(r) PROVE cursor' = cursor \/ (p \notin members' /\ cursor'[p] = AtStart)
                                             \/ cursor'[p] = cursor[p]
  BY <1>t, <1>2 DEF Remove
<1>3. ASSUME NEW r \in Reqs, MarkRecipients(r)
      PROVE  /\ cursor'[p].read = cursor[p].read /\ cursor'[p].delivered >= cursor[p].delivered
  <2>1. req[r].to \in SUBSET People /\ req[r].seq \in 0 .. nextSeq
    BY <1>3, AtWork DEF MarkRecipients, Steps
  <2>. QED
    BY <1>3, <1>r, <2>1 DEF MarkRecipients
<1>4. ASSUME NEW r \in Reqs, Read(r)
      PROVE  \/ /\ cursor'[p].read >= cursor[p].read /\ cursor'[p].delivered >= cursor[p].delivered
                /\ cursor[p].read <= cursor[p].delivered => cursor'[p].read <= cursor'[p].delivered
             \/ cursor'[p] = cursor[p]
  <2>1. req[r].by \in People /\ req[r].seq \in 0 .. nextSeq
    BY <1>4, AtWork DEF Read, Steps
  <2>2. cursor'[p] = ReadTo(cursor[p], req[r].seq) \/ cursor'[p] = cursor[p]
    BY <1>4, <1>t, <2>1 DEF Read
  <2>. QED
    BY <1>t, <2>1, <2>2, ReadType
<1>5. ASSUME NEW x \in People, MarkAllDelivered(x)
      PROVE  /\ cursor'[p].read = cursor[p].read /\ cursor'[p].delivered >= cursor[p].delivered
  BY <1>5, <1>r, LatestType DEF MarkAllDelivered, Waiting
<1>6. ASSUME NEW x \in People, NEW seq \in 1 .. MaxMessages, MarkDelivered(x, seq)
      PROVE  /\ cursor'[p].read = cursor[p].read /\ cursor'[p].delivered >= cursor[p].delivered
  <2>1. seq \in 0 .. nextSeq
    BY <1>6 DEF MarkDelivered, Shape, MessagingTypeOK, Seqs
  <2>. QED
    BY <1>6, <1>r, <2>1 DEF MarkDelivered
<1>7. ASSUME NEW r \in Reqs, Step(r), ~Remove(r), ~MarkRecipients(r), ~Read(r)
      PROVE  cursor' = cursor
  BY <1>7
  DEF Step, LookForThread, ReadForAdd, ReadForRemove, StartSend, StartRead, Create, Announce, Add,
      ReadMembers, InsertMessage, ReadRecipients, JoinRoom, Refuse
<1>8. ASSUME NEW x \in People, Socket(x), ~MarkAllDelivered(x),
             \A seq \in 1 .. MaxMessages : ~MarkDelivered(x, seq)
      PROVE  cursor' = cursor
  BY <1>8 DEF Socket, Connect, JoinOwnRoom, ReadConversations, EnterRooms, Disconnect
<1>9. Crash => cursor' = cursor
  BY DEF Crash
<1>10. \/ cursor' = cursor
       \/ \E r \in Reqs : Remove(r) \/ MarkRecipients(r) \/ Read(r)
       \/ \E x \in People : MarkAllDelivered(x) \/ \E seq \in 1 .. MaxMessages : MarkDelivered(x, seq)
  BY <1>7, <1>8, <1>9 DEF Next
<1>11. (cursor'[p].read = cursor[p].read /\ cursor'[p].delivered >= cursor[p].delivered) =>
         /\ cursor'[p].read >= cursor[p].read
         /\ cursor[p].read <= cursor[p].delivered => cursor'[p].read <= cursor'[p].delivered
  BY <1>t, <1>n
<1>. QED
  BY <1>t, <1>1, <1>2, <1>3, <1>4, <1>5, <1>6, <1>10, <1>11

(* What has been read has been delivered, whoever sends and reads at once. *)
THEOREM ReadIsDelivered ==
  ASSUME Sound
  PROVE  Spec => []ReadBehindDelivered
<1>1. Init => ReadBehindDelivered
  BY DEF Init, ReadBehindDelivered, AtStart
<1>2. Shape /\ ReadBehindDelivered /\ [Next]_vars => ReadBehindDelivered'
  <2>. SUFFICES ASSUME Shape, ReadBehindDelivered, [Next]_vars, NEW p \in People
                PROVE  cursor'[p].read <= cursor'[p].delivered
    BY DEF ReadBehindDelivered
  <2>1. CASE UNCHANGED vars
    BY <2>1 DEF vars, ReadBehindDelivered
  <2>2. ASSUME NEW r \in Reqs, CommitMessage(r) PROVE cursor'[p].read <= cursor'[p].delivered
    <3>1. req[r].by \in People /\ req[r].seq \in Nat
      BY <2>2, AtWork DEF CommitMessage, Steps
    <3>2. cursor'[p] = cursor[p] \/ cursor'[p] = Sent(cursor[p], req[r].seq)
      BY <2>2, <3>1 DEF CommitMessage, Shape, MessagingTypeOK
    <3>. QED
      BY <3>1, <3>2 DEF ReadBehindDelivered, Sent
  <2>3. CASE Next /\ \A r \in Reqs : ~CommitMessage(r)
    BY <2>3, CursorSteps DEF ReadBehindDelivered, AtStart
  <2>. QED
    BY <2>1, <2>2, <2>3
<1>. QED
  BY <1>1, <1>2, ShapeInit, ShapeNext, PTL DEF Spec

(* While messages are sent one at a time nobody misses one: whoever is     *)
(* online has everything sent since they came in marked as delivered and   *)
(* is in the room, whatever connections, joins, removals, receipts, failed *)
(* requests and crashes come between; what was read was delivered, and     *)
(* one's own messages are read.                                            *)
THEOREM NobodyEverMissesAMessage ==
  ASSUME Sound, MaxSends = 1
  PROVE  Spec => []NobodyMissesAMessage
<1>1. Shape /\ SendInv => NothingWaitsOnline /\ OwnIsRead
  <2>. SUFFICES ASSUME Shape, SendInv, Quiet, NEW p \in online \cap members, NEW m \in messages,
                       m.seq > since[p]
                PROVE  cursor[p].delivered >= m.seq
    BY DEF NothingWaitsOnline, SendInv
  <2>1. Hears(m, p) /\ p \in People
    BY DEF SendInv, Heard, Shape, MessagingTypeOK
  <2>2. conn[p] \notin Catching
    BY <2>1 DEF Quiet, Sound, Catching, ConnSteps
  <2>3. \A r \in Reqs : ~Waits(req[r], m, p)
    BY DEF Quiet, Waits
  <2>. QED
    BY <2>1, <2>2, <2>3 DEF Hears
<1>2. NothingWaitsOnline /\ OwnIsRead /\ MembersAreInRoom /\ ReadBehindDelivered
        => NobodyMissesAMessage
  BY DEF NobodyMissesAMessage
<1>. QED
  BY <1>1, <1>2, ShapeInit, ShapeNext, SendInit, SendNext, MembersAlwaysInRoom, ReadIsDelivered, PTL
  DEF Spec

(* While messages are sent one at a time, no step of anybody moves back a  *)
(* cursor of someone who stays a member ("only ever move forward").        *)
THEOREM CursorsNeverGoBack ==
  ASSUME Sound, MaxSends = 1
  PROVE  Spec => CursorsForward
<1>1. Shape /\ SendInv /\ [Next]_vars => [OnlyForward]_vars
  <2>. SUFFICES ASSUME Shape, SendInv, Next, NEW p \in members \cap members'
                PROVE  /\ cursor'[p].read >= cursor[p].read
                       /\ cursor'[p].delivered >= cursor[p].delivered
    BY DEF OnlyForward
  <2>1. ASSUME NEW r \in Reqs, CommitMessage(r)
        PROVE  /\ cursor'[p].read >= cursor[p].read
               /\ cursor'[p].delivered >= cursor[p].delivered
    <3>1. Shape'
      BY ShapeNext
    <3>. QED
      BY <2>1, <3>1, SendCommit
  <2>2. p \in People
    BY DEF Shape, MessagingTypeOK
  <2>. QED
    BY <2>1, <2>2, CursorSteps
<1>. QED
  BY <1>1, ShapeInit, ShapeNext, SendInit, SendNext, PTL DEF Spec, CursorsForward
-----------------------------------------------------------------------------
(* ChatClient: what the browser keeps of a conversation.                   *)
CONSTANTS Asked, ChatOps, MaxSaid, MaxMoves

VARIABLES begun, said, owed, mine, theirs, there, moves, link, wire, reading,
          open, cached, fetching, list, asking, heard, latest

Client == INSTANCE ChatClient WITH
  exists <- begun, sent <- said, due <- owed, thread <- cached, shown <- heard,
  Ops <- ChatOps, MaxMessages <- MaxSaid

ClientCursor == [read : Nat, delivered : Nat]
Chat == [unread : Nat, ticks : ClientCursor, online : BOOLEAN]
Kinds == {"message", "conversation", "receipt", "presence"}
SocketEvent == [kind : Kinds, seq : Nat, ticks : ClientCursor \cup {None}, online : BOOLEAN]

ClientConstants ==
  /\ MaxSaid \in Nat /\ Asked # None
  /\ {None, Asked} \cap (Nat \cup BOOLEAN \cup Seq(Nat) \cup Chat) = {}

Said == 1 .. Len(said)
Behind(c) == c.read <= theirs.read /\ c.delivered <= theirs.delivered
OnWire(w) == {w[i] : i \in DOMAIN w}

(* What an event may say, what a cached thread holds, and what the list    *)
(* shows or is answered with.                                              *)
EventFits(e) ==
  /\ e.kind = "message" => e.seq \in Said
  /\ e.kind = "receipt" => e.ticks \in ClientCursor /\ Behind(e.ticks)

ThreadFits(t) == \A i \in DOMAIN t : t[i] \in Said /\ \A j \in DOMAIN t : t[i] = t[j] => i = j

ChatFits(l) == l \in Chat => begun /\ Behind(l.ticks)

ServerShape ==
  /\ begun \in BOOLEAN /\ said \in Seq({"me", "they"}) /\ owed \subseteq Said
  /\ mine \in Said \cup {0} /\ theirs \in [read : Said \cup {0}, delivered : Said \cup {0}]
  /\ there \in BOOLEAN /\ moves \in Nat /\ link \in BOOLEAN

ClientShape ==
  /\ ServerShape
  /\ wire \in Seq(SocketEvent) /\ \A e \in OnWire(wire) : EventFits(e)
  /\ reading \in Said \cup {0} /\ latest \in Said \cup {0} /\ open \in BOOLEAN
  /\ heard \in {None} \cup BOOLEAN
  /\ cached \in {None} \cup Seq(Nat) /\ (cached # None => ThreadFits(cached))
  /\ fetching \in {None, Asked, 0} \cup Said
  /\ list \in {None} \cup Chat /\ ChatFits(list)
  /\ asking \in {None, Asked} \cup Chat /\ ChatFits(asking)

LEMMA Joined ==
  ASSUME NEW S, NEW w \in Seq(S), NEW e \in Seq(S)
  PROVE  /\ w \o e \in Seq(S) /\ Len(w \o e) = Len(w) + Len(e)
         /\ \A i \in 1 .. Len(w) + Len(e) :
               (w \o e)[i] = IF i <= Len(w) THEN w[i] ELSE e[i - Len(w)]
OBVIOUS

LEMMA AppendedWire ==
  ASSUME NEW S, NEW w \in Seq(S), NEW e \in Seq(S)
  PROVE  w \o e \in Seq(S) /\ OnWire(w \o e) = OnWire(w) \cup OnWire(e)
<1>1. w \o e \in Seq(S) /\ Len(w \o e) = Len(w) + Len(e)
  OBVIOUS
<1>2. \A i \in 1 .. Len(w) + Len(e) :
        (w \o e)[i] = IF i <= Len(w) THEN w[i] ELSE e[i - Len(w)]
  BY Joined
<1>3. ASSUME NEW x \in OnWire(w \o e) PROVE x \in OnWire(w) \cup OnWire(e)
  <2>1. PICK i \in 1 .. Len(w) + Len(e) : x = (w \o e)[i]
    BY <1>1 DEF OnWire
  <2>2. CASE i <= Len(w)
    BY <1>2, <2>1, <2>2 DEF OnWire
  <2>3. CASE ~(i <= Len(w))
    <3>1. i - Len(w) \in 1 .. Len(e) /\ x = e[i - Len(w)]
      BY <1>2, <2>1, <2>3
    <3>. QED
      BY <3>1 DEF OnWire
  <2>. QED
    BY <2>2, <2>3
<1>4. ASSUME NEW i \in DOMAIN w PROVE w[i] \in OnWire(w \o e)
  <2>1. i \in DOMAIN (w \o e) /\ (w \o e)[i] = w[i]
    BY <1>1, <1>2
  <2>. QED
    BY <2>1 DEF OnWire
<1>5. ASSUME NEW i \in DOMAIN e PROVE e[i] \in OnWire(w \o e)
  <2>1. Len(w) + i \in DOMAIN (w \o e) /\ (w \o e)[Len(w) + i] = e[i]
    BY <1>1, <1>2
  <2>. QED
    BY <2>1 DEF OnWire
<1>. QED
  BY <1>1, <1>3, <1>4, <1>5 DEF OnWire

LEMMA HeardWire ==
  ASSUME NEW S, NEW w \in Seq(S), w # <<>>
  PROVE  /\ Head(w) \in S /\ Head(w) = w[1] /\ Head(w) \in OnWire(w)
         /\ SubSeq(w, 2, Len(w)) \in Seq(S)
         /\ Len(SubSeq(w, 2, Len(w))) = Len(w) - 1
         /\ \A i \in 1 .. Len(w) - 1 : SubSeq(w, 2, Len(w))[i] = w[i + 1]
         /\ OnWire(w) = {Head(w)} \cup OnWire(SubSeq(w, 2, Len(w)))
<1>1. /\ Head(w) \in S /\ Head(w) = w[1] /\ 1 \in DOMAIN w
      /\ SubSeq(w, 2, Len(w)) \in Seq(S)
      /\ Len(SubSeq(w, 2, Len(w))) = Len(w) - 1
      /\ \A i \in 1 .. Len(w) - 1 : SubSeq(w, 2, Len(w))[i] = w[i + 1]
  <2>1. Len(w) \in Nat /\ Len(w) > 0 /\ \A i \in 1 .. Len(w) : w[i] \in S
    OBVIOUS
  <2>2. Head(w) = w[1]
    OBVIOUS
  <2>3. /\ SubSeq(w, 2, Len(w)) \in Seq(S)
        /\ Len(SubSeq(w, 2, Len(w))) = Len(w) - 1
        /\ \A i \in 1 .. Len(w) - 1 : SubSeq(w, 2, Len(w))[i] = w[2 + i - 1]
    <3>1. Len(w) \in Int /\ \A i \in 2 .. Len(w) : w[i] \in S
      BY <2>1
    <3>2. /\ SubSeq(w, 2, Len(w)) \in Seq(S)
          /\ Len(SubSeq(w, 2, Len(w))) = IF 2 <= Len(w) THEN Len(w) - 2 + 1 ELSE 0
          /\ \A i \in 1 .. Len(w) - 2 + 1 : SubSeq(w, 2, Len(w))[i] = w[2 + i - 1]
      BY <3>1, SubSeqProperties
    <3>. DEFINE v == SubSeq(w, 2, Len(w))
    <3>. HIDE DEF v
    <3>3. (IF 2 <= Len(w) THEN Len(w) - 2 + 1 ELSE 0) = Len(w) - 1 /\ Len(w) - 2 + 1 = Len(w) - 1
      <4>1. \A n \in Nat : n > 0 => (IF 2 <= n THEN n - 2 + 1 ELSE 0) = n - 1 /\ n - 2 + 1 = n - 1
        OBVIOUS
      <4>. QED
        BY <2>1, <4>1
    <3>4. v \in Seq(S) /\ Len(v) = Len(w) - 1 /\ \A i \in 1 .. Len(w) - 1 : v[i] = w[2 + i - 1]
      BY <3>2, <3>3 DEF v
    <3>. QED
      BY <3>4 DEF v
  <2>4. \A i \in 1 .. Len(w) - 1 : 2 + i - 1 = i + 1
    BY <2>1
  <2>. QED
    BY <2>1, <2>2, <2>3, <2>4
<1>2. ASSUME NEW i \in DOMAIN w PROVE w[i] \in {Head(w)} \cup OnWire(SubSeq(w, 2, Len(w)))
  <2>1. CASE i = 1
    BY <1>1, <2>1
  <2>2. CASE i # 1
    <3>1. i - 1 \in DOMAIN SubSeq(w, 2, Len(w)) /\ SubSeq(w, 2, Len(w))[i - 1] = w[i]
      BY <1>1, <2>2
    <3>. QED
      BY <3>1 DEF OnWire
  <2>. QED
    BY <2>1, <2>2
<1>3. ASSUME NEW i \in DOMAIN SubSeq(w, 2, Len(w)) PROVE SubSeq(w, 2, Len(w))[i] \in OnWire(w)
  <2>1. i + 1 \in DOMAIN w /\ SubSeq(w, 2, Len(w))[i] = w[i + 1]
    BY <1>1
  <2>. QED
    BY <2>1 DEF OnWire
<1>4. Head(w) \in OnWire(w)
  BY <1>1 DEF OnWire
<1>. QED
  BY <1>1, <1>2, <1>3, <1>4 DEF OnWire

LEMMA ClientCardinality == \A S : Client!Cardinality(S) = Cardinality(S)
BY DEF Client!Cardinality, Cardinality, Client!IsFiniteSet, IsFiniteSet

(* The conversation as the server answers it.                              *)
LEMMA ListedFits ==
  ASSUME ClientConstants, ServerShape
  PROVE  Client!Listed \in {None} \cup Chat /\ ChatFits(Client!Listed) /\ Client!Unread \in Nat
         /\ (begun => Client!Listed = [unread |-> Client!Unread, ticks |-> theirs, online |-> there])
         /\ (~begun => Client!Listed = None)
<1>1. Client!Unread \in Nat
  <2>1. {n \in Said : said[n] = "they" /\ n > mine} \subseteq Said /\ Len(said) \in Nat
    BY DEF ServerShape, Said
  <2>2. IsFiniteSet(Said)
    BY <2>1, FS_Interval DEF Said
  <2>3. Client!Committed = Said
    BY DEF Client!Committed, ServerShape, Said
  <2>. QED
    BY <2>1, <2>2, <2>3, FS_Subset, FS_CardinalityType, ClientCardinality DEF Client!Unread
<1>2. theirs \in ClientCursor /\ there \in BOOLEAN /\ begun \in BOOLEAN /\ Behind(theirs)
  BY DEF ServerShape, ClientCursor, Said, Behind
<1>. DEFINE c == [unread |-> Client!Unread, ticks |-> theirs, online |-> there]
<1>3. c \in Chat /\ Behind(c.ticks)
  BY <1>1, <1>2 DEF Chat
<1>4. None \notin Chat
  BY DEF ClientConstants
<1>5. (begun => Client!Listed = c) /\ (~begun => Client!Listed = None)
  BY DEF Client!Listed
<1>. QED
  BY <1>1, <1>2, <1>3, <1>4, <1>5 DEF ChatFits

(* Marking the thread read changes nothing of the list but the badge.      *)
LEMMA MarkingRead ==
  ASSUME ClientConstants, ServerShape, reading \in Said \cup {0},
         NEW t \in {None} \cup Seq(Nat), t # None => ThreadFits(t),
         NEW l \in {None} \cup Chat, NEW m \in Said \cup {0},
         Client!Shown(t, l, m)
  PROVE  /\ reading' \in Said \cup {0} /\ latest' \in Said \cup {0} /\ reading' >= reading
         /\ list' = l \/ (l # None /\ list' = [l EXCEPT !.unread = 0])
         /\ \/ latest' = m /\ list' = l /\ reading' = reading
            \/ (open /\ l # None /\ latest' = Client!TailOf(t) /\ reading' >= latest' /\ list' = [l EXCEPT !.unread = 0])
         /\ (open /\ l # None => latest' = Client!TailOf(t) \/ Client!TailOf(t) = 0)
<1>1. Client!TailOf(t) \in Said \cup {0}
  BY DEF Client!TailOf, ThreadFits, ServerShape, Said
<1>. QED
  BY <1>1 DEF Client!Shown, Client!Greatest, Client!Cleared, Said, ServerShape

(* What my socket is told arrives behind what is already on its way.       *)
LEMMA ToldArrives ==
  ASSUME wire \in Seq(SocketEvent), NEW es \in Seq(SocketEvent), Client!Told(es)
  PROVE  /\ wire' \in Seq(SocketEvent) /\ OnWire(wire') \subseteq OnWire(wire) \cup OnWire(es)
         /\ link => wire' = wire \o es /\ OnWire(wire') = OnWire(wire) \cup OnWire(es)
BY AppendedWire DEF Client!Told

LEMMA EventsOf ==
  ASSUME NEW b \in BOOLEAN, NEW n \in Nat, NEW c \in ClientCursor
  PROVE  /\ Client!Event("conversation") \in SocketEvent
         /\ Client!Event("conversation").kind = "conversation"
         /\ [Client!Event("message") EXCEPT !.seq = n] \in SocketEvent
         /\ [Client!Event("message") EXCEPT !.seq = n].kind = "message"
         /\ [Client!Event("message") EXCEPT !.seq = n].seq = n
         /\ Client!Receipt(c) \in SocketEvent
         /\ Client!Receipt(c).kind = "receipt" /\ Client!Receipt(c).ticks = c
         /\ [Client!Event("presence") EXCEPT !.online = b] \in SocketEvent
         /\ [Client!Event("presence") EXCEPT !.online = b].kind = "presence"
         /\ [Client!Event("presence") EXCEPT !.online = b].online = b
<1>1. \A k \in Kinds, m \in Nat, t \in ClientCursor \cup {None}, o \in BOOLEAN :
        [kind |-> k, seq |-> m, ticks |-> t, online |-> o] \in SocketEvent
  BY DEF SocketEvent
<1>2. \A k : Client!Event(k) = [kind |-> k, seq |-> 0, ticks |-> None, online |-> FALSE]
  BY DEF Client!Event
<1>5. ASSUME NEW k, NEW o
      PROVE  LET e == [kind |-> k, seq |-> 0, ticks |-> None, online |-> o]
             IN /\ [e EXCEPT !.seq = n] = [kind |-> k, seq |-> n, ticks |-> None, online |-> o]
                /\ [e EXCEPT !.ticks = c] = [kind |-> k, seq |-> 0, ticks |-> c, online |-> o]
                /\ [e EXCEPT !.online = b] = [kind |-> k, seq |-> 0, ticks |-> None, online |-> b]
  OBVIOUS
<1>a. Client!Event("conversation") = [kind |-> "conversation", seq |-> 0, ticks |-> None, online |-> FALSE]
  BY <1>2
<1>b. [Client!Event("message") EXCEPT !.seq = n] = [kind |-> "message", seq |-> n, ticks |-> None, online |-> FALSE]
  BY <1>2, <1>5
<1>c. [Client!Event("presence") EXCEPT !.online = b] = [kind |-> "presence", seq |-> 0, ticks |-> None, online |-> b]
  BY <1>2, <1>5
<1>d. Client!Receipt(c) = [kind |-> "receipt", seq |-> 0, ticks |-> c, online |-> FALSE]
  BY <1>2, <1>5 DEF Client!Receipt
<1>3. {"conversation", "message", "receipt", "presence"} \subseteq Kinds /\ 0 \in Nat /\ FALSE \in BOOLEAN
  BY DEF Kinds
<1>4. Client!Event("conversation") \in SocketEvent
  BY <1>1, <1>3, <1>a
<1>6. [Client!Event("message") EXCEPT !.seq = n] \in SocketEvent
  <2>1. "message" \in Kinds /\ None \in ClientCursor \cup {None}
    BY <1>3
  <2>2. \A o \in BOOLEAN : [kind |-> "message", seq |-> n, ticks |-> None, online |-> o] \in SocketEvent
    BY <1>1, <2>1
  <2>. QED
    BY <1>3, <2>2, <1>b, Zenon
<1>7. [Client!Event("presence") EXCEPT !.online = b] \in SocketEvent
  BY <1>1, <1>3, <1>c
<1>8. Client!Receipt(c) \in SocketEvent
  BY <1>1, <1>3, <1>d
<1>9. Client!Receipt(c).kind = "receipt" /\ Client!Receipt(c).ticks = c
  BY <1>d
<1>10. [Client!Event("message") EXCEPT !.seq = n].kind = "message" /\ [Client!Event("message") EXCEPT !.seq = n].seq = n
  BY <1>b
<1>11. [Client!Event("presence") EXCEPT !.online = b].kind = "presence" /\ [Client!Event("presence") EXCEPT !.online = b].online = b
  BY <1>c
<1>12. Client!Event("conversation").kind = "conversation"
  BY <1>a
<1>. QED
  BY <1>4, <1>6, <1>7, <1>8, <1>9, <1>10, <1>11, <1>12

LEMMA CursorsRise ==
  ASSUME ServerShape, NEW n \in Said
  PROVE  /\ Client!ReadUpTo(theirs, n) \in [read : Said \cup {0}, delivered : Said \cup {0}]
         /\ Client!DeliveredUpTo(theirs, n) \in [read : Said \cup {0}, delivered : Said \cup {0}]
         /\ theirs.read <= Client!ReadUpTo(theirs, n).read
         /\ theirs.delivered <= Client!ReadUpTo(theirs, n).delivered
         /\ theirs.read <= Client!DeliveredUpTo(theirs, n).read
         /\ theirs.delivered <= Client!DeliveredUpTo(theirs, n).delivered
<1>. DEFINE r == theirs.read
            d == theirs.delivered
<1>1. theirs = [read |-> r, delivered |-> d] /\ r \in Said \cup {0} /\ d \in Said \cup {0}
  BY DEF ServerShape
<1>2. Said \subseteq Nat
  BY DEF Said
<1>3. \A m \in Said \cup {0} : Client!Greatest(m, n) \in Said \cup {0} /\ m <= Client!Greatest(m, n)
  BY <1>2 DEF Client!Greatest
<1>4. /\ Client!ReadUpTo(theirs, n) = [read |-> Client!Greatest(r, n), delivered |-> Client!Greatest(d, n)]
      /\ Client!DeliveredUpTo(theirs, n) = [read |-> r, delivered |-> Client!Greatest(d, n)]
  BY <1>1 DEF Client!ReadUpTo, Client!DeliveredUpTo
<1>. QED
  BY <1>1, <1>2, <1>3, <1>4

(* What holds of an event, a thread or a list stays true while the server  *)
(* only adds.                                                              *)
LEMMA ServerOnlyAdds ==
  ASSUME ServerShape, ServerShape', begun => begun', Said \subseteq Said',
         theirs.read <= theirs'.read, theirs.delivered <= theirs'.delivered
  PROVE  /\ \A e \in SocketEvent : EventFits(e) => EventFits(e)'
         /\ \A t : ThreadFits(t) => ThreadFits(t)'
         /\ \A l : ChatFits(l) => ChatFits(l)'
<1>1. theirs \in [read : Nat, delivered : Nat] /\ theirs' \in [read : Nat, delivered : Nat]
  BY DEF ServerShape, Said
<1>2. \A c \in ClientCursor : Behind(c) => Behind(c)'
  BY <1>1 DEF Behind, ClientCursor
<1>3. \A l \in Chat : l.ticks \in ClientCursor
  BY DEF Chat
<1>. QED
  BY <1>2, <1>3 DEF EventFits, ThreadFits, ChatFits

(* A step of the server as the browser sees it.                            *)
LEMMA ServerSteps ==
  ASSUME ClientConstants, ClientShape, ServerShape', begun => begun', Said \subseteq Said',
         theirs.read <= theirs'.read, theirs.delivered <= theirs'.delivered,
         wire' \in Seq(SocketEvent), NEW E \in SUBSET SocketEvent,
         OnWire(wire') \subseteq OnWire(wire) \cup E, \A e \in E : EventFits(e)',
         reading' \in {reading, 0}, open' \in BOOLEAN, asking' \in {asking, Asked},
         heard' = heard, cached' = cached, fetching' = fetching, list' = list, latest' = latest
  PROVE  ClientShape'
<1>1. OnWire(wire) \subseteq SocketEvent
  BY DEF OnWire, ClientShape
<1>2. \A e \in OnWire(wire') : EventFits(e)'
  BY <1>1, ServerOnlyAdds DEF ClientShape
<1>3. OnWire(wire)' = OnWire(wire')
  BY DEF OnWire
<1>4. \A e \in OnWire(wire)' : EventFits(e)'
  BY <1>2, <1>3
<1>5. cached # None => ThreadFits(cached)'
  BY ServerOnlyAdds DEF ClientShape
<1>6. ChatFits(list)' /\ ChatFits(asking)'
  <2>1. \A l : ChatFits(l) => ChatFits(l)'
    BY ServerOnlyAdds DEF ClientShape
  <2>2. (ChatFits(list))' /\ (asking' = asking => (ChatFits(asking))')
    BY <2>1 DEF ClientShape, ChatFits
  <2>. QED
    BY <2>1, <2>2 DEF ClientShape, ChatFits, ClientConstants
<1>. QED
  BY <1>4, <1>5, <1>6 DEF ClientShape

LEMMA ClientShapeInit ==
  ASSUME ClientConstants, Client!Init
  PROVE  ClientShape
<1>1. said \in Seq({"me", "they"}) /\ Len(said) = 0 /\ wire \in Seq(SocketEvent) /\ OnWire(wire) = {}
  BY DEF Client!Init, OnWire
<1>. QED
  BY <1>1 DEF Client!Init, ClientShape, ServerShape, ClientConstants, ChatFits, Said

(* One event, and two.                                                     *)
LEMMA ToldOne ==
  ASSUME wire \in Seq(SocketEvent), NEW e \in SocketEvent, Client!Told(<<e>>)
  PROVE  /\ wire' \in Seq(SocketEvent) /\ OnWire(wire') \subseteq OnWire(wire) \cup {e}
         /\ link => wire' = wire \o <<e>> /\ OnWire(wire') = OnWire(wire) \cup {e}
<1>1. <<e>> \in Seq(SocketEvent) /\ OnWire(<<e>>) = {e}
  BY DEF OnWire
<1>. QED
  BY <1>1, ToldArrives

LEMMA ToldTwo ==
  ASSUME wire \in Seq(SocketEvent), NEW e \in SocketEvent, NEW f \in SocketEvent, Client!Told(<<e>> \o <<f>>)
  PROVE  /\ wire' \in Seq(SocketEvent) /\ OnWire(wire') \subseteq OnWire(wire) \cup {e, f}
         /\ link => wire' = wire \o (<<e>> \o <<f>>) /\ OnWire(wire') = OnWire(wire) \cup {e, f}
<1>1. \A x \in SocketEvent : <<x>> \in Seq(SocketEvent) /\ OnWire(<<x>>) = {x}
  BY DEF OnWire
<1>2. <<e>> \o <<f>> \in Seq(SocketEvent) /\ OnWire(<<e>> \o <<f>>) = OnWire(<<e>>) \cup OnWire(<<f>>)
  <2>1. \A u, v \in Seq(SocketEvent) : u \o v \in Seq(SocketEvent) /\ OnWire(u \o v) = OnWire(u) \cup OnWire(v)
    BY AppendedWire
  <2>. QED
    BY <1>1, <2>1
<1>3. OnWire(<<e>> \o <<f>>) = {e, f}
  BY <1>1, <1>2
<1>. QED
  BY <1>2, <1>3, ToldArrives

(* The steps of the server.                                                *)
LEMMA ShapeCreate ==
  ASSUME ClientConstants, ClientShape, NEW by, Client!Create(by)
  PROVE  /\ ClientShape'
         /\ link => /\ OnWire(wire') = OnWire(wire) \cup {Client!Event("conversation")}
                    /\ wire' = wire \o <<Client!Event("conversation")>>
<1>. USE DEF ClientShape
<1>1. ServerShape' /\ Said' = Said /\ begun'
  BY DEF Client!Create, ServerShape, Said
<1>2. theirs' = theirs /\ theirs.read \in Nat /\ theirs.delivered \in Nat /\ theirs \in ClientCursor
  BY DEF Client!Create, ServerShape, Said, ClientCursor
<1>3. Client!Event("conversation") \in SocketEvent /\ Client!Event("conversation").kind = "conversation"
  BY EventsOf, <1>2
<1>4. /\ wire' \in Seq(SocketEvent) /\ OnWire(wire') \subseteq OnWire(wire) \cup {Client!Event("conversation")}
      /\ link => /\ OnWire(wire') = OnWire(wire) \cup {Client!Event("conversation")}
                 /\ wire' = wire \o <<Client!Event("conversation")>>
  BY <1>3, ToldOne DEF Client!Create
<1>5. EventFits(Client!Event("conversation"))'
  BY <1>3 DEF EventFits
<1>6. /\ reading' = reading /\ open' \in BOOLEAN /\ asking' \in {asking, Asked} /\ heard' = heard
      /\ cached' = cached /\ fetching' = fetching /\ list' = list /\ latest' = latest
  BY DEF Client!Create
<1>. DEFINE E == {Client!Event("conversation")}
<1>20. E \in SUBSET SocketEvent /\ (\A x \in E : EventFits(x)') /\ OnWire(wire') \subseteq OnWire(wire) \cup E
  BY <1>3, <1>4, <1>5
<1>. HIDE DEF E
<1>. QED
  <2>1. /\ (begun => begun') /\ Said \subseteq Said' /\ reading' \in {reading, 0}
        /\ theirs.read <= theirs'.read /\ theirs.delivered <= theirs'.delivered
    BY <1>1, <1>2, <1>6
  <2>. QED
    BY <1>1, <1>4, <1>6, <1>20, <2>1, ServerSteps

LEMMA ShapeCommit ==
  ASSUME ClientConstants, ClientShape, NEW by \in {"me", "they"}, Client!Commit(by)
  PROVE  ClientShape' /\ Said' = Said \cup {Len(said) + 1} /\ Len(said') = Len(said) + 1
         /\ said' = Append(said, by)
<1>. USE DEF ClientShape
<1>1. Client!Newest = Len(said) /\ Len(said) \in Nat
  BY DEF Client!Newest, ServerShape
<1>2. said' \in Seq({"me", "they"}) /\ Len(said') = Len(said) + 1 /\ said' = Append(said, by)
  BY DEF Client!Commit, ServerShape
<1>3. Said' = Said \cup {Len(said) + 1}
  BY <1>1, <1>2 DEF Said
<1>4. theirs \in [read : Said \cup {0}, delivered : Said \cup {0}] /\ Said \subseteq Nat
  BY DEF ServerShape, Said
<1>5. theirs' \in [read : Said' \cup {0}, delivered : Said' \cup {0}]
      /\ theirs.read <= theirs'.read /\ theirs.delivered <= theirs'.delivered
  BY <1>1, <1>3, <1>4 DEF Client!Commit, Client!ReadUpTo, Client!Greatest, Said
<1>6. ServerShape'
  BY <1>1, <1>2, <1>3, <1>5 DEF Client!Commit, ServerShape
<1>7. /\ reading' = reading /\ open' = open /\ asking' = asking /\ heard' = heard
      /\ cached' = cached /\ fetching' = fetching /\ list' = list /\ latest' = latest
      /\ wire' = wire /\ begun' = begun
  BY DEF Client!Commit, Client!cache
<1>8. wire' \in Seq(SocketEvent) /\ OnWire(wire') \subseteq OnWire(wire) \cup {}
  BY <1>7
<1>. DEFINE E == {}
<1>20. E \in SUBSET SocketEvent /\ (\A x \in E : EventFits(x)') /\ OnWire(wire') \subseteq OnWire(wire) \cup E
  BY <1>8
<1>. HIDE DEF E
<1>. QED
  BY ZenonT(30), <1>2, <1>3, <1>5, <1>6, <1>7, <1>8, <1>20, ServerSteps

LEMMA ShapeDispatch ==
  ASSUME ClientConstants, ClientShape, NEW n \in Nat, Client!Dispatch(n)
  PROVE  /\ ClientShape'
         /\ \E e, f \in SocketEvent :
              /\ e.kind = "message" /\ e.seq = n /\ f.kind = "receipt" /\ f.ticks = theirs'
              /\ link => \/ OnWire(wire') = OnWire(wire) \cup {e} /\ wire' = wire \o <<e>> /\ theirs' = theirs
                         \/ OnWire(wire') = OnWire(wire) \cup {e, f} /\ wire' = wire \o (<<e>> \o <<f>>)
<1>. USE DEF ClientShape
<1>1. Said' = Said /\ n \in Said
  BY DEF Client!Dispatch, ServerShape, Said
<1>2. theirs' \in [read : Said \cup {0}, delivered : Said \cup {0}]
      /\ theirs.read <= theirs'.read /\ theirs.delivered <= theirs'.delivered
  <2>1. theirs' \in {theirs, Client!DeliveredUpTo(theirs, n)}
    BY DEF Client!Dispatch
  <2>2. theirs \in [read : Said \cup {0}, delivered : Said \cup {0}] /\ theirs.read <= theirs.read
        /\ theirs.delivered <= theirs.delivered
    BY DEF ServerShape, Said
  <2>. QED
    BY <1>1, <2>1, <2>2, CursorsRise
<1>3. ServerShape'
  BY <1>1, <1>2 DEF Client!Dispatch, ServerShape
<1>4. theirs' \in ClientCursor /\ Behind(theirs)'
  BY <1>2 DEF ClientCursor, Behind, Said
<1>5. PICK e, f : e = [Client!Event("message") EXCEPT !.seq = n] /\ f = Client!Receipt(theirs')
  OBVIOUS
<1>6. e \in SocketEvent /\ f \in SocketEvent /\ e.kind = "message" /\ e.seq = n /\ f.kind = "receipt" /\ f.ticks = theirs'
  BY <1>4, <1>5, EventsOf
<1>7. /\ wire' \in Seq(SocketEvent) /\ OnWire(wire') \subseteq OnWire(wire) \cup {e, f}
      /\ link => \/ OnWire(wire') = OnWire(wire) \cup {e} /\ wire' = wire \o <<e>> /\ theirs' = theirs
                 \/ OnWire(wire') = OnWire(wire) \cup {e, f} /\ wire' = wire \o (<<e>> \o <<f>>)
  <2>1. CASE there /\ said[n] = "me"
    <3>1. Client!Told(<<e>> \o <<f>>)
      BY <1>5, <2>1 DEF Client!Dispatch
    <3>. QED
      BY <1>6, <3>1, ToldTwo
  <2>2. CASE ~(there /\ said[n] = "me")
    <3>1. Client!Told(<<e>> \o << >>) /\ theirs' = theirs
      BY <1>5, <2>2 DEF Client!Dispatch
    <3>2. <<e>> \o << >> = <<e>>
      OBVIOUS
    <3>. QED
      BY <1>6, <3>1, <3>2, ToldOne
  <2>. QED
    BY <2>1, <2>2
<1>8. EventFits(e)' /\ EventFits(f)'
  BY <1>1, <1>4, <1>6 DEF EventFits
<1>9. /\ reading' = reading /\ open' = open /\ asking' = asking /\ heard' = heard
      /\ cached' = cached /\ fetching' = fetching /\ list' = list /\ latest' = latest /\ begun' = begun
  BY DEF Client!Dispatch, Client!cache
<1>10. ClientShape'
  <2>. DEFINE E == {e, f}
  <2>1. E \in SUBSET SocketEvent /\ \A x \in E : EventFits(x)'
    BY <1>6, <1>8
  <2>2. OnWire(wire') \subseteq OnWire(wire) \cup E
    BY <1>7
  <2>. HIDE DEF E
  <2>. QED
    BY <1>1, <1>2, <1>3, <1>7, <1>9, <2>1, <2>2, ServerSteps
<1>. QED
  BY <1>6, <1>7, <1>10

LEMMA ShapeTheyRead ==
  ASSUME ClientConstants, ClientShape, NEW n \in Nat, Client!TheyRead(n)
  PROVE  /\ ClientShape'
         /\ \E e \in SocketEvent :
              /\ e.kind = "receipt" /\ e.ticks = theirs'
              /\ link => OnWire(wire') = OnWire(wire) \cup {e} /\ wire' = wire \o <<e>>
<1>. USE DEF ClientShape
<1>1. Said' = Said /\ n \in Said
  BY DEF Client!TheyRead, Client!Committed, ServerShape, Said
<1>2. theirs' \in [read : Said \cup {0}, delivered : Said \cup {0}]
      /\ theirs.read <= theirs'.read /\ theirs.delivered <= theirs'.delivered
  BY <1>1, CursorsRise DEF Client!TheyRead
<1>3. ServerShape'
  BY <1>1, <1>2 DEF Client!TheyRead, ServerShape
<1>4. theirs' \in ClientCursor /\ Behind(theirs)'
  BY <1>2 DEF ClientCursor, Behind, Said
<1>5. PICK e : e = Client!Receipt(theirs')
  OBVIOUS
<1>6. e \in SocketEvent /\ e.kind = "receipt" /\ e.ticks = theirs'
  BY <1>4, <1>5, EventsOf
<1>7. /\ wire' \in Seq(SocketEvent) /\ OnWire(wire') \subseteq OnWire(wire) \cup {e}
      /\ link => OnWire(wire') = OnWire(wire) \cup {e} /\ wire' = wire \o <<e>>
  BY <1>5, <1>6, ToldOne DEF Client!TheyRead
<1>8. EventFits(e)'
  BY <1>4, <1>6 DEF EventFits
<1>9. /\ reading' = reading /\ open' = open /\ asking' = asking /\ heard' = heard
      /\ cached' = cached /\ fetching' = fetching /\ list' = list /\ latest' = latest /\ begun' = begun
  BY DEF Client!TheyRead, Client!cache
<1>. DEFINE E == {e}
<1>20. E \in SUBSET SocketEvent /\ (\A x \in E : EventFits(x)') /\ OnWire(wire') \subseteq OnWire(wire) \cup E
  BY <1>6, <1>7, <1>8
<1>. HIDE DEF E
<1>. QED
  BY ZenonT(30), <1>1, <1>2, <1>3, <1>6, <1>7, <1>8, <1>9, <1>20, ServerSteps

LEMMA ShapeTheyMove ==
  ASSUME ClientConstants, ClientShape, Client!TheyMove
  PROVE  /\ ClientShape'
         /\ \E e, p \in SocketEvent :
              /\ e.kind = "receipt" /\ e.ticks = theirs' /\ p.kind = "presence" /\ p.online = there'
              /\ link => \/ OnWire(wire') = OnWire(wire) \cup {p} /\ wire' = wire \o <<p>> /\ theirs' = theirs
                         \/ OnWire(wire') = OnWire(wire) \cup {e, p} /\ wire' = wire \o (<<e>> \o <<p>>)
<1>. USE DEF ClientShape
<1>1. Said' = Said /\ Client!Newest \in Said \cup {0}
  BY DEF Client!TheyMove, Client!Newest, ServerShape, Said
<1>2. theirs' \in [read : Said \cup {0}, delivered : Said \cup {0}]
      /\ theirs.read <= theirs'.read /\ theirs.delivered <= theirs'.delivered
  <2>1. theirs' \in {theirs, Client!DeliveredUpTo(theirs, Client!Newest)}
    BY DEF Client!TheyMove
  <2>2. theirs \in [read : Said \cup {0}, delivered : Said \cup {0}] /\ theirs.read <= theirs.read
        /\ theirs.delivered <= theirs.delivered
    BY DEF ServerShape, Said
  <2>3. Client!Newest = 0 => Client!DeliveredUpTo(theirs, Client!Newest) = theirs
    <3>1. \A m \in Said \cup {0} : (IF m > 0 THEN m ELSE 0) = m
      BY DEF Said
    <3>2. theirs.delivered \in Said \cup {0} /\ theirs = [theirs EXCEPT !.delivered = theirs.delivered]
      BY <2>2
    <3>. QED
      BY <3>1, <3>2 DEF Client!DeliveredUpTo, Client!Greatest
  <2>. QED
    BY <1>1, <2>1, <2>2, <2>3, CursorsRise
<1>3. ServerShape'
  BY <1>1, <1>2 DEF Client!TheyMove, ServerShape
<1>4. theirs' \in ClientCursor /\ Behind(theirs)' /\ there' \in BOOLEAN
  BY <1>2, <1>3 DEF ClientCursor, Behind, Said, ServerShape
<1>5. PICK e, p : e = Client!Receipt(theirs') /\ p = [Client!Event("presence") EXCEPT !.online = there']
  OBVIOUS
<1>6. e \in SocketEvent /\ p \in SocketEvent /\ e.kind = "receipt" /\ e.ticks = theirs'
      /\ p.kind = "presence" /\ p.online = there'
  BY <1>4, <1>5, EventsOf
<1>7. /\ wire' \in Seq(SocketEvent) /\ OnWire(wire') \subseteq OnWire(wire) \cup {e, p}
      /\ link => \/ OnWire(wire') = OnWire(wire) \cup {p} /\ wire' = wire \o <<p>> /\ theirs' = theirs
                 \/ OnWire(wire') = OnWire(wire) \cup {e, p} /\ wire' = wire \o (<<e>> \o <<p>>)
  <2>1. CASE ~there
    <3>1. Client!Told(<<e>> \o <<p>>)
      BY <1>5, <2>1 DEF Client!TheyMove
    <3>. QED
      BY <1>6, <3>1, ToldTwo
  <2>2. CASE there
    <3>1. Client!Told(<< >> \o <<p>>) /\ theirs' = theirs
      BY <1>5, <2>2 DEF Client!TheyMove
    <3>2. << >> \o <<p>> = <<p>>
      OBVIOUS
    <3>. QED
      BY <1>6, <3>1, <3>2, ToldOne
  <2>. QED
    BY <2>1, <2>2
<1>8. EventFits(e)' /\ EventFits(p)'
  BY <1>4, <1>6 DEF EventFits
<1>9. /\ reading' = reading /\ open' = open /\ asking' = asking /\ heard' = heard
      /\ cached' = cached /\ fetching' = fetching /\ list' = list /\ latest' = latest /\ begun' = begun
  BY DEF Client!TheyMove, Client!cache
<1>10. ClientShape'
  <2>. DEFINE E == {e, p}
  <2>1. E \in SUBSET SocketEvent /\ \A x \in E : EventFits(x)'
    BY <1>6, <1>8
  <2>2. OnWire(wire') \subseteq OnWire(wire) \cup E
    BY <1>7
  <2>. HIDE DEF E
  <2>. QED
    BY <1>1, <1>2, <1>3, <1>7, <1>9, <2>1, <2>2, ServerSteps
<1>. QED
  BY <1>6, <1>7, <1>10

LEMMA ShapeTakeRead ==
  ASSUME ClientConstants, ClientShape, Client!TakeRead
  PROVE  ClientShape'
<1>. USE DEF ClientShape
<1>1. Said' = Said /\ mine' \in Said \cup {0} /\ theirs' = theirs /\ theirs.read \in Nat /\ theirs.delivered \in Nat
  BY DEF Client!TakeRead, Client!Greatest, ServerShape, Said
<1>2. ServerShape' /\ begun' = begun
  BY <1>1 DEF Client!TakeRead, ServerShape
<1>3. /\ reading' = 0 /\ open' = open /\ asking' = asking /\ heard' = heard /\ wire' = wire
      /\ cached' = cached /\ fetching' = fetching /\ list' = list /\ latest' = latest
  BY DEF Client!TakeRead, Client!cache
<1>4. wire' \in Seq(SocketEvent) /\ OnWire(wire') \subseteq OnWire(wire) \cup {} /\ open' \in BOOLEAN
  BY <1>3
<1>. DEFINE E == {}
<1>20. E \in SUBSET SocketEvent /\ (\A x \in E : EventFits(x)') /\ OnWire(wire') \subseteq OnWire(wire) \cup E
  BY <1>4
<1>. HIDE DEF E
<1>. QED
  <2>1. /\ (begun => begun') /\ Said \subseteq Said' /\ reading' \in {reading, 0} /\ asking' \in {asking, Asked}
        /\ theirs.read <= theirs'.read /\ theirs.delivered <= theirs'.delivered
    BY <1>1, <1>2, <1>3
  <2>2. /\ heard' = heard /\ cached' = cached /\ fetching' = fetching /\ list' = list /\ latest' = latest
        /\ wire' \in Seq(SocketEvent) /\ open' \in BOOLEAN /\ ServerShape'
    BY <1>2, <1>3, <1>4
  <2>. QED
    BY <1>20, <2>1, <2>2, ServerSteps

(* What arrives in the thread.                                             *)
LEMMA UpsertedFits ==
  ASSUME NEW t \in {None} \cup Seq(Nat), t # None => ThreadFits(t), NEW n \in Said
  PROVE  /\ Client!Upserted(t, n) \in {None} \cup Seq(Nat)
         /\ Client!Upserted(t, n) # None => ThreadFits(Client!Upserted(t, n))
         /\ t = None => Client!Upserted(t, n) = None
         /\ t # None /\ Client!Upserted(t, n) # None =>
              Client!Range(Client!Upserted(t, n)) = Client!Range(t) \cup {n}
         /\ None \notin Seq(Nat) /\ t # None => Client!Upserted(t, n) # None
<1>1. CASE t = None \/ n \in Client!Range(t)
  BY <1>1 DEF Client!Upserted
<1>2. CASE t # None /\ n \notin Client!Range(t)
  <2>1. t \in Seq(Nat) /\ Len(t) \in Nat /\ n \in Nat
    BY <1>2 DEF Said
  <2>. DEFINE u == Append(t, n)
  <2>2. /\ u \in Seq(Nat) /\ Len(u) = Len(t) + 1 /\ u[Len(t) + 1] = n
        /\ \A i \in 1 .. Len(t) : u[i] = t[i]
        /\ DOMAIN u = 1 .. Len(t) + 1 /\ DOMAIN t = 1 .. Len(t)
    BY <2>1
  <2>3. Client!Upserted(t, n) = u
    BY <1>2 DEF Client!Upserted
  <2>4. \A i \in 1 .. Len(t) : t[i] # n
    BY <1>2, <2>2 DEF Client!Range
  <2>. HIDE DEF u
  <2>5. ThreadFits(u)
    <3>1. \A i \in 1 .. Len(t) : t[i] \in Said /\ \A j \in 1 .. Len(t) : t[i] = t[j] => i = j
      BY <1>2, <2>2 DEF ThreadFits
    <3>2. \A i \in 1 .. Len(t) + 1 : i \in 1 .. Len(t) \/ i = Len(t) + 1
      BY <2>1
    <3>. QED
      BY <2>2, <2>4, <3>1, <3>2 DEF ThreadFits
  <2>6. Client!Range(u) = Client!Range(t) \cup {n}
    <3>1. 1 .. Len(t) + 1 = (1 .. Len(t)) \cup {Len(t) + 1}
      BY <2>1
    <3>. QED
      BY <2>2, <3>1 DEF Client!Range
  <2>. QED
    BY <1>2, <2>2, <2>3, <2>5, <2>6
<1>. QED
  BY <1>1, <1>2

LEMMA FetchedFits ==
  ASSUME ServerShape, NEW f \in Said \cup {0}
  PROVE  LET t == [n \in 1 .. f |-> n]
         IN t \in Seq(Nat) /\ ThreadFits(t) /\ Len(t) = f /\ Client!TailOf(t) \in {0, f}
            /\ Client!Range(t) = 1 .. f
<1>1. f \in Nat /\ 1 .. f \subseteq Said
  BY DEF ServerShape, Said
<1>. DEFINE t == [n \in 1 .. f |-> n]
<1>2. t \in [1 .. f -> Nat] /\ DOMAIN t = 1 .. f /\ \A n \in 1 .. f : t[n] = n
  BY <1>1
<1>3. t \in Seq(Nat) /\ Len(t) = f
  BY <1>1, <1>2, IsASeq
<1>4. ThreadFits(t) /\ Client!Range(t) = 1 .. f
  BY <1>1, <1>2 DEF ThreadFits, Client!Range
<1>5. Client!TailOf(t) \in {0, f}
  <2>. HIDE DEF t
  <2>1. f # 0 => t[f] = f
    BY <1>1, <1>2
  <2>2. f = 0 => t = << >>
    BY <1>3
  <2>. QED
    BY <1>3, <2>1, <2>2 DEF Client!TailOf
<1>. QED
  BY <1>3, <1>4, <1>5

LEMMA TickedFits ==
  ASSUME ClientConstants, ServerShape, NEW l \in {None} \cup Chat, ChatFits(l), NEW c \in ClientCursor, Behind(c)
  PROVE  /\ Client!Ticked(l, c) \in {None} \cup Chat /\ ChatFits(Client!Ticked(l, c))
         /\ l = None <=> Client!Ticked(l, c) = None
         /\ l # None => /\ Client!Ticked(l, c).unread = l.unread /\ Client!Ticked(l, c).online = l.online
                        /\ l.ticks = theirs \/ c = theirs => Client!Ticked(l, c).ticks = theirs
<1>1. None \notin Chat
  BY DEF ClientConstants
<1>2. CASE l = None
  BY <1>2 DEF Client!Ticked
<1>3. CASE l \in Chat
  <2>. DEFINE d == [read |-> Client!Greatest(l.ticks.read, c.read),
                    delivered |-> Client!Greatest(l.ticks.delivered, c.delivered)]
  <2>1. Client!Ticked(l, c) = [l EXCEPT !.ticks = d]
    BY <1>1, <1>3 DEF Client!Ticked
  <2>2. /\ l.ticks \in ClientCursor /\ theirs \in [read : Nat, delivered : Nat]
        /\ begun /\ Behind(l.ticks)
    BY <1>3 DEF Chat, ServerShape, Said, ChatFits
  <2>3. d \in ClientCursor /\ Behind(d)
    BY <2>2 DEF ClientCursor, Client!Greatest, Behind
  <2>4. l.ticks = theirs \/ c = theirs => d = theirs
    <3>1. theirs = [read |-> theirs.read, delivered |-> theirs.delivered]
      BY <2>2
    <3>2. l.ticks = theirs \/ c = theirs => d.read = theirs.read /\ d.delivered = theirs.delivered
      BY <2>2 DEF Behind, Client!Greatest, ClientCursor
    <3>. QED
      BY <3>1, <3>2
  <2>. HIDE DEF d
  <2>5. [l EXCEPT !.ticks = d] \in Chat /\ [l EXCEPT !.ticks = d].ticks = d
        /\ [l EXCEPT !.ticks = d].unread = l.unread /\ [l EXCEPT !.ticks = d].online = l.online
    BY <1>3, <2>3 DEF Chat
  <2>. QED
    BY <1>1, <1>3, <2>1, <2>2, <2>3, <2>4, <2>5 DEF ChatFits
<1>. QED
  BY <1>2, <1>3

(* The steps of the browser: the server stays as it is.                    *)
LEMMA ServerStays ==
  ASSUME ServerShape, UNCHANGED <<begun, said, owed, mine, theirs, there, moves>>, link' \in BOOLEAN
  PROVE  /\ ServerShape' /\ Said' = Said
         /\ \A e : EventFits(e) => EventFits(e)'
         /\ \A t : ThreadFits(t) => ThreadFits(t)'
         /\ \A l : ChatFits(l) => ChatFits(l)'
<1>1. Said' = Said
  BY DEF Said
<1>. QED
  BY <1>1 DEF ServerShape, EventFits, ThreadFits, ChatFits, Behind

LEMMA MarkedFits ==
  ASSUME ClientConstants, NEW l \in {None} \cup Chat, ChatFits(l)
  PROVE  /\ l # None => /\ [l EXCEPT !.unread = 0] \in Chat /\ ChatFits([l EXCEPT !.unread = 0])
                        /\ [l EXCEPT !.unread = 0] # None /\ [l EXCEPT !.unread = 0].unread = 0
                        /\ [l EXCEPT !.unread = 0].ticks = l.ticks /\ [l EXCEPT !.unread = 0].online = l.online
<1>1. None \notin Chat
  BY DEF ClientConstants
<1>2. ASSUME l \in Chat
      PROVE  /\ [l EXCEPT !.unread = 0] \in Chat /\ [l EXCEPT !.unread = 0].unread = 0
             /\ [l EXCEPT !.unread = 0].ticks = l.ticks /\ [l EXCEPT !.unread = 0].online = l.online
  BY <1>2 DEF Chat
<1>. QED
  BY <1>1, <1>2 DEF ChatFits

(* What hearing an event changes.                                          *)
HearsOf(e, l) ==
  /\ e \in OnWire(wire) /\ e \in SocketEvent /\ EventFits(e) /\ e = wire[1]
  /\ wire' \in Seq(SocketEvent) /\ Len(wire') = Len(wire) - 1 /\ OnWire(wire) = {e} \cup OnWire(wire')
  /\ \A i \in DOMAIN wire' : wire'[i] = wire[i + 1]
  /\ l \in {None} \cup Chat /\ ChatFits(l) /\ (l = None <=> list = None)
  /\ e.kind # "receipt" => l = list
  /\ e.kind = "receipt" => l = Client!Ticked(list, e.ticks)
  /\ l # None => l.unread = list.unread /\ l.online = list.online
  /\ l # None /\ list.ticks = theirs => l.ticks = theirs
  /\ l # None /\ e.kind = "receipt" /\ e.ticks = theirs => l.ticks = theirs
  /\ cached' = (IF e.kind = "message" THEN Client!Upserted(cached, e.seq) ELSE cached)
  /\ asking' = (IF e.kind \in {"message", "conversation"} THEN Asked ELSE asking)
  /\ heard' = (IF e.kind = "presence" THEN e.online ELSE heard)
  /\ Client!Shown(cached', l, latest)
  /\ open' = open /\ fetching' = fetching /\ link' = link /\ link

LEMMA Hearing ==
  ASSUME ClientConstants, ClientShape, Client!Hear
  PROVE  UNCHANGED <<begun, said, owed, mine, theirs, there, moves>> /\ \E e, l : HearsOf(e, l)
<1>. USE DEF ClientShape
<1>1. PICK e : e = Head(wire)
  OBVIOUS
<1>2. PICK l : l = IF e.kind = "receipt" THEN Client!Ticked(list, e.ticks) ELSE list
  OBVIOUS
<1>3. PICK w : w = SubSeq(wire, 2, Len(wire))
  OBVIOUS
<1>4. wire # <<>> /\ wire' = w
  BY <1>3 DEF Client!Hear
<1>5. /\ e \in SocketEvent /\ e = wire[1] /\ e \in OnWire(wire) /\ w \in Seq(SocketEvent)
      /\ Len(w) = Len(wire) - 1 /\ OnWire(wire) = {e} \cup OnWire(w)
      /\ \A i \in 1 .. Len(wire) - 1 : w[i] = wire[i + 1]
  BY <1>1, <1>3, <1>4, HeardWire
<1>6. EventFits(e) /\ (e.kind = "receipt" => e.ticks \in ClientCursor /\ Behind(e.ticks))
  BY <1>5 DEF EventFits
<1>7. /\ l \in {None} \cup Chat /\ ChatFits(l) /\ (l = None <=> list = None)
      /\ l # None => l.unread = list.unread /\ l.online = list.online
      /\ l # None /\ list.ticks = theirs => l.ticks = theirs
      /\ l # None /\ e.kind = "receipt" /\ e.ticks = theirs => l.ticks = theirs
  <2>1. CASE e.kind = "receipt"
    BY <1>2, <1>6, <2>1, TickedFits
  <2>2. CASE e.kind # "receipt"
    BY <1>2, <2>2
  <2>. QED
    BY <2>1, <2>2
<1>8. DOMAIN wire' = 1 .. Len(wire) - 1
  BY <1>4, <1>5
<1>9. /\ cached' = (IF e.kind = "message" THEN Client!Upserted(cached, e.seq) ELSE cached)
      /\ asking' = (IF e.kind \in {"message", "conversation"} THEN Asked ELSE asking)
      /\ heard' = (IF e.kind = "presence" THEN e.online ELSE heard)
      /\ Client!Shown(cached', l, latest)
      /\ open' = open /\ fetching' = fetching /\ link' = link /\ link
      /\ UNCHANGED <<begun, said, owed, mine, theirs, there, moves>>
  BY <1>1, <1>2 DEF Client!Hear, Client!Refreshed, Client!server
<1>10. HearsOf(e, l)
  <2>1. (e.kind # "receipt" => l = list) /\ (e.kind = "receipt" => l = Client!Ticked(list, e.ticks))
    BY <1>2
  <2>. QED
    BY <1>4, <1>5, <1>6, <1>7, <1>8, <1>9, <2>1 DEF HearsOf
<1>. QED
  BY <1>9, <1>10

LEMMA ShapeHear ==
  ASSUME ClientConstants, ClientShape, Client!Hear
  PROVE  ClientShape'
<1>. USE DEF ClientShape
<1>1. PICK e, l : HearsOf(e, l)
  BY Hearing
<1>2. UNCHANGED <<begun, said, owed, mine, theirs, there, moves>> /\ link' = link
  BY <1>1, Hearing DEF HearsOf
<1>3. /\ ServerShape' /\ Said' = Said
      /\ \A x : EventFits(x) => EventFits(x)'
      /\ \A t : ThreadFits(t) => ThreadFits(t)'
      /\ \A k : ChatFits(k) => ChatFits(k)'
  <2>1. link' \in BOOLEAN
    BY <1>2 DEF ServerShape
  <2>. QED
    BY <1>2, <2>1, ServerStays
<1>4. cached' \in {None} \cup Seq(Nat) /\ (cached' # None => ThreadFits(cached'))
  BY <1>1, UpsertedFits DEF HearsOf, EventFits
<1>5. PICK t : t = cached'
  OBVIOUS
<1>6. /\ reading' \in Said \cup {0} /\ latest' \in Said \cup {0}
      /\ list' = l \/ (l # None /\ list' = [l EXCEPT !.unread = 0])
  BY <1>1, <1>4, <1>5, MarkingRead DEF HearsOf
<1>7. list' \in {None} \cup Chat /\ ChatFits(list')
  BY <1>1, <1>6, MarkedFits DEF HearsOf
<1>8. heard' \in {None} \cup BOOLEAN
  BY <1>1 DEF HearsOf, SocketEvent
<1>9. asking' \in {None, Asked} \cup Chat /\ ChatFits(asking')
  BY <1>1 DEF HearsOf, ChatFits, ClientConstants
<1>10. wire' \in Seq(SocketEvent) /\ \A x \in OnWire(wire') : EventFits(x)
  BY <1>1 DEF HearsOf
<1>11. PICK k, a, w : k = list' /\ a = asking' /\ w = wire'
  OBVIOUS
<1>12. ChatFits(list)' /\ ChatFits(asking)' /\ (cached' # None => ThreadFits(cached)') /\ \A x \in OnWire(wire)' : EventFits(x)'
  <2>1. ChatFits(k)' /\ ChatFits(a)' /\ (t # None => ThreadFits(t)') /\ \A x \in OnWire(w) : EventFits(x)'
    BY <1>3, <1>4, <1>5, <1>7, <1>9, <1>10, <1>11
  <2>. QED
    BY <1>5, <1>11, <2>1 DEF ChatFits, ThreadFits, OnWire
<1>. QED
  BY <1>1, <1>3, <1>4, <1>6, <1>7, <1>8, <1>9, <1>10, <1>12 DEF HearsOf

LEMMA BrowserSteps ==
  ASSUME ClientConstants, ClientShape, UNCHANGED <<begun, said, owed, mine, theirs, there, moves>>,
         link' \in BOOLEAN, wire' \in {wire, <<>>}, open' \in BOOLEAN, heard' = heard,
         reading' \in Said \cup {0}, latest' \in Said \cup {0},
         cached' \in {None} \cup Seq(Nat), cached' # None => ThreadFits(cached'),
         fetching' \in {None, Asked, 0} \cup Said,
         list' \in {None} \cup Chat, ChatFits(list'), asking' \in {None, Asked} \cup Chat, ChatFits(asking')
  PROVE  ClientShape' /\ Said' = Said
<1>1. /\ ServerShape' /\ Said' = Said
      /\ \A x : EventFits(x) => EventFits(x)'
      /\ \A t : ThreadFits(t) => ThreadFits(t)'
      /\ \A k : ChatFits(k) => ChatFits(k)'
  BY ServerStays DEF ClientShape
<1>2. wire' \in Seq(SocketEvent) /\ \A x \in OnWire(wire') : EventFits(x)
  <2>1. CASE wire' = wire
    BY <2>1 DEF ClientShape, OnWire
  <2>2. CASE wire' = <<>>
    <3>1. OnWire(<<>>) = {} /\ <<>> \in Seq(SocketEvent)
      BY DEF OnWire
    <3>. QED
      BY <2>2, <3>1
  <2>. QED
    BY <2>1, <2>2
<1>3. PICK t, k, a, w : t = cached' /\ k = list' /\ a = asking' /\ w = wire'
  OBVIOUS
<1>4. ChatFits(k)' /\ ChatFits(a)' /\ (t # None => ThreadFits(t)') /\ \A x \in OnWire(w) : EventFits(x)'
  BY <1>1, <1>2, <1>3
<1>5. ChatFits(list)' /\ ChatFits(asking)' /\ (cached' # None => ThreadFits(cached)') /\ \A x \in OnWire(wire)' : EventFits(x)'
  BY <1>3, <1>4 DEF ChatFits, ThreadFits, OnWire
<1>. QED
  BY <1>1, <1>2, <1>5 DEF ClientShape

LEMMA ShapeBrowser ==
  ASSUME ClientConstants, ClientShape,
         Client!Select \/ Client!Leave \/ Client!AnswerThread \/ Client!ThreadArrives
           \/ Client!AnswerList \/ Client!ListArrives \/ Client!Drop \/ Client!Reconnect
  PROVE  ClientShape'
<1>. USE DEF ClientShape
<1>0. Client!Newest \in Said \cup {0} /\ link \in BOOLEAN /\ wire \in {wire, <<>>}
  BY DEF Client!Newest, ServerShape, Said
<1>1. CASE Client!Select
  <2>1. /\ UNCHANGED <<begun, said, owed, mine, theirs, there, moves, link, wire, cached, asking, heard>>
        /\ open' = TRUE /\ fetching' = Asked /\ list # None
    BY <1>1 DEF Client!Select, Client!server
  <2>2. Client!TailOf(cached) \in Said \cup {0}
    BY DEF Client!TailOf, ThreadFits, ServerShape, Said
  <2>3. /\ reading' \in Said \cup {0} /\ latest' \in Said \cup {0} /\ list' \in {list, Client!Cleared(list)}
    BY <1>1, <2>2 DEF Client!Select, Client!Greatest, Said
  <2>4. list' \in {None} \cup Chat /\ ChatFits(list')
    BY <2>1, <2>3, MarkedFits DEF Client!Cleared
  <2>5. open' \in BOOLEAN /\ fetching' \in {None, Asked, 0} \cup Said
    BY <2>1
  <2>6. /\ cached' \in {None} \cup Seq(Nat) /\ (cached' # None => ThreadFits(cached'))
        /\ asking' \in {None, Asked} \cup Chat /\ ChatFits(asking') /\ link' \in BOOLEAN /\ wire' \in {wire, <<>>}
    BY <1>0, <2>1
  <2>. QED
    BY <2>1, <2>3, <2>4, <2>5, <2>6, BrowserSteps
<1>2. CASE Client!Leave
  <2>1. /\ UNCHANGED <<begun, said, owed, mine, theirs, there, moves, link, wire, reading, cached, fetching, list, asking, heard>>
        /\ open' = FALSE /\ latest' = 0
    BY <1>2 DEF Client!Leave, Client!server
  <2>2. /\ cached' \in {None} \cup Seq(Nat) /\ (cached' # None => ThreadFits(cached'))
        /\ asking' \in {None, Asked} \cup Chat /\ ChatFits(asking') /\ link' \in BOOLEAN /\ wire' \in {wire, <<>>}
        /\ list' \in {None} \cup Chat /\ ChatFits(list') /\ fetching' \in {None, Asked, 0} \cup Said
        /\ open' \in BOOLEAN /\ reading' \in Said \cup {0} /\ latest' \in Said \cup {0}
    BY <1>0, <2>1
  <2>. QED
    BY <2>1, <2>2, BrowserSteps
<1>3. CASE Client!AnswerThread
  <2>1. /\ UNCHANGED <<begun, said, owed, mine, theirs, there, moves, link, wire, reading, open, cached, list, asking, heard, latest>>
        /\ fetching' = Client!Newest
    BY <1>3 DEF Client!AnswerThread, Client!server
  <2>2. /\ cached' \in {None} \cup Seq(Nat) /\ (cached' # None => ThreadFits(cached'))
        /\ asking' \in {None, Asked} \cup Chat /\ ChatFits(asking') /\ link' \in BOOLEAN /\ wire' \in {wire, <<>>}
        /\ list' \in {None} \cup Chat /\ ChatFits(list') /\ fetching' \in {None, Asked, 0} \cup Said
        /\ open' \in BOOLEAN /\ reading' \in Said \cup {0} /\ latest' \in Said \cup {0}
    BY <1>0, <2>1
  <2>. QED
    BY <2>1, <2>2, BrowserSteps
<1>4. CASE Client!ThreadArrives
  <2>1. /\ UNCHANGED <<begun, said, owed, mine, theirs, there, moves, link, wire, open, asking, heard>>
        /\ fetching' = None /\ fetching \in Said \cup {0}
    BY <1>4 DEF Client!ThreadArrives, Client!server
  <2>2. PICK t : t = [n \in 1 .. fetching |-> n]
    OBVIOUS
  <2>3. cached' = t /\ Client!Shown(t, list, latest)
    BY <1>4, <2>2 DEF Client!ThreadArrives
  <2>4. t \in Seq(Nat) /\ ThreadFits(t)
    BY <2>1, <2>2, FetchedFits
  <2>5. /\ reading' \in Said \cup {0} /\ latest' \in Said \cup {0}
        /\ list' = list \/ (list # None /\ list' = [list EXCEPT !.unread = 0])
    BY <2>3, <2>4, MarkingRead
  <2>6. list' \in {None} \cup Chat /\ ChatFits(list')
    BY <2>5, MarkedFits
  <2>7. /\ cached' \in {None} \cup Seq(Nat) /\ (cached' # None => ThreadFits(cached'))
        /\ asking' \in {None, Asked} \cup Chat /\ ChatFits(asking') /\ link' \in BOOLEAN /\ wire' \in {wire, <<>>}
        /\ fetching' \in {None, Asked, 0} \cup Said /\ open' \in BOOLEAN
    BY <1>0, <2>1, <2>3, <2>4
  <2>. QED
    BY <2>1, <2>5, <2>6, <2>7, BrowserSteps
<1>5. CASE Client!AnswerList
  <2>1. /\ UNCHANGED <<begun, said, owed, mine, theirs, there, moves, link, wire, reading, open, cached, fetching, list, heard, latest>>
        /\ asking' = Client!Listed
    BY <1>5 DEF Client!AnswerList, Client!server
  <2>2. /\ cached' \in {None} \cup Seq(Nat) /\ (cached' # None => ThreadFits(cached'))
        /\ asking' \in {None, Asked} \cup Chat /\ ChatFits(asking') /\ link' \in BOOLEAN /\ wire' \in {wire, <<>>}
        /\ list' \in {None} \cup Chat /\ ChatFits(list') /\ fetching' \in {None, Asked, 0} \cup Said
        /\ open' \in BOOLEAN /\ reading' \in Said \cup {0} /\ latest' \in Said \cup {0}
    BY <1>0, <2>1, ListedFits
  <2>. QED
    BY <2>1, <2>2, BrowserSteps
<1>6. CASE Client!ListArrives
  <2>1. /\ UNCHANGED <<begun, said, owed, mine, theirs, there, moves, link, wire, open, cached, heard>>
        /\ asking' = None /\ fetching' \in {Asked, fetching}
    BY <1>6 DEF Client!ListArrives, Client!server
  <2>2. PICK l : l = Client!Arriving
    OBVIOUS
  <2>3. l \in {None} \cup Chat /\ ChatFits(l) /\ Client!Shown(cached, l, latest)
    BY <1>6, <2>2, ListedFits DEF Client!ListArrives, Client!Arriving
  <2>4. /\ reading' \in Said \cup {0} /\ latest' \in Said \cup {0}
        /\ list' = l \/ (l # None /\ list' = [l EXCEPT !.unread = 0])
    BY <2>3, MarkingRead
  <2>5. list' \in {None} \cup Chat /\ ChatFits(list')
    BY <2>3, <2>4, MarkedFits
  <2>6. /\ cached' \in {None} \cup Seq(Nat) /\ (cached' # None => ThreadFits(cached'))
        /\ asking' \in {None, Asked} \cup Chat /\ ChatFits(asking') /\ link' \in BOOLEAN /\ wire' \in {wire, <<>>}
        /\ fetching' \in {None, Asked, 0} \cup Said /\ open' \in BOOLEAN
    BY <1>0, <2>1 DEF ChatFits, ClientConstants
  <2>. QED
    BY <2>1, <2>4, <2>5, <2>6, BrowserSteps
<1>7. CASE Client!Drop \/ Client!Reconnect
  <2>1. /\ UNCHANGED <<begun, said, owed, mine, theirs, there, moves, reading, open, cached, fetching, list, asking, heard, latest>>
        /\ link' \in BOOLEAN /\ wire' \in {wire, <<>>}
    BY <1>7 DEF Client!Drop, Client!Reconnect, Client!server, Client!cache
  <2>2. /\ cached' \in {None} \cup Seq(Nat) /\ (cached' # None => ThreadFits(cached'))
        /\ asking' \in {None, Asked} \cup Chat /\ ChatFits(asking')
        /\ list' \in {None} \cup Chat /\ ChatFits(list') /\ fetching' \in {None, Asked, 0} \cup Said
        /\ open' \in BOOLEAN /\ reading' \in Said \cup {0} /\ latest' \in Said \cup {0}
    BY <2>1
  <2>. QED
    BY <2>1, <2>2, BrowserSteps
<1>. QED
  BY <1>1, <1>2, <1>3, <1>4, <1>5, <1>6, <1>7

LEMMA ClientShapeNext ==
  ASSUME ClientConstants, ClientShape, [Client!Next]_(Client!vars)
  PROVE  ClientShape'
<1>1. ASSUME NEW n \in 1 .. MaxSaid PROVE n \in Nat
  BY DEF ClientConstants
<1>2. CASE UNCHANGED Client!vars
  <2>1. UNCHANGED <<begun, said, owed, mine, theirs, there, moves, link, wire, reading, open, cached, fetching, list, asking, heard, latest>>
    BY <1>2 DEF Client!vars, Client!server, Client!cache
  <2>2. /\ cached' \in {None} \cup Seq(Nat) /\ (cached' # None => ThreadFits(cached'))
        /\ asking' \in {None, Asked} \cup Chat /\ ChatFits(asking') /\ link' \in BOOLEAN /\ wire' \in {wire, <<>>}
        /\ list' \in {None} \cup Chat /\ ChatFits(list') /\ fetching' \in {None, Asked, 0} \cup Said
        /\ open' \in BOOLEAN /\ reading' \in Said \cup {0} /\ latest' \in Said \cup {0}
    BY <2>1 DEF ClientShape, ServerShape
  <2>. QED
    BY <2>1, <2>2, BrowserSteps
<1>3. CASE Client!Next
  BY <1>1, <1>3, ShapeCreate, ShapeCommit, ShapeDispatch, ShapeTheyRead, ShapeTheyMove, ShapeTakeRead,
     ShapeHear, ShapeBrowser DEF Client!Next
<1>. QED
  BY <1>2, <1>3

(* What the shape says of what is seen: the types, no message twice in the *)
(* thread, no tick before its time.                                        *)
LEMMA ShapeShows ==
  ASSUME ClientConstants, ClientShape
  PROVE  Client!ClientTypeOK /\ Client!OnceInThread /\ Client!TicksAreTrue
<1>. USE DEF ClientShape, ServerShape
<1>1. Client!Newest \in Nat /\ Client!Committed = Said /\ Said \cup {0} = 0 .. Client!Newest
  BY DEF Client!Newest, Client!Committed, Said
<1>2. cached # None => Client!Range(cached) \subseteq Said /\ Client!IsInjective(cached)
  BY DEF ThreadFits, Client!Range, Client!IsInjective
<1>3. list # None => begun /\ Behind(list.ticks) /\ list.ticks \in ClientCursor
  BY DEF ChatFits, Chat
<1>4. Client!ClientTypeOK
  BY <1>1, <1>2, <1>3 DEF Client!ClientTypeOK
<1>5. Client!OnceInThread
  BY <1>2 DEF Client!OnceInThread
<1>6. ASSUME list # None, NEW n \in Said
      PROVE  /\ Client!Bubble(n) = "read" => theirs.read >= n
             /\ Client!Bubble(n) = "delivered" => theirs.delivered >= n
  <2>1. n \in Nat /\ list.ticks.read \in Nat /\ list.ticks.delivered \in Nat
        /\ theirs.read \in Nat /\ theirs.delivered \in Nat
        /\ list.ticks.read <= theirs.read /\ list.ticks.delivered <= theirs.delivered
    BY <1>3, <1>6 DEF Said, Behind, ClientCursor
  <2>2. /\ Client!Bubble(n) = "read" => list.ticks.read >= n
        /\ Client!Bubble(n) = "delivered" => list.ticks.delivered >= n
    BY <2>1 DEF Client!Bubble, Client!tickState
  <2>. QED
    BY <2>1, <2>2
<1>7. Client!TicksAreTrue
  BY <1>1, <1>6 DEF Client!TicksAreTrue
<1>. QED
  BY <1>4, <1>5, <1>7

LEMMA ClientIsShaped ==
  ASSUME ClientConstants
  PROVE  Client!Spec => []ClientShape
<1>1. Client!Init => ClientShape
  BY ClientShapeInit
<1>2. ClientShape /\ [Client!Next]_(Client!vars) => ClientShape'
  BY ClientShapeNext
<1>. QED
  BY <1>1, <1>2, PTL DEF Client!Spec

(* Whatever crosses and whatever is lost on the way, the browser's copy of *)
(* a conversation never holds a message twice and never ticks one of mine  *)
(* for more than has become of it (upsertMessage, applyReceipt, Bubble).   *)
THEOREM CopyNeverOverstates ==
  ASSUME ClientConstants
  PROVE  Client!Spec => [](Client!ClientTypeOK /\ Client!OnceInThread /\ Client!TicksAreTrue)
<1>1. ClientShape => Client!ClientTypeOK /\ Client!OnceInThread /\ Client!TicksAreTrue
  BY ShapeShows
<1>. QED
  BY <1>1, ClientIsShaped, PTL

-----------------------------------------------------------------------------
(* What is still coming, while the connection holds.                       *)
Coming(n) == \E e \in OnWire(wire) : e.kind = "message" /\ e.seq = n

(* Nothing that would have the list fetched again is on its way.           *)
Calm ==
  /\ asking = None /\ owed = {}
  /\ \A e \in OnWire(wire) : e.kind \notin {"message", "conversation"}

(* Every message is in the cached thread, on the wire or still owed to the *)
(* room; one that a fetch has missed is owed yet.                          *)
Whole ==
  /\ cached # None => \A n \in Said : n \in owed \/ Coming(n) \/ n \in Client!Range(cached)
  /\ fetching \notin {None, Asked} => \A n \in Said : n > fetching => n \in owed

LEMMA StayConnected ==
  ASSUME "drop" \notin ChatOps, link, [Client!Next]_(Client!vars)
  PROVE  link'
BY DEF Client!Next, Client!vars, Client!Create, Client!Commit, Client!Dispatch, Client!TheyRead, Client!TheyMove,
  Client!TakeRead, Client!Hear, Client!Select, Client!Leave, Client!AnswerThread, Client!ThreadArrives,
  Client!AnswerList, Client!ListArrives, Client!Drop, Client!Reconnect

LEMMA WholeKept ==
  ASSUME Whole, OnWire(wire) \subseteq OnWire(wire'), owed \subseteq owed', Said' \subseteq Said \cup owed',
         cached' = cached, fetching' \in {fetching, Asked}
  PROVE  Whole'
<1>1. ASSUME NEW n, Coming(n) PROVE Coming(n)'
  BY <1>1 DEF Coming, OnWire
<1>. QED
  BY <1>1 DEF Whole

LEMMA WholeNext ==
  ASSUME ClientConstants, ClientShape, {"drop", "late"} \cap ChatOps = {}, link, Whole,
         [Client!Next]_(Client!vars)
  PROVE  Whole'
<1>. USE DEF ClientShape
<1>0. ASSUME NEW n \in 1 .. MaxSaid PROVE n \in Nat
  BY DEF ClientConstants
<1>1. ASSUME NEW by, Client!Create(by) PROVE Whole'
  BY <1>1, ShapeCreate, WholeKept DEF Client!Create, Said
<1>2. ASSUME NEW by \in {"me", "they"}, Client!Commit(by) PROVE Whole'
  <2>1. Said' = Said \cup {Len(said) + 1} /\ owed' = owed \cup {Len(said) + 1} /\ wire' = wire
        /\ cached' = cached /\ fetching' = fetching
    BY <1>2, ShapeCommit DEF Client!Commit, Client!Newest, Client!cache
  <2>. QED
    BY <2>1, WholeKept
<1>3. ASSUME NEW n \in Nat, Client!Dispatch(n) PROVE Whole'
  <2>1. /\ n \in owed /\ owed' = owed \ {n} /\ Said' = Said
        /\ cached' = cached /\ fetching' = fetching
        /\ ~(fetching \notin {None, Asked} /\ n > fetching)
    BY <1>3 DEF Client!Dispatch, Client!Late, Client!cache, Said
  <2>2. \E e \in OnWire(wire') : e.kind = "message" /\ e.seq = n /\ OnWire(wire) \subseteq OnWire(wire')
    <3>1. PICK e, f \in SocketEvent :
            /\ e.kind = "message" /\ e.seq = n
            /\ OnWire(wire') = OnWire(wire) \cup {e} \/ OnWire(wire') = OnWire(wire) \cup {e, f}
      <4>1. \E e, f \in SocketEvent :
              /\ e.kind = "message" /\ e.seq = n /\ f.kind = "receipt" /\ f.ticks = theirs'
              /\ link => \/ OnWire(wire') = OnWire(wire) \cup {e} /\ wire' = wire \o <<e>> /\ theirs' = theirs
                         \/ OnWire(wire') = OnWire(wire) \cup {e, f} /\ wire' = wire \o (<<e>> \o <<f>>)
        BY <1>3, ShapeDispatch
      <4>. HIDE DEF ClientShape
      <4>. QED
        BY <4>1, Zenon
    <3>2. e \in OnWire(wire') /\ OnWire(wire) \subseteq OnWire(wire')
      BY <3>1
    <3>. QED
      BY <3>1, <3>2
  <2>3. Coming(n)' /\ \A m : Coming(m) => Coming(m)'
    BY <2>2 DEF Coming, OnWire
  <2>. QED
    BY <2>1, <2>3 DEF Whole
<1>4. ASSUME NEW n \in Nat, Client!TheyRead(n) PROVE Whole'
  BY <1>4, ShapeTheyRead, WholeKept DEF Client!TheyRead, Client!cache, Said
<1>5. CASE Client!TheyMove
  BY <1>5, ShapeTheyMove, WholeKept DEF Client!TheyMove, Client!cache, Said
<1>6. CASE Client!TakeRead
  BY <1>6, WholeKept DEF Client!TakeRead, Client!cache, Said
<1>7. CASE Client!Hear
  <2>1. PICK e, l : HearsOf(e, l)
    BY <1>7, Hearing
  <2>2. /\ Said' = Said /\ owed' = owed /\ fetching' = fetching
        /\ OnWire(wire) = {e} \cup OnWire(wire') /\ EventFits(e)
        /\ cached' = (IF e.kind = "message" THEN Client!Upserted(cached, e.seq) ELSE cached)
    BY <1>7, <2>1, Hearing DEF HearsOf, Said
  <2>3. ASSUME NEW n, Coming(n) PROVE Coming(n)' \/ (e.kind = "message" /\ e.seq = n)
    BY <2>2, <2>3 DEF Coming, OnWire
  <2>4. cached # None \/ cached' = None
    BY <2>2, UpsertedFits DEF EventFits
  <2>5. cached' # None => /\ Client!Range(cached) \subseteq Client!Range(cached')
                          /\ e.kind = "message" => e.seq \in Client!Range(cached')
    BY <2>2, <2>4, UpsertedFits DEF EventFits
  <2>. QED
    BY <2>2, <2>3, <2>4, <2>5 DEF Whole, Client!Range
<1>8. CASE Client!Select \/ Client!Leave \/ Client!AnswerList \/ Client!ListArrives
  <2>1. /\ Said' = Said /\ owed' = owed /\ wire' = wire /\ cached' = cached /\ fetching' \in {fetching, Asked}
    BY <1>8 DEF Client!Select, Client!Leave, Client!AnswerList, Client!ListArrives, Client!server, Said
  <2>. QED
    BY <2>1, WholeKept
<1>9. CASE Client!AnswerThread
  <2>1. /\ Said' = Said /\ owed' = owed /\ wire' = wire /\ cached' = cached /\ fetching' = Len(said)
    BY <1>9 DEF Client!AnswerThread, Client!Newest, Client!server, Said
  <2>2. \A n \in Said' : ~(n > fetching')
    BY <2>1 DEF Said, ServerShape
  <2>3. \A n : Coming(n) => Coming(n)'
    BY <2>1 DEF Coming, OnWire
  <2>. QED
    BY <2>1, <2>2, <2>3 DEF Whole
<1>10. CASE Client!ThreadArrives
  <2>1. /\ Said' = Said /\ owed' = owed /\ fetching' = None /\ fetching \in Said \cup {0}
        /\ fetching \notin {None, Asked} /\ cached' = [n \in 1 .. fetching |-> n]
    BY <1>10 DEF Client!ThreadArrives, Client!server, Said
  <2>2. PICK t : t = cached'
    OBVIOUS
  <2>3. Client!Range(t) = 1 .. fetching
    BY <2>1, <2>2, FetchedFits
  <2>4. \A n \in Said : n \in owed \/ n \in Client!Range(t)
    BY <2>1, <2>3 DEF Whole, Said, ServerShape
  <2>. QED
    BY <2>1, <2>2, <2>4 DEF Whole, Client!Range
<1>11. CASE UNCHANGED Client!vars
  BY <1>11, WholeKept DEF Client!vars, Client!server, Client!cache, Said
<1>12. ~Client!Drop /\ ~Client!Reconnect
  BY DEF Client!Drop, Client!Reconnect
<1>. QED
  BY <1>0, <1>1, <1>2, <1>3, <1>4, <1>5, <1>6, <1>7, <1>8, <1>9, <1>10, <1>11, <1>12 DEF Client!Next

(* While the connection holds and no message comes out of turn, a thread   *)
(* that nothing is coming for has every message of the conversation.       *)
THEOREM ThreadIsAlwaysWhole ==
  ASSUME ClientConstants, {"drop", "late"} \cap ChatOps = {}
  PROVE  Client!Spec => []Client!ThreadIsWhole
<1>1. Client!Init => link /\ Whole
  BY DEF Client!Init, Whole
<1>2. link /\ Whole /\ ClientShape /\ [Client!Next]_(Client!vars) => link' /\ Whole'
  BY StayConnected, WholeNext
<1>3. ClientShape /\ Whole => Client!ThreadIsWhole
  <2>. SUFFICES ASSUME ClientShape, Whole, Client!AtRest, cached # None PROVE Client!Range(cached) = Client!Committed
    BY DEF Client!ThreadIsWhole
  <2>1. owed = {} /\ OnWire(wire) = {}
    BY DEF Client!AtRest, OnWire
  <2>2. Said \subseteq Client!Range(cached)
    BY <2>1 DEF Whole, Coming
  <2>3. Client!Range(cached) \subseteq Said
    BY DEF ClientShape, ThreadFits, Client!Range
  <2>4. Client!Committed = Said
    BY DEF Client!Committed, ClientShape, ServerShape, Said
  <2>. QED
    BY <2>2, <2>3, <2>4
<1>. QED
  BY <1>1, <1>2, <1>3, ClientIsShaped, PTL DEF Client!Spec

(* With nothing to refetch, the list has the server's cursors or a receipt *)
(* with them is on the wire.                                               *)
TicksComing ==
  /\ asking \in {None, Asked}
  /\ list # None /\ Calm =>
       list.ticks = theirs \/ \E e \in OnWire(wire) : e.kind = "receipt" /\ e.ticks = theirs

LEMMA TicksKept ==
  ASSUME TicksComing, OnWire(wire) \subseteq OnWire(wire'), owed \subseteq owed', theirs' = theirs,
         asking' \in {asking, Asked}, list' # None => list # None /\ list'.ticks = list.ticks, Asked # None
  PROVE  TicksComing'
<1>1. Calm' => Calm
  BY DEF Calm, OnWire, TicksComing
<1>. QED
  BY <1>1 DEF TicksComing, OnWire

(* Marking leaves the ticks and the presence of the list as they are.      *)
LEMMA OnlyMarked ==
  ASSUME ClientConstants, ClientShape, Client!Select \/ Client!ThreadArrives
  PROVE  list' # None =>
           list # None /\ list'.ticks = list.ticks /\ list'.online = list.online
<1>. USE DEF ClientShape
<1>1. CASE Client!Select
  <2>1. list' \in {list, Client!Cleared(list)}
    BY <1>1 DEF Client!Select
  <2>. QED
    BY <2>1, MarkedFits DEF Client!Cleared
<1>2. CASE Client!ThreadArrives
  <2>1. PICK t : t = [n \in 1 .. fetching |-> n]
    OBVIOUS
  <2>2. Client!Shown(t, list, latest) /\ fetching \in Said \cup {0}
    BY <1>2, <2>1 DEF Client!ThreadArrives
  <2>3. list' = list \/ (list # None /\ list' = [list EXCEPT !.unread = 0])
    BY <2>1, <2>2, MarkingRead, FetchedFits
  <2>. QED
    BY <2>3, MarkedFits
<1>. QED
  BY <1>1, <1>2

LEMMA TicksNext ==
  ASSUME ClientConstants, ClientShape, {"drop", "race"} \cap ChatOps = {}, link, TicksComing,
         [Client!Next]_(Client!vars)
  PROVE  TicksComing'
<1>. USE DEF ClientShape
<1>0. (\A n \in 1 .. MaxSaid : n \in Nat) /\ Asked # None
  BY DEF ClientConstants
<1>1. ASSUME NEW by, Client!Create(by) PROVE TicksComing'
  BY <1>0, <1>1, ShapeCreate, TicksKept DEF Client!Create
<1>2. ASSUME NEW by \in {"me", "they"}, Client!Commit(by) PROVE TicksComing'
  <2>1. owed' # {} /\ asking' = asking
    BY <1>2 DEF Client!Commit, Client!cache
  <2>. QED
    BY <2>1 DEF TicksComing, Calm
<1>3. ASSUME NEW n \in Nat, Client!Dispatch(n) PROVE TicksComing'
  <2>1. asking' = asking
    BY <1>3 DEF Client!Dispatch, Client!cache
  <2>2. \E e, f \in SocketEvent :
          /\ e.kind = "message" /\ e.seq = n /\ f.kind = "receipt" /\ f.ticks = theirs'
          /\ link => \/ OnWire(wire') = OnWire(wire) \cup {e} /\ wire' = wire \o <<e>> /\ theirs' = theirs
                     \/ OnWire(wire') = OnWire(wire) \cup {e, f} /\ wire' = wire \o (<<e>> \o <<f>>)
    BY <1>3, ShapeDispatch
  <2>. HIDE DEF ClientShape
  <2>3. \E e : e.kind = "message" /\ e \in OnWire(wire')
    BY <2>2
  <2>. QED
    BY <2>1, <2>3 DEF TicksComing, Calm, OnWire
<1>4. ASSUME NEW n \in Nat, Client!TheyRead(n) PROVE TicksComing'
  <2>1. asking' = asking
    BY <1>4 DEF Client!TheyRead, Client!cache
  <2>2. \E e \in OnWire(wire') : e.kind = "receipt" /\ e.ticks = theirs'
    BY <1>4, ShapeTheyRead
  <2>. QED
    BY <2>1, <2>2 DEF TicksComing, OnWire
<1>5. CASE Client!TheyMove
  <2>1. asking' = asking /\ list' = list /\ owed' = owed
    BY <1>5 DEF Client!TheyMove, Client!cache
  <2>2. \E e, p \in SocketEvent :
          /\ e.kind = "receipt" /\ e.ticks = theirs' /\ p.kind = "presence" /\ p.online = there'
          /\ link => \/ OnWire(wire') = OnWire(wire) \cup {p} /\ wire' = wire \o <<p>> /\ theirs' = theirs
                     \/ OnWire(wire') = OnWire(wire) \cup {e, p} /\ wire' = wire \o (<<e>> \o <<p>>)
    BY <1>5, ShapeTheyMove
  <2>3. \/ OnWire(wire) \subseteq OnWire(wire') /\ theirs' = theirs
        \/ \E e \in OnWire(wire') : e.kind = "receipt" /\ e.ticks = theirs'
    <3>. HIDE DEF ClientShape
    <3>. QED
      BY <2>2
  <2>4. CASE OnWire(wire) \subseteq OnWire(wire') /\ theirs' = theirs
    BY <1>0, <2>1, <2>4, TicksKept
  <2>5. CASE \E e \in OnWire(wire') : e.kind = "receipt" /\ e.ticks = theirs'
    BY <2>1, <2>5 DEF TicksComing, OnWire
  <2>. QED
    BY <2>3, <2>4, <2>5
<1>6. CASE Client!TakeRead \/ Client!Leave \/ Client!AnswerThread
  <2>1. wire' = wire /\ owed' = owed /\ theirs' = theirs /\ asking' = asking /\ list' = list
    BY <1>6 DEF Client!TakeRead, Client!Leave, Client!AnswerThread, Client!cache, Client!server
  <2>. QED
    BY <1>0, <2>1, TicksKept
<1>7. CASE Client!Select \/ Client!ThreadArrives
  <2>1. wire' = wire /\ owed' = owed /\ theirs' = theirs /\ asking' = asking
    BY <1>7 DEF Client!Select, Client!ThreadArrives, Client!server
  <2>. QED
    BY <1>0, <1>7, <2>1, OnlyMarked, TicksKept
<1>8. CASE Client!Hear
  <2>1. PICK e, l : HearsOf(e, l)
    BY <1>8, Hearing
  <2>2. /\ theirs' = theirs /\ owed' = owed /\ OnWire(wire) = {e} \cup OnWire(wire')
        /\ asking' = (IF e.kind \in {"message", "conversation"} THEN Asked ELSE asking)
        /\ l \in {None} \cup Chat /\ ChatFits(l) /\ (l = None <=> list = None)
        /\ l # None /\ list.ticks = theirs => l.ticks = theirs
        /\ l # None /\ e.kind = "receipt" /\ e.ticks = theirs => l.ticks = theirs
        /\ Client!Shown(cached', l, latest)
    BY <1>8, <2>1, Hearing DEF HearsOf
  <2>3. PICK t : t = cached'
    OBVIOUS
  <2>4. ClientShape'
    BY <1>8, ShapeHear
  <2>5. t \in {None} \cup Seq(Nat) /\ (t # None => ThreadFits(t))
    BY <2>1, <2>3, UpsertedFits DEF HearsOf, EventFits
  <2>6. list' = l \/ (l # None /\ list' = [l EXCEPT !.unread = 0])
    BY <2>2, <2>3, <2>5, MarkingRead
  <2>7. list' # None => l # None /\ list'.ticks = l.ticks
    <3>1. l # None => [l EXCEPT !.unread = 0].ticks = l.ticks
      BY <2>2, MarkedFits
    <3>. QED
      BY <2>6, <3>1
  <2>8. Calm' => Calm /\ e.kind \notin {"message", "conversation"}
    BY <1>0, <2>2 DEF Calm, OnWire, TicksComing
  <2>. HIDE DEF ClientShape
  <2>9. ASSUME list' # None, Calm'
        PROVE  list'.ticks = theirs' \/ \E x \in OnWire(wire') : x.kind = "receipt" /\ x.ticks = theirs'
    <3>1. list # None /\ l # None
      BY <2>2, <2>7, <2>9
    <3>2. list.ticks = theirs \/ \E x \in OnWire(wire) : x.kind = "receipt" /\ x.ticks = theirs
      BY <2>8, <2>9, <3>1 DEF TicksComing
    <3>. QED
      BY <2>2, <2>7, <2>9, <3>1, <3>2
  <2>. QED
    BY <2>2, <2>9 DEF TicksComing, OnWire
<1>9. CASE Client!ListArrives
  <2>1. PICK l : l = Client!Arriving
    OBVIOUS
  <2>2. theirs' = theirs /\ asking' = None /\ l = Client!Listed /\ Client!Shown(cached, l, latest)
    BY <1>9, <2>1 DEF Client!ListArrives, Client!Arriving, Client!server
  <2>3. l \in {None} \cup Chat /\ ChatFits(l) /\ (l # None => l.ticks = theirs)
    BY <2>2, ListedFits DEF ServerShape
  <2>4. list' = l \/ (l # None /\ list' = [l EXCEPT !.unread = 0])
    BY <2>2, <2>3, MarkingRead
  <2>5. list' # None => list'.ticks = theirs'
    <3>1. l # None => [l EXCEPT !.unread = 0].ticks = l.ticks
      BY <2>3, MarkedFits
    <3>2. (l # None => l.ticks = theirs) /\ theirs' = theirs
      BY <2>2, <2>3
    <3>3. list' # None => l # None /\ list'.ticks = l.ticks
      BY <2>4, <3>1
    <3>. QED
      BY <3>2, <3>3
  <2>. QED
    BY <2>2, <2>5 DEF TicksComing
<1>10. CASE UNCHANGED Client!vars
  BY <1>0, <1>10, TicksKept DEF Client!vars, Client!server, Client!cache
<1>11. ~Client!Drop /\ ~Client!Reconnect /\ ~Client!AnswerList
  BY DEF Client!Drop, Client!Reconnect, Client!AnswerList
<1>. QED
  BY <1>0, <1>1, <1>2, <1>3, <1>4, <1>5, <1>6, <1>7, <1>8, <1>9, <1>10, <1>11 DEF Client!Next

(* While the connection holds and the list is fetched in one piece, the    *)
(* ticks are the server's cursors once nothing is coming any more.         *)
THEOREM TicksAreAlwaysCurrent ==
  ASSUME ClientConstants, {"drop", "race"} \cap ChatOps = {}
  PROVE  Client!Spec => []Client!TicksAreCurrent
<1>1. Client!Init => link /\ TicksComing
  BY DEF Client!Init, TicksComing
<1>2. link /\ TicksComing /\ ClientShape /\ [Client!Next]_(Client!vars) => link' /\ TicksComing'
  BY StayConnected, TicksNext
<1>3. TicksComing => Client!TicksAreCurrent
  BY DEF TicksComing, Calm, Client!TicksAreCurrent, Client!AtRest, OnWire
<1>. QED
  BY <1>1, <1>2, <1>3, ClientIsShaped, PTL DEF Client!Spec

(* The last word of the other's presence is on the wire, or it was heard,  *)
(* or else the list and its answer are still right.                        *)
LastWord(i) ==
  /\ i \in DOMAIN wire /\ wire[i].kind = "presence" /\ wire[i].online = there
  /\ \A j \in DOMAIN wire : j > i => wire[j].kind # "presence"

NothingNewer ==
  /\ \A i \in DOMAIN wire : wire[i].kind # "presence"
  /\ heard # None => heard = there
  /\ heard = None /\ list # None => list.online = there
  /\ heard = None /\ asking \in Chat => asking.online = there

PresenceComing == NothingNewer \/ \E i : LastWord(i)

LEMMA PresenceKept ==
  ASSUME PresenceComing, wire \in Seq(SocketEvent), wire' \in Seq(SocketEvent), Len(wire') >= Len(wire),
         \A i \in DOMAIN wire : wire'[i] = wire[i],
         \A i \in DOMAIN wire' : i \in DOMAIN wire \/ wire'[i].kind # "presence",
         there' = there, heard' = heard,
         list' # None => list'.online = there \/ (list # None /\ list'.online = list.online)
                           \/ (asking \in Chat /\ list'.online = asking.online),
         asking' \in Chat => asking'.online = there \/ (asking \in Chat /\ asking' = asking)
  PROVE  PresenceComing'
<1>1. DOMAIN wire \subseteq DOMAIN wire' /\ DOMAIN wire \subseteq Nat /\ DOMAIN wire' \subseteq Nat
  OBVIOUS
<1>2. ASSUME NothingNewer PROVE NothingNewer'
  <2>1. \A i \in DOMAIN wire' : wire'[i].kind # "presence"
    BY <1>2 DEF NothingNewer
  <2>. QED
    BY <1>2, <2>1 DEF NothingNewer
<1>3. ASSUME NEW i, LastWord(i) PROVE LastWord(i)'
  <2>1. i \in DOMAIN wire /\ wire[i].kind = "presence" /\ wire[i].online = there
        /\ \A j \in DOMAIN wire : j > i => wire[j].kind # "presence"
    BY <1>3 DEF LastWord
  <2>2. i \in DOMAIN wire' /\ wire'[i].kind = "presence" /\ wire'[i].online = there'
    BY <1>1, <2>1
  <2>3. ASSUME NEW j \in DOMAIN wire', j > i PROVE wire'[j].kind # "presence"
    BY <2>1, <2>3
  <2>. QED
    BY <2>2, <2>3 DEF LastWord
<1>. QED
  BY <1>2, <1>3 DEF PresenceComing

(* The wire with one event more, and with two.                             *)
LEMMA OneMore ==
  ASSUME NEW w \in Seq(SocketEvent), NEW e \in SocketEvent
  PROVE  /\ w \o <<e>> \in Seq(SocketEvent) /\ Len(w \o <<e>>) = Len(w) + 1
         /\ \A i \in DOMAIN w : (w \o <<e>>)[i] = w[i]
         /\ (w \o <<e>>)[Len(w) + 1] = e
OBVIOUS

LEMMA TwoMore ==
  ASSUME NEW w \in Seq(SocketEvent), NEW e \in SocketEvent, NEW f \in SocketEvent
  PROVE  /\ w \o (<<e>> \o <<f>>) \in Seq(SocketEvent) /\ Len(w \o (<<e>> \o <<f>>)) = Len(w) + 2
         /\ \A i \in DOMAIN w : (w \o (<<e>> \o <<f>>))[i] = w[i]
         /\ (w \o (<<e>> \o <<f>>))[Len(w) + 1] = e /\ (w \o (<<e>> \o <<f>>))[Len(w) + 2] = f
<1>. DEFINE x == <<e>> \o <<f>>
<1>1. x \in Seq(SocketEvent) /\ Len(x) = 2 /\ x[1] = e /\ x[2] = f
  OBVIOUS
<1>. HIDE DEF x
<1>2. Len(w) \in Nat /\ w \o x \in Seq(SocketEvent) /\ Len(w \o x) = Len(w) + 2
      /\ \A i \in 1 .. Len(w) + 2 : (w \o x)[i] = IF i <= Len(w) THEN w[i] ELSE x[i - Len(w)]
  <2>1. x \in Seq(SocketEvent) /\ Len(x) = 2
    BY <1>1
  <2>2. /\ w \o x \in Seq(SocketEvent) /\ Len(w \o x) = Len(w) + Len(x)
        /\ \A i \in 1 .. Len(w) + Len(x) : (w \o x)[i] = IF i <= Len(w) THEN w[i] ELSE x[i - Len(w)]
    BY <2>1, Joined
  <2>. QED
    BY <2>1, <2>2
<1>3. Len(w) + 1 - Len(w) = 1 /\ Len(w) + 2 - Len(w) = 2 /\ ~(Len(w) + 1 <= Len(w)) /\ ~(Len(w) + 2 <= Len(w))
      /\ Len(w) + 1 \in 1 .. Len(w) + 2 /\ Len(w) + 2 \in 1 .. Len(w) + 2
      /\ DOMAIN w = 1 .. Len(w) /\ \A i \in DOMAIN w : i \in 1 .. Len(w) + 2 /\ i <= Len(w)
  BY <1>2
<1>4. \A i \in DOMAIN w : (w \o x)[i] = w[i]
  BY <1>2, <1>3
<1>5. (w \o x)[Len(w) + 1] = e /\ (w \o x)[Len(w) + 2] = f
  BY <1>1, <1>2, <1>3
<1>. QED
  BY <1>2, <1>4, <1>5 DEF x

LEMMA PresenceTold ==
  ASSUME wire \in Seq(SocketEvent), PresenceComing, NEW e \in SocketEvent, NEW f \in SocketEvent,
         wire' = wire \o <<e>> \/ wire' = wire \o (<<e>> \o <<f>>),
         e.kind # "presence", f.kind # "presence",
         there' = there, heard' = heard, list' = list, asking' = asking \/ asking' \notin Chat
  PROVE  PresenceComing'
<1>. DEFINE u == wire \o <<e>>
            v == wire \o (<<e>> \o <<f>>)
<1>1. /\ u \in Seq(SocketEvent) /\ Len(u) = Len(wire) + 1 /\ (\A i \in DOMAIN wire : u[i] = wire[i]) /\ u[Len(wire) + 1] = e
      /\ v \in Seq(SocketEvent) /\ Len(v) = Len(wire) + 2 /\ (\A i \in DOMAIN wire : v[i] = wire[i])
      /\ v[Len(wire) + 1] = e /\ v[Len(wire) + 2] = f
  BY OneMore, TwoMore
<1>. HIDE DEF u, v
<1>2. wire' = u \/ wire' = v
  BY DEF u, v
<1>3. /\ wire' \in Seq(SocketEvent) /\ Len(wire') >= Len(wire) /\ Len(wire) \in Nat
      /\ \A i \in DOMAIN wire : wire'[i] = wire[i]
  <2>1. CASE wire' = u
    BY <1>1, <2>1
  <2>2. CASE wire' = v
    BY <1>1, <2>2
  <2>. QED
    BY <1>2, <2>1, <2>2
<1>4. ASSUME NEW i \in DOMAIN wire' PROVE i \in DOMAIN wire \/ wire'[i].kind # "presence"
  <2>1. i \in DOMAIN wire \/ i = Len(wire) + 1 \/ (i = Len(wire) + 2 /\ wire' = v)
    BY <1>1, <1>2, <1>3
  <2>. QED
    BY <1>1, <1>2, <2>1
<1>. QED
  BY <1>3, <1>4, PresenceKept

LEMMA PresenceNext ==
  ASSUME ClientConstants, ClientShape, "drop" \notin ChatOps, link, PresenceComing, [Client!Next]_(Client!vars)
  PROVE  PresenceComing'
<1>. USE DEF ClientShape
<1>0. (\A n \in 1 .. MaxSaid : n \in Nat) /\ Asked \notin Chat /\ None \notin Chat
  BY DEF ClientConstants
<1>1. ASSUME NEW by, Client!Create(by) PROVE PresenceComing'
  <2>1. wire' = wire \o <<Client!Event("conversation")>>
    BY <1>1, ShapeCreate
  <2>2. theirs \in ClientCursor
    BY DEF ClientCursor, ServerShape, Said
  <2>3. Client!Event("conversation") \in SocketEvent /\ Client!Event("conversation").kind # "presence"
    BY <2>2, EventsOf
  <2>4. there' = there /\ heard' = heard /\ list' = list /\ (asking' = asking \/ asking' \notin Chat)
    BY <1>0, <1>1 DEF Client!Create
  <2>. QED
    BY <2>1, <2>3, <2>4, PresenceTold
<1>2. ASSUME NEW n \in Nat, Client!Dispatch(n) PROVE PresenceComing'
  <2>1. there' = there /\ heard' = heard /\ list' = list /\ asking' = asking
    BY <1>2 DEF Client!Dispatch, Client!cache
  <2>2. \E e, f \in SocketEvent :
          /\ e.kind = "message" /\ e.seq = n /\ f.kind = "receipt" /\ f.ticks = theirs'
          /\ link => \/ OnWire(wire') = OnWire(wire) \cup {e} /\ wire' = wire \o <<e>> /\ theirs' = theirs
                     \/ OnWire(wire') = OnWire(wire) \cup {e, f} /\ wire' = wire \o (<<e>> \o <<f>>)
    BY <1>2, ShapeDispatch
  <2>3. wire \in Seq(SocketEvent)
    OBVIOUS
  <2>. HIDE DEF ClientShape
  <2>4. PICK e, f \in SocketEvent :
          /\ e.kind = "message" /\ f.kind = "receipt"
          /\ wire' = wire \o <<e>> \/ wire' = wire \o (<<e>> \o <<f>>)
    BY <2>2, Zenon
  <2>5. e.kind # "presence" /\ f.kind # "presence"
    BY <2>4
  <2>. QED
    BY <2>1, <2>3, <2>4, <2>5, PresenceTold
<1>3. ASSUME NEW n \in Nat, Client!TheyRead(n) PROVE PresenceComing'
  <2>1. there' = there /\ heard' = heard /\ list' = list /\ asking' = asking
    BY <1>3 DEF Client!TheyRead, Client!cache
  <2>2. PICK e \in SocketEvent : e.kind = "receipt" /\ wire' = wire \o <<e>>
    BY <1>3, ShapeTheyRead
  <2>3. e.kind # "presence"
    BY <2>2
  <2>. QED
    BY <2>1, <2>2, <2>3, PresenceTold
<1>4. CASE Client!TheyMove
  <2>1. \E e, p \in SocketEvent :
          /\ e.kind = "receipt" /\ e.ticks = theirs' /\ p.kind = "presence" /\ p.online = there'
          /\ link => \/ OnWire(wire') = OnWire(wire) \cup {p} /\ wire' = wire \o <<p>> /\ theirs' = theirs
                     \/ OnWire(wire') = OnWire(wire) \cup {e, p} /\ wire' = wire \o (<<e>> \o <<p>>)
    BY <1>4, ShapeTheyMove
  <2>2. wire \in Seq(SocketEvent)
    OBVIOUS
  <2>. HIDE DEF ClientShape
  <2>3. PICK e, p \in SocketEvent :
          /\ p.kind = "presence" /\ p.online = there'
          /\ wire' = wire \o <<p>> \/ wire' = wire \o (<<e>> \o <<p>>)
    BY <2>1, Zenon
  <2>4. \E i : i = Len(wire') /\ i \in DOMAIN wire' /\ wire'[i] = p /\ \A j \in DOMAIN wire' : ~(j > i)
    <3>1. CASE wire' = wire \o <<p>>
      <4>1. Len(wire') = Len(wire) + 1 /\ wire'[Len(wire) + 1] = p /\ wire' \in Seq(SocketEvent) /\ Len(wire) \in Nat
        BY <2>2, <3>1, OneMore
      <4>. QED
        BY <4>1
    <3>2. CASE wire' = wire \o (<<e>> \o <<p>>)
      <4>1. Len(wire') = Len(wire) + 2 /\ wire'[Len(wire) + 2] = p /\ wire' \in Seq(SocketEvent) /\ Len(wire) \in Nat
        BY <2>2, <3>2, TwoMore
      <4>. QED
        BY <4>1
    <3>. QED
      BY <2>3, <3>1, <3>2
  <2>5. PICK i : i \in DOMAIN wire' /\ wire'[i] = p /\ \A j \in DOMAIN wire' : ~(j > i)
    BY <2>4
  <2>6. LastWord(i)'
    BY <2>3, <2>5 DEF LastWord
  <2>. QED
    BY <2>6 DEF PresenceComing
<1>5. CASE Client!Hear
  <2>1. PICK e, l : HearsOf(e, l)
    BY <1>5, Hearing
  <2>2. /\ there' = there /\ e = wire[1] /\ wire' \in Seq(SocketEvent) /\ Len(wire') = Len(wire) - 1
        /\ \A i \in DOMAIN wire' : wire'[i] = wire[i + 1]
        /\ heard' = (IF e.kind = "presence" THEN e.online ELSE heard)
        /\ asking' = Asked \/ asking' = asking
        /\ l \in {None} \cup Chat /\ ChatFits(l) /\ (l = None <=> list = None)
        /\ l # None => l.online = list.online
        /\ Client!Shown(cached', l, latest)
    BY <1>5, <2>1, Hearing DEF HearsOf
  <2>3. PICK t : t = cached'
    OBVIOUS
  <2>4. t \in {None} \cup Seq(Nat) /\ (t # None => ThreadFits(t))
    BY <2>1, <2>3, UpsertedFits DEF HearsOf, EventFits
  <2>5. list' = l \/ (l # None /\ list' = [l EXCEPT !.unread = 0])
    BY <2>2, <2>3, <2>4, MarkingRead
  <2>6. list' # None => list # None /\ list'.online = list.online
    <3>1. l # None => [l EXCEPT !.unread = 0].online = l.online
      BY <2>2, MarkedFits
    <3>2. list' # None => l # None /\ list'.online = l.online
      BY <2>5, <3>1
    <3>. QED
      BY <2>2, <3>2
  <2>7. /\ Len(wire) \in Nat /\ DOMAIN wire = 1 .. Len(wire) /\ DOMAIN wire' = 1 .. Len(wire) - 1
        /\ \A i \in DOMAIN wire' : i + 1 \in DOMAIN wire
        /\ \A i \in DOMAIN wire : i = 1 \/ i - 1 \in DOMAIN wire'
        /\ e \in SocketEvent /\ 1 \in DOMAIN wire
    <3>1. e \in SocketEvent /\ e \in OnWire(wire)
      BY <2>1 DEF HearsOf
    <3>2. Len(wire) \in Nat /\ DOMAIN wire = 1 .. Len(wire) /\ Len(wire') = Len(wire) - 1
      BY <2>2
    <3>3. DOMAIN wire # {}
      BY <3>1 DEF OnWire
    <3>4. DOMAIN wire' = 1 .. Len(wire')
      BY <2>2
    <3>. QED
      BY <3>1, <3>2, <3>3, <3>4
  <2>. HIDE DEF ClientShape
  <2>8. CASE NothingNewer
    <3>1. e.kind # "presence" /\ \A i \in DOMAIN wire' : wire'[i].kind # "presence"
      BY <2>2, <2>7, <2>8 DEF NothingNewer
    <3>2. /\ heard' = heard
          /\ heard' # None => heard' = there'
          /\ heard' = None /\ list' # None => list'.online = there'
          /\ heard' = None /\ asking' \in Chat => asking'.online = there'
      BY <1>0, <2>2, <2>6, <2>8, <3>1 DEF NothingNewer
    <3>. QED
      BY <3>1, <3>2 DEF PresenceComing, NothingNewer
  <2>9. ASSUME NEW i, LastWord(i) PROVE PresenceComing'
    <3>1. i \in DOMAIN wire /\ wire[i].kind = "presence" /\ wire[i].online = there
          /\ \A j \in DOMAIN wire : j > i => wire[j].kind # "presence"
      BY <2>9 DEF LastWord
    <3>2. CASE i = 1
      <4>1. heard' = there' /\ \A j \in DOMAIN wire' : wire'[j].kind # "presence"
        <5>1. \A j \in DOMAIN wire' : j + 1 > 1
          BY <2>7
        <5>. QED
          BY <2>2, <2>7, <3>1, <3>2, <5>1
      <4>2. heard' # None
        BY <2>2, <2>7, <3>1, <3>2 DEF ClientConstants, SocketEvent
      <4>. QED
        BY <4>1, <4>2 DEF PresenceComing, NothingNewer
    <3>3. CASE i # 1
      <4>1. i - 1 \in DOMAIN wire' /\ wire'[i - 1] = wire[i]
        <5>1. i - 1 \in DOMAIN wire' /\ i - 1 + 1 = i
          BY <2>7, <3>1, <3>3
        <5>. QED
          BY <2>2, <5>1
      <4>2. ASSUME NEW j \in DOMAIN wire', j > i - 1 PROVE wire'[j].kind # "presence"
        <5>1. j + 1 > i /\ j + 1 \in DOMAIN wire
          BY <2>7, <3>1, <4>2
        <5>. QED
          BY <2>2, <3>1, <5>1
      <4>3. PICK k : k = i - 1
        OBVIOUS
      <4>4. LastWord(k)'
        BY <2>2, <3>1, <4>1, <4>2, <4>3 DEF LastWord
      <4>. QED
        BY <4>4 DEF PresenceComing
    <3>. QED
      BY <3>2, <3>3
  <2>. QED
    BY <2>8, <2>9 DEF PresenceComing
<1>6. CASE Client!TakeRead \/ Client!Leave \/ Client!AnswerThread \/ (\E by \in {"me", "they"} : Client!Commit(by))
           \/ UNCHANGED Client!vars
  <2>1. wire' = wire /\ there' = there /\ asking' = asking /\ list' = list /\ heard' = heard
    BY <1>6 DEF Client!TakeRead, Client!Leave, Client!AnswerThread, Client!Commit, Client!cache, Client!server, Client!vars
  <2>. QED
    BY <2>1 DEF PresenceComing, NothingNewer, LastWord
<1>7. CASE Client!Select \/ Client!ThreadArrives
  <2>1. wire' = wire /\ there' = there /\ asking' = asking /\ heard' = heard
    BY <1>7 DEF Client!Select, Client!ThreadArrives, Client!server
  <2>2. list' # None => list # None /\ list'.online = list.online
    BY <1>7, OnlyMarked
  <2>. QED
    BY <2>1, <2>2 DEF PresenceComing, NothingNewer, LastWord
<1>8. CASE Client!AnswerList
  <2>1. wire' = wire /\ there' = there /\ list' = list /\ heard' = heard /\ asking' = Client!Listed
    BY <1>8 DEF Client!AnswerList, Client!server
  <2>2. asking' \in Chat => asking'.online = there
    BY <1>0, <2>1, ListedFits DEF ServerShape
  <2>. QED
    BY <2>1, <2>2 DEF PresenceComing, NothingNewer, LastWord
<1>9. CASE Client!ListArrives
  <2>1. PICK l : l = Client!Arriving
    OBVIOUS
  <2>2. /\ wire' = wire /\ there' = there /\ heard' = heard /\ asking' = None
        /\ l = asking \/ l = Client!Listed
        /\ Client!Shown(cached, l, latest)
    BY <1>9, <2>1 DEF Client!ListArrives, Client!Arriving, Client!server
  <2>3. l \in {None} \cup Chat /\ ChatFits(l)
    BY <1>9, <2>1, ListedFits DEF Client!ListArrives, Client!Arriving
  <2>4. l # None => l.online = there \/ (asking \in Chat /\ l.online = asking.online)
    BY <1>0, <2>2, <2>3, ListedFits DEF ServerShape
  <2>5. list' = l \/ (l # None /\ list' = [l EXCEPT !.unread = 0])
    BY <2>2, <2>3, MarkingRead
  <2>6. list' # None => list'.online = there \/ (asking \in Chat /\ list'.online = asking.online)
    <3>1. l # None => [l EXCEPT !.unread = 0].online = l.online
      BY <2>3, MarkedFits
    <3>2. list' # None => l # None /\ list'.online = l.online
      BY <2>5, <3>1
    <3>. QED
      BY <2>4, <3>2
  <2>. QED
    BY <1>0, <2>2, <2>6 DEF PresenceComing, NothingNewer, LastWord
<1>11. ~Client!Drop /\ ~Client!Reconnect
  BY DEF Client!Drop, Client!Reconnect
<1>. QED
  BY <1>0, <1>1, <1>2, <1>3, <1>4, <1>5, <1>6, <1>7, <1>8, <1>9, <1>11 DEF Client!Next

(* While the connection holds, the presence shown is the other's own once  *)
(* nothing is coming, however lists and events have crossed.               *)
THEOREM PresenceIsAlwaysCurrent ==
  ASSUME ClientConstants, "drop" \notin ChatOps
  PROVE  Client!Spec => []Client!PresenceIsCurrent
<1>1. Client!Init => link /\ PresenceComing
  BY DEF Client!Init, PresenceComing, NothingNewer, ClientConstants
<1>2. link /\ PresenceComing /\ ClientShape /\ [Client!Next]_(Client!vars) => link' /\ PresenceComing'
  BY StayConnected, PresenceNext
<1>3. PresenceComing => Client!PresenceIsCurrent
  BY DEF PresenceComing, NothingNewer, LastWord, Client!PresenceIsCurrent, Client!AtRest
<1>. QED
  BY <1>1, <1>2, <1>3, ClientIsShaped, PTL DEF Client!Spec

(* Messages come in the order of their numbers, and a thread that is kept  *)
(* or fetched has them in that order.                                      *)
Ordered ==
  /\ \A i, j \in DOMAIN wire : i < j /\ wire[i].kind = "message" /\ wire[j].kind = "message" => wire[i].seq < wire[j].seq
  /\ \A i \in DOMAIN wire : wire[i].kind = "message" => \A n \in owed : wire[i].seq < n

InOrder(t) == \A i \in DOMAIN t : t[i] = i
CachedInOrder == cached # None => InOrder(cached)

LEMMA OrderedKept ==
  ASSUME Ordered, wire \in Seq(SocketEvent), wire' \in Seq(SocketEvent), Len(wire') >= Len(wire),
         \A i \in DOMAIN wire : wire'[i] = wire[i],
         \A i \in DOMAIN wire' : i \in DOMAIN wire \/ wire'[i].kind # "message",
         owed' \subseteq owed
  PROVE  Ordered'
BY DEF Ordered

LEMMA OrderedTold ==
  ASSUME ClientShape, Ordered, NEW e \in SocketEvent, NEW f \in SocketEvent,
         wire' = wire \o <<e>> \/ wire' = wire \o (<<e>> \o <<f>>),
         e.kind # "message", f.kind # "message", owed' = owed
  PROVE  Ordered'
<1>. DEFINE u == wire \o <<e>>
            v == wire \o (<<e>> \o <<f>>)
<1>0. wire \in Seq(SocketEvent)
  BY DEF ClientShape
<1>1. /\ u \in Seq(SocketEvent) /\ Len(u) = Len(wire) + 1 /\ (\A i \in DOMAIN wire : u[i] = wire[i]) /\ u[Len(wire) + 1] = e
      /\ v \in Seq(SocketEvent) /\ Len(v) = Len(wire) + 2 /\ (\A i \in DOMAIN wire : v[i] = wire[i])
      /\ v[Len(wire) + 1] = e /\ v[Len(wire) + 2] = f
  BY <1>0, OneMore, TwoMore
<1>. HIDE DEF u, v
<1>2. wire' = u \/ wire' = v
  BY DEF u, v
<1>3. /\ wire' \in Seq(SocketEvent) /\ Len(wire') >= Len(wire) /\ Len(wire) \in Nat
      /\ \A i \in DOMAIN wire : wire'[i] = wire[i]
  <2>1. CASE wire' = u
    BY <1>0, <1>1, <2>1
  <2>2. CASE wire' = v
    BY <1>0, <1>1, <2>2
  <2>. QED
    BY <1>2, <2>1, <2>2
<1>4. ASSUME NEW i \in DOMAIN wire' PROVE i \in DOMAIN wire \/ wire'[i].kind # "message"
  <2>1. i \in DOMAIN wire \/ i = Len(wire) + 1 \/ (i = Len(wire) + 2 /\ wire' = v)
    BY <1>0, <1>1, <1>2, <1>3
  <2>. QED
    BY <1>1, <1>2, <2>1
<1>. QED
  BY <1>0, <1>3, <1>4, OrderedKept

(* The least of the messages that are owed is the next on the wire.        *)
LEMMA OrderedDispatch ==
  ASSUME ClientConstants, ClientShape, "late" \notin ChatOps, link, Ordered, NEW n \in Nat, Client!Dispatch(n)
  PROVE  Ordered'
<1>1. n \in owed /\ owed' = owed \ {n} /\ owed \subseteq Nat /\ \A m \in owed : ~(m < n)
  BY DEF Client!Dispatch, Client!Late, ClientShape, ServerShape, Said
<1>2. wire \in Seq(SocketEvent)
  BY DEF ClientShape
<1>3. \E e, f \in SocketEvent :
        /\ e.kind = "message" /\ e.seq = n /\ f.kind = "receipt" /\ f.ticks = theirs'
        /\ link => \/ OnWire(wire') = OnWire(wire) \cup {e} /\ wire' = wire \o <<e>> /\ theirs' = theirs
                   \/ OnWire(wire') = OnWire(wire) \cup {e, f} /\ wire' = wire \o (<<e>> \o <<f>>)
  BY ShapeDispatch
<1>4. PICK e, f \in SocketEvent :
        /\ e.kind = "message" /\ e.seq = n /\ f.kind = "receipt"
        /\ wire' = wire \o <<e>> \/ wire' = wire \o (<<e>> \o <<f>>)
  BY <1>3, Zenon
<1>5. Len(wire) \in Nat /\ DOMAIN wire = 1 .. Len(wire)
  BY <1>2
<1>6. /\ \A i \in DOMAIN wire : wire'[i] = wire[i]
      /\ wire'[Len(wire) + 1] = e
      /\ \A i \in DOMAIN wire' : i \in DOMAIN wire \/ i = Len(wire) + 1 \/ wire'[i].kind # "message"
  <2>1. CASE wire' = wire \o <<e>>
    BY <1>2, <1>4, <1>5, <2>1, OneMore
  <2>2. CASE wire' = wire \o (<<e>> \o <<f>>)
    <3>1. /\ wire' \in Seq(SocketEvent) /\ Len(wire') = Len(wire) + 2
          /\ \A i \in DOMAIN wire : wire'[i] = wire[i]
          /\ wire'[Len(wire) + 1] = e /\ wire'[Len(wire) + 2] = f
      BY <1>2, <1>4, <2>2, TwoMore
    <3>. QED
      BY <1>4, <1>5, <3>1
  <2>. QED
    BY <1>4, <2>1, <2>2
<1>7. \A i \in DOMAIN wire : wire[i].kind = "message" => wire[i].seq < n
  BY <1>1 DEF Ordered
<1>8. ASSUME NEW i \in DOMAIN wire', NEW j \in DOMAIN wire', i < j, wire'[i].kind = "message", wire'[j].kind = "message"
      PROVE  wire'[i].seq < wire'[j].seq
  <2>1. (i \in DOMAIN wire \/ i = Len(wire) + 1) /\ (j \in DOMAIN wire \/ j = Len(wire) + 1)
    BY <1>6, <1>8
  <2>2. i \in DOMAIN wire
    BY <1>5, <1>8, <2>1
  <2>. QED
    BY <1>4, <1>6, <1>7, <1>8, <2>1, <2>2 DEF Ordered
<1>9. ASSUME NEW i \in DOMAIN wire', wire'[i].kind = "message", NEW m \in owed' PROVE wire'[i].seq < m
  BY <1>1, <1>4, <1>6, <1>9 DEF Ordered
<1>. QED
  BY <1>8, <1>9 DEF Ordered

LEMMA OrderedNext ==
  ASSUME ClientConstants, ClientShape, {"drop", "late"} \cap ChatOps = {}, link, Ordered, [Client!Next]_(Client!vars)
  PROVE  Ordered'
<1>0. (\A n \in 1 .. MaxSaid : n \in Nat) /\ wire \in Seq(SocketEvent)
  BY DEF ClientConstants, ClientShape
<1>1. ASSUME NEW by, Client!Create(by) PROVE Ordered'
  <2>1. wire' = wire \o <<Client!Event("conversation")>> /\ owed' = owed
    BY <1>1, ShapeCreate DEF Client!Create
  <2>2. theirs \in ClientCursor
    BY DEF ClientCursor, ClientShape, ServerShape, Said
  <2>3. Client!Event("conversation") \in SocketEvent /\ Client!Event("conversation").kind # "message"
    BY <2>2, EventsOf
  <2>. QED
    BY <2>1, <2>3, OrderedTold
<1>2. ASSUME NEW by \in {"me", "they"}, Client!Commit(by) PROVE Ordered'
  <2>1. owed' = owed \cup {Len(said) + 1} /\ wire' = wire
    BY <1>2 DEF Client!Commit, Client!Newest
  <2>2. \A i \in DOMAIN wire : wire[i].kind = "message" => wire[i].seq < Len(said) + 1
    <3>1. \A i \in DOMAIN wire : EventFits(wire[i])
      BY DEF ClientShape, OnWire
    <3>. QED
      BY <3>1 DEF EventFits, Said, ClientShape, ServerShape
  <2>. QED
    BY <2>1, <2>2 DEF Ordered
<1>3. ASSUME NEW n \in Nat, Client!TheyRead(n) PROVE Ordered'
  <2>1. owed' = owed
    BY <1>3 DEF Client!TheyRead
  <2>2. PICK e \in SocketEvent : e.kind = "receipt" /\ wire' = wire \o <<e>>
    BY <1>3, ShapeTheyRead
  <2>3. e.kind # "message"
    BY <2>2
  <2>. QED
    BY <2>1, <2>2, <2>3, OrderedTold
<1>4. CASE Client!TheyMove
  <2>1. \E e, p \in SocketEvent :
          /\ e.kind = "receipt" /\ e.ticks = theirs' /\ p.kind = "presence" /\ p.online = there'
          /\ link => \/ OnWire(wire') = OnWire(wire) \cup {p} /\ wire' = wire \o <<p>> /\ theirs' = theirs
                     \/ OnWire(wire') = OnWire(wire) \cup {e, p} /\ wire' = wire \o (<<e>> \o <<p>>)
    BY <1>4, ShapeTheyMove
  <2>2. PICK e, p \in SocketEvent :
          /\ e.kind = "receipt" /\ p.kind = "presence"
          /\ wire' = wire \o <<p>> \/ wire' = wire \o (<<e>> \o <<p>>)
    BY <2>1, Zenon
  <2>3. e.kind # "message" /\ p.kind # "message" /\ owed' = owed
    BY <1>4, <2>2 DEF Client!TheyMove
  <2>. QED
    BY <2>2, <2>3, OrderedTold
<1>5. CASE Client!Hear
  <2>1. PICK e, l : HearsOf(e, l)
    BY <1>5, Hearing
  <2>2. /\ owed' = owed /\ wire' \in Seq(SocketEvent) /\ Len(wire') = Len(wire) - 1
        /\ \A i \in DOMAIN wire' : wire'[i] = wire[i + 1]
    BY <1>5, <2>1, Hearing DEF HearsOf
  <2>3. (\A i \in DOMAIN wire' : i + 1 \in DOMAIN wire) /\ \A i, j \in DOMAIN wire' : i < j => i + 1 < j + 1
    BY <1>0, <2>2
  <2>. QED
    BY <2>2, <2>3 DEF Ordered
<1>6. CASE Client!TakeRead \/ Client!Leave \/ Client!AnswerThread \/ Client!AnswerList \/ Client!Select \/ Client!ThreadArrives
           \/ Client!ListArrives \/ UNCHANGED Client!vars
  <2>1. wire' = wire /\ owed' = owed
    BY <1>6 DEF Client!TakeRead, Client!Leave, Client!AnswerThread, Client!AnswerList, Client!Select, Client!ThreadArrives,
       Client!ListArrives, Client!cache, Client!server, Client!vars
  <2>. QED
    BY <2>1 DEF Ordered
<1>7. ~Client!Drop /\ ~Client!Reconnect
  BY DEF Client!Drop, Client!Reconnect
<1>. QED
  BY <1>0, <1>1, <1>2, <1>3, <1>4, <1>5, <1>6, <1>7, OrderedDispatch DEF Client!Next

(* What is heard next is the next of the thread, if it is not there yet.   *)
LEMMA CachedInOrderNext ==
  ASSUME ClientConstants, ClientShape, "drop" \notin ChatOps, link, Whole, Ordered, CachedInOrder,
         [Client!Next]_(Client!vars)
  PROVE  CachedInOrder'
<1>1. CASE Client!Hear
  <2>1. PICK e, l : HearsOf(e, l)
    BY <1>1, Hearing
  <2>2. /\ cached' = (IF e.kind = "message" THEN Client!Upserted(cached, e.seq) ELSE cached)
        /\ e = wire[1] /\ e \in OnWire(wire) /\ EventFits(e) /\ e \in SocketEvent
    BY <2>1 DEF HearsOf
  <2>3. CASE cached' = cached
    BY <2>3 DEF CachedInOrder, InOrder
  <2>4. CASE cached' # cached
    <3>1. e.kind = "message" /\ cached # None /\ e.seq \notin Client!Range(cached) /\ cached' = Append(cached, e.seq)
      BY <2>2, <2>4 DEF Client!Upserted
    <3>2. PICK n : n = e.seq
      OBVIOUS
    <3>3. cached \in Seq(Nat) /\ (\A i \in 1 .. Len(cached) : cached[i] = i) /\ Len(cached) \in Nat /\ n \in Said /\ n \in Nat
      BY <2>2, <3>1, <3>2 DEF ClientShape, CachedInOrder, InOrder, EventFits, Said
    <3>4. ASSUME NEW m \in Said, m < n PROVE m <= Len(cached)
      <4>0. wire \in Seq(SocketEvent) /\ 1 \in DOMAIN wire
        BY <2>2 DEF ClientShape, OnWire
      <4>1. m \notin owed /\ m \in Nat /\ owed \subseteq Nat
        BY <2>2, <3>1, <3>2, <3>3, <3>4, <4>0 DEF Ordered, Said, ClientShape, ServerShape
      <4>2. ~Coming(m)
        <5>1. SUFFICES ASSUME Coming(m) PROVE FALSE
          OBVIOUS
        <5>2. PICK i \in DOMAIN wire : wire[i].kind = "message" /\ wire[i].seq = m
          BY <5>1 DEF Coming, OnWire
        <5>3. i # 1
          BY <2>2, <3>2, <3>3, <3>4, <5>2
        <5>4. 1 < i
          BY <4>0, <5>2, <5>3
        <5>. QED
          BY <2>2, <3>1, <3>2, <3>3, <3>4, <4>0, <4>1, <5>2, <5>4 DEF Ordered
      <4>3. m \in Client!Range(cached)
        BY <3>1, <4>1, <4>2 DEF Whole
      <4>. QED
        BY <3>3, <4>3 DEF Client!Range
    <3>5. ~(n <= Len(cached))
      <4>1. n <= Len(cached) => cached[n] = n /\ n \in DOMAIN cached
        BY <3>3 DEF Said
      <4>. QED
        BY <3>1, <3>2, <4>1 DEF Client!Range
    <3>6. n = Len(cached) + 1
      <4>1. n = 1 \/ (n - 1 \in Said /\ n - 1 < n)
        BY <3>3 DEF Said, ClientShape, ServerShape
      <4>2. n = 1 \/ n - 1 <= Len(cached)
        BY <3>4, <4>1
      <4>3. n >= 1
        BY <3>3 DEF Said
      <4>. QED
        BY <3>3, <3>5, <4>2, <4>3
    <3>. DEFINE u == Append(cached, n)
    <3>7. InOrder(u)
      <4>1. DOMAIN u = 1 .. Len(cached) + 1 /\ u[Len(cached) + 1] = n /\ \A i \in 1 .. Len(cached) : u[i] = cached[i]
        BY <3>3
      <4>. HIDE DEF u
      <4>. QED
        BY <3>3, <3>6, <4>1 DEF InOrder
    <3>. QED
      BY <3>1, <3>2, <3>7 DEF CachedInOrder, InOrder
  <2>. QED
    BY <2>3, <2>4
<1>2. CASE Client!ThreadArrives
  <2>1. cached' = [n \in 1 .. fetching |-> n]
    BY <1>2 DEF Client!ThreadArrives
  <2>. QED
    BY <2>1 DEF CachedInOrder, InOrder
<1>3. CASE cached' = cached
  BY <1>3 DEF CachedInOrder, InOrder
<1>4. Client!Hear \/ Client!ThreadArrives \/ cached' = cached
  BY DEF Client!Next, Client!vars, Client!cache, Client!Create, Client!Commit, Client!Dispatch, Client!TheyRead, Client!TheyMove,
    Client!TakeRead, Client!Select, Client!Leave, Client!AnswerThread, Client!AnswerList, Client!ListArrives, Client!Drop,
    Client!Reconnect
<1>. QED
  BY <1>1, <1>2, <1>3, <1>4

(* An open pane is fetched or has its thread, has marked its tail, and     *)
(* what it has marked is on its way to the server or there.                *)
Fetched == open /\ list # None => cached # None \/ fetching # None
Marked == open /\ list # None /\ Client!TailOf(cached) # 0 => latest = Client!TailOf(cached)
Taken == latest > 0 => mine >= latest \/ reading >= latest
Kept == Fetched /\ Marked /\ Taken

(* Either the tail is marked, or all stays as it was.                      *)
LEMMA ShownIs ==
  ASSUME NEW t, NEW l, NEW m, Client!Shown(t, l, m)
  PROVE  \/ /\ open /\ l # None /\ Client!TailOf(t) # 0
            /\ reading' = Client!Greatest(reading, Client!TailOf(t)) /\ latest' = Client!TailOf(t)
            /\ list' = [l EXCEPT !.unread = 0]
         \/ /\ reading' = reading /\ latest' = m /\ list' = l
            /\ open /\ l # None => Client!TailOf(t) \in {0, m}
BY DEF Client!Shown, Client!Cleared

LEMMA TailIsSaid ==
  ASSUME ClientShape, NEW t \in {None} \cup Seq(Nat), t # None => ThreadFits(t)
  PROVE  Client!TailOf(t) \in Said \cup {0} /\ Client!TailOf(t) \in Nat
BY DEF Client!TailOf, ThreadFits, ClientShape, ServerShape, Said

(* The pane after a step that may mark its tail.                           *)
LEMMA ShownKept ==
  ASSUME ClientConstants, ClientShape, Kept, NEW t \in {None} \cup Seq(Nat), t # None => ThreadFits(t),
         NEW l \in {None} \cup Chat, ChatFits(l), Client!Shown(t, l, latest),
         cached' = t, open' = open, mine' = mine,
         open /\ l # None => t # None \/ fetching' # None
  PROVE  Kept'
<1>1. Client!TailOf(t) \in Nat /\ reading \in Nat /\ mine \in Nat
  BY TailIsSaid DEF ClientShape, ServerShape, Said
<1>2. Client!TailOf(cached)' = Client!TailOf(t)
  BY DEF Client!TailOf
<1>3. CASE /\ open /\ l # None /\ Client!TailOf(t) # 0
           /\ reading' = Client!Greatest(reading, Client!TailOf(t)) /\ latest' = Client!TailOf(t)
           /\ list' = [l EXCEPT !.unread = 0]
  <2>1. reading' >= latest'
    BY <1>1, <1>3 DEF Client!Greatest
  <2>. QED
    BY <1>2, <1>3, <2>1 DEF Kept, Fetched, Marked, Taken
<1>4. CASE /\ reading' = reading /\ latest' = latest /\ list' = l
           /\ open /\ l # None => Client!TailOf(t) \in {0, latest}
  BY <1>2, <1>4 DEF Kept, Fetched, Marked, Taken
<1>. QED
  BY <1>3, <1>4, ShownIs

LEMMA KeptNext ==
  ASSUME ClientConstants, ClientShape, "drop" \notin ChatOps, link, Kept, [Client!Next]_(Client!vars)
  PROVE  Kept'
<1>0. /\ mine \in Nat /\ reading \in Nat /\ latest \in Nat /\ Len(said) \in Nat /\ mine <= Len(said)
      /\ cached \in {None} \cup Seq(Nat) /\ (cached # None => ThreadFits(cached))
      /\ list \in {None} \cup Chat /\ ChatFits(list) /\ asking \in {None, Asked} \cup Chat /\ ChatFits(asking)
  BY DEF ClientShape, ServerShape, Said
<1>1. ASSUME NEW by, Client!Create(by) PROVE Kept'
  <2>1. ~begun /\ list' = list /\ UNCHANGED <<mine, reading, latest>>
    BY <1>1 DEF Client!Create
  <2>2. list = None
    BY <1>0, <2>1 DEF ChatFits
  <2>. QED
    BY <2>1, <2>2 DEF Kept, Fetched, Marked, Taken
<1>2. ASSUME NEW by, Client!Commit(by) PROVE Kept'
  <2>1. mine' \in {mine, Len(said) + 1} /\ UNCHANGED <<open, list, cached, fetching, latest, reading>>
    BY <1>2 DEF Client!Commit, Client!cache, Client!Newest
  <2>2. mine' >= mine /\ mine' \in Nat
    BY <1>0, <2>1
  <2>3. Taken'
    BY <1>0, <2>1, <2>2 DEF Kept, Taken
  <2>. QED
    BY <2>1, <2>3 DEF Kept, Fetched, Marked, Client!TailOf
<1>3. CASE Client!TakeRead
  <2>1. mine' = Client!Greatest(mine, reading) /\ UNCHANGED <<open, list, cached, fetching, latest>>
    BY <1>3 DEF Client!TakeRead, Client!cache
  <2>2. mine' >= mine /\ mine' >= reading /\ mine' \in Nat
    BY <1>0, <2>1 DEF Client!Greatest
  <2>3. Taken'
    BY <1>0, <2>1, <2>2 DEF Kept, Taken
  <2>. QED
    BY <2>1, <2>3 DEF Kept, Fetched, Marked, Client!TailOf
<1>4. CASE Client!Hear
  <2>1. PICK e, l : HearsOf(e, l)
    BY <1>4, Hearing
  <2>2. /\ mine' = mine /\ open' = open /\ fetching' = fetching /\ EventFits(e)
        /\ l \in {None} \cup Chat /\ ChatFits(l) /\ (l = None <=> list = None)
        /\ cached' = (IF e.kind = "message" THEN Client!Upserted(cached, e.seq) ELSE cached)
        /\ Client!Shown(cached', l, latest)
    BY <1>4, <2>1, Hearing DEF HearsOf
  <2>3. PICK t : t = cached'
    OBVIOUS
  <2>4. t \in {None} \cup Seq(Nat) /\ (t # None => ThreadFits(t)) /\ (cached # None => t # None)
    <3>1. None \notin Seq(Nat)
      BY DEF ClientConstants
    <3>2. CASE e.kind = "message"
      <4>1. e.seq \in Said /\ t = Client!Upserted(cached, e.seq)
        BY <2>2, <2>3, <3>2 DEF EventFits
      <4>. QED
        BY <1>0, <3>1, <4>1, UpsertedFits
    <3>3. CASE e.kind # "message"
      BY <1>0, <2>2, <2>3, <3>3
    <3>. QED
      BY <3>2, <3>3
  <2>5. open /\ l # None => t # None \/ fetching' # None
    BY <2>2, <2>4 DEF Kept, Fetched
  <2>. QED
    BY <2>2, <2>3, <2>4, <2>5, ShownKept
<1>5. CASE Client!ThreadArrives
  <2>1. PICK t : t = [n \in 1 .. fetching |-> n]
    OBVIOUS
  <2>2. cached' = t /\ Client!Shown(t, list, latest) /\ fetching \in Said \cup {0} /\ open' = open /\ mine' = mine
    BY <1>5, <2>1 DEF Client!ThreadArrives, Client!server, ClientShape
  <2>3. t \in Seq(Nat) /\ ThreadFits(t)
    BY <2>1, <2>2, FetchedFits DEF ClientShape
  <2>4. t # None
    BY <2>3 DEF ClientConstants
  <2>. QED
    BY <1>0, <2>2, <2>3, <2>4, ShownKept
<1>6. CASE Client!ListArrives
  <2>1. PICK l : l = Client!Arriving
    OBVIOUS
  <2>2. /\ cached' = cached /\ open' = open /\ mine' = mine /\ Client!Shown(cached, l, latest)
        /\ fetching' = IF open /\ list = None /\ l # None THEN Asked ELSE fetching
    BY <1>6, <2>1 DEF Client!ListArrives, Client!server
  <2>3. l \in {None} \cup Chat /\ ChatFits(l)
    BY <1>0, <1>6, <2>1, ListedFits DEF Client!ListArrives, Client!Arriving, ClientShape
  <2>4. open /\ l # None => cached # None \/ fetching' # None
    BY <2>2 DEF Kept, Fetched, ClientConstants
  <2>. QED
    BY <1>0, <2>2, <2>3, <2>4, ShownKept
<1>7. CASE Client!Select
  <2>1. cached' = cached /\ mine' = mine /\ fetching' = Asked /\ Asked # None
    BY <1>7 DEF Client!Select, Client!server, ClientConstants
  <2>2. Client!TailOf(cached)' = Client!TailOf(cached) /\ Client!TailOf(cached) \in Nat
    BY <1>0, <2>1, TailIsSaid DEF Client!TailOf
  <2>3. CASE Client!TailOf(cached) # 0
    <3>1. reading' = Client!Greatest(reading, Client!TailOf(cached)) /\ latest' = Client!TailOf(cached)
      BY <1>7, <2>3 DEF Client!Select
    <3>2. reading' >= latest'
      BY <1>0, <2>2, <3>1 DEF Client!Greatest
    <3>. QED
      BY <2>1, <2>2, <3>1, <3>2 DEF Kept, Fetched, Marked, Taken
  <2>4. CASE Client!TailOf(cached) = 0
    <3>1. UNCHANGED <<reading, latest>>
      BY <1>7, <2>4 DEF Client!Select
    <3>. QED
      BY <2>1, <2>2, <2>4, <3>1 DEF Kept, Fetched, Marked, Taken
  <2>. QED
    BY <2>3, <2>4
<1>8. CASE Client!Leave
  BY <1>8 DEF Client!Leave, Kept, Fetched, Marked, Taken
<1>9. CASE Client!AnswerThread
  <2>1. UNCHANGED <<open, list, cached, latest, mine, reading>> /\ fetching' # None
    BY <1>0, <1>9 DEF Client!AnswerThread, Client!server, Client!Newest, ClientConstants
  <2>. QED
    BY <2>1 DEF Kept, Fetched, Marked, Taken, Client!TailOf
<1>10. CASE UNCHANGED <<open, list, cached, fetching, latest, mine, reading>>
  BY <1>10 DEF Kept, Fetched, Marked, Taken, Client!TailOf
<1>11. ASSUME NEW n, Client!Dispatch(n) \/ Client!TheyRead(n) PROVE UNCHANGED <<open, list, cached, fetching, latest, mine, reading>>
  BY <1>11 DEF Client!Dispatch, Client!TheyRead, Client!cache
<1>12. Client!TheyMove \/ Client!AnswerList \/ UNCHANGED Client!vars
         => UNCHANGED <<open, list, cached, fetching, latest, mine, reading>>
  BY DEF Client!TheyMove, Client!AnswerList, Client!cache, Client!server, Client!vars
<1>13. ~Client!Drop /\ ~Client!Reconnect
  BY DEF Client!Drop, Client!Reconnect
<1>. QED
  BY <1>1, <1>2, <1>3, <1>4, <1>5, <1>6, <1>7, <1>8, <1>9, <1>10, <1>11, <1>12, <1>13 DEF Client!Next

(* The badge, once nothing would have the list fetched again: the server's *)
(* count, or none while a read of all there is is on its way.              *)
Settled == owed = {} /\ \A e \in OnWire(wire) : e.kind \notin {"message", "conversation"}
AllRead(r) == \A n \in Said : said[n] = "they" => n <= mine \/ n <= r

BadgeComing ==
  /\ asking \in {None, Asked}
  /\ list # None /\ Calm =>
       IF reading = 0 THEN list.unread = Client!Unread ELSE list.unread = 0 /\ AllRead(reading)

LEMMA NoneUnread ==
  ASSUME ClientShape, AllRead(0)
  PROVE  Client!Unread = 0
<1>1. {n \in Client!Committed : said[n] = "they" /\ n > mine} = {}
  BY DEF AllRead, Said, Client!Committed, ClientShape, ServerShape
<1>. QED
  BY <1>1, FS_EmptySet, ClientCardinality DEF Client!Unread

(* The tail of a thread that has every message is the last message.        *)
LEMMA TailIsAll ==
  ASSUME ClientShape, NEW t \in Seq(Nat), InOrder(t), Said \subseteq Client!Range(t), Client!TailOf(t) # 0
  PROVE  Client!TailOf(t) \in Nat /\ \A n \in Said : n <= Client!TailOf(t)
<1>1. Len(t) \in Nat /\ Len(t) # 0 /\ t # <<>> /\ DOMAIN t = 1 .. Len(t) /\ Client!TailOf(t) = t[Len(t)]
  BY DEF Client!TailOf
<1>2. Client!TailOf(t) = Len(t)
  BY <1>1 DEF InOrder
<1>. QED
  BY <1>1, <1>2 DEF InOrder, Client!Range

LEMMA BadgeMarked ==
  ASSUME ClientShape, NEW t \in Seq(Nat), InOrder(t), Said \subseteq Client!Range(t), Client!TailOf(t) # 0,
         reading' = Client!Greatest(reading, Client!TailOf(t)), UNCHANGED <<said, mine>>
  PROVE  reading' # 0 /\ AllRead(reading)'
<1>1. Client!TailOf(t) \in Nat /\ \A n \in Said : n <= Client!TailOf(t)
  BY TailIsAll
<1>2. reading \in Nat /\ Said' = Said /\ Said \subseteq Nat
  BY DEF ClientShape, ServerShape, Said
<1>3. reading' \in Nat /\ reading' >= Client!TailOf(t) /\ reading' # 0
  BY <1>1, <1>2 DEF Client!Greatest
<1>. QED
  BY <1>1, <1>2, <1>3 DEF AllRead

LEMMA BadgeKept ==
  ASSUME BadgeComing, UNCHANGED <<said, mine, reading, asking>>, Calm' => Calm,
         list' # None => list # None /\ list'.unread = list.unread
  PROVE  BadgeComing'
<1>1. Client!Unread' = Client!Unread /\ (AllRead(reading) => AllRead(reading)')
  BY DEF Client!Unread, Client!Committed, AllRead, Said
<1>. QED
  BY <1>1 DEF BadgeComing

(* With nothing owed or on the wire, the cached thread has every message.  *)
LEMMA CachedIsAll ==
  ASSUME ClientShape, Whole, Settled, cached # None
  PROVE  Said \subseteq Client!Range(cached)
BY DEF Whole, Settled, Coming

LEMMA BadgeNext ==
  ASSUME ClientConstants, ClientShape, {"drop", "late", "race"} \cap ChatOps = {}, link,
         Whole, CachedInOrder, BadgeComing, [Client!Next]_(Client!vars)
  PROVE  BadgeComing'
<1>0. /\ mine \in Nat /\ reading \in Nat /\ Len(said) \in Nat /\ said \in Seq({"me", "they"})
      /\ cached \in {None} \cup Seq(Nat) /\ (cached # None => ThreadFits(cached))
      /\ list \in {None} \cup Chat /\ ChatFits(list) /\ (\A n \in 1 .. MaxSaid : n \in Nat)
      /\ Asked # None /\ asking \in {None, Asked}
  BY DEF ClientConstants, ClientShape, ServerShape, Said, BadgeComing
<1>1. ASSUME NEW by, Client!Create(by) PROVE BadgeComing'
  <2>1. OnWire(wire') = OnWire(wire) \cup {Client!Event("conversation")} /\ asking' \in {None, Asked}
    BY <1>0, <1>1, ShapeCreate DEF Client!Create
  <2>2. theirs \in ClientCursor
    BY DEF ClientCursor, ClientShape, ServerShape, Said
  <2>3. Client!Event("conversation").kind = "conversation"
    BY <2>2, EventsOf
  <2>. QED
    BY <2>1, <2>3 DEF BadgeComing, Calm, OnWire
<1>2. ASSUME NEW by \in {"me", "they"}, Client!Commit(by) PROVE BadgeComing'
  <2>1. owed' # {} /\ asking' = asking
    BY <1>2 DEF Client!Commit, Client!cache
  <2>. QED
    BY <2>1 DEF BadgeComing, Calm
<1>3. ASSUME NEW n \in Nat, Client!Dispatch(n) PROVE BadgeComing'
  <2>1. asking' = asking
    BY <1>3 DEF Client!Dispatch, Client!cache
  <2>2. \E e, f \in SocketEvent :
          /\ e.kind = "message" /\ e.seq = n /\ f.kind = "receipt" /\ f.ticks = theirs'
          /\ link => \/ OnWire(wire') = OnWire(wire) \cup {e} /\ wire' = wire \o <<e>> /\ theirs' = theirs
                     \/ OnWire(wire') = OnWire(wire) \cup {e, f} /\ wire' = wire \o (<<e>> \o <<f>>)
    BY <1>3, ShapeDispatch
  <2>3. \E e : e.kind = "message" /\ e \in OnWire(wire')
    BY <2>2
  <2>. QED
    BY <2>1, <2>3 DEF BadgeComing, Calm, OnWire
<1>4. ASSUME NEW n \in Nat, Client!TheyRead(n) PROVE BadgeComing'
  <2>1. UNCHANGED <<said, mine, reading, asking, list, owed>>
    BY <1>4 DEF Client!TheyRead, Client!cache
  <2>2. OnWire(wire) \subseteq OnWire(wire')
    BY <1>4, ShapeTheyRead
  <2>. QED
    BY <2>1, <2>2, BadgeKept DEF Calm, OnWire
<1>5. CASE Client!TheyMove
  <2>1. UNCHANGED <<said, mine, reading, asking, list, owed>>
    BY <1>5 DEF Client!TheyMove, Client!cache
  <2>2. OnWire(wire) \subseteq OnWire(wire')
    BY <1>5, ShapeTheyMove
  <2>. QED
    BY <2>1, <2>2, BadgeKept DEF Calm, OnWire
<1>6. CASE Client!TakeRead
  <2>1. /\ UNCHANGED <<said, asking, list, owed, wire>> /\ reading > 0 /\ reading' = 0
        /\ mine' = Client!Greatest(mine, reading)
    BY <1>6 DEF Client!TakeRead, Client!cache
  <2>2. Calm' = Calm /\ Said' = Said
    BY <2>1 DEF Calm, OnWire, Said
  <2>4. AllRead(reading) => AllRead(0)'
    <3>1. Said \subseteq Nat
      BY DEF Said
    <3>. QED
      BY <1>0, <2>1, <2>2, <3>1 DEF AllRead, Client!Greatest
  <2>5. AllRead(0)' => Client!Unread' = 0
    <3>1. SUFFICES ASSUME AllRead(0)' PROVE Client!Unread' = 0
      OBVIOUS
    <3>2. mine' \in Nat
      BY <1>0, <2>1 DEF Client!Greatest
    <3>3. {n \in Client!Committed : said[n] = "they" /\ n > mine'} = {}
      BY <1>0, <2>1, <2>2, <3>1, <3>2 DEF AllRead, Said, Client!Committed
    <3>4. Client!Unread' = Client!Cardinality({n \in Client!Committed : said[n] = "they" /\ n > mine'})
      BY <2>1 DEF Client!Unread, Client!Committed
    <3>. QED
      BY <3>3, <3>4, FS_EmptySet, ClientCardinality
  <2>. QED
    BY <2>1, <2>2, <2>4, <2>5 DEF BadgeComing
<1>7. CASE Client!Select
  <2>1. UNCHANGED <<said, mine, asking, owed, wire, cached>> /\ list # None
    BY <1>7 DEF Client!Select, Client!server
  <2>2. Calm' = Calm
    BY <2>1 DEF Calm, OnWire
  <2>3. CASE Client!TailOf(cached) = 0
    <3>1. UNCHANGED <<reading, list>>
      BY <1>7, <2>3 DEF Client!Select
    <3>. QED
      BY <2>1, <2>2, <3>1, BadgeKept
  <2>4. CASE Client!TailOf(cached) # 0
    <3>1. reading' = Client!Greatest(reading, Client!TailOf(cached)) /\ list' = [list EXCEPT !.unread = 0]
      BY <1>7, <2>1, <2>4 DEF Client!Select, Client!Cleared
    <3>2. cached # None /\ list'.unread = 0
      BY <1>0, <2>1, <2>4, <3>1, MarkedFits DEF Client!TailOf
    <3>3. Calm => reading' # 0 /\ AllRead(reading)'
      BY <1>0, <2>1, <2>4, <3>1, <3>2, BadgeMarked, CachedIsAll DEF CachedInOrder, Calm, Settled
    <3>. QED
      BY <1>0, <2>1, <2>2, <3>2, <3>3 DEF BadgeComing
  <2>. QED
    BY <2>3, <2>4
<1>8. CASE Client!ThreadArrives
  <2>1. PICK t : t = [n \in 1 .. fetching |-> n]
    OBVIOUS
  <2>2. /\ cached' = t /\ Client!Shown(t, list, latest) /\ fetching \in Said \cup {0} /\ fetching \notin {None, Asked}
        /\ UNCHANGED <<said, mine, asking, owed, wire>>
    BY <1>8, <2>1 DEF Client!ThreadArrives, Client!server, ClientShape
  <2>3. t \in Seq(Nat) /\ InOrder(t) /\ Client!Range(t) = 1 .. fetching
    BY <2>1, <2>2, FetchedFits DEF ClientShape, InOrder
  <2>4. Calm' = Calm /\ (Calm => Said \subseteq Client!Range(t))
    BY <2>2, <2>3 DEF Calm, OnWire, Whole, Said, ClientShape, ServerShape
  <2>5. CASE /\ open /\ list # None /\ Client!TailOf(t) # 0
             /\ reading' = Client!Greatest(reading, Client!TailOf(t)) /\ latest' = Client!TailOf(t)
             /\ list' = [list EXCEPT !.unread = 0]
    <3>1. list'.unread = 0
      BY <1>0, <2>5, MarkedFits
    <3>2. Calm => reading' # 0 /\ AllRead(reading)'
      BY <2>2, <2>3, <2>4, <2>5, BadgeMarked
    <3>. QED
      BY <1>0, <2>2, <2>4, <3>1, <3>2 DEF BadgeComing
  <2>6. CASE reading' = reading /\ list' = list
    BY <2>2, <2>4, <2>6, BadgeKept
  <2>. QED
    BY <2>2, <2>5, <2>6, ShownIs
<1>9. CASE Client!Hear
  <2>1. PICK e, l : HearsOf(e, l)
    BY <1>9, Hearing
  <2>2. /\ UNCHANGED <<said, mine, owed>> /\ OnWire(wire) = {e} \cup OnWire(wire')
        /\ asking' = (IF e.kind \in {"message", "conversation"} THEN Asked ELSE asking)
        /\ cached' = (IF e.kind = "message" THEN Client!Upserted(cached, e.seq) ELSE cached)
        /\ l \in {None} \cup Chat /\ ChatFits(l) /\ (l = None <=> list = None)
        /\ l # None => l.unread = list.unread
        /\ Client!Shown(cached', l, latest)
    BY <1>9, <2>1, Hearing DEF HearsOf
  <2>3. CASE e.kind \in {"message", "conversation"}
    BY <1>0, <2>2, <2>3 DEF BadgeComing, Calm
  <2>4. CASE e.kind \notin {"message", "conversation"}
    <3>1. cached' = cached /\ asking' = asking /\ Client!Shown(cached, l, latest)
      BY <2>2, <2>4
    <3>2. Calm' = Calm
      BY <2>2, <2>4, <3>1 DEF Calm, OnWire
    <3>3. CASE /\ open /\ l # None /\ Client!TailOf(cached) # 0
               /\ reading' = Client!Greatest(reading, Client!TailOf(cached)) /\ latest' = Client!TailOf(cached)
               /\ list' = [l EXCEPT !.unread = 0]
      <4>1. list'.unread = 0 /\ cached # None
        BY <2>2, <3>3, MarkedFits DEF Client!TailOf
      <4>2. Calm => reading' # 0 /\ AllRead(reading)'
        BY <1>0, <2>2, <3>3, <4>1, BadgeMarked, CachedIsAll DEF CachedInOrder, Calm, Settled
      <4>. QED
        BY <1>0, <3>1, <3>2, <4>1, <4>2 DEF BadgeComing
    <3>4. CASE reading' = reading /\ list' = l
      BY <2>2, <3>1, <3>2, <3>4, BadgeKept
    <3>. QED
      BY <3>1, <3>3, <3>4, ShownIs
  <2>. QED
    BY <2>3, <2>4
<1>10. CASE Client!ListArrives
  <2>1. PICK l : l = Client!Arriving
    OBVIOUS
  <2>2. /\ UNCHANGED <<said, mine, owed, wire, cached>> /\ asking' = None /\ reading = 0
        /\ l = Client!Listed /\ Client!Shown(cached, l, latest)
    BY <1>10, <2>1 DEF Client!ListArrives, Client!Arriving, Client!server
  <2>3. l \in {None} \cup Chat /\ ChatFits(l) /\ (l # None => l.unread = Client!Unread)
    BY <2>2, ListedFits DEF ServerShape, ClientShape
  <2>4. Calm' => Settled
    BY <2>2 DEF Calm, Settled, OnWire
  <2>5. CASE /\ open /\ l # None /\ Client!TailOf(cached) # 0
             /\ reading' = Client!Greatest(reading, Client!TailOf(cached)) /\ latest' = Client!TailOf(cached)
             /\ list' = [l EXCEPT !.unread = 0]
    <3>1. list'.unread = 0 /\ cached # None
      BY <2>3, <2>5, MarkedFits DEF Client!TailOf
    <3>2. Settled => reading' # 0 /\ AllRead(reading)'
      BY <1>0, <2>2, <2>5, <3>1, BadgeMarked, CachedIsAll DEF CachedInOrder
    <3>. QED
      BY <2>2, <2>4, <3>1, <3>2 DEF BadgeComing
  <2>6. CASE reading' = reading /\ list' = l
    <3>1. Client!Unread' = Client!Unread
      BY <2>2 DEF Client!Unread, Client!Committed
    <3>. QED
      BY <2>2, <2>3, <2>6, <3>1 DEF BadgeComing
  <2>. QED
    BY <2>2, <2>5, <2>6, ShownIs
<1>11. CASE Client!Leave \/ Client!AnswerThread \/ UNCHANGED Client!vars
  <2>1. UNCHANGED <<said, mine, reading, asking, list, owed, wire>>
    BY <1>11 DEF Client!Leave, Client!AnswerThread, Client!cache, Client!server, Client!vars
  <2>. QED
    BY <2>1, BadgeKept DEF Calm, OnWire
<1>12. ~Client!Drop /\ ~Client!Reconnect /\ ~Client!AnswerList
  BY DEF Client!Drop, Client!Reconnect, Client!AnswerList
<1>. QED
  BY <1>0, <1>1, <1>2, <1>3, <1>4, <1>5, <1>6, <1>7, <1>8, <1>9, <1>10, <1>11, <1>12 DEF Client!Next

LEMMA BadgeShows ==
  ASSUME ClientConstants, ClientShape, Whole, CachedInOrder, Kept, BadgeComing
  PROVE  Client!BadgeIsTrue
<1>. SUFFICES ASSUME Client!AtRest, list # None
              PROVE  list.unread = Client!Unread /\ (open => Client!Unread = 0)
  BY DEF Client!BadgeIsTrue
<1>1. Settled /\ Calm /\ reading = 0 /\ fetching = None
  BY DEF Client!AtRest, Settled, Calm, OnWire
<1>2. list.unread = Client!Unread
  BY <1>1 DEF BadgeComing
<1>3. ASSUME open PROVE Client!Unread = 0
  <2>1. cached # None /\ Said \subseteq Client!Range(cached) /\ InOrder(cached) /\ cached \in Seq(Nat)
    BY <1>1, <1>3, CachedIsAll DEF Kept, Fetched, CachedInOrder, ClientShape
  <2>2. mine \in Nat /\ Said \subseteq Nat /\ Len(said) \in Nat
    BY DEF ClientShape, ServerShape, Said
  <2>3. CASE Client!TailOf(cached) # 0
    <3>1. \A n \in Said : n <= Client!TailOf(cached) /\ Client!TailOf(cached) \in Nat
      BY <2>1, <2>3, TailIsAll
    <3>2. mine >= Client!TailOf(cached) /\ Client!TailOf(cached) \in Nat
      BY <1>1, <1>3, <2>1, <2>3, TailIsAll DEF Kept, Marked, Taken
    <3>3. AllRead(0)
      BY <2>2, <3>1, <3>2 DEF AllRead
    <3>. QED
      BY <3>3, NoneUnread
  <2>4. CASE Client!TailOf(cached) = 0
    <3>1. Said = {}
      <4>1. cached = <<>>
        BY <2>1, <2>4 DEF Client!TailOf, InOrder
      <4>. QED
        BY <2>1, <4>1 DEF Client!Range
    <3>2. AllRead(0)
      BY <3>1 DEF AllRead
    <3>. QED
      BY <3>2, NoneUnread
  <2>. QED
    BY <2>3, <2>4
<1>. QED
  BY <1>2, <1>3

(* While the connection holds and neither messages nor the list are        *)
(* overtaken, the badge is the server's count once nothing is coming, and  *)
(* a conversation that is open has nothing unread.                         *)
THEOREM BadgeIsAlwaysTrue ==
  ASSUME ClientConstants, {"drop", "late", "race"} \cap ChatOps = {}
  PROVE  Client!Spec => []Client!BadgeIsTrue
<1>. DEFINE I == link /\ Whole /\ Ordered /\ CachedInOrder /\ Kept /\ BadgeComing
<1>1. Client!Init => I
  BY DEF Client!Init, Whole, Ordered, CachedInOrder, Kept, Fetched, Marked, Taken, BadgeComing
<1>2. I /\ ClientShape /\ [Client!Next]_(Client!vars) => I'
  BY StayConnected, WholeNext, OrderedNext, CachedInOrderNext, KeptNext, BadgeNext
<1>3. ClientShape /\ I => Client!BadgeIsTrue
  BY BadgeShows
<1>. HIDE DEF I
<1>. QED
  BY <1>1, <1>2, <1>3, ClientIsShaped, PTL DEF Client!Spec

(* The four together.                                                      *)
THEOREM ClientAlwaysKeepsUp ==
  ASSUME ClientConstants
  PROVE  Client!Spec => []Client!ClientKeepsUp
<1>1. Client!Spec => [](Client!OnceInThread /\ Client!TicksAreTrue)
  BY CopyNeverOverstates, PTL
<1>2. "drop" \notin ChatOps /\ "late" \notin ChatOps => (Client!Spec => []Client!ThreadIsWhole)
  BY ThreadIsAlwaysWhole
<1>3. "drop" \notin ChatOps /\ "race" \notin ChatOps => (Client!Spec => []Client!TicksAreCurrent)
  BY TicksAreAlwaysCurrent
<1>4. "drop" \notin ChatOps => (Client!Spec => []Client!PresenceIsCurrent)
  BY PresenceIsAlwaysCurrent
<1>5. {"drop", "late", "race"} \cap ChatOps = {} => (Client!Spec => []Client!BadgeIsTrue)
  BY BadgeIsAlwaysTrue
<1>6. "late" \in ChatOps => Client!ThreadIsWhole /\ Client!BadgeIsTrue
  BY DEF Client!ThreadIsWhole, Client!BadgeIsTrue
<1>7. "race" \in ChatOps => Client!TicksAreCurrent /\ Client!BadgeIsTrue
  BY DEF Client!TicksAreCurrent, Client!BadgeIsTrue
<1>8. CASE "drop" \in ChatOps
  <2>1. Client!OnceInThread /\ Client!TicksAreTrue => Client!ClientKeepsUp
    BY <1>8 DEF Client!ClientKeepsUp
  <2>. QED
    BY <1>1, <2>1, PTL
<1>9. ASSUME "drop" \notin ChatOps PROVE Client!Spec => []Client!ClientKeepsUp
  <2>1. Client!OnceInThread /\ Client!TicksAreTrue /\ Client!ThreadIsWhole /\ Client!BadgeIsTrue /\ Client!TicksAreCurrent
          /\ Client!PresenceIsCurrent => Client!ClientKeepsUp
    BY DEF Client!ClientKeepsUp
  <2>2. Client!Spec => []Client!ThreadIsWhole
    <3>1. CASE "late" \in ChatOps
      BY <1>6, <3>1, PTL
    <3>. QED
      BY <1>2, <1>9, <3>1
  <2>3. Client!Spec => []Client!TicksAreCurrent
    <3>1. CASE "race" \in ChatOps
      BY <1>7, <3>1, PTL
    <3>. QED
      BY <1>3, <1>9, <3>1
  <2>4. Client!Spec => []Client!BadgeIsTrue
    <3>1. CASE "race" \in ChatOps
      BY <1>7, <3>1, PTL
    <3>2. CASE "late" \in ChatOps
      BY <1>6, <3>2, PTL
    <3>. QED
      BY <1>5, <1>9, <3>1, <3>2
  <2>. QED
    BY <1>1, <1>4, <1>9, <2>1, <2>2, <2>3, <2>4, PTL
<1>. QED
  BY <1>8, <1>9

-----------------------------------------------------------------------------
(* Presence                                                                *)
CONSTANTS Sockets, SocketOps, MaxRows

VARIABLES running, alive, presence, known, logged, opening, closing

Gate == INSTANCE Presence WITH rows <- logged, Ops <- SocketOps

LEMMA GateCardinality == \A S : Gate!Cardinality(S) = Cardinality(S)
BY DEF Gate!Cardinality, Cardinality, Gate!IsFiniteSet, IsFiniteSet

OpeningSteps == {"verify", "open", "remember"}
ClosingSteps == {"seen", "find", "end"}

(* The constants, and handlers that follow one another: a socket closes    *)
(* when no handler is at work and opens when none is closing.              *)
InTurn ==
  /\ MaxRows \in Nat
  /\ None \notin Int \cup OpeningSteps \cup ClosingSteps
  /\ "early" \notin SocketOps /\ "return" \notin SocketOps

Handlers(steps) == [at : steps \cup {None}, row : Nat \cup {None}]

-----------------------------------------------------------------------------
(* What is in memory, and which sockets it is about.                       *)
Memory ==
  /\ running \in BOOLEAN /\ alive \subseteq Sockets /\ presence \subseteq alive
  /\ known \in Nat \cup {None}
  /\ opening \in [Sockets -> Handlers(OpeningSteps)]
  /\ closing \in [Sockets -> Handlers(ClosingSteps)]
  /\ logged \in Seq({"open", "ended"}) /\ Len(logged) <= MaxRows

(* A row that memory or a handler names is there.                          *)
Listed ==
  /\ known # None => known \in DOMAIN logged
  /\ \A s \in Sockets : /\ opening[s].row # None => opening[s].row \in DOMAIN logged
                        /\ closing[s].row # None => closing[s].row \in DOMAIN logged

(* A socket that is there is registered or yet to be verified; one handler *)
(* closes, and then nobody is there; a stopped process remembers nothing.  *)
Turns ==
  /\ \A s \in Sockets : opening[s].at = None => opening[s].row = None
  /\ \A s \in Sockets : closing[s].at = None => closing[s].row = None
  /\ \A s \in alive : s \notin presence <=> opening[s].at = "verify"
  /\ \A s \in Sockets : opening[s].at # None => s \in alive
  /\ \A s \in Sockets : closing[s].at # None => alive = {}
  /\ \A s, o \in Sockets : closing[s].at # None /\ closing[o].at # None => s = o
  /\ ~running => /\ alive = {} /\ known = None
                 /\ \A s \in Sockets : opening[s].at = None /\ closing[s].at = None

LEMMA MemoryInit == ASSUME InTurn PROVE Gate!Init => Memory /\ Listed /\ Turns
<1>. SUFFICES ASSUME Gate!Init PROVE Memory /\ Listed /\ Turns
  OBVIOUS
<1>1. \A s \in Sockets : opening[s] = Gate!Idle /\ closing[s] = Gate!Idle
  BY DEF Gate!Init, Gate!AllIdle
<1>2. Gate!Idle \in Handlers(OpeningSteps) /\ Gate!Idle \in Handlers(ClosingSteps)
  BY DEF Handlers, Gate!Idle
<1>3. logged \in Seq({"open", "ended"}) /\ Len(logged) = 0
  BY DEF Gate!Init
<1>4. Memory
  BY <1>2, <1>3 DEF Gate!Init, Gate!AllIdle, Memory, InTurn
<1>5. Listed /\ Turns
  BY <1>1 DEF Gate!Init, Gate!Idle, Listed, Turns, OpeningSteps, ClosingSteps, InTurn
<1>. QED
  BY <1>4, <1>5

LEMMA NoRow == None \in Nat \cup {None}
OBVIOUS

(* A handler that goes on, and one that is done.                           *)
LEMMA HandlerMoves ==
  ASSUME NEW steps, NEW h \in [Sockets -> Handlers(steps)], NEW s \in Sockets,
         NEW step \in steps, NEW row \in Nat \cup {None},
         NEW g, g = [h EXCEPT ![s] = [at |-> step, row |-> row]]
  PROVE  /\ g \in [Sockets -> Handlers(steps)]
         /\ g[s].at = step /\ g[s].row = row
         /\ \A o \in Sockets \ {s} : g[o] = h[o]
<1>1. [at |-> step, row |-> row] \in Handlers(steps)
  BY DEF Handlers
<1>. QED
  BY <1>1

LEMMA HandlerDone ==
  ASSUME NEW steps, NEW h \in [Sockets -> Handlers(steps)], NEW s \in Sockets,
         NEW g, g = [h EXCEPT ![s] = Gate!Idle]
  PROVE  /\ g \in [Sockets -> Handlers(steps)]
         /\ g[s].at = None /\ g[s].row = None
         /\ \A o \in Sockets \ {s} : g[o] = h[o]
<1>1. Gate!Idle \in Handlers(steps)
  BY DEF Handlers, Gate!Idle
<1>. QED
  BY <1>1 DEF Gate!Idle

LEMMA IdleAt ==
  ASSUME Memory, Turns, NEW s \in Sockets
  PROVE  /\ opening[s] = Gate!Idle <=> opening[s].at = None
         /\ closing[s] = Gate!Idle <=> closing[s].at = None
<1>1. opening[s] \in Handlers(OpeningSteps) /\ closing[s] \in Handlers(ClosingSteps)
  BY DEF Memory
<1>. QED
  BY <1>1 DEF Turns, Handlers, Gate!Idle

(* A socket that opens, up to its session being remembered.                *)
LEMMA OpeningStep ==
  ASSUME InTurn, Memory, Listed, Turns, NEW s \in Sockets,
         \/ Gate!Arrive(s) \/ Gate!TurnAway(s) \/ Gate!Register(s) \/ Gate!InsertSession(s)
         \/ Gate!RememberSession(s) \/ Gate!LoseSession(s)
  PROVE  Memory' /\ Listed' /\ Turns'
<1>t. /\ opening \in [Sockets -> Handlers(OpeningSteps)]
      /\ closing \in [Sockets -> Handlers(ClosingSteps)] /\ alive \subseteq Sockets
      /\ opening[s].row \in Nat \cup {None}
  BY DEF Memory, Handlers
<1>n. None \notin OpeningSteps /\ None \notin ClosingSteps /\ None \notin Int
  BY DEF InTurn
<1>1. CASE Gate!Arrive(s)
  <2>1. /\ opening'[s].at = "verify" /\ opening'[s].row = None
        /\ opening' \in [Sockets -> Handlers(OpeningSteps)]
        /\ \A o \in Sockets \ {s} : opening'[o] = opening[o]
    <3>1. opening' = [opening EXCEPT ![s] = [at |-> "verify", row |-> None]]
      BY <1>1 DEF Gate!Arrive, Gate!Moves
    <3>2. "verify" \in OpeningSteps
      BY DEF OpeningSteps
    <3>3. [at |-> "verify", row |-> None] \in Handlers(OpeningSteps)
      BY <3>2, NoRow DEF Handlers
    <3>. HIDE DEF OpeningSteps
    <3>. QED
      BY <1>t, <3>1, <3>3
  <2>2. /\ running /\ s \notin alive /\ alive' = alive \cup {s}
        /\ UNCHANGED <<running, Gate!memory, logged, closing>>
    BY <1>1 DEF Gate!Arrive
  <2>3. \A o \in Sockets : closing[o].at = None
    BY <1>1, IdleAt DEF Gate!Arrive, Gate!MayOpen, InTurn
  <2>4. Memory' /\ Listed'
    BY <2>1, <2>2 DEF Memory, Listed, Gate!memory
  <2>5. Turns'
    BY <1>t, <1>n, <2>1, <2>2, <2>3 DEF Turns, Memory, Gate!memory, OpeningSteps
  <2>. QED
    BY <2>4, <2>5
<1>2. CASE Gate!TurnAway(s)
  <2>1. /\ opening'[s].at = None /\ opening'[s].row = None
        /\ opening' \in [Sockets -> Handlers(OpeningSteps)]
        /\ \A o \in Sockets \ {s} : opening'[o] = opening[o]
    BY <1>t, <1>2, HandlerDone DEF Gate!TurnAway, Gate!Done
  <2>2. /\ opening[s].at = "verify" /\ alive' = alive \ {s}
        /\ UNCHANGED <<running, Gate!memory, logged, closing>>
    BY <1>2 DEF Gate!TurnAway
  <2>3. s \in alive /\ s \notin presence
    BY <1>n, <2>2 DEF Turns, OpeningSteps
  <2>4. Memory' /\ Listed'
    BY <2>1, <2>2, <2>3 DEF Memory, Listed, Gate!memory
  <2>5. Turns'
    BY <1>t, <1>n, <2>1, <2>2, <2>3 DEF Turns, Memory, Gate!memory, OpeningSteps
  <2>. QED
    BY <2>4, <2>5
<1>3. CASE Gate!Register(s)
  <2>1. /\ opening'[s].at \in {"open", None} /\ opening'[s].row = None
        /\ opening' \in [Sockets -> Handlers(OpeningSteps)]
        /\ \A o \in Sockets \ {s} : opening'[o] = opening[o]
    <3>1. CASE Gate!OpensSession
      <4>1. opening' = [opening EXCEPT ![s] = [at |-> "open", row |-> None]]
        BY <1>3, <3>1 DEF Gate!Register, Gate!Moves
      <4>2. "open" \in OpeningSteps
        BY DEF OpeningSteps
      <4>3. [at |-> "open", row |-> None] \in Handlers(OpeningSteps)
        BY <4>2, NoRow DEF Handlers
      <4>. QED
        BY <1>t, <4>1, <4>3
    <3>2. CASE ~Gate!OpensSession
      <4>1. opening' = [opening EXCEPT ![s] = Gate!Idle]
        BY <1>3, <3>2 DEF Gate!Register, Gate!Done
      <4>. QED
        BY <1>t, <4>1, HandlerDone
    <3>. QED
      BY <3>1, <3>2
  <2>2. /\ opening[s].at = "verify" /\ presence' = presence \cup {s}
        /\ UNCHANGED <<running, alive, known, logged, closing>>
    BY <1>3 DEF Gate!Register
  <2>3. s \in alive
    BY <1>n, <2>2 DEF Turns, OpeningSteps
  <2>4. Memory' /\ Listed'
    BY <2>1, <2>2, <2>3 DEF Memory, Listed
  <2>5. Turns'
    BY <1>t, <1>n, <2>1, <2>2, <2>3 DEF Turns, Memory, OpeningSteps
  <2>. QED
    BY <2>4, <2>5
<1>4. CASE Gate!InsertSession(s)
  <2>. DEFINE n == Len(logged) + 1
  <2>1. /\ logged' \in Seq({"open", "ended"}) /\ Len(logged') = n /\ n \in Nat /\ n <= MaxRows
        /\ DOMAIN logged' = 1 .. n /\ DOMAIN logged = 1 .. Len(logged) /\ Len(logged) \in Nat
    <3>1. logged' = Append(logged, "open") /\ Len(logged) < MaxRows /\ logged \in Seq({"open", "ended"})
      BY <1>4 DEF Gate!InsertSession, Memory
    <3>. QED
      BY <3>1 DEF InTurn
  <2>2. /\ opening'[s].at = "remember" /\ opening'[s].row = n
        /\ opening' \in [Sockets -> Handlers(OpeningSteps)]
        /\ \A o \in Sockets \ {s} : opening'[o] = opening[o]
    <3>1. opening' = [opening EXCEPT ![s] = [at |-> "remember", row |-> n]]
      BY <1>4, <2>1 DEF Gate!InsertSession, Gate!Moves
    <3>2. "remember" \in OpeningSteps
      BY DEF OpeningSteps
    <3>. HIDE DEF OpeningSteps, n
    <3>. QED
      BY ZenonT(30), <1>t, <2>1, <3>1, <3>2, HandlerMoves
  <2>3. opening[s].at = "open" /\ UNCHANGED <<running, alive, Gate!memory, closing>>
    BY <1>4 DEF Gate!InsertSession
  <2>. HIDE DEF n
  <2>4. Memory'
    BY <2>1, <2>2, <2>3 DEF Memory, Gate!memory
  <2>5. n \in DOMAIN logged' /\ \A i \in DOMAIN logged : i \in DOMAIN logged'
    BY <2>1 DEF n
  <2>6. Listed'
    BY <1>n, <2>1, <2>2, <2>3, <2>5 DEF Listed, Gate!memory
  <2>7. Turns'
    BY <1>t, <1>n, <2>2, <2>3 DEF Turns, Memory, Gate!memory, OpeningSteps
  <2>. QED
    BY <2>4, <2>6, <2>7
<1>5. CASE Gate!RememberSession(s) \/ Gate!LoseSession(s)
  <2>1. /\ opening'[s].at = None /\ opening'[s].row = None
        /\ opening' \in [Sockets -> Handlers(OpeningSteps)]
        /\ \A o \in Sockets \ {s} : opening'[o] = opening[o]
    BY <1>t, <1>5, HandlerDone DEF Gate!RememberSession, Gate!LoseSession, Gate!Done
  <2>2. /\ opening[s].at = "remember" /\ known' \in {known, opening[s].row}
        /\ UNCHANGED <<running, alive, presence, logged, closing>>
    BY <1>5 DEF Gate!RememberSession, Gate!LoseSession, Gate!Remembered, Gate!memory
  <2>3. Memory' /\ Listed'
    BY <1>t, <2>1, <2>2 DEF Memory, Listed
  <2>4. running
    BY <1>n, <2>2 DEF Turns, OpeningSteps, Memory
  <2>5. Turns'
    BY <1>t, <1>n, <2>1, <2>2, <2>4 DEF Turns, Memory, OpeningSteps
  <2>. QED
    BY <2>3, <2>5
<1>. QED
  BY <1>1, <1>2, <1>3, <1>4, <1>5

(* A socket that closes, up to its session being ended.                    *)
LEMMA ClosingStep ==
  ASSUME InTurn, Memory, Listed, Turns, NEW s \in Sockets,
         Gate!Leave(s) \/ Gate!TakeSession(s) \/ Gate!FindSession(s) \/ Gate!EndSession(s)
  PROVE  Memory' /\ Listed' /\ Turns'
<1>t. /\ opening \in [Sockets -> Handlers(OpeningSteps)]
      /\ closing \in [Sockets -> Handlers(ClosingSteps)] /\ alive \subseteq Sockets
      /\ closing[s].row \in Nat \cup {None} /\ known \in Nat \cup {None}
  BY DEF Memory, Handlers
<1>n. None \notin OpeningSteps /\ None \notin ClosingSteps /\ None \notin Int
  BY DEF InTurn
<1>f. {"seen", "find", "end"} \subseteq ClosingSteps
  BY DEF ClosingSteps
<1>m. ASSUME NEW step \in ClosingSteps, NEW row \in Nat \cup {None}, Gate!Moves(closing, s, step, row)
      PROVE  /\ closing'[s].at = step /\ closing'[s].row = row
             /\ closing' \in [Sockets -> Handlers(ClosingSteps)]
             /\ \A o \in Sockets \ {s} : closing'[o] = closing[o]
  <2>1. closing' = [closing EXCEPT ![s] = [at |-> step, row |-> row]]
    BY <1>m DEF Gate!Moves
  <2>. QED
    BY <1>t, <2>1, HandlerMoves
<1>d. ASSUME Gate!Done(closing, s)
      PROVE  /\ closing'[s].at = None /\ closing'[s].row = None
             /\ closing' \in [Sockets -> Handlers(ClosingSteps)]
             /\ \A o \in Sockets \ {s} : closing'[o] = closing[o]
  <2>1. closing' = [closing EXCEPT ![s] = Gate!Idle]
    BY <1>d DEF Gate!Done
  <2>. QED
    BY <1>t, <2>1, HandlerDone
<1>1. CASE Gate!Leave(s)
  <2>1. \A o \in Sockets : opening[o].at = None /\ closing[o].at = None
    <3>1. Gate!AtWork = {}
      BY <1>1 DEF Gate!Leave, Gate!MayClose, InTurn
    <3>. QED
      BY <3>1, IdleAt DEF Gate!AtWork
  <2>2. s \in alive /\ alive' = alive \ {s} /\ presence = alive
    BY <1>1, <1>t, <1>n, <2>1 DEF Gate!Leave, Turns, Memory, OpeningSteps
  <2>3. /\ presence' = alive' /\ UNCHANGED <<running, known, logged, opening>>
        /\ IF presence' = {} THEN Gate!Moves(closing, s, "seen", None) ELSE UNCHANGED closing
    BY <1>1, <1>t, <1>n, <2>1, <2>2 DEF Gate!Leave, Gate!Offline, OpeningSteps
  <2>4. /\ closing'[s].at \in {"seen", None} /\ closing'[s].row = None
        /\ closing'[s].at # None => alive' = {}
        /\ closing' \in [Sockets -> Handlers(ClosingSteps)]
        /\ \A o \in Sockets \ {s} : closing'[o] = closing[o]
    <3>1. CASE presence' = {}
      <4>1. Gate!Moves(closing, s, "seen", None)
        BY <2>3, <3>1
      <4>. HIDE DEF Gate!Moves
      <4>. QED
        BY <1>m, <1>f, <2>3, <3>1, <4>1
    <3>2. CASE presence' # {}
      BY <1>t, <2>1, <2>3, <3>2 DEF Turns
    <3>. QED
      BY <3>1, <3>2
  <2>5. Memory' /\ Listed'
    BY <2>2, <2>3, <2>4 DEF Memory, Listed
  <2>6. running
    BY <2>2 DEF Turns, Memory
  <2>7. Turns'
    BY <1>t, <1>n, <2>1, <2>2, <2>3, <2>4, <2>6 DEF Turns, Memory, OpeningSteps
  <2>. QED
    BY <2>5, <2>7
<1>c. ASSUME closing[s].at # None, UNCHANGED <<running, alive, presence, opening>>,
             known' \in {known, None}, closing' \in [Sockets -> Handlers(ClosingSteps)],
             closing'[s].at = None => closing'[s].row = None,
             \A o \in Sockets \ {s} : closing'[o] = closing[o]
      PROVE  Turns'
  <2>1. running /\ alive = {}
    BY <1>c DEF Turns, Memory
  <2>. QED
    BY <1>c, <1>t, <1>n, <2>1 DEF Turns, Memory
<1>2. CASE Gate!TakeSession(s)
  <2>1. closing[s].at = "seen" /\ known' = None /\ UNCHANGED <<running, alive, presence, logged, opening>>
        /\ Gate!Moves(closing, s, "find", known)
    BY <1>2 DEF Gate!TakeSession
  <2>2. /\ closing'[s].at = "find" /\ closing'[s].row = known
        /\ closing' \in [Sockets -> Handlers(ClosingSteps)]
        /\ \A o \in Sockets \ {s} : closing'[o] = closing[o]
    BY <1>m, <1>f, <1>t, <2>1
  <2>3. Memory' /\ Listed'
    BY <1>t, <1>n, <2>1, <2>2 DEF Memory, Listed
  <2>4. Turns'
    BY <1>c, <1>n, <1>f, <2>1, <2>2
  <2>. QED
    BY <2>3, <2>4
<1>3. CASE Gate!FindSession(s)
  <2>1. closing[s].at = "find" /\ UNCHANGED <<running, alive, Gate!memory, logged, opening>>
    BY <1>3 DEF Gate!FindSession
  <2>2. /\ closing' \in [Sockets -> Handlers(ClosingSteps)]
        /\ closing'[s].at = None => closing'[s].row = None
        /\ closing'[s].row # None => closing'[s].row \in DOMAIN logged
        /\ \A o \in Sockets \ {s} : closing'[o] = closing[o]
    <3>1. ASSUME NEW row \in Gate!Open, Gate!Moves(closing, s, "end", row)
          PROVE  /\ closing'[s].at = "end" /\ closing'[s].row = row /\ row \in DOMAIN logged
                 /\ closing' \in [Sockets -> Handlers(ClosingSteps)]
                 /\ \A o \in Sockets \ {s} : closing'[o] = closing[o]
      <4>1. row \in DOMAIN logged /\ row \in Nat
        BY DEF Gate!Open, Memory
      <4>. QED
        BY <1>m, <1>f, <3>1, <4>1
    <3>2. (\E row \in Gate!Open : Gate!Moves(closing, s, "end", row)) \/ Gate!Done(closing, s)
      BY <1>3 DEF Gate!FindSession
    <3>. QED
      BY <1>d, <1>n, <1>f, <3>1, <3>2
  <2>3. Memory' /\ Listed'
    BY <1>t, <1>n, <2>1, <2>2 DEF Memory, Listed, Gate!memory
  <2>4. Turns'
    BY <1>c, <1>n, <1>f, <2>1, <2>2 DEF Gate!memory
  <2>. QED
    BY <2>3, <2>4
<1>4. CASE Gate!EndSession(s)
  <2>1. closing[s].at = "end" /\ UNCHANGED <<running, alive, Gate!memory, opening>>
        /\ logged' = [logged EXCEPT ![closing[s].row] = "ended"] /\ Gate!Done(closing, s)
    BY <1>4 DEF Gate!EndSession
  <2>2. /\ closing'[s].at = None /\ closing'[s].row = None
        /\ closing' \in [Sockets -> Handlers(ClosingSteps)]
        /\ \A o \in Sockets \ {s} : closing'[o] = closing[o]
    BY <1>d, <2>1
  <2>3. logged' \in Seq({"open", "ended"}) /\ Len(logged') = Len(logged) /\ DOMAIN logged' = DOMAIN logged
    <3>1. logged \in Seq({"open", "ended"}) /\ Len(logged) \in Nat
      BY DEF Memory
    <3>2. logged \in [1 .. Len(logged) -> {"open", "ended"}]
      BY <3>1
    <3>3. logged' \in [1 .. Len(logged) -> {"open", "ended"}]
      BY <2>1, <3>2
    <3>. QED
      BY <3>1, <3>2, <3>3
  <2>4. Memory' /\ Listed'
    BY <1>t, <2>1, <2>2, <2>3 DEF Memory, Listed, Gate!memory
  <2>5. Turns'
    BY <1>c, <1>n, <1>f, <2>1, <2>2 DEF Gate!memory
  <2>. QED
    BY <2>4, <2>5
<1>. QED
  BY <1>1, <1>2, <1>3, <1>4

(* The process stops, and starts.                                          *)
LEMMA ProcessStep ==
  ASSUME InTurn, Memory, Listed, Turns, Gate!Crash \/ Gate!Boot \/ Gate!BootWithoutSweep
  PROVE  Memory' /\ Listed' /\ Turns'
<1>1. CASE Gate!Crash
  <2>1. /\ running' = FALSE /\ alive' = {} /\ presence' = {} /\ known' = None /\ logged' = logged
        /\ \A s \in Sockets : opening'[s] = Gate!Idle /\ closing'[s] = Gate!Idle
        /\ opening' = Gate!AllIdle /\ closing' = Gate!AllIdle
    BY <1>1 DEF Gate!Crash, Gate!AllIdle
  <2>2. Gate!Idle \in Handlers(OpeningSteps) /\ Gate!Idle \in Handlers(ClosingSteps)
    BY DEF Handlers, Gate!Idle
  <2>3. Memory'
    BY <2>1, <2>2 DEF Memory, Gate!AllIdle
  <2>4. Listed' /\ Turns'
    BY <2>1 DEF Listed, Turns, Gate!Idle, OpeningSteps, InTurn
  <2>. QED
    BY <2>3, <2>4
<1>2. CASE Gate!Boot \/ Gate!BootWithoutSweep
  <2>1. ~running /\ running' = TRUE /\ UNCHANGED <<alive, Gate!memory, opening, closing>>
        /\ logged' \in {logged, Gate!Swept}
    BY <1>2 DEF Gate!Boot, Gate!BootWithoutSweep
  <2>2. logged' \in Seq({"open", "ended"}) /\ Len(logged') = Len(logged) /\ DOMAIN logged' = DOMAIN logged
    <3>1. logged \in Seq({"open", "ended"})
      BY DEF Memory
    <3>2. /\ Gate!Swept \in Seq({"open", "ended"}) /\ Len(Gate!Swept) = Len(logged)
          /\ DOMAIN Gate!Swept = DOMAIN logged
      BY <3>1 DEF Gate!Swept
    <3>. QED
      BY <2>1, <3>1, <3>2
  <2>3. Memory' /\ Listed'
    BY <2>1, <2>2 DEF Memory, Listed, Gate!memory
  <2>4. Turns'
    BY <2>1 DEF Turns, Gate!memory
  <2>. QED
    BY <2>3, <2>4
<1>. QED
  BY <1>1, <1>2

LEMMA MemoryNext ==
  ASSUME InTurn
  PROVE  Memory /\ Listed /\ Turns /\ [Gate!Next]_Gate!vars => Memory' /\ Listed' /\ Turns'
<1>. SUFFICES ASSUME Memory, Listed, Turns, [Gate!Next]_Gate!vars PROVE Memory' /\ Listed' /\ Turns'
  OBVIOUS
<1>1. CASE UNCHANGED Gate!vars
  BY <1>1 DEF Gate!vars, Memory, Listed, Turns
<1>2. CASE Gate!Next
  BY <1>2, OpeningStep, ClosingStep, ProcessStep DEF Gate!Next, Gate!Handler
<1>. QED
  BY <1>1, <1>2

(* Every reachable state is well typed, and whatever is remembered is a    *)
(* row that exists.                                                        *)
THEOREM PresenceTypeCorrect ==
  ASSUME InTurn
  PROVE  Gate!Spec => []Gate!PresenceTypeOK
<1>1. Memory /\ Listed => Gate!PresenceTypeOK
  BY DEF Memory, Listed, Gate!PresenceTypeOK, Handlers
<1>. QED
  BY <1>1, MemoryInit, MemoryNext, PTL DEF Gate!Spec

(* Whoever is shown online is: once no handler is at work the registered   *)
(* sockets are those that are there, after a failed sweep at boot too      *)
(* (handleConnection, handleDisconnect, isOnline).                         *)
THEOREM PresenceAlwaysLive ==
  ASSUME InTurn
  PROVE  Gate!Spec => []Gate!PresenceIsLive
<1>1. Memory /\ Turns => Gate!PresenceIsLive
  <2>. SUFFICES ASSUME Memory, Turns, Gate!Quiet PROVE presence = alive
    BY DEF Gate!PresenceIsLive
  <2>1. \A s \in Sockets : opening[s].at = None
    BY IdleAt DEF Gate!Quiet, Gate!AtWork
  <2>2. \A s \in alive : s \in presence \/ opening[s].at = "verify"
    BY DEF Turns
  <2>3. alive \subseteq Sockets /\ presence \subseteq alive
    BY DEF Memory
  <2>4. None # "verify"
    BY DEF InTurn, OpeningSteps
  <2>. QED
    BY <2>1, <2>2, <2>3, <2>4
<1>. QED
  BY <1>1, MemoryInit, MemoryNext, PTL DEF Gate!Spec

-----------------------------------------------------------------------------
(* One session is open while somebody is online or their leaving is being  *)
(* written down, and it is the one remembered or the only one to be found. *)
Opens(s) == opening[s].at \in {"open", "remember"}
OneOpens == \A s, o \in Sockets : Opens(s) /\ Opens(o) => s = o

OnlyOpen(i) == i \in DOMAIN logged /\ Gate!Open = {i}
Held == \E i \in Nat : OnlyOpen(i) /\ known \in {None, i}

NobodyOn == presence = {} /\ \A s \in Sockets : closing[s].at = None
WhileAway == NobodyOn => Gate!Open = {} /\ known = None
ToOpen == \A s \in Sockets : opening[s].at = "open" => Gate!Open = {} /\ known = None
ToRemember == \A s \in Sockets : opening[s].at = "remember" =>
  Gate!Open = {opening[s].row} /\ opening[s].row \in DOMAIN logged /\ known = None
Online == presence # {} /\ (\A s \in Sockets : ~Opens(s)) => Held
ToTake == \A s \in Sockets : closing[s].at = "seen" => Held
ToFind == \A s \in Sockets : closing[s].at = "find" =>
  known = None /\ \E i \in Nat : OnlyOpen(i) /\ closing[s].row \in {None, i}
ToEnd == \A s \in Sockets : closing[s].at = "end" =>
  known = None /\ OnlyOpen(closing[s].row)

OneSession ==
  /\ OneOpens /\ Gate!OneSessionAtATime
  /\ running => WhileAway /\ ToOpen /\ ToRemember /\ Online /\ ToTake /\ ToFind /\ ToEnd

LEMMA OneRow ==
  /\ Gate!Open = {} => Gate!OneSessionAtATime
  /\ \A i : Gate!Open = {i} => Gate!OneSessionAtATime
<1>1. Gate!Cardinality({}) = 0
  BY FS_EmptySet, GateCardinality
<1>2. ASSUME NEW i PROVE Gate!Cardinality({i}) = 1
  <2>1. IsFiniteSet({i}) /\ Cardinality({i}) = 1
    BY FS_Singleton
  <2>. QED
    BY <2>1, GateCardinality
<1>3. ASSUME Gate!Open = {} PROVE Gate!OneSessionAtATime
  <2>1. Gate!Cardinality(Gate!Open) = 0
    BY <1>1, <1>3, Zenon
  <2>. QED
    BY <2>1 DEF Gate!OneSessionAtATime
<1>4. ASSUME NEW i, Gate!Open = {i} PROVE Gate!OneSessionAtATime
  <2>1. Gate!Cardinality(Gate!Open) = 1
    BY <1>2, <1>4, Zenon
  <2>. QED
    BY <2>1 DEF Gate!OneSessionAtATime
<1>. QED
  BY <1>3, <1>4

LEMMA SessionInit == ASSUME InTurn PROVE Gate!Init => OneSession
<1>. SUFFICES ASSUME Gate!Init PROVE OneSession
  OBVIOUS
<1>1. \A s \in Sockets : opening[s].at = None /\ closing[s].at = None
  BY DEF Gate!Init, Gate!AllIdle, Gate!Idle
<1>2. Gate!Open = {} /\ known = None /\ presence = {}
  BY DEF Gate!Init, Gate!Open
<1>. QED
  BY <1>1, <1>2, OneRow
  DEF OneSession, OneOpens, Opens, WhileAway, ToOpen, ToRemember, Online, ToTake, ToFind, ToEnd, InTurn,
      OpeningSteps, ClosingSteps

(* Opening: the first socket finds no session and makes the one there is.  *)
LEMMA SessionOpens ==
  ASSUME InTurn, Memory, Listed, Turns, OneSession, NEW s \in Sockets,
         \/ Gate!Arrive(s) \/ Gate!TurnAway(s) \/ Gate!Register(s) \/ Gate!InsertSession(s)
         \/ Gate!RememberSession(s) \/ Gate!LoseSession(s)
  PROVE  OneSession'
<1>t. /\ opening \in [Sockets -> Handlers(OpeningSteps)] /\ presence \subseteq alive
      /\ alive \subseteq Sockets /\ known \in Nat \cup {None}
  BY DEF Memory
<1>n. None \notin OpeningSteps /\ None \notin ClosingSteps /\ None \notin Int
  BY DEF InTurn
<1>r. running
  BY <1>n DEF Turns, Memory, OpeningSteps, Gate!Arrive, Gate!TurnAway, Gate!Register, Gate!InsertSession,
              Gate!RememberSession, Gate!LoseSession
<1>s. /\ OneOpens /\ Gate!OneSessionAtATime /\ WhileAway /\ ToOpen /\ ToRemember /\ Online
      /\ ToTake /\ ToFind /\ ToEnd
  BY <1>r DEF OneSession
<1>f. ASSUME UNCHANGED <<known, logged, closing>>
      PROVE  Gate!OneSessionAtATime' /\ ToTake' /\ ToFind' /\ ToEnd' /\ (Held => Held') /\ Gate!Open' = Gate!Open
  BY <1>s, <1>f
  DEF Gate!OneSessionAtATime, Gate!Open, ToTake, ToFind, ToEnd, Held, OnlyOpen
<1>1. CASE Gate!Arrive(s) \/ Gate!TurnAway(s)
  <2>1. /\ UNCHANGED <<running, presence, known, logged, closing>>
        /\ opening'[s].at \notin {"open", "remember"} /\ opening[s].at \notin {"open", "remember"}
        /\ \A o \in Sockets \ {s} : opening'[o] = opening[o]
    BY <1>1, <1>t, <1>n
    DEF Gate!Arrive, Gate!TurnAway, Gate!Moves, Gate!Done, Gate!memory, Gate!Idle, OpeningSteps, Gate!AtWork
  <2>2. \A o \in Sockets : Opens(o)' <=> Opens(o)
    BY <2>1 DEF Opens
  <2>3. OneOpens' /\ WhileAway' /\ ToOpen' /\ ToRemember' /\ Online'
    BY <1>f, <1>s, <2>1, <2>2
    DEF OneOpens, WhileAway, NobodyOn, ToOpen, ToRemember, Online
  <2>. QED
    BY <1>f, <2>1, <2>3 DEF OneSession
<1>2. CASE Gate!Register(s)
  <2>1. /\ opening[s].at = "verify" /\ presence' = presence \cup {s}
        /\ UNCHANGED <<running, known, logged, closing>>
        /\ \A o \in Sockets \ {s} : opening'[o] = opening[o]
        /\ presence = {} => opening'[s].at = "open"
        /\ presence # {} => opening'[s].at = None
    BY <1>2, <1>t DEF Gate!Register, Gate!OpensSession, Gate!Moves, Gate!Done, Gate!Idle
  <2>2. \A o \in Sockets : closing[o].at = None
    BY <1>n, <2>1 DEF Turns, OpeningSteps
  <2>3. CASE presence = {}
    <3>1. Gate!Open = {} /\ known = None
      BY <1>s, <2>2, <2>3 DEF WhileAway, NobodyOn
    <3>2. \A o \in Sockets : ~Opens(o)
      <4>1. \A o \in Sockets : opening[o].at \in {"open", "remember"} => o \in presence
        BY <1>n DEF Turns, OpeningSteps
      <4>. QED
        BY <2>3, <4>1 DEF Opens
    <3>3. \A o \in Sockets : Opens(o)' => o = s
      BY <2>1, <3>2 DEF Opens
    <3>4. Opens(s)' /\ opening'[s].at = "open"
      BY <2>1, <2>3 DEF Opens
    <3>5. OneOpens'
      BY <3>3 DEF OneOpens
    <3>6. ToOpen' /\ ToRemember' /\ Online' /\ WhileAway'
      BY <1>f, <2>1, <3>1, <3>3, <3>4 DEF ToOpen, ToRemember, Online, WhileAway, NobodyOn, Opens
    <3>. QED
      BY <1>f, <2>1, <3>5, <3>6 DEF OneSession
  <2>4. CASE presence # {}
    <3>1. \A o \in Sockets : Opens(o)' <=> Opens(o)
      BY <1>n, <2>1, <2>4 DEF Opens, OpeningSteps
    <3>2. OneOpens'
      BY <1>s, <3>1 DEF OneOpens
    <3>3. ToOpen' /\ ToRemember'
      BY <1>f, <1>n, <1>s, <2>1, <2>4 DEF ToOpen, ToRemember, OpeningSteps
    <3>4. Online' /\ WhileAway'
      BY <1>f, <1>s, <2>1, <2>4, <3>1 DEF Online, WhileAway, NobodyOn
    <3>. QED
      BY <1>f, <2>1, <3>2, <3>3, <3>4 DEF OneSession
  <2>. QED
    BY <2>3, <2>4
<1>3. CASE Gate!InsertSession(s)
  <2>. DEFINE n == Len(logged) + 1
  <2>1. /\ opening[s].at = "open" /\ opening'[s].at = "remember" /\ opening'[s].row = n
        /\ \A o \in Sockets \ {s} : opening'[o] = opening[o]
        /\ UNCHANGED <<running, presence, known, closing>>
        /\ logged' = Append(logged, "open") /\ logged \in Seq({"open", "ended"})
    <3>1. /\ opening[s].at = "open" /\ logged' = Append(logged, "open")
          /\ Gate!Moves(opening, s, "remember", Len(logged')) /\ UNCHANGED <<running, alive, Gate!memory, closing>>
          /\ logged \in Seq({"open", "ended"})
      BY <1>3 DEF Gate!InsertSession, Memory
    <3>2. Len(logged') = n
      BY <3>1
    <3>. QED
      BY <1>t, <3>1, <3>2 DEF Gate!Moves, Gate!memory
  <2>2. Gate!Open = {} /\ known = None
    BY <1>s, <2>1 DEF ToOpen
  <2>3. DOMAIN logged' = 1 .. n /\ n \in Nat /\ n \in DOMAIN logged' /\ logged'[n] = "open"
        /\ \A i \in DOMAIN logged' \ {n} : logged'[i] # "open"
    <3>1. Len(logged) \in Nat /\ DOMAIN logged = 1 .. Len(logged) /\ DOMAIN logged' = 1 .. n
      BY <2>1
    <3>2. \A i \in DOMAIN logged : logged[i] # "open"
      BY <2>2 DEF Gate!Open
    <3>3. logged'[n] = "open" /\ \A i \in DOMAIN logged : logged'[i] = logged[i]
      BY <2>1
    <3>. QED
      BY <3>1, <3>2, <3>3
  <2>. HIDE DEF n
  <2>4. Gate!Open' = {n}
    BY <2>3 DEF Gate!Open
  <2>5. \A o \in Sockets : Opens(o)' <=> o = s
    BY <1>s, <2>1 DEF Opens, OneOpens
  <2>6. OneOpens'
    BY <2>5 DEF OneOpens
  <2>7. s \in presence
    BY <1>n, <2>1 DEF Turns, OpeningSteps
  <2>8. \A o \in Sockets : closing[o].at = None
    BY <1>n, <2>1 DEF Turns, OpeningSteps
  <2>9. ToOpen' /\ ToRemember' /\ Online' /\ WhileAway'
    <3>1. \A o \in Sockets : opening'[o].at \in {"open", "remember"} <=> o = s
      BY <2>5 DEF Opens
    <3>2. ToOpen' /\ Online' /\ WhileAway'
      BY <2>1, <2>5, <2>7, <3>1 DEF ToOpen, Online, WhileAway, NobodyOn
    <3>3. ToRemember'
      BY <2>1, <2>2, <2>3, <2>4, <3>1 DEF ToRemember
    <3>. QED
      BY <3>2, <3>3
  <2>10. ToTake' /\ ToFind' /\ ToEnd'
    BY <1>n, <2>1, <2>8 DEF ToTake, ToFind, ToEnd, ClosingSteps
  <2>11. Gate!OneSessionAtATime'
    <3>1. Cardinality({n}) = 1
      BY FS_Singleton
    <3>. QED
      BY <2>4, <3>1, GateCardinality DEF Gate!OneSessionAtATime
  <2>. QED
    BY <2>6, <2>9, <2>10, <2>11 DEF OneSession
<1>4. CASE Gate!RememberSession(s) \/ Gate!LoseSession(s)
  <2>1. /\ opening[s].at = "remember" /\ opening'[s].at = None
        /\ \A o \in Sockets \ {s} : opening'[o] = opening[o]
        /\ UNCHANGED <<running, presence, logged, closing>>
        /\ known' \in {known, opening[s].row}
    BY <1>4, <1>t DEF Gate!RememberSession, Gate!LoseSession, Gate!Remembered, Gate!Done, Gate!Idle, Gate!memory
  <2>2. Gate!Open = {opening[s].row} /\ opening[s].row \in DOMAIN logged /\ known = None
        /\ opening[s].row \in Nat
    BY <1>s, <2>1 DEF ToRemember, Memory
  <2>3. /\ \A i \in {opening[s].row} : OnlyOpen(i)'
        /\ known' \in {None, opening[s].row} /\ Gate!Open' = Gate!Open
    BY <2>1, <2>2 DEF OnlyOpen, Gate!Open
  <2>4. Held'
    BY <2>2, <2>3 DEF Held, OnlyOpen
  <2>5. \A o \in Sockets : ~Opens(o)'
    BY <1>n, <1>s, <2>1 DEF Opens, OneOpens, OpeningSteps
  <2>6. s \in presence /\ \A o \in Sockets : closing[o].at = None
    BY <1>n, <2>1 DEF Turns, OpeningSteps
  <2>7. OneOpens' /\ ToOpen' /\ ToRemember' /\ Online' /\ WhileAway'
    BY <2>1, <2>4, <2>5, <2>6
    DEF OneOpens, ToOpen, ToRemember, Online, WhileAway, NobodyOn, Opens
  <2>8. ToTake' /\ ToFind' /\ ToEnd'
    BY <1>n, <2>1, <2>6 DEF ToTake, ToFind, ToEnd, ClosingSteps
  <2>9. Gate!OneSessionAtATime'
    BY <1>s, <2>3 DEF Gate!OneSessionAtATime
  <2>. QED
    BY <2>7, <2>8, <2>9 DEF OneSession
<1>. QED
  BY <1>1, <1>2, <1>3, <1>4

(* Closing: the last socket to go takes the session with it.               *)
LEMMA SessionCloses ==
  ASSUME InTurn, Memory, Listed, Turns, OneSession, NEW s \in Sockets,
         Gate!Leave(s) \/ Gate!TakeSession(s) \/ Gate!FindSession(s) \/ Gate!EndSession(s)
  PROVE  OneSession'
<1>t. /\ closing \in [Sockets -> Handlers(ClosingSteps)] /\ presence \subseteq alive
      /\ alive \subseteq Sockets /\ known \in Nat \cup {None}
  BY DEF Memory
<1>n. None \notin OpeningSteps /\ None \notin ClosingSteps /\ None \notin Int
  BY DEF InTurn
<1>r. running
  BY <1>n DEF Turns, Memory, ClosingSteps, Gate!Leave, Gate!TakeSession, Gate!FindSession, Gate!EndSession
<1>s. /\ OneOpens /\ Gate!OneSessionAtATime /\ WhileAway /\ ToOpen /\ ToRemember /\ Online
      /\ ToTake /\ ToFind /\ ToEnd
  BY <1>r DEF OneSession
<1>1. CASE Gate!Leave(s)
  <2>1. \A o \in Sockets : opening[o].at = None /\ closing[o].at = None
    <3>1. Gate!AtWork = {}
      BY <1>1 DEF Gate!Leave, Gate!MayClose, InTurn
    <3>. QED
      BY <3>1, IdleAt DEF Gate!AtWork
  <2>2. s \in alive /\ alive' = alive \ {s} /\ presence = alive
    BY <1>1, <1>t, <1>n, <2>1 DEF Gate!Leave, Turns, Memory, OpeningSteps
  <2>3. /\ presence' = presence \ {s} /\ UNCHANGED <<running, known, logged, opening>>
        /\ IF presence' = {} THEN Gate!Moves(closing, s, "seen", None) ELSE UNCHANGED closing
    BY <1>1, <1>t, <1>n, <2>1, <2>2 DEF Gate!Leave, Gate!Offline, OpeningSteps
  <2>4. \A o \in Sockets : ~Opens(o) /\ ~Opens(o)'
    BY <1>n, <2>1, <2>3 DEF Opens, OpeningSteps
  <2>5. Held
    BY <1>s, <2>2, <2>4 DEF Online
  <2>6. Held' /\ Gate!Open' = Gate!Open
    BY <2>3, <2>5 DEF Held, OnlyOpen, Gate!Open
  <2>7. OneOpens' /\ ToOpen' /\ ToRemember' /\ Online' /\ Gate!OneSessionAtATime'
    BY <1>s, <2>4, <2>6 DEF OneOpens, ToOpen, ToRemember, Online, Opens, Gate!OneSessionAtATime
  <2>8. /\ \A o \in Sockets : closing'[o].at \in {None, "seen"}
        /\ presence' = {} => closing'[s].at = "seen"
    BY <1>t, <2>1, <2>3 DEF Gate!Moves
  <2>9. ToTake' /\ ToFind' /\ ToEnd' /\ WhileAway'
    BY <1>n, <2>6, <2>8, <1>t, <2>2 DEF ToTake, ToFind, ToEnd, WhileAway, NobodyOn, ClosingSteps
  <2>. QED
    BY <2>7, <2>9 DEF OneSession
<1>c. ASSUME closing[s].at # None, UNCHANGED <<running, presence, opening>>
      PROVE  /\ \A o \in Sockets \ {s} : closing[o].at = None
             /\ \A o \in Sockets : ~Opens(o) /\ ~Opens(o)'
             /\ presence = {} /\ presence' = {}
             /\ OneOpens' /\ ToOpen' /\ ToRemember' /\ Online'
  <2>1. \A o \in Sockets : opening[o].at = None
    BY <1>c, <1>t DEF Turns
  <2>2. \A o \in Sockets : ~Opens(o) /\ ~Opens(o)'
    BY <1>c, <1>n, <2>1 DEF Opens, OpeningSteps
  <2>3. presence = {} /\ \A o \in Sockets \ {s} : closing[o].at = None
    BY <1>c, <1>t DEF Turns
  <2>. QED
    BY <1>c, <2>2, <2>3 DEF OneOpens, ToOpen, ToRemember, Online, Opens
<1>2. CASE Gate!TakeSession(s)
  <2>1. /\ closing[s].at = "seen" /\ known' = None /\ UNCHANGED <<running, presence, logged, opening>>
        /\ closing'[s].at = "find" /\ closing'[s].row = known
        /\ \A o \in Sockets \ {s} : closing'[o] = closing[o]
    BY <1>2, <1>t DEF Gate!TakeSession, Gate!Moves
  <2>2. Held
    BY <1>s, <2>1 DEF ToTake
  <2>3. PICK i \in Nat : OnlyOpen(i) /\ known \in {None, i}
    BY <2>2 DEF Held
  <2>4. OnlyOpen(i)' /\ Gate!Open' = Gate!Open
    BY <2>1, <2>3 DEF OnlyOpen, Gate!Open
  <2>5. ToFind'
    BY <1>c, <1>n, <2>1, <2>3, <2>4 DEF ToFind, OnlyOpen, ClosingSteps
  <2>6. ToTake' /\ ToEnd' /\ WhileAway'
    BY <1>c, <1>n, <2>1 DEF ToTake, ToEnd, WhileAway, NobodyOn, ClosingSteps
  <2>7. Gate!OneSessionAtATime'
    BY <1>s, <2>4 DEF Gate!OneSessionAtATime
  <2>. QED
    BY <1>c, <1>n, <2>1, <2>5, <2>6, <2>7 DEF OneSession, ClosingSteps
<1>3. CASE Gate!FindSession(s)
  <2>1. closing[s].at = "find" /\ UNCHANGED <<running, presence, known, logged, opening>>
    BY <1>3 DEF Gate!FindSession, Gate!memory
  <2>2. known = None /\ \E i \in Nat : OnlyOpen(i) /\ closing[s].row \in {None, i}
    BY <1>s, <2>1 DEF ToFind
  <2>3. PICK i \in Nat : OnlyOpen(i) /\ closing[s].row \in {None, i}
    BY <2>2
  <2>4. Gate!Found(s) = i
    <3>1. Gate!Max({i}) = i
      BY DEF Gate!Max
    <3>. QED
      BY <1>n, <2>3, <3>1 DEF Gate!Found, OnlyOpen
  <2>5. Gate!Moves(closing, s, "end", i) /\ i # None
    BY <1>3, <1>n, <2>3, <2>4 DEF Gate!FindSession, OnlyOpen
  <2>6. /\ closing'[s].at = "end" /\ closing'[s].row = i
        /\ \A o \in Sockets \ {s} : closing'[o] = closing[o]
    BY <1>t, <2>5 DEF Gate!Moves
  <2>7. OnlyOpen(i)' /\ Gate!Open' = Gate!Open
    BY <2>1, <2>3 DEF OnlyOpen, Gate!Open
  <2>8. ToEnd'
    BY <1>c, <1>n, <2>1, <2>2, <2>6, <2>7 DEF ToEnd, OnlyOpen, ClosingSteps
  <2>9. ToTake' /\ ToFind' /\ WhileAway'
    BY <1>c, <1>n, <2>1, <2>6 DEF ToTake, ToFind, WhileAway, NobodyOn, ClosingSteps
  <2>10. Gate!OneSessionAtATime'
    BY <1>s, <2>7 DEF Gate!OneSessionAtATime
  <2>. QED
    BY <1>c, <1>n, <2>1, <2>8, <2>9, <2>10 DEF OneSession, ClosingSteps
<1>4. CASE Gate!EndSession(s)
  <2>1. /\ closing[s].at = "end" /\ UNCHANGED <<running, presence, known, opening>>
        /\ logged' = [logged EXCEPT ![closing[s].row] = "ended"] /\ closing'[s].at = None
        /\ \A o \in Sockets \ {s} : closing'[o] = closing[o]
    BY <1>4, <1>t DEF Gate!EndSession, Gate!memory, Gate!Done, Gate!Idle
  <2>2. known = None /\ OnlyOpen(closing[s].row)
    BY <1>s, <2>1 DEF ToEnd
  <2>3. Gate!Open' = {}
    BY <2>1, <2>2 DEF Gate!Open, OnlyOpen
  <2>4. ToTake' /\ ToFind' /\ ToEnd' /\ WhileAway'
    BY <1>c, <1>n, <2>1, <2>2, <2>3 DEF ToTake, ToFind, ToEnd, WhileAway, NobodyOn, ClosingSteps
  <2>5. Gate!OneSessionAtATime'
    BY <2>3, FS_EmptySet, GateCardinality DEF Gate!OneSessionAtATime
  <2>. QED
    BY <1>c, <1>n, <2>1, <2>4, <2>5 DEF OneSession, ClosingSteps
<1>. QED
  BY <1>1, <1>2, <1>3, <1>4

(* A stop ends no session and forgets all; the sweep at boot ends them.    *)
LEMMA SessionProcess ==
  ASSUME InTurn, "nosweep" \notin SocketOps, Memory, Listed, Turns, OneSession,
         Gate!Crash \/ Gate!Boot \/ Gate!BootWithoutSweep
  PROVE  OneSession'
<1>n. None \notin OpeningSteps /\ None \notin ClosingSteps
  BY DEF InTurn
<1>1. CASE Gate!Crash
  <2>1. running' = FALSE /\ logged' = logged /\ opening' = Gate!AllIdle
    BY <1>1 DEF Gate!Crash
  <2>2. \A s \in Sockets : ~Opens(s)'
    BY <1>n, <2>1 DEF Opens, Gate!AllIdle, Gate!Idle, OpeningSteps
  <2>. QED
    BY <2>1, <2>2 DEF OneSession, OneOpens, Gate!OneSessionAtATime, Gate!Open
<1>2. CASE Gate!Boot
  <2>1. /\ ~running /\ logged' = Gate!Swept /\ UNCHANGED <<Gate!memory, opening, closing>>
    BY <1>2 DEF Gate!Boot
  <2>2. /\ presence = {} /\ known = None
        /\ \A s \in Sockets : opening[s].at = None /\ closing[s].at = None
    BY <2>1 DEF Turns, Memory
  <2>3. Gate!Open' = {}
    BY <2>1 DEF Gate!Open, Gate!Swept
  <2>4. \A s \in Sockets : ~Opens(s)'
    BY <1>n, <2>1, <2>2 DEF Opens, OpeningSteps
  <2>5. Gate!OneSessionAtATime'
    BY <2>3, FS_EmptySet, GateCardinality DEF Gate!OneSessionAtATime
  <2>. QED
    BY <1>n, <2>1, <2>2, <2>3, <2>4, <2>5
    DEF OneSession, OneOpens, WhileAway, ToOpen, ToRemember, Online, ToTake, ToFind, ToEnd, Gate!memory,
        OpeningSteps, ClosingSteps
<1>. QED
  BY <1>1, <1>2 DEF Gate!BootWithoutSweep

LEMMA SessionNext ==
  ASSUME InTurn, "nosweep" \notin SocketOps
  PROVE  Memory /\ Listed /\ Turns /\ OneSession /\ [Gate!Next]_Gate!vars => OneSession'
<1>. SUFFICES ASSUME Memory, Listed, Turns, OneSession, [Gate!Next]_Gate!vars PROVE OneSession'
  OBVIOUS
<1>1. CASE UNCHANGED Gate!vars
  BY <1>1
  DEF Gate!vars, OneSession, OneOpens, Opens, Gate!OneSessionAtATime, Gate!Open, WhileAway, NobodyOn, ToOpen,
      ToRemember, Online, ToTake, ToFind, ToEnd, Held, OnlyOpen
<1>2. CASE Gate!Next
  BY <1>2, SessionOpens, SessionCloses, SessionProcess DEF Gate!Next, Gate!Handler
<1>. QED
  BY <1>1, <1>2

(* Presence is true: whoever is shown online is, has the one session there *)
(* is, and leaves none behind, however many sockets come and go, whatever  *)
(* the log loses and whenever the process stops, as long as the sweep at   *)
(* boot succeeds (openSession, closeSession, closeOrphanedSessions).       *)
THEOREM PresenceAlwaysTrue ==
  ASSUME InTurn, "nosweep" \notin SocketOps
  PROVE  Gate!Spec => []Gate!PresenceIsTrue
<1>1. Memory /\ Turns /\ OneSession => Gate!SessionWhileOnline /\ Gate!OneSessionAtATime
  <2>. SUFFICES ASSUME Memory, Turns, OneSession, Gate!Quiet PROVE Gate!Open # {} <=> presence # {}
    BY DEF Gate!SessionWhileOnline, OneSession
  <2>1. \A s \in Sockets : opening[s].at = None /\ closing[s].at = None
    BY IdleAt DEF Gate!Quiet, Gate!AtWork
  <2>2. \A s \in Sockets : ~Opens(s)
    BY <2>1 DEF Opens, InTurn, OpeningSteps
  <2>. QED
    BY <2>1, <2>2 DEF OneSession, Gate!Quiet, WhileAway, NobodyOn, Online, Held, OnlyOpen
<1>2. Gate!PresenceIsLive /\ Gate!SessionWhileOnline /\ Gate!OneSessionAtATime => Gate!PresenceIsTrue
  BY DEF Gate!PresenceIsTrue
<1>. QED
  BY <1>1, <1>2, MemoryInit, MemoryNext, SessionInit, SessionNext, PresenceAlwaysLive, PTL DEF Gate!Spec

-----------------------------------------------------------------------------
(* SocketThrottle                                                          *)
CONSTANTS Events, Buckets, AppliesTo, Limit, Ttl, Block, SweepEvery

VARIABLES windows, sweepIn, plain, verdict, passed

Limits == INSTANCE SocketThrottle

(* Blocks are no shorter than windows (the table's are as long), and None  *)
(* is no window and no time.                                               *)
LimitsConstants ==
  /\ Limits!ThrottleAssumption /\ Block >= Ttl
  /\ None \notin Limits!Window \cup Nat

LimitsShape ==
  /\ windows \in [Limits!Names -> Limits!Window \cup {None}]
  /\ plain \in [Limits!Names -> Limits!Window \cup {None}]
  /\ sweepIn \in 0 .. SweepEvery

LEMMA LimitsCardinality == \A S : Limits!Cardinality(S) = Cardinality(S)
BY DEF Limits!Cardinality, Cardinality, Limits!IsFiniteSet, IsFiniteSet

(* What a sweep dropped says the same as a window that is not there.       *)
SweepFits == \A b \in Limits!Names :
  windows[b] = plain[b] \/ (windows[b] = None /\ Limits!Expired(plain[b]))

LEMMA Table ==
  ASSUME LimitsConstants
  PROVE  /\ Ttl \in Nat \ {0} /\ Block \in Nat \ {0} /\ SweepEvery \in Nat \ {0}
         /\ \A b \in Limits!Names : Limit[b] \in Nat \ {0}
         /\ None \notin Nat /\ None \notin Limits!Window
BY DEF LimitsConstants, Limits!ThrottleAssumption

LEMMA ChargedFits ==
  ASSUME LimitsConstants, NEW b \in Limits!Names, NEW w \in Limits!Window \cup {None}
  PROVE  Limits!Charged(b, w) \in Limits!Window
<1>. Limit[b] \in Nat \ {0} /\ Ttl \in Nat \ {0} /\ Block \in Nat \ {0}
  BY Table
<1>1. CASE Limits!Shut(w)
  BY <1>1 DEF Limits!Charged, Limits!Shut
<1>2. CASE ~Limits!Shut(w) /\ Limits!Breach(b, w)
  <2>1. w \in Limits!Window
    BY <1>2 DEF Limits!Breach, Limits!Stale
  <2>. QED
    <3>1. Limits!Charged(b, w) = [w EXCEPT !.count = @ + 1, !.blockedFor = Block]
      BY <1>2 DEF Limits!Charged, Limits!Blocked
    <3>2. w.count + 1 \in Nat /\ Block \in {None} \cup 0 .. Block
      BY <2>1 DEF Limits!Window
    <3>. DEFINE ends == {None} \cup 0 .. Block
    <3>. HIDE DEF ends
    <3>3. w \in [count : Nat, resetIn : 0 .. Ttl, blockedFor : ends]
      BY <2>1 DEF Limits!Window, ends
    <3>4. Limits!Charged(b, w) \in [count : Nat, resetIn : 0 .. Ttl, blockedFor : ends]
      BY <3>1, <3>2, <3>3 DEF ends
    <3>. QED
      BY <3>4 DEF Limits!Window, ends
<1>3. CASE ~Limits!Shut(w) /\ ~Limits!Breach(b, w)
  <2>1. CASE Limits!Stale(w)
    BY <1>3, <2>1 DEF Limits!Charged, Limits!Fresh, Limits!Window
  <2>2. CASE ~Limits!Stale(w)
    <3>1. w \in Limits!Window
      BY <2>2 DEF Limits!Stale
    <3>. QED
      BY <1>3, <2>2, <3>1 DEF Limits!Charged, Limits!Window
  <2>. QED
    BY <2>1, <2>2
<1>. QED
  BY <1>1, <1>2, <1>3

LEMMA DownFits == ASSUME NEW n \in Nat, NEW d \in 0 .. n PROVE Limits!Down(d) \in 0 .. n
BY DEF Limits!Down

LEMMA OlderFits ==
  ASSUME LimitsConstants, NEW w \in Limits!Window \cup {None}
  PROVE  IF w = None THEN Limits!Older(w) = None ELSE Limits!Older(w) \in Limits!Window
<1>2. CASE w = None
  BY <1>2 DEF Limits!Older
<1>3. CASE w # None
  <2>. w \in Limits!Window
    BY <1>3
  <2>1. Limits!Down(w.resetIn) \in 0 .. Ttl
    BY DownFits, Table DEF Limits!Window
  <2>2. (IF w.blockedFor = None THEN None ELSE Limits!Down(w.blockedFor)) \in {None} \cup 0 .. Block
    BY DownFits, Table DEF Limits!Window
  <2>3. Limits!Older(w) = [w EXCEPT !.resetIn = Limits!Down(w.resetIn),
          !.blockedFor = IF w.blockedFor = None THEN None ELSE Limits!Down(w.blockedFor)]
    BY <1>3 DEF Limits!Older, Limits!Window
  <2>4. Limits!Older(w) \in Limits!Window
    BY <2>1, <2>2, <2>3 DEF Limits!Window
  <2>. QED
    BY <1>3, <2>4
<1>. QED
  BY <1>2, <1>3

LEMMA LimitsShapeKept == ASSUME LimitsConstants, LimitsShape, Limits!Next PROVE LimitsShape'
<1>1. Limits!Swept \in [Limits!Names -> Limits!Window \cup {None}]
  BY DEF Limits!Swept, LimitsShape
<1>2. ASSUME NEW e \in Events, NEW table \in [Limits!Names -> Limits!Window \cup {None}]
      PROVE  Limits!After(e, table) \in [Limits!Names -> Limits!Window \cup {None}]
  BY <1>2, ChargedFits DEF Limits!After
<1>3. ASSUME NEW e \in Events, Limits!Check(e) PROVE LimitsShape'
  BY <1>1, <1>2, <1>3, Table DEF Limits!Check, LimitsShape
<1>4. CASE Limits!Tick
  <2>1. windows' \in [Limits!Names -> Limits!Window \cup {None}]
    BY <1>4, OlderFits DEF Limits!Tick, LimitsShape
  <2>2. plain' \in [Limits!Names -> Limits!Window \cup {None}]
    BY <1>4, OlderFits DEF Limits!Tick, LimitsShape
  <2>3. sweepIn' \in 0 .. SweepEvery
    BY <1>4, Table, DownFits DEF Limits!Tick, LimitsShape
  <2>. QED
    BY <2>1, <2>2, <2>3 DEF LimitsShape
<1>. QED
  BY <1>3, <1>4 DEF Limits!Next

(* Tables that differ in what a sweep drops answer alike, charge the same  *)
(* buckets and still differ only in that.                                  *)
Alike(table, other) == \A b \in Limits!Names :
  table[b] = other[b] \/ (table[b] = None /\ Limits!Expired(other[b]))

LEMMA AlikeAnswer ==
  ASSUME LimitsConstants, NEW e \in Events, NEW table, NEW other, Alike(table, other)
  PROVE  /\ Limits!Allowed(e, table) = Limits!Allowed(e, other)
         /\ Alike(Limits!After(e, table), Limits!After(e, other))
<1>1. ASSUME NEW b \in Limits!Names
      PROVE  /\ Limits!Refuses(b, table[b]) <=> Limits!Refuses(b, other[b])
             /\ table[b] # other[b] => Limits!Charged(b, table[b]) = Limits!Charged(b, other[b])
  BY DEF Alike, Limits!Expired, Limits!Refuses, Limits!Breach, Limits!Stale, Limits!Shut, Limits!Charged
<1>2. \A i \in Limits!Applicable(e) : Buckets[i] \in Limits!Names
  BY DEF Limits!Applicable, Limits!Names
<1>3. Limits!Refusing(e, table) = Limits!Refusing(e, other)
  BY <1>1, <1>2 DEF Limits!Refusing
<1>4. Limits!ChargedBuckets(e, table) = Limits!ChargedBuckets(e, other)
  BY <1>3 DEF Limits!ChargedBuckets
<1>5. ASSUME NEW b \in Limits!Names
      PROVE  LET t == Limits!After(e, table)
                 o == Limits!After(e, other)
             IN  t[b] = o[b] \/ (t[b] = None /\ Limits!Expired(o[b]))
  <2>1. ASSUME NEW some
        PROVE  Limits!After(e, some)[b] =
                 IF b \in Limits!ChargedBuckets(e, some) THEN Limits!Charged(b, some[b]) ELSE some[b]
    BY DEF Limits!After
  <2>2. CASE b \in Limits!ChargedBuckets(e, table)
    <3>1. /\ Limits!After(e, table)[b] = Limits!Charged(b, table[b])
          /\ Limits!After(e, other)[b] = Limits!Charged(b, other[b])
      BY <1>4, <2>1, <2>2
    <3>. QED
      BY <1>1, <3>1
  <2>3. CASE b \notin Limits!ChargedBuckets(e, table)
    <3>1. Limits!After(e, table)[b] = table[b] /\ Limits!After(e, other)[b] = other[b]
      BY <1>4, <2>1, <2>3
    <3>. QED
      BY <3>1 DEF Alike
  <2>. QED
    BY <2>2, <2>3
<1>. QED
  BY <1>3, <1>5 DEF Alike, Limits!Allowed

LEMMA SweepFitsKept ==
  ASSUME LimitsConstants, LimitsShape, SweepFits, Limits!Next
  PROVE  SweepFits' /\ (Limits!SweepIsInvisible => Limits!SweepIsInvisible')
<1>1. ASSUME NEW e \in Events, Limits!Check(e) PROVE SweepFits' /\ Limits!SweepIsInvisible'
  <2>. PICK table, other : table = Limits!Swept /\ other = plain
    OBVIOUS
  <2>1. Alike(table, other)
    BY DEF SweepFits, Alike, Limits!Swept
  <2>2. /\ Limits!Allowed(e, table) = Limits!Allowed(e, other)
        /\ Alike(Limits!After(e, table), Limits!After(e, other))
    BY <2>1, AlikeAnswer
  <2>3. /\ windows' = Limits!After(e, table) /\ plain' = Limits!After(e, other)
        /\ verdict' = [said |-> Limits!Allowed(e, table), unswept |-> Limits!Allowed(e, other)]
    BY <1>1 DEF Limits!Check
  <2>. QED
    BY <2>2, <2>3 DEF Alike, SweepFits, Limits!SweepIsInvisible
<1>2. CASE Limits!Tick
  <2>1. UNCHANGED verdict
    BY <1>2 DEF Limits!Tick
  <2>2. ASSUME NEW b \in Limits!Names
        PROVE  windows'[b] = plain'[b] \/ (windows'[b] = None /\ Limits!Expired(plain[b])')
    <3>1. windows'[b] = Limits!Older(windows[b]) /\ plain'[b] = Limits!Older(plain[b])
      BY <1>2 DEF Limits!Tick
    <3>2. CASE windows[b] = plain[b]
      <4>1. windows'[b] = plain'[b]
        BY <3>1, <3>2
      <4>. QED
        BY <4>1
    <3>3. CASE windows[b] = None /\ Limits!Expired(plain[b])
      <4>1. plain[b] \in Limits!Window /\ plain[b].resetIn = 0 /\ plain[b].blockedFor \in {None, 0}
        BY <3>3 DEF Limits!Expired, Limits!Shut, LimitsShape, Limits!Window
      <4>2. /\ plain'[b] = [plain[b] EXCEPT !.resetIn = 0,
                              !.blockedFor = IF @ = None THEN None ELSE 0]
            /\ windows'[b] = None
        BY <3>1, <3>3, <4>1 DEF Limits!Older, Limits!Down, LimitsConstants
      <4>3. plain'[b] \in Limits!Window /\ plain'[b].resetIn = 0 /\ plain'[b].blockedFor \in {None, 0}
        BY <4>1, <4>2, Table DEF Limits!Window
      <4>. QED
        BY <4>2, <4>3 DEF Limits!Expired, Limits!Shut, LimitsConstants
    <3>. QED
      BY <3>2, <3>3 DEF SweepFits
  <2>. QED
    BY <2>1, <2>2 DEF SweepFits, Limits!SweepIsInvisible
<1>. QED
  BY <1>1, <1>2 DEF Limits!Next

(* Whatever the table and the events: no answer depends on a sweep         *)
(* (SocketThrottle.sweep).                                                 *)
THEOREM SweepIsNeverSeen ==
  ASSUME LimitsConstants
  PROVE  Limits!Spec => []Limits!SweepIsInvisible
<1>. DEFINE WindowsFit == LimitsShape /\ SweepFits /\ Limits!SweepIsInvisible
<1>1. Limits!Init => WindowsFit
  BY Table DEF Limits!Init, LimitsShape, SweepFits, Limits!SweepIsInvisible
<1>2. WindowsFit /\ [Limits!Next]_Limits!vars => WindowsFit'
  <2>1. CASE UNCHANGED Limits!vars
    BY <2>1 DEF LimitsShape, SweepFits, Limits!SweepIsInvisible, Limits!vars
  <2>. QED
    BY <2>1, LimitsShapeKept, SweepFitsKept
<1>. QED
  BY <1>1, <1>2, PTL DEF Limits!Spec

-----------------------------------------------------------------------------
(* Of the events that passed: those after the window's start, those not    *)
(* before it, and those before it.                                         *)
Inside(ps, w) == {x \in ps : x.age + w.resetIn < Ttl}
Current(ps, w) == {x \in ps : x.age + w.resetIn <= Ttl}
Before(ps, w) == {x \in ps : x.age + w.resetIn > Ttl}

(* Where a window is not over, it counted each of its events, the first of *)
(* them at its start; the events before it are fewer than the limit, since *)
(* the first of those is too long ago.  A block outlasts its window.       *)
BurstFits(b, w, ps) ==
  /\ w = None => ps = {}
  /\ w # None =>
       /\ Cardinality(Before(ps, w)) < Limit[b]
       /\ Cardinality(Current(ps, w)) <= Limit[b]
       /\ Cardinality(Inside(ps, w)) < Limit[b]
       /\ w.blockedFor = None /\ w.resetIn > 0 =>
            /\ Cardinality(Current(ps, w)) <= w.count
            /\ Cardinality(Inside(ps, w)) < w.count
       /\ w.blockedFor # None => w.resetIn <= w.blockedFor
       /\ w.resetIn = 0 => \A x \in ps : x.age > 0

Passed == [age : Nat, n : Nat]

PassedFits == \A b \in Limits!Names :
  /\ passed[b] \subseteq Passed /\ IsFiniteSet(passed[b])
  /\ \A x \in passed[b] : x.age < Ttl
  /\ BurstFits(b, plain[b], passed[b])

LEMMA Parts ==
  ASSUME NEW ps, NEW w, IsFiniteSet(ps)
  PROVE  /\ IsFiniteSet(Inside(ps, w)) /\ Cardinality(Inside(ps, w)) \in Nat
         /\ IsFiniteSet(Current(ps, w)) /\ Cardinality(Current(ps, w)) \in Nat
         /\ IsFiniteSet(Before(ps, w)) /\ Cardinality(Before(ps, w)) \in Nat
<1>1. Inside(ps, w) \in SUBSET ps /\ Current(ps, w) \in SUBSET ps /\ Before(ps, w) \in SUBSET ps
  BY DEF Inside, Current, Before
<1>. QED
  BY <1>1, FS_Subset, FS_CardinalityType

LEMMA SmallerPart ==
  ASSUME NEW S, NEW T, IsFiniteSet(T), S \subseteq T
  PROVE  IsFiniteSet(S) /\ Cardinality(S) \in Nat /\ Cardinality(T) \in Nat /\ Cardinality(S) <= Cardinality(T)
BY FS_Subset, FS_CardinalityType

(* One event more makes a part one larger at most.                         *)
LEMMA OneMoreRow ==
  ASSUME NEW S, NEW T, NEW x, IsFiniteSet(S), T \subseteq S \cup {x}
  PROVE  IsFiniteSet(T) /\ Cardinality(T) \in Nat /\ Cardinality(S) \in Nat /\ Cardinality(T) <= Cardinality(S) + 1
<1>1. IsFiniteSet(S \cup {x}) /\ Cardinality(S) \in Nat
      /\ Cardinality(S \cup {x}) = IF x \in S THEN Cardinality(S) ELSE Cardinality(S) + 1
  BY FS_AddElement, FS_CardinalityType
<1>2. Cardinality(S \cup {x}) <= Cardinality(S) + 1
  BY <1>1
<1>. QED
  BY <1>1, <1>2, SmallerPart

(* Nor does a part grow as its events age.                                 *)
Aged(S) == {[x EXCEPT !.age = @ + 1] : x \in S}

LEMMA AgedIsNoMore ==
  ASSUME NEW S, NEW T, IsFiniteSet(S), T \subseteq Aged(S)
  PROVE  IsFiniteSet(T) /\ Cardinality(T) \in Nat /\ Cardinality(S) \in Nat /\ Cardinality(T) <= Cardinality(S)
<1>. DEFINE f == [x \in S |-> [x EXCEPT !.age = @ + 1]]
<1>1. f \in Surjection(S, Aged(S))
  BY DEF Surjection, Aged
<1>2. IsFiniteSet(Aged(S)) /\ Cardinality(Aged(S)) <= Cardinality(S)
  BY <1>1, FS_Surjection
<1>. QED
  BY <1>2, SmallerPart, FS_CardinalityType

LEMMA AllInside ==
  ASSUME LimitsConstants, NEW w \in Limits!Window, NEW ps \in SUBSET Passed,
         \A x \in ps : x.age < Ttl, w.resetIn = 0
  PROVE  Inside(ps, w) = ps
BY DEF Inside, Passed

(* Time passes over a window and its events.                               *)
LEMMA BurstAges ==
  ASSUME LimitsConstants, NEW b \in Limits!Names, NEW w \in Limits!Window \cup {None},
         NEW ps \in SUBSET Passed, IsFiniteSet(ps), BurstFits(b, w, ps),
         \A x \in ps : x.age < Ttl,
         NEW qs, qs = Aged({y \in ps : y.age + 1 < Ttl})
  PROVE  /\ qs \in SUBSET Passed /\ IsFiniteSet(qs) /\ \A x \in qs : x.age < Ttl /\ x.age > 0
         /\ BurstFits(b, Limits!Older(w), qs)
<1>. Ttl \in Nat \ {0} /\ Limit[b] \in Nat \ {0}
  BY Table
<1>1. ASSUME NEW x \in qs
      PROVE  /\ x \in Passed /\ x.age < Ttl /\ x.age > 0
             /\ \E y \in ps : x.age = y.age + 1 /\ y.age + 1 < Ttl /\ x = [y EXCEPT !.age = @ + 1]
  <2>1. PICK y \in ps : y.age + 1 < Ttl /\ x = [y EXCEPT !.age = @ + 1]
    BY DEF Aged
  <2>2. y \in Passed
    OBVIOUS
  <2>. QED
    BY <2>1, <2>2 DEF Passed
<1>2. IsFiniteSet(qs)
  <2>1. {y \in ps : y.age + 1 < Ttl} \subseteq ps
    OBVIOUS
  <2>. QED
    BY <2>1, SmallerPart, AgedIsNoMore
<1>3. CASE w = None
  BY <1>3, <1>1, <1>2 DEF BurstFits, Limits!Older
<1>4. CASE w # None
  <2>. w \in Limits!Window
    BY <1>4
  <2>. DEFINE v == Limits!Older(w)
  <2>1. /\ v.count = w.count /\ v.resetIn = Limits!Down(w.resetIn)
        /\ v.blockedFor = IF w.blockedFor = None THEN None ELSE Limits!Down(w.blockedFor)
    BY <1>4 DEF Limits!Older, Limits!Window
  <2>2. v \in Limits!Window /\ v # None
    BY <1>4, OlderFits, Table
  <2>3. w.resetIn \in Nat /\ v.resetIn \in Nat /\ w.count \in Nat
        /\ v.resetIn = IF w.resetIn = 0 THEN 0 ELSE w.resetIn - 1
    BY <2>1 DEF Limits!Down, Limits!Window
  <2>4. w.blockedFor # None => w.blockedFor \in Nat /\ v.blockedFor = IF w.blockedFor = 0 THEN 0 ELSE w.blockedFor - 1
    BY <2>1 DEF Limits!Down, Limits!Window
  <2>5. v.blockedFor = None <=> w.blockedFor = None
    BY <2>1, <2>4, Table
  <2>. HIDE DEF v
  <2>6. Inside(qs, v) \subseteq Aged(Inside(ps, w))
    BY <1>1, <2>3 DEF Inside, Aged, Passed
  <2>7. Current(qs, v) \subseteq Aged(IF v.resetIn = 0 THEN Inside(ps, w) ELSE Current(ps, w))
    BY <1>1, <2>3 DEF Inside, Current, Aged, Passed
  <2>8. Before(qs, v) \subseteq Aged(Before(ps, w))
    BY <1>1, <2>3 DEF Before, Aged, Passed
  <2>9. /\ Cardinality(Inside(qs, v)) \in Nat /\ Cardinality(Inside(qs, v)) <= Cardinality(Inside(ps, w))
        /\ Cardinality(Before(qs, v)) \in Nat /\ Cardinality(Before(qs, v)) <= Cardinality(Before(ps, w))
    BY <2>6, <2>8, Parts, AgedIsNoMore
  <2>10. /\ Cardinality(Current(qs, v)) \in Nat
         /\ IF v.resetIn = 0 THEN Cardinality(Current(qs, v)) <= Cardinality(Inside(ps, w))
            ELSE Cardinality(Current(qs, v)) <= Cardinality(Current(ps, w))
    BY <2>7, Parts, AgedIsNoMore
  <2>11. BurstFits(b, v, qs)
    BY <1>1, <1>4, <2>1, <2>2, <2>3, <2>4, <2>5, <2>9, <2>10, Parts DEF BurstFits
  <2>. QED
    BY <1>1, <1>2, <2>11 DEF v
<1>. QED
  BY <1>3, <1>4

(* What check makes of a window it charges, and of its events.             *)
LEMMA BurstCharged ==
  ASSUME LimitsConstants, NEW b \in Limits!Names, NEW w \in Limits!Window \cup {None},
         NEW ps \in SUBSET Passed, IsFiniteSet(ps), BurstFits(b, w, ps),
         \A y \in ps : y.age < Ttl,
         NEW x \in Passed, x.age = 0, NEW through \in BOOLEAN, through => ~Limits!Refuses(b, w)
  PROVE  BurstFits(b, Limits!Charged(b, w), IF through THEN ps \cup {x} ELSE ps)
<1>. Ttl \in Nat \ {0} /\ Limit[b] \in Nat \ {0} /\ Block \in Nat /\ Block >= Ttl
  BY Table DEF LimitsConstants
<1>. DEFINE v == Limits!Charged(b, w)
            qs == IF through THEN ps \cup {x} ELSE ps
<1>0. v \in Limits!Window /\ v # None
  BY ChargedFits, Table
<1>1. CASE Limits!Shut(w)
  BY <1>1 DEF Limits!Charged, Limits!Refuses
<1>2. CASE ~Limits!Shut(w) /\ Limits!Breach(b, w)
  <2>1. w \in Limits!Window /\ w # None /\ ~through
    BY <1>2 DEF Limits!Breach, Limits!Stale, Limits!Refuses
  <2>2. v.resetIn = w.resetIn /\ v.blockedFor = Block /\ w.resetIn \in 0 .. Ttl
    BY <1>2, <2>1 DEF Limits!Charged, Limits!Blocked, Limits!Window
  <2>. HIDE DEF v
  <2>3. Inside(qs, v) = Inside(ps, w) /\ Current(qs, v) = Current(ps, w) /\ Before(qs, v) = Before(ps, w)
    BY <2>1, <2>2 DEF Inside, Current, Before
  <2>4. v.blockedFor # None
    BY <2>2, Table
  <2>5. BurstFits(b, v, ps)
    BY <1>0, <2>1, <2>2, <2>3, <2>4 DEF BurstFits
  <2>. QED
    BY <2>1, <2>5 DEF v
<1>3. CASE ~Limits!Shut(w) /\ ~Limits!Breach(b, w) /\ Limits!Stale(w)
  <2>1. v = [count |-> 1, resetIn |-> Ttl, blockedFor |-> None]
    BY <1>3 DEF Limits!Charged, Limits!Fresh
  <2>2. Cardinality(ps) < Limit[b] /\ \A y \in ps : y.age > 0
    <3>1. CASE w = None
      BY <3>1, FS_EmptySet DEF BurstFits
    <3>2. CASE w # None
      <4>1. w \in Limits!Window /\ w.resetIn = 0
        BY <1>3, <3>2 DEF Limits!Shut, Limits!Stale, Limits!Window, BurstFits
      <4>. QED
        BY <3>2, <4>1, AllInside DEF BurstFits
    <3>. QED
      BY <3>1, <3>2
  <2>. HIDE DEF v
  <2>3. Before(qs, v) \subseteq ps /\ Inside(qs, v) = {} /\ Current(qs, v) \subseteq {} \cup {x}
    BY <2>1, <2>2 DEF Before, Inside, Current, Passed
  <2>4. /\ Cardinality(Before(qs, v)) < Limit[b] /\ Cardinality(Inside(qs, v)) = 0
        /\ Cardinality(Current(qs, v)) <= 1 /\ Cardinality(Current(qs, v)) \in Nat
    <3>1. Cardinality(Before(qs, v)) <= Cardinality(ps) /\ Cardinality(ps) \in Nat
          /\ Cardinality(Before(qs, v)) \in Nat
      BY <2>3, SmallerPart
    <3>2. IsFiniteSet({}) /\ Cardinality({}) = 0
      BY FS_EmptySet
    <3>3. Cardinality(Current(qs, v)) <= 1 /\ Cardinality(Current(qs, v)) \in Nat
      <4>. PICK none : none = {}
        OBVIOUS
      <4>. PICK now : now = Current(qs, v)
        OBVIOUS
      <4>1. IsFiniteSet(none) /\ Cardinality(none) = 0 /\ now \subseteq none \cup {x}
        BY <2>3, <3>2
      <4>2. Cardinality(now) <= Cardinality(none) + 1 /\ Cardinality(now) \in Nat
        BY <4>1, OneMoreRow
      <4>. QED
        BY <4>1, <4>2
    <3>4. Cardinality(Inside(qs, v)) = 0
      BY <2>3, <3>2
    <3>. QED
      BY <2>2, <3>1, <3>3, <3>4
  <2>5. BurstFits(b, v, qs)
    BY <1>0, <2>1, <2>4 DEF BurstFits
  <2>. QED
    BY <2>5 DEF v
<1>4. CASE ~Limits!Shut(w) /\ ~Limits!Breach(b, w) /\ ~Limits!Stale(w)
  <2>1. /\ w \in Limits!Window /\ w # None /\ w.resetIn \in 1 .. Ttl /\ w.blockedFor = None
        /\ w.count \in Nat /\ w.count + 1 <= Limit[b]
    BY <1>4 DEF Limits!Breach, Limits!Stale, Limits!Window
  <2>2. v.resetIn = w.resetIn /\ v.count = w.count + 1 /\ v.blockedFor = None
    BY <1>4, <2>1 DEF Limits!Charged, Limits!Window
  <2>. HIDE DEF v
  <2>3. /\ Before(qs, v) \subseteq Before(ps, w)
        /\ Current(qs, v) \subseteq Current(ps, w) \cup {x}
        /\ Inside(qs, v) \subseteq Inside(ps, w) \cup {x}
    BY <2>1, <2>2 DEF Before, Current, Inside, Passed
  <2>4. /\ Cardinality(Before(qs, v)) \in Nat /\ Cardinality(Before(qs, v)) <= Cardinality(Before(ps, w))
        /\ Cardinality(Current(qs, v)) \in Nat /\ Cardinality(Current(qs, v)) <= Cardinality(Current(ps, w)) + 1
        /\ Cardinality(Inside(qs, v)) \in Nat /\ Cardinality(Inside(qs, v)) <= Cardinality(Inside(ps, w)) + 1
    BY <2>3, Parts, SmallerPart, OneMoreRow
  <2>5. BurstFits(b, v, qs)
    BY <1>0, <2>1, <2>2, <2>4, Parts DEF BurstFits
  <2>. QED
    BY <2>5 DEF v
<1>. QED
  BY <1>1, <1>2, <1>3, <1>4

LEMMA PassedFitsKept ==
  ASSUME LimitsConstants, LimitsShape, SweepFits, PassedFits, Limits!Next
  PROVE  PassedFits'
<1>1. ASSUME NEW e \in Events, Limits!Check(e) PROVE PassedFits'
  <2>. PICK through \in BOOLEAN : through = Limits!Allowed(e, plain)
    BY DEF Limits!Allowed
  <2>1. Limits!Allowed(e, Limits!Swept) = through
    <3>. PICK table : table = Limits!Swept
      OBVIOUS
    <3>1. Alike(table, plain)
      BY DEF SweepFits, Alike, Limits!Swept
    <3>. QED
      BY <3>1, AlikeAnswer
  <2>2. ASSUME NEW b \in Limits!Names
        PROVE  /\ passed'[b] \subseteq Passed /\ IsFiniteSet(passed'[b])
               /\ \A x \in passed'[b] : x.age < Ttl
               /\ BurstFits(b, plain'[b], passed'[b])
    <3>. PICK ps, w, one : ps = passed[b] /\ w = plain[b] /\ one = Limits!Passing(b)
      OBVIOUS
    <3>1. /\ w \in Limits!Window \cup {None} /\ ps \in SUBSET Passed /\ IsFiniteSet(ps) /\ BurstFits(b, w, ps)
          /\ \A y \in ps : y.age < Ttl
      BY DEF LimitsShape, PassedFits
    <3>2. one \in Passed /\ one.age = 0
      <4>. DEFINE today == {x \in passed[b] : x.age = 0}
      <4>1. today \subseteq ps
        OBVIOUS
      <4>2. Cardinality(today) \in Nat
        BY <3>1, <4>1, SmallerPart
      <4>3. one = [age |-> 0, n |-> Cardinality(today)]
        BY LimitsCardinality DEF Limits!Passing
      <4>. QED
        BY <4>2, <4>3 DEF Passed
    <3>3. passed'[b] = IF through /\ e \in AppliesTo[b] THEN ps \cup {one} ELSE ps
      BY <1>1, <2>1 DEF Limits!Check
    <3>4. plain'[b] = IF b \in Limits!ChargedBuckets(e, plain) THEN Limits!Charged(b, w) ELSE w
      BY <1>1 DEF Limits!Check, Limits!After
    <3>5. through /\ e \in AppliesTo[b] => b \in Limits!ChargedBuckets(e, plain) /\ ~Limits!Refuses(b, w)
      BY DEF Limits!Allowed, Limits!Refusing, Limits!ChargedBuckets, Limits!Applicable, Limits!Names
    <3>6. IsFiniteSet(ps \cup {one})
      BY <3>1, FS_AddElement
    <3>7. BurstFits(b, plain'[b], passed'[b])
      <4>1. CASE b \in Limits!ChargedBuckets(e, plain)
        <5>. PICK pass \in BOOLEAN : pass = (through /\ e \in AppliesTo[b])
          OBVIOUS
        <5>1. pass => ~Limits!Refuses(b, w)
          BY <3>5
        <5>2. BurstFits(b, Limits!Charged(b, w), IF pass THEN ps \cup {one} ELSE ps)
          BY <3>1, <3>2, <5>1, BurstCharged
        <5>. QED
          BY <3>3, <3>4, <4>1, <5>2
      <4>2. CASE b \notin Limits!ChargedBuckets(e, plain)
        BY <3>1, <3>3, <3>4, <3>5, <4>2
      <4>. QED
        BY <4>1, <4>2
    <3>. QED
      BY <3>1, <3>2, <3>3, <3>6, <3>7, Table
  <2>. QED
    BY <2>2 DEF PassedFits, BurstFits, Before, Current, Inside
<1>2. CASE Limits!Tick
  <2>1. ASSUME NEW b \in Limits!Names
        PROVE  /\ passed'[b] \subseteq Passed /\ IsFiniteSet(passed'[b])
               /\ \A x \in passed'[b] : x.age < Ttl
               /\ BurstFits(b, plain'[b], passed'[b])
    <3>. PICK ps, w, qs : ps = passed[b] /\ w = plain[b] /\ qs = Aged({y \in ps : y.age + 1 < Ttl})
      OBVIOUS
    <3>1. /\ w \in Limits!Window \cup {None} /\ ps \in SUBSET Passed /\ IsFiniteSet(ps) /\ BurstFits(b, w, ps)
          /\ \A y \in ps : y.age < Ttl
      BY DEF LimitsShape, PassedFits
    <3>2. passed'[b] = qs /\ plain'[b] = Limits!Older(w)
      BY <1>2 DEF Limits!Tick, Aged
    <3>. QED
      BY <3>1, <3>2, BurstAges
  <2>. QED
    BY <2>1 DEF PassedFits, BurstFits, Before, Current, Inside
<1>. QED
  BY <1>1, <1>2 DEF Limits!Next

LEMMA BurstFollows ==
  ASSUME LimitsConstants, LimitsShape, PassedFits, NEW b \in Limits!Names
  PROVE  Cardinality(passed[b]) < 2 * Limit[b]
<1>. PICK ps, w : ps = passed[b] /\ w = plain[b]
  OBVIOUS
<1>1. /\ IsFiniteSet(ps) /\ ps \in SUBSET Passed /\ BurstFits(b, w, ps)
      /\ w \in Limits!Window \cup {None} /\ Limit[b] \in Nat \ {0} /\ Ttl \in Nat
  BY Table DEF PassedFits, LimitsShape
<1>2. CASE w = None
  BY <1>1, <1>2, FS_EmptySet DEF BurstFits
<1>3. CASE w # None
  <2>. PICK B, C : B = Before(ps, w) /\ C = Current(ps, w)
    OBVIOUS
  <2>1. ps = B \cup C
    BY <1>1, <1>3 DEF Before, Current, Passed, Limits!Window
  <2>2. IsFiniteSet(B) /\ IsFiniteSet(C) /\ IsFiniteSet(B \cap C)
    BY <1>1, Parts, FS_Intersection
  <2>3. Cardinality(B \cup C) = Cardinality(B) + Cardinality(C) - Cardinality(B \cap C)
    BY <2>2, FS_Union
  <2>4. Cardinality(B) \in Nat /\ Cardinality(C) \in Nat /\ Cardinality(B \cap C) \in Nat
    BY <2>2, FS_CardinalityType
  <2>5. Cardinality(B) < Limit[b] /\ Cardinality(C) <= Limit[b]
    BY <1>1, <1>3 DEF BurstFits
  <2>6. Cardinality(B \cup C) < 2 * Limit[b]
    BY <1>1, <2>3, <2>4, <2>5
  <2>. QED
    BY <2>1, <2>6
<1>. QED
  BY <1>1, <1>2, <1>3

(* Whatever the table, blocks no shorter than windows, and whatever the    *)
(* events and the sweeps: in any stretch as long as a window less than     *)
(* twice a bucket's limit pass (SocketThrottle.check).                     *)
THEOREM BurstIsAlwaysBounded ==
  ASSUME LimitsConstants
  PROVE  Limits!Spec => []Limits!BurstIsBounded
<1>. DEFINE WindowsFit == LimitsShape /\ SweepFits /\ PassedFits
<1>1. Limits!Init => WindowsFit
  BY Table, FS_EmptySet DEF Limits!Init, LimitsShape, SweepFits, PassedFits, BurstFits
<1>2. WindowsFit /\ [Limits!Next]_Limits!vars => WindowsFit'
  <2>1. CASE UNCHANGED Limits!vars
    BY <2>1 DEF LimitsShape, SweepFits, PassedFits, BurstFits, Before, Current, Inside, Limits!vars
  <2>. QED
    BY <2>1, LimitsShapeKept, SweepFitsKept, PassedFitsKept
<1>3. WindowsFit => Limits!BurstIsBounded
  BY BurstFollows, LimitsCardinality DEF Limits!BurstIsBounded
<1>. QED
  BY <1>1, <1>2, <1>3, PTL DEF Limits!Spec
=============================================================================
