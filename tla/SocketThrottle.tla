--------------------------- MODULE SocketThrottle ---------------------------
(***************************************************************************)
(* The rate limit of socket events (socket-throttle.ts) for one user: a    *)
(* table of buckets, each with a counting window and a block.  Times count *)
(* down, so that the clock needs no bound.                                 *)
(***************************************************************************)
EXTENDS Naturals, Sequences, FiniteSets

CONSTANTS
  Events,     \* kinds of event
  Buckets,    \* the buckets, in the order of the table
  AppliesTo,  \* bucket to the events it counts
  Limit,      \* bucket to the events allowed in a window
  Ttl,        \* length of a window
  Block,      \* length of a block
  SweepEvery, \* the sweep's period
  None        \* no window; never blocked

Names == {Buckets[i] : i \in DOMAIN Buckets}

ThrottleAssumption ==
  /\ AppliesTo \in [Names -> SUBSET Events]
  /\ Limit \in [Names -> Nat \ {0}]
  /\ {Ttl, Block, SweepEvery} \subseteq Nat \ {0}

VARIABLES
  windows,  \* bucket to its window: count, time to its end, time left of a block
  sweepIn,  \* time until a sweep is due
  plain,    \* the same windows, had nothing ever been swept
  verdict,  \* what check last answered, and what it would have without sweeps
  passed    \* for each bucket, its events of the last Ttl: how long ago, a number

vars == <<windows, sweepIn, plain, verdict, passed>>

Window == [count : Nat, resetIn : 0 .. Ttl, blockedFor : {None} \cup 0 .. Block]

Init ==
  /\ windows = [b \in Names |-> None] /\ plain = windows
  /\ sweepIn = 0
  /\ verdict = [said |-> None, unswept |-> None]
  /\ passed = [b \in Names |-> {}]

-----------------------------------------------------------------------------
Shut(w) == w # None /\ w.blockedFor # None /\ w.blockedFor > 0

(* A clean window is due: there is none, or it is over, or out of a block. *)
Stale(w) == w = None \/ w.resetIn = 0 \/ w.blockedFor # None

Fresh == [count |-> 1, resetIn |-> Ttl, blockedFor |-> None]

(* Mutant: one more than the limit goes through.                           *)
Breach_Late(b, w) == ~Stale(w) /\ w.count > Limit[b]

Breach(b, w) == ~Stale(w) /\ w.count + 1 > Limit[b]

Refuses(b, w) == Shut(w) \/ Breach(b, w)

(* Mutant: the block starts when the window ends.                          *)
Blocked_AfterWindow(w) == [w EXCEPT !.count = @ + 1, !.blockedFor = w.resetIn + Block]

Blocked(w) == [w EXCEPT !.count = @ + 1, !.blockedFor = Block]

Charged(b, w) ==
  CASE Shut(w) -> w
    [] ~Shut(w) /\ Breach(b, w) -> Blocked(w)
    [] ~Shut(w) /\ ~Breach(b, w) -> IF Stale(w) THEN Fresh ELSE [w EXCEPT !.count = @ + 1]

(* check: the buckets in order, each charged, until one refuses.           *)
Applicable(e) == {i \in DOMAIN Buckets : e \in AppliesTo[Buckets[i]]}
Refusing(e, table) == {i \in Applicable(e) : Refuses(Buckets[i], table[Buckets[i]])}
ChargedBuckets(e, table) ==
  {Buckets[i] : i \in {j \in Applicable(e) : \A k \in Refusing(e, table) : j <= k}}
Allowed(e, table) == Refusing(e, table) = {}
After(e, table) == [b \in Names |->
  IF b \in ChargedBuckets(e, table) THEN Charged(b, table[b]) ELSE table[b]]

(* Mutant: the sweep also drops windows whose block still runs.            *)
Expired_Blocked(w) == w # None /\ w.resetIn = 0

Expired(w) == w # None /\ w.resetIn = 0 /\ ~Shut(w)

Swept == [b \in Names |-> IF sweepIn = 0 /\ Expired(windows[b]) THEN None ELSE windows[b]]

Passing(b) == [age |-> 0, n |-> Cardinality({x \in passed[b] : x.age = 0})]

Check(e) ==
  /\ windows' = After(e, Swept) /\ plain' = After(e, plain)
  /\ verdict' = [said |-> Allowed(e, Swept), unswept |-> Allowed(e, plain)]
  /\ sweepIn' = IF sweepIn = 0 THEN SweepEvery ELSE sweepIn
  /\ passed' = [b \in Names |->
       IF Allowed(e, Swept) /\ e \in AppliesTo[b] THEN passed[b] \cup {Passing(b)} ELSE passed[b]]

(* Time passes.                                                            *)
Down(n) == IF n = 0 THEN 0 ELSE n - 1
Older(w) == IF w = None THEN None ELSE
  [w EXCEPT !.resetIn = Down(@), !.blockedFor = IF @ = None THEN None ELSE Down(@)]

Tick ==
  /\ windows' = [b \in Names |-> Older(windows[b])]
  /\ plain' = [b \in Names |-> Older(plain[b])]
  /\ sweepIn' = Down(sweepIn)
  /\ passed' = [b \in Names |-> {[x EXCEPT !.age = @ + 1] : x \in {y \in passed[b] : y.age + 1 < Ttl}}]
  /\ UNCHANGED verdict

Next == Tick \/ \E e \in Events : Check(e)

Spec == Init /\ [][Next]_vars

-----------------------------------------------------------------------------
ThrottleTypeOK ==
  /\ windows \in [Names -> Window \cup {None}] /\ plain \in [Names -> Window \cup {None}]
  /\ sweepIn \in 0 .. SweepEvery

(* Sweeping only frees memory: no answer depends on it ("swept lazily so   *)
(* it does not grow without bound").                                       *)
SweepIsInvisible == verdict.said = verdict.unswept

(* Of one bucket's events less than twice the limit pass in any stretch    *)
(* of Ttl: a burst at the end of a window and one at the start of the next *)
(* are all a flooder gets.                                                 *)
BurstIsBounded == \A b \in Names : Cardinality(passed[b]) < 2 * Limit[b]
=============================================================================
