------------------------------- MODULE Reports -------------------------------
(***************************************************************************)
(* The reports and the leaderboard, each an aggregate of its own over the  *)
(* same sales (ReportsService, score.ts), while sales are decided, voided  *)
(* and paid and representatives are suspended.                             *)
(*                                                                         *)
(* Amounts are whole cents, rates are hundredths, dates are days.  Events, *)
(* cities and packages are told apart by name, as GROUP BY does.           *)
(***************************************************************************)
EXTENDS Integers, FiniteSets, FiniteSetsExt

CONSTANTS
  Books,   \* the sales there may be: functions to [event, city, package, rep,
           \* contact, currency, taxable, tax, pays, created, sent]
  Reps,
  Target,  \* a representative's, in CAD
  Rate,    \* CAD for a hundred of each currency
  Weights, \* scoreWeights
  Days,    \* the days a period starts and ends
  MaxVoided, MaxSuspended, \* bounds on how many are at a time
  None     \* a filter left open

VARIABLES
  deal,    \* what was sold, one of Books
  status,  \* of each sale, a voided one's voidedFrom
  voided,  \* the sales that are voided
  paid,    \* paidAmount of each
  active   \* the representatives who are SALES and ACTIVE

reportVars == <<deal, status, voided, paid, active>>

Sales == DOMAIN deal
Booked == {"APPROVED", "EXPORTED"}

(* What a decision makes of a sale.                                        *)
Moves ==
  {<<"DRAFT", "PENDING">>, <<"PENDING", "RETURNED">>, <<"RETURNED", "PENDING">>,
   <<"PENDING", "APPROVED">>, <<"PENDING", "REJECTED">>, <<"APPROVED", "EXPORTED">>}

(* The status a report reads; voidedFrom keeps the one below.              *)
Status(s) == IF s \in voided THEN "VOIDED" ELSE status[s]

ReportsInit ==
  /\ deal \in Books
  /\ status = [s \in Sales |-> "DRAFT"]
  /\ voided = {} /\ paid = [s \in Sales |-> 0]
  /\ active = Reps

Move(s) ==
  /\ s \notin voided
  /\ \E m \in Moves : m[1] = status[s] /\ status' = [status EXCEPT ![s] = m[2]]
  /\ UNCHANGED <<deal, voided, paid, active>>

(* void, unvoid.                                                           *)
Void(s) ==
  /\ s \in voided \/ Cardinality(voided) < MaxVoided
  /\ voided' = IF s \in voided THEN voided \ {s} ELSE voided \cup {s}
  /\ UNCHANGED <<deal, status, paid, active>>

(* A payment, or its reversal.                                             *)
Pay(s) ==
  /\ Status(s) # "REJECTED"
  /\ paid' = [paid EXCEPT ![s] = IF @ = 0 THEN deal[s].pays ELSE 0]
  /\ UNCHANGED <<deal, status, voided, active>>

Suspend(r) ==
  /\ r \notin active \/ Cardinality(Reps \ active) < MaxSuspended
  /\ active' = IF r \in active THEN active \ {r} ELSE active \cup {r}
  /\ UNCHANGED <<deal, status, voided, paid>>

ReportsNext ==
  \/ \E s \in Sales : Move(s) \/ Void(s) \/ Pay(s)
  \/ \E r \in Reps : Suspend(r)

-----------------------------------------------------------------------------
(* ReportFilters, as PeriodFilters sets them.                              *)
Open == [from |-> None, to |-> None, event |-> None, city |-> None]

Dated(s) == IF status[s] = "DRAFT" THEN deal[s].created ELSE deal[s].sent

(* Mutant: the period's last day is left out.                              *)
Within_Before(s, f) ==
  /\ f.from # None => Dated(s) >= f.from
  /\ f.to # None => Dated(s) < f.to

Within(s, f) ==
  /\ f.from # None => Dated(s) >= f.from
  /\ f.to # None => Dated(s) <= f.to

Where(f, scope) == {s \in Sales :
  /\ IF scope = "booked" THEN Status(s) \in Booked ELSE Status(s) # "DRAFT"
  /\ Within(s, f)
  /\ f.event # None => deal[s].event = f.event
  /\ f.city # None => deal[s].city = f.city}

Total(s) == deal[s].taxable + deal[s].tax
Balance(s) == Total(s) - paid[s]
Above(x) == IF x > 0 THEN x ELSE 0

(* ROUND(_, 2): half a cent away from zero.                                *)
Round(x) == IF x >= 0 THEN (x + 50) \div 100 ELSE -((50 - x) \div 100)

(* Mutant: the amounts are added first, and converted as the first of them.*)
Cad_After(S, amount) ==
  IF S = {} THEN 0
  ELSE Round(MapThenSumSet(LAMBDA s : amount[s], S) * Rate[deal[CHOOSE s \in S : TRUE].currency])

(* ROUND(SUM(amount * fx.rate), 2): "conversion inside the SUM".           *)
Cad(S, amount) ==
  Round(MapThenSumSet(LAMBDA s : amount[s] * Rate[deal[s].currency], S))

Net(S) == Cad(S, [s \in S |-> deal[s].taxable])
Gross(S) == Cad(S, [s \in S |-> Total(s)])
Collected(S) == Cad(S, paid)

(* byDimension, packages: a row for each name that occurs.                 *)
Rows(S, key) == {{s \in S : deal[s][key] = k} : k \in {deal[s][key] : s \in S}}

(* The revenue report: a line for each sale.                               *)
Deals(f) == Where(f, "booked")

ByEvent(f) == Rows(Where(f, "booked"), "event")
ByCity(f) == Rows(Where(f, "booked"), "city")
Packages(f) == Rows(Where(f, "booked"), "package")

Outstanding(row) == Gross(row) - Collected(row)

(* Mutant: a rejected sale, or one in the queue, counts as revenue.        *)
BookedOf_Live(S) == S

(* CASE WHEN status IN ('APPROVED', 'EXPORTED').                           *)
BookedOf(S) == {s \in S : Status(s) \in Booked}

(* retentionRows: the bookings are the row's size, the value what is booked*)
Retention(f) == Rows(Where(f, "live"), "contact")
Lifetime(row) == Net(BookedOf(row))
Returning(row) == Cardinality(row) > 1

(* Mutant: what is owed on a sale nobody approved is listed.               *)
Receivables_Live(f) == {s \in Where(f, "live") : Balance(s) > 1}

Receivables(f) == {s \in Where(f, "booked") : Balance(s) > 1}

-----------------------------------------------------------------------------
(* repRows: a representative's part of what is live, and of it what is     *)
(* booked; customers are counted for each of them.                         *)
OfRep(f, r) == {s \in Where(f, "live") : deal[s].rep = r}
Revenue(f, r) == Net(BookedOf(OfRep(f, r)))
Invoiced(f, r) == Gross(BookedOf(OfRep(f, r)))
Cash(f, r) == Collected(BookedOf(OfRep(f, r)))
Owing(f, r) == Cad(BookedOf(OfRep(f, r)), [s \in Sales |-> Above(Balance(s))])
Having(f, r, states) == Cardinality({s \in OfRep(f, r) : Status(s) \in states})
Customers(f, r) == Rows(OfRep(f, r), "contact")
Repeat(f, r) == {row \in Customers(f, r) : Returning(row)}

(* Mutant: nothing stops a ratio at 1.                                     *)
Ratio_Uncapped(num, den) == IF den <= 0 THEN <<0, 1>> ELSE <<num, den>>

(* A part of the score, as <<numerator, denominator>>.                     *)
Ratio(num, den) == IF den <= 0 THEN <<0, 1>> ELSE <<IF num > den THEN den ELSE num, den>>

Parts(f, r) ==
  [revenue |-> Ratio(Revenue(f, r), Target),
   approved |-> Ratio(Having(f, r, Booked), Having(f, r, Booked \cup {"REJECTED"})),
   collection |-> Ratio(Cash(f, r), Invoiced(f, r)),
   retention |-> Ratio(Cardinality(Repeat(f, r)), Cardinality(Customers(f, r)))]

(* Math.round of the weighted sum, over the product of the denominators.   *)
Score(f, r) ==
  LET p == Parts(f, r)
      part(k) == p[k][1] * Weights[k]
                 * FoldSet(LAMBDA j, n : n * p[j][2], 1, DOMAIN p \ {k})
      den == FoldSet(LAMBDA j, n : n * p[j][2], 1, DOMAIN p)
  IN  (2 * MapThenSumSet(part, DOMAIN p) + den) \div (2 * den)

-----------------------------------------------------------------------------
ReportsTypeOK ==
  /\ deal \in Books
  /\ status \in [Sales -> UNION {{m[1], m[2]} : m \in Moves}]
  /\ voided \subseteq Sales /\ paid \in [Sales -> Nat] /\ active \subseteq Reps

Sum(value(_), rows) == MapThenSumSet(value, rows)

(* Two reports' totals: each row is off by half a cent at the most.        *)
Agree(x, rows, y, others) ==
  LET off == IF x > y THEN x - y ELSE y - x
  IN  2 * off <= Cardinality(rows) + Cardinality(others)

Periods == {Open} \cup {[Open EXCEPT !.from = d] : d \in Days} \cup {[Open EXCEPT !.to = d] : d \in Days}

Staffed(f) == {deal[s].rep : s \in Where(f, "live")} \subseteq active

(* The same revenue, invoiced and collected, by event, by city, by package,*)
(* by customer, and by representative unless one who sold is suspended:    *)
(* "one definition of a rep's numbers", and of the company's (repRows,     *)
(* byDimension, packages, retentionRows).                                  *)
ReportsAgree == \A f \in Periods :
  LET total == Sum(Net, ByEvent(f))
  IN  /\ Agree(total, ByEvent(f), Net(Deals(f)), {Deals(f)})
      /\ Agree(total, ByEvent(f), Sum(Net, ByCity(f)), ByCity(f))
      /\ Agree(total, ByEvent(f), Sum(Net, Packages(f)), Packages(f))
      /\ Agree(total, ByEvent(f), Sum(Lifetime, Retention(f)), Retention(f))
      /\ Staffed(f) =>
           /\ Agree(total, ByEvent(f), Sum(LAMBDA r : Revenue(f, r), active), Reps)
           /\ Agree(Sum(Gross, ByEvent(f)), ByEvent(f), Sum(LAMBDA r : Invoiced(f, r), active), Reps)
           /\ Agree(Sum(Collected, ByEvent(f)), ByEvent(f), Sum(LAMBDA r : Cash(f, r), active), Reps)

(* Every sale is in one period of two that adjoin, and a filter on a show  *)
(* is the row of that show.                                                *)
PeriodsAddUp == \A d \in Days : \A scope \in {"booked", "live"} :
  LET to == Where([Open EXCEPT !.to = d], scope)
      from == Where([Open EXCEPT !.from = d + 1], scope)
  IN  to \cup from = Where(Open, scope) /\ to \cap from = {}

(* What is owed is what is listed as owed: the receivables of a            *)
(* representative and what their row says is outstanding differ by the     *)
(* cent that is not worth a line, and what is overpaid on one sale pays    *)
(* for no other.                                                           *)
OwedIsListed == \A r \in Reps :
  LET Balances == [s \in Sales |-> Balance(s)]
      listed == Cad({s \in Receivables(Open) : deal[s].rep = r}, Balances)
      all == BookedOf(OfRep(Open, r))
      cents == Cad({s \in all : Balance(s) = 1}, Balances)
  IN  /\ Owing(Open, r) >= listed
      /\ Owing(Open, r) <= listed + cents + 1
      /\ Owing(Open, r) + 1 >= Outstanding(all)

(* "A rep cannot bank more than 100% of a weight" (score.ts).              *)
ScoreIsBounded == \A r \in Reps :
  Score(Open, r) \in 0 .. Weights.revenue + Weights.approved + Weights.collection + Weights.retention

(* A customer who came back to a representative is one who came back.      *)
RepeatIsReturning == \A r \in Reps : \A row \in Repeat(Open, r) :
  \E all \in Retention(Open) : row \subseteq all /\ Returning(all)

(* A voided sale "leaves normal lists and reports" (void).                 *)
VoidedIsHidden == \A row \in Retention(Open) : \A s \in row : Status(s) # "VOIDED"
=============================================================================
