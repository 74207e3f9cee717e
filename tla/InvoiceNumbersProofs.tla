------------------------ MODULE InvoiceNumbersProofs ------------------------
(***************************************************************************)
(* For every set of sales, brands' prefixes, typed numbers and any number  *)
(* of concurrent handlers: InvoiceNumbers keeps its types, and the         *)
(* references given are gapless.                                           *)
(*                                                                         *)
(* A reference is taken under the lock of the Settings row and committed   *)
(* later, so the invariant says what a lock holder will write:             *)
(* the row as committed, one counter moved (Carried), and that there is    *)
(* one holder at a time (OneHolder).  The counters of a handler that       *)
(* waits for the lock are not constrained.                                 *)
(***************************************************************************)
EXTENDS MCInvoice, TLAPS

Holds(r) == req[r] # Idle /\ req[r].at = "hold"

OneHolder == \A r, o \in Reqs : Holds(r) /\ Holds(o) => r = o

(* What a request has on it before it writes.                              *)
Ready(q) ==
  /\ q.op = "number" => q.number \in Number
  /\ q.op \in {"generate", "export"} /\ q.at = "hold" => q.number \in Number
  /\ q.at = "jump" => /\ q.op = "number"
                      /\ q.jump \in Brands
                      /\ q.number.seq < MaxSequence

(* What a holder writes to the counter of references.                      *)
Counts(q) ==
  /\ q.op # "create" => q.row.nextRef = settings.nextRef
  /\ q.op = "create" => /\ q.row.nextRef = settings.nextRef + 1
                        /\ sale[q.sale].status = "none"

AllReady == \A r \in Reqs : req[r] # Idle => Ready(req[r])
HoldersCount == \A r \in Reqs : Holds(r) => Counts(req[r])

RefsInOrder ==
  /\ settings.nextRef >= 1
  /\ \A s \in Made : sale[s].ref \in 1 .. settings.nextRef - 1
  /\ \A k \in 1 .. settings.nextRef - 1 : \E s \in Made : sale[s].ref = k
  /\ \A s, o \in Made : s # o => sale[s].ref # sale[o].ref

Typed == TypeOK /\ AllReady
IInv == Typed /\ OneHolder /\ HoldersCount /\ RefsInOrder

USE DEF Idle

-----------------------------------------------------------------------------
(* Every new request record a handler writes is a request.                 *)
LEMMA BeginIsRequest ==
  ASSUME TypeOK, NEW s \in Sales, NEW u \in Users,
         NEW op \in {"create", "generate", "export", "number"}
  PROVE  /\ Begin(op, u, s) \in Request
         /\ Begin(op, u, s).op = op /\ Begin(op, u, s).at = "read"
         /\ Begin(op, u, s).sale = s /\ Begin(op, u, s).row = settings
  BY DEF Begin, Request, TypeOK

LEMMA InitHolds == Init => IInv
<1> SUFFICES ASSUME Init PROVE IInv
  OBVIOUS
<1>1. TypeOK
  BY PrefixAssumption, SeqAssumption
  DEF Init, TypeOK, Settings, Sale, Column
<1>2. AllReady /\ OneHolder /\ HoldersCount
  BY DEF Init, AllReady, OneHolder, HoldersCount, Holds
<1>3. RefsInOrder
  BY DEF Init, RefsInOrder, Made
<1> QED
  BY <1>1, <1>2, <1>3 DEF IInv, Typed

(* A step that replaces one request by a well-formed one and leaves the    *)
(* records alone keeps the types.                                          *)
LEMMA StartKeepsTypes ==
  ASSUME Typed, NEW r \in Reqs, NEW q \in Request, Start(r, q), Ready(q)
  PROVE  Typed'
<1>1. TypeOK'
  BY DEF Start, records, TypeOK, Typed
<1>2. AllReady'
  <2> SUFFICES ASSUME NEW o \in Reqs, req'[o] # Idle PROVE Ready(req'[o])
    BY DEF AllReady, Ready
  <2>1. CASE o = r
    BY <2>1 DEF Start, TypeOK, Typed
  <2>2. CASE o # r
    BY <2>2 DEF Start, TypeOK, Typed, AllReady
  <2> QED
    BY <2>1, <2>2
<1> QED
  BY <1>1, <1>2 DEF Typed

LEMMA FinishKeepsTypes ==
  ASSUME Typed, NEW r \in Reqs, Finish(r),
         settings' \in Settings, sale' \in [Sales -> Sale]
  PROVE  Typed'
<1>1. TypeOK'
  BY DEF Finish, TypeOK, Typed
<1>2. AllReady'
  <2> SUFFICES ASSUME NEW o \in Reqs, req'[o] # Idle PROVE Ready(req'[o])
    BY DEF AllReady, Ready
  <2>1. o # r /\ req'[o] = req[o]
    BY DEF Finish, TypeOK, Typed
  <2> QED
    BY <2>1 DEF AllReady, Typed
<1> QED
  BY <1>1, <1>2 DEF Typed

-----------------------------------------------------------------------------
(* Type correctness, action by action.                                     *)
LEMMA TypedStep == Typed /\ [Next]_vars => Typed'
<1> SUFFICES ASSUME Typed, [Next]_vars PROVE Typed'
  OBVIOUS
<1> USE DEF At, Open
<1>t. TypeOK /\ AllReady
  BY DEF Typed
<1>1. ASSUME NEW r \in Reqs, NEW s \in Sales, TakeRef(r, s) PROVE Typed'
  <2> DEFINE b == Begin("create", "rep", s)
             q == [b EXCEPT !.at = "hold", !.row.nextRef = @ + 1]
  <2>1. b \in Request /\ b.op = "create" /\ b.row = settings
    BY BeginIsRequest, <1>t DEF Users
  <2>2. settings.nextRef + 1 \in Column \ {0}
    BY <1>1, <1>t, SeqAssumption DEF TakeRef, TypeOK, Settings, Column
  <2>3. [settings EXCEPT !.nextRef = @ + 1] \in Settings
    BY <2>2, <1>t DEF TypeOK, Settings
  <2>4. q = [b EXCEPT !.at = "hold", !.row = [settings EXCEPT !.nextRef = @ + 1]]
    BY <2>1 DEF Request
  <2>5. q \in Request /\ Ready(q)
    BY <2>1, <2>3, <2>4 DEF Request, Ready
  <2> QED
    BY <2>5, <1>1, StartKeepsTypes DEF TakeRef
<1>2. ASSUME NEW r \in Reqs, CommitCreate(r) PROVE Typed'
  <2>1. req[r] \in Request
    BY <1>2, <1>t DEF CommitCreate, TypeOK
  <2>2. settings' \in Settings
    BY <2>1, <1>2 DEF CommitCreate, Request
  <2>3. req[r].row.nextRef - 1 \in Nat
    BY <2>1, SeqAssumption DEF Request, Settings, Column
  <2>4. sale' \in [Sales -> Sale]
    BY <2>1, <2>3, <1>2, <1>t DEF CommitCreate, TypeOK, Sale, Request
  <2> QED
    BY <2>2, <2>4, <1>2, FinishKeepsTypes DEF CommitCreate
<1>3. ASSUME NEW r \in Reqs, NEW s \in Sales, Approve(r, s) \/ Void(r, s) PROVE Typed'
  BY <1>3, <1>t DEF Approve, Void, Typed, TypeOK, AllReady, Ready, Sale
<1>4. ASSUME NEW r \in Reqs, NEW b \in Brands, NEW p \in Prefixes, ChangePrefix(r, b, p)
      PROVE Typed'
  BY <1>4, <1>t DEF ChangePrefix, Typed, TypeOK, AllReady, Ready, Settings
<1>5. ASSUME NEW r \in Reqs, NEW s \in Sales, NEW op \in {"generate", "export"},
             ReadForNumber(r, op, s)
      PROVE Typed'
  <2> DEFINE q == Begin(op, "acct", s)
  <2>1. q \in Request /\ Ready(q)
    BY BeginIsRequest, <1>t DEF Users, Ready
  <2> QED
    BY <2>1, <1>5, StartKeepsTypes DEF ReadForNumber
<1>6. ASSUME NEW r \in Reqs, TakeNumber(r) PROVE Typed'
  <2> DEFINE b == BrandOf[req[r].sale]
             n == [prefix |-> settings.prefix[b], seq |-> settings.next[b]]
             row == [settings EXCEPT !.next[b] = @ + 1]
             q == [req[r] EXCEPT !.at = "hold", !.number = n, !.row = row]
  <2>1. /\ req[r] \in Request /\ req[r].op \in {"generate", "export"}
        /\ req[r].at = "read"
    BY <1>6, <1>t DEF TakeNumber, TypeOK
  <2>2. b \in Brands
    BY <2>1, BrandAssumption DEF Request
  <2>3. n \in Number
    BY <2>2, <1>t, SeqAssumption DEF TypeOK, Settings, Column, Number
  <2>4. settings.next[b] + 1 \in Column
    BY <2>2, <1>6, <1>t, SeqAssumption DEF TakeNumber, TypeOK, Settings, Column
  <2>5. row \in Settings
    BY <2>2, <2>4, <1>t DEF TypeOK, Settings
  <2>6. q \in Request /\ Ready(q)
    BY <2>1, <2>3, <2>5 DEF Request, Ready
  <2>7. Start(r, q)
    BY <1>6 DEF TakeNumber
  <2> QED
    BY <2>6, <2>7, StartKeepsTypes
<1>7. ASSUME NEW r \in Reqs, CommitNumber(r) PROVE Typed'
  <2>1. req[r] \in Request /\ req[r].number \in Number
    BY <1>7, <1>t DEF CommitNumber, TypeOK, AllReady, Ready
  <2>2. settings' \in Settings /\ sale' \in [Sales -> Sale]
    BY <2>1, <1>7, <1>t DEF CommitNumber, Request, TypeOK, Sale
  <2> QED
    BY <2>2, <1>7, FinishKeepsTypes DEF CommitNumber
<1>8. ASSUME NEW r \in Reqs, NEW s \in Sales, NEW u \in Users, NEW n \in HandNumbers,
             ReadForSetNo(r, u, s, n)
      PROVE Typed'
  <2> DEFINE q == [Begin("number", u, s) EXCEPT !.number = n]
  <2>1. n \in Number
    BY SeqAssumption DEF HandNumbers, Number
  <2>2. q \in Request /\ Ready(q)
    BY <2>1, BeginIsRequest, <1>t DEF Request, Ready
  <2> QED
    BY <2>2, <1>8, StartKeepsTypes DEF ReadForSetNo
<1>9. ASSUME NEW r \in Reqs, ReadCounters(r) PROVE Typed'
  <2> DEFINE v == IF Ahead(req[r].number, "VFW") THEN "VFW" ELSE "GFC"
             j == [req[r] EXCEPT !.at = "jump", !.jump = v]
             w == [req[r] EXCEPT !.at = "write"]
  <2>1. req[r] \in Request /\ req[r].op = "number" /\ req[r].number \in Number
    BY <1>9, <1>t DEF ReadCounters, TypeOK, AllReady, Ready
  <2>2. CASE \E b \in Brands : Ahead(req[r].number, b)
    <3>1. Start(r, j)
      BY <2>2, <1>9 DEF ReadCounters
    <3>2. v \in Brands
      BY DEF Brands
    <3>3. req[r].number.seq < MaxSequence
      BY <2>2 DEF Ahead
    <3>4. j \in Request /\ Ready(j)
      BY <2>1, <3>2, <3>3 DEF Request, Ready
    <3> QED
      BY <3>1, <3>4, StartKeepsTypes
  <2>3. CASE ~ \E b \in Brands : Ahead(req[r].number, b)
    <3>1. Start(r, w)
      BY <2>3, <1>9 DEF ReadCounters
    <3>2. w \in Request /\ Ready(w)
      BY <2>1 DEF Request, Ready
    <3> QED
      BY <3>1, <3>2, StartKeepsTypes
  <2> QED
    BY <2>2, <2>3
<1>10. ASSUME NEW r \in Reqs, Jump(r) PROVE Typed'
  <2> DEFINE row == [settings EXCEPT !.next[req[r].jump] = req[r].number.seq + 1]
             q == [req[r] EXCEPT !.at = "hold", !.row = row]
  <2>1. /\ req[r] \in Request /\ req[r].op = "number" /\ req[r].number \in Number
        /\ req[r].jump \in Brands /\ req[r].number.seq < MaxSequence
    BY <1>10, <1>t DEF Jump, TypeOK, AllReady, Ready
  <2>2. req[r].number.seq + 1 \in Column
    BY <2>1, SeqAssumption DEF Number, Column
  <2>3. row \in Settings
    BY <2>1, <2>2, <1>t DEF TypeOK, Settings
  <2>4. q \in Request /\ Ready(q)
    BY <2>1, <2>3 DEF Request, Ready
  <2>5. Start(r, q)
    BY <1>10 DEF Jump
  <2> QED
    BY <2>4, <2>5, StartKeepsTypes
<1>11. ASSUME NEW r \in Reqs, CommitSetNo(r) PROVE Typed'
  <2>1. req[r] \in Request /\ req[r].number \in Number
    BY <1>11, <1>t DEF CommitSetNo, TypeOK, AllReady, Ready
  <2>2. settings' \in Settings /\ sale' \in [Sales -> Sale]
    BY <2>1, <1>11, <1>t DEF CommitSetNo, Request, TypeOK, Sale
  <2> QED
    BY <2>2, <1>11, FinishKeepsTypes DEF CommitSetNo
<1>12. ASSUME NEW r \in Reqs, Fail(r) PROVE Typed'
  BY <1>12, <1>t, FinishKeepsTypes DEF Fail, records, TypeOK
<1>13. CASE UNCHANGED vars
  BY <1>13, <1>t DEF vars, Typed, TypeOK, AllReady, Ready, Made
<1> QED
  BY <1>1, <1>2, <1>3, <1>4, <1>5, <1>6, <1>7, <1>8, <1>9, <1>10, <1>11, <1>12, <1>13
  DEF Next, Begins, Goes

(* Every reachable state is well typed, the counters within their columns  *)
(* (advanceSequencePast's size limit): TypeOK, for all constants.          *)
THEOREM InvoiceTypeCorrect == Spec => []TypeOK
<1>1. Init => Typed
  BY InitHolds DEF IInv
<1>2. Typed => TypeOK
  BY DEF Typed
<1> QED
  BY <1>1, <1>2, TypedStep, PTL DEF Spec

-----------------------------------------------------------------------------
(* The three shapes of step, and what each does to the holders.            *)
LEMMA StartWithoutLock ==
  ASSUME IInv, NEW r \in Reqs, NEW q, Start(r, q), q.at # "hold", ~Holds(r)
  PROVE  (OneHolder /\ HoldersCount /\ RefsInOrder)'
<1>1. \A o \in Reqs : Holds(o)' => o # r /\ Holds(o) /\ req'[o] = req[o]
  BY DEF Start, Holds, IInv, Typed, TypeOK
<1>2. UNCHANGED records
  BY DEF Start
<1> QED
  BY <1>1, <1>2 DEF records, IInv, OneHolder, HoldersCount, Counts, RefsInOrder, Made

LEMMA StartWithLock ==
  ASSUME IInv, ~Locked, NEW r \in Reqs, NEW q, Start(r, q), Counts(q)
  PROVE  (OneHolder /\ HoldersCount /\ RefsInOrder)'
<1>1. \A o \in Reqs : Holds(o)' => o = r /\ req'[o] = q
  BY DEF Start, Holds, Locked, IInv, Typed, TypeOK
<1>2. UNCHANGED records
  BY DEF Start
<1>3. OneHolder'
  BY <1>1 DEF OneHolder
<1>4. HoldersCount'
  BY <1>1, <1>2 DEF records, HoldersCount, Counts
<1>5. RefsInOrder'
  BY <1>2 DEF records, IInv, RefsInOrder, Made
<1> QED
  BY <1>3, <1>4, <1>5

LEMMA FinishByHolder ==
  ASSUME IInv, NEW r \in Reqs, Holds(r), Finish(r)
  PROVE  (OneHolder /\ HoldersCount)'
<1>1. \A o \in Reqs : ~Holds(o)'
  BY DEF Finish, Holds, IInv, Typed, TypeOK, OneHolder
<1> QED
  BY <1>1 DEF OneHolder, HoldersCount

(* A step that changes no reference and no reference counter, and takes no *)
(* sale out of or into existence, disturbs neither the holders nor the     *)
(* references if no one starts to hold.                                    *)
SameRefs ==
  /\ settings'.nextRef = settings.nextRef
  /\ \A s \in Sales : /\ sale'[s].ref = sale[s].ref
                      /\ sale'[s].status = "none" <=> sale[s].status = "none"

LEMMA SameRefsKeepOrder == RefsInOrder /\ SameRefs => RefsInOrder'
<1> SUFFICES ASSUME RefsInOrder, SameRefs PROVE RefsInOrder'
  OBVIOUS
<1>1. Made' = Made
  BY DEF Made, SameRefs
<1>2. \A s \in Made : s \in Sales
  BY DEF Made
<1> QED
  BY <1>1, <1>2 DEF RefsInOrder, SameRefs

LEMMA SameRefsKeepHolders ==
  ASSUME IInv, SameRefs, \A r \in Reqs : Holds(r)' => Holds(r) /\ req'[r] = req[r]
  PROVE  (OneHolder /\ HoldersCount)'
<1>1. OneHolder'
  BY DEF IInv, OneHolder
<1>2. ASSUME NEW r \in Reqs, Holds(r)' PROVE Counts(req[r])'
  <2>1. Holds(r) /\ req'[r] = req[r]
    BY <1>2
  <2>2. req[r] \in Request
    BY <2>1 DEF Holds, IInv, Typed, TypeOK
  <2>3. Counts(req[r])
    BY <2>1 DEF IInv, HoldersCount
  <2>4. req[r].sale \in Sales
    BY <2>2 DEF Request
  <2> QED
    BY <2>1, <2>3, <2>4 DEF Counts, SameRefs
<1>3. HoldersCount'
  BY <1>2 DEF HoldersCount, Holds
<1> QED
  BY <1>1, <1>3

Rest == OneHolder /\ HoldersCount /\ RefsInOrder

LEMMA IInvStep == IInv /\ [Next]_vars => Rest'
<1> SUFFICES ASSUME IInv, [Next]_vars PROVE Rest'
  OBVIOUS
<1> USE DEF At, Open
<1>t. TypeOK /\ AllReady /\ RefsInOrder
  BY DEF IInv, Typed
<1>1. ASSUME NEW r \in Reqs, NEW s \in Sales, TakeRef(r, s) PROVE Rest'
  <2> DEFINE b == Begin("create", "rep", s)
             q == [b EXCEPT !.at = "hold", !.row.nextRef = @ + 1]
  <2>1. b \in Request /\ b.op = "create" /\ b.row = settings /\ b.sale = s
    BY BeginIsRequest, <1>t DEF Users
  <2>2. q.op = "create" /\ q.sale = s /\ q.row.nextRef = settings.nextRef + 1
    BY <2>1, <1>t DEF Request, TypeOK, Settings
  <2>3. Counts(q)
    BY <2>2, <1>1 DEF Counts, TakeRef
  <2> QED
    BY <2>3, <1>1, StartWithLock DEF TakeRef, Rest
<1>2. ASSUME NEW r \in Reqs, CommitCreate(r) PROVE Rest'
  <2> DEFINE n == settings.nextRef
  <2>1. Holds(r) /\ req[r] \in Request /\ req[r].op = "create"
    BY <1>2, <1>t DEF CommitCreate, Holds, TypeOK
  <2> DEFINE s == req[r].sale
  <2>2. s \in Sales /\ sale[s].status = "none" /\ req[r].row.nextRef = n + 1
    BY <2>1 DEF Request, IInv, HoldersCount, Counts
  <2>3. settings'.nextRef = n + 1 /\ n \in Nat /\ n >= 1
    BY <2>2, <1>2, <1>t, SeqAssumption DEF CommitCreate, TypeOK, Settings, Column, RefsInOrder
  <2>4. sale'[s].status = "OPEN" /\ sale'[s].ref = n
    BY <2>2, <2>3, <1>2, <1>t DEF CommitCreate, TypeOK, Sale
  <2>5. \A o \in Sales : o # s => sale'[o] = sale[o]
    BY <1>2, <1>t DEF CommitCreate, TypeOK
  <2>6. Made' = Made \cup {s} /\ s \notin Made
    BY <2>2, <2>4, <2>5 DEF Made
  <2>7. \A o \in Made : sale'[o].ref = sale[o].ref /\ sale[o].ref \in 1 .. n - 1
    BY <2>5, <2>6, <1>t DEF Made, RefsInOrder
  <2>8. RefsInOrder'
    <3>1. \A o \in Made' : sale'[o].ref \in 1 .. n
      BY <2>3, <2>4, <2>6, <2>7
    <3>2. ASSUME NEW k \in 1 .. n PROVE \E o \in Made' : sale'[o].ref = k
      <4>1. CASE k = n
        BY <4>1, <2>4, <2>6
      <4>2. CASE k # n
        <5>1. k \in 1 .. n - 1
          BY <4>2, <2>3
        <5>2. PICK o \in Made : sale[o].ref = k
          BY <5>1, <1>t DEF RefsInOrder
        <5> QED
          BY <5>2, <2>6, <2>7
      <4> QED
        BY <4>1, <4>2
    <3>3. ASSUME NEW o \in Made', NEW m \in Made', o # m PROVE sale'[o].ref # sale'[m].ref
      <4>1. CASE o \in Made /\ m \in Made
        BY <4>1, <3>3, <2>7, <1>t DEF RefsInOrder
      <4>2. CASE o = s /\ m \in Made
        BY <4>2, <2>3, <2>4, <2>7
      <4>3. CASE m = s /\ o \in Made
        BY <4>3, <2>3, <2>4, <2>7
      <4> QED
        BY <4>1, <4>2, <4>3, <3>3, <2>6
    <3>4. settings'.nextRef - 1 = n /\ settings'.nextRef >= 1
      BY <2>3
    <3> QED
      BY <3>1, <3>2, <3>3, <3>4 DEF RefsInOrder
  <2> QED
    BY <2>1, <2>8, <1>2, FinishByHolder DEF CommitCreate, Rest
<1>3. ASSUME NEW r \in Reqs, NEW s \in Sales, Approve(r, s) \/ Void(r, s) PROVE Rest'
  <2>1. SameRefs
    BY <1>3, <1>t DEF Approve, Void, TypeOK, Sale, SameRefs
  <2>2. UNCHANGED req
    BY <1>3 DEF Approve, Void
  <2> QED
    BY <2>1, <2>2, <1>t, SameRefsKeepOrder, SameRefsKeepHolders DEF Holds, Rest
<1>4. ASSUME NEW r \in Reqs, NEW b \in Brands, NEW p \in Prefixes, ChangePrefix(r, b, p)
      PROVE Rest'
  <2>1. SameRefs /\ UNCHANGED req
    BY <1>4, <1>t DEF ChangePrefix, TypeOK, Settings, SameRefs
  <2> QED
    BY <2>1, <1>t, SameRefsKeepOrder, SameRefsKeepHolders DEF Holds, Rest
<1>5. ASSUME NEW r \in Reqs, NEW s \in Sales, NEW op \in {"generate", "export"},
             ReadForNumber(r, op, s)
      PROVE Rest'
  <2>1. Begin(op, "acct", s).at # "hold" /\ ~Holds(r)
    BY <1>5 DEF Begin, ReadForNumber, Holds
  <2> QED
    BY <2>1, <1>5, StartWithoutLock DEF ReadForNumber, Rest
<1>6. ASSUME NEW r \in Reqs, TakeNumber(r) PROVE Rest'
  <2> DEFINE b == BrandOf[req[r].sale]
             n == [prefix |-> settings.prefix[b], seq |-> settings.next[b]]
             row == [settings EXCEPT !.next[b] = @ + 1]
             q == [req[r] EXCEPT !.at = "hold", !.number = n, !.row = row]
  <2>1. req[r] \in Request /\ req[r].op # "create"
    BY <1>6, <1>t DEF TakeNumber, TypeOK
  <2>2. row.nextRef = settings.nextRef
    BY <1>t DEF TypeOK, Settings
  <2>3. Counts(q)
    BY <2>1, <2>2 DEF Counts, Request
  <2>4. Start(r, q)
    BY <1>6 DEF TakeNumber
  <2> QED
    BY <2>3, <2>4, <1>6, StartWithLock DEF TakeNumber, Rest
<1>7. ASSUME NEW r \in Reqs, CommitNumber(r) PROVE Rest'
  <2>1. Holds(r) /\ req[r] \in Request /\ req[r].op # "create"
    BY <1>7, <1>t DEF CommitNumber, Holds, TypeOK
  <2>2. SameRefs
    BY <2>1, <1>7, <1>t DEF CommitNumber, IInv, HoldersCount, Counts, TypeOK, Sale, SameRefs
  <2> QED
    BY <2>1, <2>2, <1>7, <1>t, FinishByHolder, SameRefsKeepOrder DEF CommitNumber, Rest
<1>8. ASSUME NEW r \in Reqs, NEW s \in Sales, NEW u \in Users, NEW n \in HandNumbers,
             ReadForSetNo(r, u, s, n)
      PROVE Rest'
  <2>1. [Begin("number", u, s) EXCEPT !.number = n].at # "hold" /\ ~Holds(r)
    BY <1>8 DEF Begin, ReadForSetNo, Holds
  <2> QED
    BY <2>1, <1>8, StartWithoutLock DEF ReadForSetNo, Rest
<1>9. ASSUME NEW r \in Reqs, ReadCounters(r) PROVE Rest'
  <2>1. PICK q \in Request : Start(r, q) /\ q.at # "hold"
    <3> DEFINE v == IF Ahead(req[r].number, "VFW") THEN "VFW" ELSE "GFC"
               j == [req[r] EXCEPT !.at = "jump", !.jump = v]
               w == [req[r] EXCEPT !.at = "write"]
    <3>1. j \in Request /\ j.at = "jump" /\ w \in Request /\ w.at = "write"
      BY <1>9, <1>t DEF ReadCounters, TypeOK, Request, Brands
    <3>2. Start(r, j) \/ Start(r, w)
      BY <1>9 DEF ReadCounters
    <3> QED
      BY <3>1, <3>2
  <2>2. ~Holds(r)
    BY <1>9 DEF ReadCounters, Holds
  <2> QED
    BY <2>1, <2>2, StartWithoutLock DEF Rest
<1>10. ASSUME NEW r \in Reqs, Jump(r) PROVE Rest'
  <2> DEFINE row == [settings EXCEPT !.next[req[r].jump] = req[r].number.seq + 1]
             q == [req[r] EXCEPT !.at = "hold", !.row = row]
  <2>1. req[r] \in Request /\ req[r].op = "number"
    BY <1>10, <1>t DEF Jump, TypeOK
  <2>2. row.nextRef = settings.nextRef
    BY <1>t DEF TypeOK, Settings
  <2>3. Counts(q)
    BY <2>1, <2>2 DEF Counts, Request
  <2>4. Start(r, q)
    BY <1>10 DEF Jump
  <2> QED
    BY <2>3, <2>4, <1>10, StartWithLock DEF Jump, Rest
<1>11. ASSUME NEW r \in Reqs, CommitSetNo(r) PROVE Rest'
  <2>1. req[r] \in Request /\ req[r].op = "number" /\ Finish(r)
    BY <1>11, <1>t DEF CommitSetNo, TypeOK
  <2>2. \A s \in Sales : sale'[s].ref = sale[s].ref /\ sale'[s].status = sale[s].status
    BY <1>11, <1>t DEF CommitSetNo, TypeOK, Sale
  <2>3. CASE req[r].at = "hold"
    <3>1. Holds(r)
      BY <2>3, <1>11 DEF CommitSetNo, Holds
    <3>2. settings'.nextRef = settings.nextRef
      BY <3>1, <2>1, <2>3, <1>11 DEF CommitSetNo, IInv, HoldersCount, Counts
    <3>3. SameRefs
      BY <3>2, <2>2 DEF SameRefs
    <3> QED
      BY <3>1, <3>3, <2>1, <1>t, FinishByHolder, SameRefsKeepOrder DEF Rest
  <2>4. CASE req[r].at # "hold"
    <3>1. SameRefs
      BY <2>2, <2>4, <1>11 DEF CommitSetNo, SameRefs
    <3>2. \A o \in Reqs : Holds(o)' => Holds(o) /\ req'[o] = req[o]
      BY <2>1, <1>t DEF Finish, Holds, TypeOK
    <3> QED
      BY <3>1, <3>2, <1>t, SameRefsKeepOrder, SameRefsKeepHolders DEF Rest
  <2> QED
    BY <2>3, <2>4
<1>12. ASSUME NEW r \in Reqs, Fail(r) PROVE Rest'
  <2>1. SameRefs
    BY <1>12 DEF Fail, records, SameRefs
  <2>2. \A o \in Reqs : Holds(o)' => Holds(o) /\ req'[o] = req[o]
    BY <1>12, <1>t DEF Fail, Finish, Holds, TypeOK
  <2> QED
    BY <2>1, <2>2, <1>t, SameRefsKeepOrder, SameRefsKeepHolders DEF Rest
<1>13. CASE UNCHANGED vars
  <2>1. SameRefs
    BY <1>13 DEF vars, SameRefs
  <2>2. \A o \in Reqs : Holds(o)' => Holds(o) /\ req'[o] = req[o]
    BY <1>13 DEF vars, Holds
  <2> QED
    BY <2>1, <2>2, <1>t, SameRefsKeepOrder, SameRefsKeepHolders DEF Rest
<1> QED
  BY <1>1, <1>2, <1>3, <1>4, <1>5, <1>6, <1>7, <1>8, <1>9, <1>10, <1>11, <1>12, <1>13
  DEF Next, Begins, Goes

(* However many creations run at once and fail, the references given are   *)
(* 1, 2, 3, ... up to the counter, and no two sales share one (nextRef,    *)
(* create): RefsAreGapless, for all constants.                             *)
THEOREM RefsAlwaysGapless == Spec => []RefsAreGapless
<1>1. Init => IInv
  BY InitHolds
<1>2. IInv /\ [Next]_vars => IInv'
  BY TypedStep, IInvStep DEF IInv, Rest
<1>3. IInv => RefsAreGapless
  BY DEF IInv, RefsInOrder, RefsAreGapless
<1> QED
  BY <1>1, <1>2, <1>3, PTL DEF Spec

-----------------------------------------------------------------------------
(* The brands begin with prefixes of their own, which stay in "alone".     *)
OwnPrefixes ==
  /\ \A b \in Brands : FirstPrefix[b] # Blank
  /\ \A b, c \in Brands : FirstPrefix[b] = FirstPrefix[c] => b = c

(* The counters of row have left n behind, and are never behind others.    *)
Past(n, row) ==
  \A b \in Brands : n.prefix = row.prefix[b] /\ n.seq < MaxSequence => n.seq < row.next[b]
Grown(old, new) ==
  /\ new.prefix = old.prefix
  /\ \A b \in Brands : new.next[b] >= old.next[b]

(* What a request will write: counters that have not gone back, and that   *)
(* are past the number it writes with them.                                *)
Writes(q) ==
  /\ q.at = "hold" => Grown(settings, q.row)
  /\ q.op # "create" /\ q.at = "hold" => Past(q.number, q.row)
  /\ q.at = "write" => Past(q.number, settings)
  /\ q.at = "jump" => Ahead(q.number, q.jump)

Numbered == \A s \in Sales : sale[s].number # None => Past(sale[s].number, settings)
AheadInv ==
  /\ settings.prefix = FirstPrefix
  /\ Numbered
  /\ \A r \in Reqs : req[r] # Idle => Writes(req[r])

LEMMA AheadInit == Init => AheadInv
  BY DEF Init, AheadInv, Numbered

LEMMA GrownIsPast ==
  ASSUME NEW n \in Number, NEW old \in Settings, NEW new \in Settings,
         Grown(old, new), Past(n, old)
  PROVE  Past(n, new)
<1>. SUFFICES ASSUME NEW b \in Brands, n.prefix = new.prefix[b], n.seq < MaxSequence
              PROVE  n.seq < new.next[b]
  BY DEF Past
<1>1. old.next[b] \in Int /\ new.next[b] \in Int /\ n.seq \in Int
  BY SeqAssumption DEF Settings, Column, Number
<1>2. n.seq < old.next[b] /\ old.next[b] <= new.next[b]
  BY <1>1 DEF Grown, Past
<1>. QED
  BY <1>1, <1>2

(* The one request, written anew or done, while the records stay.          *)
LEMMA AheadStart ==
  ASSUME OneAtATime, Typed, AheadInv, NEW r \in Reqs, NEW q \in Request, Start(r, q), Writes(q)
  PROVE  AheadInv'
<1>1. UNCHANGED <<settings, sale>> /\ req'[r] = q
  BY DEF Start, records, Typed, TypeOK
<1>2. ASSUME NEW o \in Reqs, req'[o] # Idle PROVE Writes(req'[o])
  <2>1. o # r => req'[o] = req[o]
    BY DEF Start, Typed, TypeOK
  <2>2. o = r
    BY <1>2, <2>1 DEF OneAtATime
  <2>. QED
    BY <1>1, <2>2
<1>3. (\A o \in Reqs : req[o] # Idle => Writes(req[o]))'
  BY <1>1, <1>2 DEF Writes, Ahead
<1>. QED
  BY <1>1, <1>3 DEF AheadInv, Numbered

LEMMA AheadFinish ==
  ASSUME OneAtATime, Typed, AheadInv, NEW r \in Reqs, Finish(r),
         settings' \in Settings, Grown(settings, settings'),
         \A s \in Sales : \/ sale'[s].number = None
                          \/ sale'[s].number = sale[s].number
                          \/ Past(sale'[s].number, settings')
  PROVE  AheadInv'
<1>1. req'[r] = Idle
  BY DEF Finish, Typed, TypeOK
<1>2. \A o \in Reqs : req'[o] = Idle
  BY <1>1 DEF OneAtATime, Finish, Typed, TypeOK
<1>3. ASSUME NEW s \in Sales, sale'[s].number # None PROVE Past(sale'[s].number, settings')
  <2>1. CASE sale'[s].number = sale[s].number
    <3>1. sale[s].number \in Number /\ settings \in Settings
      BY <1>3, <2>1 DEF Typed, TypeOK, Sale
    <3>. QED
      BY <1>3, <2>1, <3>1, GrownIsPast DEF AheadInv, Numbered
  <2>. QED
    BY <1>3, <2>1
<1>4. Numbered'
  BY <1>3 DEF Numbered, Past
<1>. QED
  BY <1>2, <1>4 DEF AheadInv, Grown

LEMMA AheadStep ==
  ASSUME OwnPrefixes, Typed, AheadInv, Next, OneAtATime, PrefixesStay
  PROVE  AheadInv'
<1>. USE DEF At, Open
<1>t. TypeOK /\ AllReady /\ settings \in Settings /\ sale \in [Sales -> Sale]
  BY DEF Typed, TypeOK
<1>n. \A b \in Brands : settings.next[b] \in Nat /\ settings.prefix[b] \in Prefixes
  BY <1>t, SeqAssumption DEF Settings, Column
<1>p. \A b, c \in Brands : /\ settings.prefix[b] # Blank
                           /\ settings.prefix[b] = settings.prefix[c] => b = c
  BY DEF OwnPrefixes, AheadInv
<1>g. Grown(settings, settings)
  BY <1>n DEF Grown
<1>1. ASSUME NEW r \in Reqs, NEW s \in Sales, TakeRef(r, s) PROVE AheadInv'
  <2> DEFINE b == Begin("create", "rep", s)
             row == [settings EXCEPT !.nextRef = @ + 1]
             q == [b EXCEPT !.at = "hold", !.row.nextRef = @ + 1]
  <2>1. b \in Request /\ b.op = "create" /\ b.row = settings
    BY BeginIsRequest, <1>t DEF Users
  <2>2. settings.nextRef + 1 \in Column \ {0}
    BY <1>1, <1>t, SeqAssumption DEF TakeRef, Settings, Column
  <2>3. row \in Settings /\ row.prefix = settings.prefix /\ row.next = settings.next
    BY <2>2, <1>t DEF Settings
  <2>4. q = [b EXCEPT !.at = "hold", !.row = row]
    BY <2>1 DEF Request
  <2>5. q \in Request /\ q.op = "create" /\ q.at = "hold" /\ q.row = row
    BY <2>1, <2>3, <2>4 DEF Request
  <2>6. Start(r, q)
    BY <1>1 DEF TakeRef
  <2>. HIDE DEF q, row
  <2>7. Grown(settings, row)
    BY <1>n, <2>3 DEF Grown
  <2>8. Writes(q)
    BY <2>5, <2>7 DEF Writes
  <2>. QED
    BY <2>5, <2>6, <2>8, AheadStart
<1>2. ASSUME NEW r \in Reqs, CommitCreate(r) PROVE AheadInv'
  <2>1. req[r] \in Request /\ Writes(req[r]) /\ req[r].at = "hold" /\ settings' = req[r].row
    BY <1>2, <1>t DEF CommitCreate, TypeOK, AheadInv
  <2>2. settings' \in Settings /\ Grown(settings, settings')
    BY <2>1 DEF Writes, Request
  <2>3. \A s \in Sales : sale'[s].number = None \/ sale'[s].number = sale[s].number
    BY <1>2, <1>t DEF CommitCreate
  <2>. QED
    BY <1>2, <2>2, <2>3, AheadFinish DEF CommitCreate
<1>3. ASSUME NEW r \in Reqs, NEW s \in Sales, Approve(r, s) \/ Void(r, s) PROVE AheadInv'
  <2>1. /\ UNCHANGED <<settings, req>>
        /\ \A o \in Sales : sale'[o].number = sale[o].number
    BY <1>3, <1>t DEF Approve, Void, Sale
  <2>. QED
    BY <2>1 DEF AheadInv, Numbered, Writes, Ahead
<1>4. ASSUME NEW r \in Reqs, NEW b \in Brands, NEW p \in Prefixes, ChangePrefix(r, b, p)
      PROVE AheadInv'
  <2>1. settings'.prefix[b] = p /\ settings.prefix[b] # p
    BY <1>4, <1>t DEF ChangePrefix, Settings
  <2>. QED
    BY <2>1 DEF PrefixesStay
<1>5. ASSUME NEW r \in Reqs, NEW s \in Sales, NEW op \in {"generate", "export"},
             ReadForNumber(r, op, s)
      PROVE AheadInv'
  <2> DEFINE q == Begin(op, "acct", s)
  <2>1. q \in Request /\ q.at = "read"
    BY BeginIsRequest, <1>t DEF Users
  <2>2. Writes(q)
    BY <2>1 DEF Writes
  <2>. QED
    BY <2>1, <2>2, <1>5, AheadStart DEF ReadForNumber
<1>6. ASSUME NEW r \in Reqs, TakeNumber(r) PROVE AheadInv'
  <2> DEFINE b == BrandOf[req[r].sale]
             n == [prefix |-> settings.prefix[b], seq |-> settings.next[b]]
             row == [settings EXCEPT !.next[b] = @ + 1]
             q == [req[r] EXCEPT !.at = "hold", !.number = n, !.row = row]
  <2>1. req[r] \in Request
    BY <1>6, <1>t DEF TakeNumber, TypeOK
  <2>2. b \in Brands
    BY <2>1, BrandAssumption DEF Request
  <2>3. n \in Number
    BY <2>2, <1>n DEF Number
  <2>4. settings.next[b] + 1 \in Column
    BY <2>2, <1>6, <1>n, SeqAssumption DEF TakeNumber, Column
  <2>5. row \in Settings
    BY <2>2, <2>4, <1>t DEF Settings
  <2>6. /\ row.prefix = settings.prefix
        /\ row.next[b] = settings.next[b] + 1
        /\ \A c \in Brands : c # b => row.next[c] = settings.next[c]
    BY <2>2, <1>t DEF Settings
  <2>7. q \in Request /\ q.at = "hold" /\ q.row = row /\ q.number = n
    BY <2>1, <2>3, <2>5 DEF Request
  <2>. HIDE DEF q, row
  <2>8. Grown(settings, row)
    BY <1>n, <2>2, <2>6 DEF Grown
  <2>9. Past(n, row)
    BY <1>n, <1>p, <2>2, <2>6 DEF Past
  <2>10. Writes(q)
    BY <2>7, <2>8, <2>9 DEF Writes
  <2>11. Start(r, q)
    BY <1>6 DEF TakeNumber, q, row
  <2>. QED
    BY <2>7, <2>10, <2>11, AheadStart
<1>7. ASSUME NEW r \in Reqs, CommitNumber(r) PROVE AheadInv'
  <2>1. /\ req[r] \in Request /\ Writes(req[r]) /\ req[r].at = "hold"
        /\ req[r].op # "create" /\ settings' = req[r].row
    BY <1>7, <1>t DEF CommitNumber, TypeOK, AheadInv
  <2>2. settings' \in Settings /\ Grown(settings, settings') /\ Past(req[r].number, settings')
    BY <2>1 DEF Writes, Request
  <2>3. \A s \in Sales : sale'[s].number = sale[s].number \/ sale'[s].number = req[r].number
    BY <1>7, <1>t DEF CommitNumber, Sale
  <2>. QED
    BY <1>7, <2>2, <2>3, AheadFinish DEF CommitNumber
<1>8. ASSUME NEW r \in Reqs, NEW s \in Sales, NEW u \in Users, NEW n \in HandNumbers,
             ReadForSetNo(r, u, s, n)
      PROVE AheadInv'
  <2> DEFINE q == [Begin("number", u, s) EXCEPT !.number = n]
  <2>1. n \in Number
    BY SeqAssumption DEF HandNumbers, Number
  <2>2. q \in Request /\ q.at = "read"
    BY <2>1, BeginIsRequest, <1>t DEF Request
  <2>3. Writes(q)
    BY <2>2 DEF Writes
  <2>. QED
    BY <2>2, <2>3, <1>8, AheadStart DEF ReadForSetNo
<1>9. ASSUME NEW r \in Reqs, ReadCounters(r) PROVE AheadInv'
  <2> DEFINE n == req[r].number
             v == IF Ahead(n, "VFW") THEN "VFW" ELSE "GFC"
             j == [req[r] EXCEPT !.at = "jump", !.jump = v]
             w == [req[r] EXCEPT !.at = "write"]
  <2>1. req[r] \in Request /\ req[r].op = "number" /\ n \in Number
    BY <1>9, <1>t DEF ReadCounters, TypeOK, AllReady, Ready
  <2>2. CASE \E b \in Brands : Ahead(n, b)
    <3>1. Start(r, j) /\ v \in Brands /\ Ahead(n, v)
      BY <2>2, <1>9 DEF ReadCounters, Brands
    <3>2. j \in Request /\ j.at = "jump" /\ j.number = n /\ j.jump = v
      BY <2>1, <3>1 DEF Request
    <3>3. Writes(j)
      BY <3>1, <3>2 DEF Writes
    <3>. QED
      BY <3>1, <3>2, <3>3, AheadStart
  <2>3. CASE ~ \E b \in Brands : Ahead(n, b)
    <3>1. Start(r, w)
      BY <2>3, <1>9 DEF ReadCounters
    <3>2. w \in Request /\ w.at = "write" /\ w.number = n
      BY <2>1 DEF Request
    <3>3. n.seq \in Nat /\ MaxSequence \in Nat
      BY <2>1, SeqAssumption DEF Number
    <3>4. Past(n, settings)
      BY <1>n, <1>p, <2>3, <3>3 DEF Past, Ahead
    <3>5. Writes(w)
      BY <3>2, <3>4 DEF Writes
    <3>. QED
      BY <3>1, <3>2, <3>5, AheadStart
  <2>. QED
    BY <2>2, <2>3
<1>10. ASSUME NEW r \in Reqs, Jump(r) PROVE AheadInv'
  <2> DEFINE n == req[r].number
             b == req[r].jump
             row == [settings EXCEPT !.next[b] = n.seq + 1]
             q == [req[r] EXCEPT !.at = "hold", !.row = row]
  <2>1. /\ req[r] \in Request /\ n \in Number /\ b \in Brands /\ n.seq < MaxSequence
        /\ Ahead(n, b)
    BY <1>10, <1>t DEF Jump, TypeOK, AllReady, Ready, AheadInv, Writes
  <2>2. n.seq \in Nat /\ n.seq >= settings.next[b] /\ n.prefix = settings.prefix[b]
    BY <2>1 DEF Number, Ahead
  <2>3. n.seq + 1 \in Column
    BY <2>1, <2>2, SeqAssumption DEF Column
  <2>4. row \in Settings
    BY <2>1, <2>3, <1>t DEF Settings
  <2>5. /\ row.prefix = settings.prefix /\ row.next[b] = n.seq + 1
        /\ \A c \in Brands : c # b => row.next[c] = settings.next[c]
    BY <2>1, <1>t DEF Settings
  <2>6. q \in Request /\ q.at = "hold" /\ q.row = row /\ q.number = n
    BY <2>1, <2>4 DEF Request
  <2>7. Start(r, q)
    BY <1>10 DEF Jump
  <2>. HIDE DEF q, row, n, b
  <2>8. Grown(settings, row)
    BY <1>n, <2>1, <2>2, <2>5 DEF Grown
  <2>9. ASSUME NEW c \in Brands, n.prefix = row.prefix[c] PROVE n.seq < row.next[c]
    <3>1. c = b
      BY <1>p, <2>1, <2>2, <2>5, <2>9
    <3>. QED
      BY <2>2, <2>5, <3>1
  <2>10. Writes(q)
    BY <2>6, <2>8, <2>9 DEF Writes, Past
  <2>. QED
    BY <2>6, <2>7, <2>10, AheadStart
<1>11. ASSUME NEW r \in Reqs, CommitSetNo(r) PROVE AheadInv'
  <2>1. req[r] \in Request /\ Writes(req[r]) /\ req[r].op = "number" /\ Finish(r)
    BY <1>11, <1>t DEF CommitSetNo, TypeOK, AheadInv
  <2>2. /\ settings' \in Settings /\ Grown(settings, settings')
        /\ Past(req[r].number, settings')
    BY <1>11, <1>t, <1>g, <2>1 DEF CommitSetNo, Writes, Request
  <2>3. \A s \in Sales : sale'[s].number = sale[s].number \/ sale'[s].number = req[r].number
    BY <1>11, <1>t DEF CommitSetNo, Sale
  <2>. QED
    BY <2>1, <2>2, <2>3, AheadFinish
<1>12. ASSUME NEW r \in Reqs, Fail(r) PROVE AheadInv'
  BY <1>12, <1>t, <1>g, AheadFinish DEF Fail, records
<1>. QED
  BY <1>1, <1>2, <1>3, <1>4, <1>5, <1>6, <1>7, <1>8, <1>9, <1>10, <1>11, <1>12
  DEF Next, Begins, Goes

AheadWhenAlone == part = "alone" => Typed /\ AheadInv

LEMMA AloneStep ==
  ASSUME OwnPrefixes, AheadWhenAlone, [InvoiceNext]_state
  PROVE  AheadWhenAlone'
<1>1. CASE part = "alone" /\ InvoiceNext
  <2>1. Next /\ OneAtATime /\ PrefixesStay /\ Typed /\ AheadInv
    BY <1>1 DEF InvoiceNext, AheadWhenAlone
  <2>2. Typed' /\ AheadInv'
    BY <2>1, TypedStep, AheadStep
  <2>. QED
    BY <2>2 DEF AheadWhenAlone
<1>2. CASE part = "alone" /\ UNCHANGED state
  <2>1. UNCHANGED vars /\ Typed /\ AheadInv
    BY <1>2 DEF state, vars, AheadWhenAlone
  <2>2. Typed'
    BY <2>1, TypedStep
  <2>3. AheadInv'
    BY <2>1 DEF vars, AheadInv, Numbered, Writes, Ahead
  <2>. QED
    BY <2>2, <2>3 DEF AheadWhenAlone
<1>3. CASE part # "alone"
  BY <1>3 DEF InvoiceNext, state, AheadWhenAlone
<1>. QED
  BY <1>1, <1>2, <1>3

(* Handlers that run one after the other keep the counter of each brand    *)
(* past every number of its sequence that a sale holds, given out or typed *)
(* by hand (advanceSequencePast), while the brands keep the prefixes they  *)
(* have, each one of its own and not blank.                                *)
THEOREM AloneAlwaysAhead ==
  ASSUME OwnPrefixes
  PROVE  InvoiceSpec => []AloneSequenceIsAhead
<1>1. AheadWhenAlone => AloneSequenceIsAhead
  BY DEF AheadWhenAlone, AloneSequenceIsAhead, AheadInv, Numbered, Past, SequenceIsAhead
<1>2. InvoiceInit => AheadWhenAlone
  BY InitHolds, AheadInit DEF InvoiceInit, IInv, AheadWhenAlone
<1>. QED
  BY <1>1, <1>2, AloneStep, PTL DEF InvoiceSpec
=============================================================================
