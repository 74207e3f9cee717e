------------------------------ MODULE Contacts ------------------------------
(***************************************************************************)
(* The customer book: one contact for a brand, brought into being by a     *)
(* sale, by hand or by a file of many, and written over by a later sale of *)
(* someone who may see it (SubmissionsService.resolveContact,              *)
(* ContactsService, common/csv-import.ts, ImportCsv.tsx).                  *)
(*                                                                         *)
(* A request reads in one step and commits in another.  The rows of a file *)
(* are created one after the other, each read and committed on its own.    *)
(***************************************************************************)
EXTENDS Naturals, Sequences

CONSTANTS
  Brands, Details, \* what a contact is known by, and the rest of it
  Reps, Office,    \* who sees their own, and who sees every contact
  Sales,
  Reqs,            \* request slots
  Files,           \* the files imported: rows of [brand, details, valid]
  Ops,             \* of "sell", "amend", "create", "import"
  None

VARIABLES
  book,  \* of each brand, the contact [by, details] or None
  sales, \* of each sale, its rep and contact [rep, brand] or None
  req,   \* the requests in flight
  told   \* what the last import of each user's answered: [file, row -> "in" or "error"],
         \* and (no part of the program) the brands that were in the book before it

contactsVars == <<book, sales, req, told>>

Users == Reps \cup Office
Idle == [kind |-> "idle"]

ContactsInit ==
  /\ book = [b \in Brands |-> None] /\ sales = [s \in Sales |-> None]
  /\ req = [q \in Reqs |-> Idle]
  /\ told = [u \in Users |-> None]

-----------------------------------------------------------------------------
(* Mutant: a brand someone has sold to is theirs to write over.            *)
MayEdit_AnySale(u, b) ==
  \/ u \in Office
  \/ book[b] # None /\ book[b].by = u
  \/ \E s \in Sales : sales[s] # None /\ sales[s].brand = b

(* scopeFor: entered by them, or sold to by them.                          *)
MaySee(u, b) ==
  \/ u \in Office
  \/ book[b] # None /\ book[b].by = u
  \/ \E s \in Sales : sales[s] # None /\ sales[s].rep = u /\ sales[s].brand = b

(* resolveContact's own words for it, read at the start.                   *)
MayEdit(u, b) == MaySee(u, b)

Take(q, request) == req[q] = Idle /\ req' = [req EXCEPT ![q] = request]

(* A sale is filed or amended, read.                                       *)
Resolve(q, u, s, b, d) ==
  /\ IF sales[s] = None
     THEN "sell" \in Ops /\ u \in Reps /\ \A p \in Reqs : req[p].kind = "sale" => req[p].sale # s
     ELSE "amend" \in Ops /\ (u \in Office \/ sales[s].rep = u)
  /\ Take(q, [kind |-> "sale", user |-> u, sale |-> s, brand |-> b, details |-> d,
              new |-> sales[s] = None,
              found |-> book[b] # None, may |-> book[b] # None /\ MayEdit(u, b)])
  /\ UNCHANGED <<book, sales, told>>

(* Mutant: the upsert overwrites the contact it finds.                     *)
Resolved_Overwrites(r) == [by |-> r.user, details |-> r.details]

(* An unknown brand is inserted, or linked to if it is there by now; a     *)
(* known one is written over by whoever may.                               *)
Resolved(r) ==
  CASE ~r.found /\ book[r.brand] = None -> [by |-> r.user, details |-> r.details]
    [] ~r.found /\ book[r.brand] # None -> book[r.brand]
    [] r.found /\ r.may -> [book[r.brand] EXCEPT !.details = r.details]
    [] r.found /\ ~r.may -> book[r.brand]

FileSale(q) ==
  LET r == req[q]
  IN  /\ r.kind = "sale"
      /\ book' = [book EXCEPT ![r.brand] = Resolved(r)]
      /\ sales' = [sales EXCEPT ![r.sale] =
           [rep |-> IF r.new THEN r.user ELSE @.rep, brand |-> r.brand]]
      /\ req' = [req EXCEPT ![q] = Idle]
      /\ UNCHANGED told

-----------------------------------------------------------------------------
(* ContactsService.create, and the same for one row after another.         *)
Create(q, u, b, d) ==
  /\ "create" \in Ops /\ book[b] = None
  /\ Take(q, [kind |-> "create", user |-> u, brand |-> b, details |-> d])
  /\ UNCHANGED <<book, sales, told>>

InsertOne(q) ==
  LET r == req[q]
  IN  /\ r.kind = "create"
      /\ book' = [book EXCEPT ![r.brand] =
           IF @ = None THEN [by |-> r.user, details |-> r.details] ELSE @]
      /\ req' = [req EXCEPT ![q] = Idle]
      /\ UNCHANGED <<sales, told>>

Import(q, u, f) ==
  /\ "import" \in Ops /\ f \in DOMAIN Files
  /\ Take(q, [kind |-> "import", user |-> u, file |-> f, said |-> <<>>, free |-> None,
              before |-> {b \in Brands : book[b] # None}])
  /\ UNCHANGED <<book, sales, told>>

Row(r) == Files[r.file][Len(r.said) + 1]
Rows(r) == Len(Files[r.file])

(* A row that does not pass, or whose brand is there, is an error.         *)
ReadRow(q) ==
  LET r == req[q]
  IN  /\ r.kind = "import" /\ r.free = None /\ Len(r.said) < Rows(r)
      /\ req' = [req EXCEPT ![q] =
           IF Row(r).valid /\ book[Row(r).brand] = None THEN [r EXCEPT !.free = Row(r).brand]
           ELSE [r EXCEPT !.said = Append(@, "error")]]
      /\ UNCHANGED <<book, sales, told>>

(* Mutant: a row that another came before is counted all the same.         *)
InsertRow_Counted(q) ==
  LET r == req[q]
      free == book[r.free] = None
  IN  /\ r.kind = "import" /\ r.free # None
      /\ book' = IF free THEN [book EXCEPT ![r.free] = [by |-> r.user, details |-> Row(r).details]]
                 ELSE book
      /\ req' = [req EXCEPT ![q] = [r EXCEPT !.said = Append(@, "in"), !.free = None]]
      /\ UNCHANGED <<sales, told>>

(* The insert, which the unique index refuses if another came first.       *)
InsertRow(q) ==
  LET r == req[q]
      free == book[r.free] = None
  IN  /\ r.kind = "import" /\ r.free # None
      /\ book' = IF free THEN [book EXCEPT ![r.free] = [by |-> r.user, details |-> Row(r).details]]
                 ELSE book
      /\ req' = [req EXCEPT ![q] =
           [r EXCEPT !.said = Append(@, IF free THEN "in" ELSE "error"), !.free = None]]
      /\ UNCHANGED <<sales, told>>

(* Mutant: the first row that fails ends the file.                         *)
Finished_AtError(r) ==
  \/ Len(r.said) = Rows(r)
  \/ \E i \in DOMAIN r.said : r.said[i] = "error"

Finished(r) == Len(r.said) = Rows(r)

AnswerImport(q) ==
  LET r == req[q]
  IN  /\ r.kind = "import" /\ r.free = None /\ Finished(r)
      /\ told' = [told EXCEPT ![r.user] = [file |-> r.file, said |-> r.said, before |-> r.before]]
      /\ req' = [req EXCEPT ![q] = Idle]
      /\ UNCHANGED <<book, sales>>

ContactsNext == \E q \in Reqs :
  \/ \E u \in Users, b \in Brands, d \in Details :
       Create(q, u, b, d) \/ \E s \in Sales : Resolve(q, u, s, b, d)
  \/ FileSale(q) \/ InsertOne(q)
  \/ \E u \in Users, f \in DOMAIN Files : Import(q, u, f)
  \/ ReadRow(q) \/ InsertRow(q) \/ AnswerImport(q)

-----------------------------------------------------------------------------
ContactsTypeOK ==
  /\ \A b \in Brands : book[b] # None => book[b].by \in Users /\ book[b].details \in Details
  /\ \A s \in Sales : sales[s] # None => sales[s].rep \in Reps /\ book[sales[s].brand] # None
  /\ \A u \in Users : told[u] # None => told[u].file \in DOMAIN Files

(* Nobody writes over a contact they could not see (resolveContact: "what  *)
(* it must NOT do is overwrite that contact's details"), whatever sales    *)
(* of a new brand cross, while no sale changes hands in between.           *)
OnlyTheirsIsWritten ==
  \A b \in Brands :
    book[b] # None /\ book'[b] # book[b] =>
      \E q \in Reqs : /\ req[q].kind = "sale" /\ req[q].brand = b
                      /\ req'[q] = Idle /\ MaySee(req[q].user, b)

(* When a file has been answered, every good row of it has its contact: a  *)
(* bad row holds none of the others back (importCsv: "rows are             *)
(* independent"); and a row said to be in was not in the book before the   *)
(* file, is the importer's own entry now, and is the only one of its brand *)
(* that the answer counts.                                                 *)
GoodRowsAreIn ==
  \A u \in Users : told[u] # None =>
    LET rows == Files[told[u].file]
    IN  /\ Len(told[u].said) = Len(rows)
        /\ \A i \in DOMAIN rows : rows[i].valid => book[rows[i].brand] # None
        /\ \A i \in DOMAIN rows : told[u].said[i] = "in" =>
             rows[i].brand \notin told[u].before /\ book[rows[i].brand].by = u
        /\ \A i, j \in DOMAIN rows :
             rows[i].brand = rows[j].brand /\ told[u].said[i] = "in" /\ told[u].said[j] = "in" => i = j
=============================================================================
