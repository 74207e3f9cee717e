------------------------------ MODULE Reminders ------------------------------
(***************************************************************************)
(* A reminder job (RemindersService): the daily one about overdue invoices *)
(* or the weekly one about lapsed contacts, which have the same shape.     *)
(* Whoever is due is read once; then, one after another, the mail log is   *)
(* searched for an earlier reminder, the mail is sent and it is logged     *)
(* (EmailService.send and record).  A run is split at these awaits.        *)
(***************************************************************************)
EXTENDS Naturals, FiniteSets

CONSTANTS
  Subjects,  \* invoices, or contacts
  Runs,      \* run slots
  Ops,       \* what may go wrong: crash, second (another instance), refused,
             \* unlogged (the log fails), paid (subjects are settled meanwhile)
  Cooldown,  \* days before the next reminder
  MaxMails,  \* bound on the reminders one subject gets in those days
  None

VARIABLES
  due,       \* the subjects that are overdue, or lapsed
  running,   \* the guard against an overlapping tick
  log,       \* the EmailMessage rows of the last Cooldown days: subject, kind, status, age
  delivered, \* the reminders that went out in those days: subject, age, a number
  skipped,   \* the subjects passed over for an earlier reminder, by the last step
  run        \* the runs at work

vars == <<due, running, log, delivered, skipped, run>>
mail == <<log, delivered>>

At(r, step) == run[r] # None /\ run[r].at = step
Goes(r, step) == run' = [run EXCEPT ![r].at = step]
NextSubject(r) == run' = [run EXCEPT ![r].at = "next", ![r].left = @ \ {run[r].about}, ![r].about = None]

Init ==
  /\ due = {} /\ running = FALSE
  /\ log = {} /\ delivered = {} /\ skipped = {}
  /\ run = [r \in Runs |-> None]

-----------------------------------------------------------------------------
FallDue(s) ==
  /\ s \notin due
  /\ due' = due \cup {s} /\ skipped' = {}
  /\ UNCHANGED <<running, mail, run>>

Settle(s) ==
  /\ s \in due
  /\ "paid" \in Ops \/ \A r \in Runs : run[r] = None
  /\ due' = due \ {s} /\ skipped' = {}
  /\ UNCHANGED <<running, mail, run>>

(* A day passes; what is older than the cooldown is forgotten.  No send    *)
(* takes so long that its mail and its log row are a day apart.            *)
(* Mutant: a row is kept a day too long.                                   *)
Older_Late(rows) == {[row EXCEPT !.age = @ + 1] : row \in {old \in rows : old.age <= Cooldown}}

Older(rows) == {[row EXCEPT !.age = @ + 1] : row \in {old \in rows : old.age < Cooldown}}

DayPasses ==
  /\ \A r \in Runs : ~At(r, "record")
  /\ log' = Older(log) /\ delivered' = Older(delivered) /\ skipped' = {}
  /\ UNCHANGED <<due, running, run>>

(* Other mail about the same subject, such as its invoice.                 *)
OtherMail(s) ==
  /\ \A row \in log : row.what = "reminder"
  /\ log' = log \cup {[about |-> s, what |-> "other", status |-> "SENT", age |-> 0]}
  /\ skipped' = {}
  /\ UNCHANGED <<due, running, delivered, run>>

-----------------------------------------------------------------------------
(* Mutant: a tick starts whatever is still running.                        *)
MayRun_Always == TRUE

MayRun == ~running \/ "second" \in Ops

(* Whom a run is about: receivablesRows, or retentionRows.                 *)
(* Mutant: the settled are not left out.                                   *)
ToRemind_All == Subjects

ToRemind == due

Tick(r) ==
  /\ run[r] = None /\ MayRun
  /\ running' = TRUE /\ skipped' = {}
  /\ run' = [run EXCEPT ![r] = [at |-> "next", left |-> ToRemind, about |-> None, status |-> None]]
  /\ UNCHANGED <<due, mail>>

(* A reminder about the subject, sent or tried, within the cooldown.       *)
(* Mutant: any mail about it counts.                                       *)
Already_AnyMail(row, s) == row.about = s

(* Mutant: today's reminders are forgotten.                                *)
Already_NotToday(row, s) == row.about = s /\ row.what = "reminder" /\ row.age > 0

Already(row, s) == row.about = s /\ row.what = "reminder"

LookUp(r, s) ==
  /\ At(r, "next") /\ s \in run[r].left
  /\ IF \E row \in log : Already(row, s)
     THEN /\ skipped' = {s}
          /\ run' = [run EXCEPT ![r].left = @ \ {s}]
     ELSE /\ skipped' = {}
          /\ run' = [run EXCEPT ![r].at = "send", ![r].about = s]
  /\ UNCHANGED <<due, running, mail>>

(* deliver, and what record is told of it.                                 *)
DeliveredTo(s) == {d \in delivered : d.about = s}

Deliver(r) ==
  /\ At(r, "send") /\ Cardinality(DeliveredTo(run[r].about)) < MaxMails
  /\ delivered' = delivered \cup
       {[about |-> run[r].about, age |-> 0, n |-> Cardinality(DeliveredTo(run[r].about))]}
  /\ run' = [run EXCEPT ![r].at = "record", ![r].status = "SENT"]
  /\ skipped' = {}
  /\ UNCHANGED <<due, running, log>>

Refused(r) ==
  /\ "refused" \in Ops /\ At(r, "send")
  /\ run' = [run EXCEPT ![r].at = "record", ![r].status = "FAILED"]
  /\ skipped' = {}
  /\ UNCHANGED <<due, running, mail>>

Record(r) ==
  /\ At(r, "record")
  /\ log' = log \cup {[about |-> run[r].about, what |-> "reminder",
                       status |-> run[r].status, age |-> 0]}
  /\ NextSubject(r) /\ skipped' = {}
  /\ UNCHANGED <<due, running, delivered>>

RecordFails(r) ==
  /\ "unlogged" \in Ops /\ At(r, "record")
  /\ NextSubject(r) /\ skipped' = {}
  /\ UNCHANGED <<due, running, mail>>

(* Mutant: the guard is not taken off.                                     *)
GuardAfter_Stays == TRUE

GuardAfter == FALSE

Done(r) ==
  /\ At(r, "next") /\ run[r].left = {}
  /\ run' = [run EXCEPT ![r] = None]
  /\ running' = GuardAfter /\ skipped' = {}
  /\ UNCHANGED <<due, mail>>

Crash ==
  /\ "crash" \in Ops
  /\ run' = [r \in Runs |-> None] /\ running' = FALSE /\ skipped' = {}
  /\ UNCHANGED <<due, mail>>

Work(r) ==
  \/ \E s \in Subjects : LookUp(r, s)
  \/ Deliver(r) \/ Refused(r) \/ Record(r) \/ RecordFails(r) \/ Done(r)

Next ==
  \/ \E r \in Runs : Tick(r) \/ Work(r)
  \/ \E s \in Subjects : FallDue(s) \/ Settle(s) \/ OtherMail(s)
  \/ DayPasses \/ Crash

(* The scheduler ticks again and again, and a run that is at work goes on. *)
Fairness == \A r \in Runs : WF_vars(Tick(r)) /\ WF_vars(Work(r))

Spec == Init /\ [][Next]_vars /\ Fairness

-----------------------------------------------------------------------------
Reminder == [about : Subjects, what : {"reminder", "other"}, status : {"SENT", "FAILED"}, age : 0 .. Cooldown]

RemindersTypeOK ==
  /\ due \subseteq Subjects /\ running \in BOOLEAN
  /\ log \subseteq Reminder
  /\ delivered \subseteq [about : Subjects, age : 0 .. Cooldown, n : Nat]
  /\ \A r \in Runs : run[r] # None =>
       /\ run[r].left \subseteq Subjects /\ run[r].about \in Subjects \cup {None}

(* "Don't re-remind the same overdue invoice more than once inside this    *)
(* window".                                                                *)
OncePerCooldown == \A s \in Subjects : Cardinality(DeliveredTo(s)) <= 1

(* Whoever is passed over has been reminded ("has a payment reminder       *)
(* already gone out").                                                     *)
OnlyRemindedSkipped == \A s \in skipped : DeliveredTo(s) # {}

(* Who stays due is reminded ("the next tick tries again").                *)
DueAreReminded == \A s \in Subjects :
  s \in due ~> (s \notin due \/ DeliveredTo(s) # {})

(* Nobody is reminded of what is settled.                                  *)
OnlyDueReminded == [][\A d \in delivered' \ delivered : d.age = 0 => d.about \in due]_vars
=============================================================================
