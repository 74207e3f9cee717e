------------------------------- MODULE Rates -------------------------------
(***************************************************************************)
(* Exchange rates: the row of Settings that holds the ones in force, the   *)
(* dated snapshots a report for a past period converts through, and the    *)
(* two ways an administrator changes them, saving the settings form and    *)
(* pulling in the provider's (AdminService.updateSettings, FxService,      *)
(* ReportsService.resolveFxRates, SettingsForm of Admin.tsx).              *)
(*                                                                         *)
(* The reporting currency is 1 throughout and left out.  A save reads the  *)
(* row, and later writes row and snapshot in one transaction, under the    *)
(* row's lock; the provider's rates are written on their own.              *)
(***************************************************************************)
EXTENDS Integers, Sequences

CONSTANTS
  Currencies, \* those sold in, but for the reporting currency
  Values,     \* what one of them may be worth
  Admins,
  Ops,        \* of "save", "refresh", "partial": which happen in this instance
  LastDay,    \* bound on the days that pass
  MaxSaves,   \* bound on the snapshots
  None

VARIABLES
  rates,   \* Settings.fxRates; 0 where a currency has no entry
  history, \* the FxRateSnapshot rows, in the order of createdAt
  day,     \* today
  form,    \* the rates in each administrator's open settings form, or None
  saving   \* the save of each administrator's in flight: the rates to write

ratesVars == <<rates, history, day, form, saving>>

Tables == [Currencies -> Values]
Partial == [Currencies -> Values \cup {0}]

RatesInit ==
  /\ rates \in Tables
  /\ history = <<[from |-> 1, rates |-> rates]>>   \* the migration's backfill
  /\ day = 1
  /\ form = [a \in Admins |-> None] /\ saving = [a \in Admins |-> None]

-----------------------------------------------------------------------------
(* What a provider may answer: every currency, or some of them left out.   *)
Quotes == IF "partial" \in Ops THEN Partial ELSE Tables

(* What the page offers to save: the form, filled when it was opened and   *)
(* not again, and typed over.                                              *)
Open(a) ==
  /\ form[a] = None
  /\ form' = [form EXCEPT ![a] = rates]
  /\ UNCHANGED <<rates, history, day, saving>>

Close(a) ==
  /\ form[a] # None /\ saving[a] = None
  /\ form' = [form EXCEPT ![a] = None]
  /\ UNCHANGED <<rates, history, day, saving>>

Type(a, c, v) ==
  /\ form[a] # None /\ form[a][c] # v
  /\ form' = [form EXCEPT ![a][c] = v]
  /\ UNCHANGED <<rates, history, day, saving>>

(* The row as read, overwritten by what the form sends.                    *)
Merged(read, sent) == [c \in Currencies |-> IF sent[c] = 0 THEN read[c] ELSE sent[c]]

Read(a) ==
  /\ "save" \in Ops /\ form[a] # None /\ saving[a] = None
  /\ Len(history) < MaxSaves
  /\ saving' = [saving EXCEPT ![a] = Merged(rates, form[a])]
  /\ UNCHANGED <<rates, history, day, form>>

(* Mutant: nothing is recorded where the day has a snapshot already.       *)
Recorded_OnceADay(table) ==
  IF history[Len(history)].from = day THEN history
  ELSE Append(history, [from |-> day, rates |-> table])

(* Mutant: the snapshot there is takes the new rates.                      *)
Recorded_Overwrites(table) ==
  [history EXCEPT ![Len(history)] = [from |-> @.from, rates |-> table]]

(* Every write of the form's is a snapshot of its own.                     *)
Recorded(table) == Append(history, [from |-> day, rates |-> table])

Write(a) ==
  /\ saving[a] # None
  /\ rates' = saving[a] /\ history' = Recorded(saving[a])
  /\ saving' = [saving EXCEPT ![a] = None]
  /\ UNCHANGED <<day, form>>

(* refreshIntoSettings replaces the whole table by what the provider       *)
(* quotes, and the form shows it.                                          *)
Refresh(a) ==
  /\ "refresh" \in Ops /\ form[a] # None
  /\ rates' \in Quotes
  /\ form' = [form EXCEPT ![a] = rates']
  /\ UNCHANGED <<history, day, saving>>

Midnight ==
  /\ day < LastDay
  /\ day' = day + 1
  /\ UNCHANGED <<rates, history, form, saving>>

RatesNext ==
  \/ \E a \in Admins :
       \/ Open(a) \/ Close(a) \/ Read(a) \/ Write(a) \/ Refresh(a)
       \/ \E c \in Currencies, v \in Values : Type(a, c, v)
  \/ Midnight

-----------------------------------------------------------------------------
(* The snapshots in force by the end of a day.                             *)
Before(d) == {i \in DOMAIN history : history[i].from <= d}

(* Mutant: the newest snapshot, whatever its date.                         *)
InForce_Newest(d) == history[Len(history)].rates

(* resolveFxRates: the latest of them, or the live rates if there is none. *)
InForce(d) ==
  IF Before(d) = {} THEN rates
  ELSE LET Later(i, j) == \/ history[i].from > history[j].from
                          \/ history[i].from = history[j].from /\ i >= j
       IN  history[CHOOSE i \in Before(d) : \A j \in Before(d) : Later(i, j)].rates

-----------------------------------------------------------------------------
RatesTypeOK ==
  /\ rates \in Partial
  /\ \A i \in DOMAIN history : history[i].from \in 1 .. LastDay /\ history[i].rates \in Partial
  /\ day \in 1 .. LastDay
  /\ \A a \in Admins : form[a] # None => form[a] \in Partial
  /\ \A a \in Admins : saving[a] # None => saving[a] \in Partial

(* A report for a period that is over and has rates keeps its figures,     *)
(* whatever is saved or pulled in since (resolveFxRates: "keeps producing  *)
(* the same numbers").                                                     *)
PastRatesStay ==
  \A d \in 1 .. day - 1 : InForce(d)' = InForce(d)

(* The rates in force are the newest snapshot (reports.service.ts: "they   *)
(* never disagree").                                                       *)
RatesAreTheNewest == rates = history[Len(history)].rates
=============================================================================
