------------------------------ MODULE SaleForm ------------------------------
(***************************************************************************)
(* A sale taken in: the form (NewSubmission.tsx) over the rate card it was *)
(* opened with, the request that stores the sale, and what the form does   *)
(* next with the sale's id: it uploads the files chosen before there was   *)
(* one, and puts the payment plan.  Every request may fail, and the form   *)
(* is sent again until all of it went through.                             *)
(***************************************************************************)
EXTENDS SaleFields, Installments, Sequences, Functions, TLC

CONSTANTS
  Cards,       \* the rate cards an administrator moves between
  Files,       \* files that may be attached
  Discounts, Deposits, Overrides, Counts, \* what is typed into the form
  Amounts,     \* payments somebody else posts
  Ops,         \* what happens: "stage", "terms", "send", "hasty" (typing meanwhile),
               \* "fail", "lost", "card", "pay"
  MaxSales     \* a bound on the sales the form makes

VARIABLES
  card,        \* the rate card of the server
  shown,       \* the one the form was loaded with
  form,        \* what is on the screen
  anchor,      \* the package whose figures the override was started from
  phase,       \* "edit", "posting", "posted", "files", "plan", "done"
  sent,        \* the form as it was when it was sent
  created,     \* createdRef: the sale this form made, None before its answer
  sales,       \* the sales the form made, as the server stored them
  due,         \* their balances, as payments change them
  todo, failed, \* the flush: files still to upload, files that were not
  chosen, docs, \* the files wanted, and how often each is attached
  plan         \* the plan of the sale, None before there is one

vars == <<card, shown, form, anchor, phase, sent, created, sales, due, todo, failed, chosen, docs, plan>>
server == <<sales, due, docs, plan>>

Blank == Empty @@ [tax |-> None, addonTax |-> None, plan |-> None, staged |-> {}]

Sum(s) == FoldFunction(+, 0, s)

SaleFormTypeOK ==
  /\ card \in Cards /\ shown \in Cards
  /\ phase \in {"edit", "posting", "posted", "files", "plan", "done"}
  /\ FieldsTypeOK(form) /\ form.staged \subseteq Files
  /\ created \in 1 .. Len(sales) \cup {None}
  /\ phase \in {"files", "plan", "done"} => created # None
  /\ docs \in [Files -> 0 .. 2]
  /\ todo \cup failed \subseteq Files

Init ==
  /\ card \in Cards /\ shown = card
  /\ form = Blank /\ sent = Blank /\ anchor = None
  /\ phase = "edit" /\ created = None
  /\ sales = <<>> /\ due = <<>>
  /\ todo = {} /\ failed = {} /\ chosen = {}
  /\ docs = [f \in Files |-> 0] /\ plan = None

-----------------------------------------------------------------------------
(* Typing.  Fields stay open while a request is under way, but for the     *)
(* files.                                                                  *)
Types(new) ==
  /\ phase = "edit" \/ ("hasty" \in Ops /\ phase # "done")
  /\ form' = new
  /\ UNCHANGED <<card, shown, phase, sent, created, server, todo, failed>>

PickEvent(e) ==
  /\ form.event # e
  /\ Types(PickedEvent(form, e))
  /\ UNCHANGED <<anchor, chosen>>

PickPackage(p) ==
  /\ form.event # None /\ form.package # p /\ shown.price[p][form.event] # None
  /\ Types(PickedPackage(form, p))
  /\ UNCHANGED <<anchor, chosen>>

ToggleCustomize ==
  /\ OnSale(shown, form)
  /\ Types(Customized(shown, form))
  /\ anchor' = form.package
  /\ UNCHANGED chosen

ToggleFullyCustom ==
  /\ OnSale(shown, form) /\ form.customized
  /\ Types(FullyCustom(shown, form))
  /\ UNCHANGED <<anchor, chosen>>

TypeOverride(v, named) ==
  /\ OnSale(shown, form) /\ form.customized
  /\ Types([form EXCEPT !.override = v, !.named = named])
  /\ UNCHANGED <<anchor, chosen>>

ToggleAddon(a) ==
  /\ a \in Sellable(shown, form)
  /\ Types([form EXCEPT !.addons = SymDiff(@, {a})])
  /\ UNCHANGED <<anchor, chosen>>

PickTax(t) ==
  /\ shown.rate[t] # None
  /\ \/ OnSale(shown, form) /\ Types([form EXCEPT !.tax = t])
     \/ form.addons # {} /\ Types([form EXCEPT !.addonTax = t])
  /\ UNCHANGED <<anchor, chosen>>

TypeTerms(discount, deposit, count) ==
  /\ Types([form EXCEPT !.discount = discount, !.deposit = deposit, !.plan = count])
  /\ UNCHANGED <<anchor, chosen>>

StageFile(f) ==
  /\ phase = "edit" /\ f \notin chosen
  /\ Types([form EXCEPT !.staged = @ \cup {f}])
  /\ chosen' = chosen \cup {f}
  /\ UNCHANGED anchor

RemoveFile(f) ==
  /\ phase = "edit" /\ f \in form.staged
  /\ Types([form EXCEPT !.staged = @ \ {f}])
  /\ chosen' = chosen \ {f}
  /\ UNCHANGED anchor

-----------------------------------------------------------------------------
(* What the screen shows of the price.                                     *)
RateOf(t) == IF t = None \/ shown.rate[t] = None THEN 0 ELSE shown.rate[t]

ShownTotals == Totals(shown, form, RateOf(form.tax), RateOf(form.addonTax))

(* The button is on, and the browser finds nothing out of its range.       *)
Ready ==
  /\ Complete(form) /\ form.tax # None
  /\ form.addons # {} => form.addonTax # None

Dto(f) == SoldAs(f) @@ [tax |-> f.tax, addonTax |-> IF f.addons # {} THEN f.addonTax ELSE None]

Unpriced(c, dto) ==
  \/ Refused(c, dto)
  \/ c.rate[dto.tax] = None
  \/ dto.addonTax # None /\ c.rate[dto.addonTax] = None

Stored(c, dto) ==
  Priced(c, dto, c.rate[dto.tax], IF dto.addonTax = None THEN None ELSE c.rate[dto.addonTax])

-----------------------------------------------------------------------------
(* Sending, and sending again: a sale that was made is not made again.     *)
BackToForm == phase' = "edit" /\ sent' = Blank

Submit ==
  /\ "send" \in Ops /\ phase = "edit" /\ Ready
  /\ sent' = form
  /\ phase' = IF created = None THEN "posting" ELSE "files"
  /\ todo' = form.staged /\ failed' = {}
  /\ UNCHANGED <<card, shown, form, anchor, created, server, chosen>>

Create ==
  /\ phase = "posting" /\ Len(sales) < MaxSales
  /\ ~ Unpriced(card, Dto(sent))
  /\ sales' = Append(sales, Stored(card, Dto(sent)))
  /\ due' = Append(due, Stored(card, Dto(sent)).balance)
  /\ phase' = "posted"
  /\ UNCHANGED <<card, shown, form, anchor, sent, created, todo, failed, chosen, docs, plan>>

(* Refused by the server, or not heard by it: nothing was stored.          *)
CreateFails ==
  /\ phase = "posting"
  /\ "fail" \in Ops \/ Unpriced(card, Dto(sent))
  /\ BackToForm
  /\ UNCHANGED <<card, shown, form, anchor, created, server, todo, failed, chosen>>

(* Mutant: the sale is remembered only when all is through.                *)
Answered_Forgets ==
  /\ phase = "posted"
  /\ created' = (IF sent.staged = {} THEN Len(sales) ELSE None)
  /\ shown' = card
  /\ phase' = IF sent.staged = {} THEN "files" ELSE "edit"
  /\ UNCHANGED <<card, form, anchor, sent, server, todo, failed, chosen>>

(* The answer: the sale is remembered before anything else is tried, and   *)
(* the catalogue is fetched again.                                         *)
Answered ==
  /\ phase = "posted"
  /\ created' = Len(sales) /\ shown' = card
  /\ phase' = "files"
  /\ UNCHANGED <<card, form, anchor, sent, server, todo, failed, chosen>>

AnswerLost ==
  /\ "lost" \in Ops /\ phase = "posted"
  /\ BackToForm
  /\ UNCHANGED <<card, shown, form, anchor, created, server, todo, failed, chosen>>

Upload(f) ==
  /\ phase = "files" /\ f \in todo
  /\ docs' = [docs EXCEPT ![f] = @ + 1]
  /\ todo' = todo \ {f}
  /\ UNCHANGED <<card, shown, form, anchor, phase, sent, created, sales, due, failed, chosen, plan>>

(* One of its three requests fails; the last may have been carried out     *)
(* (once of each file: a bound).                                           *)
UploadFails(f) ==
  /\ phase = "files" /\ f \in todo
  /\ \/ "fail" \in Ops /\ UNCHANGED docs
     \/ "lost" \in Ops /\ docs[f] = 0 /\ docs' = [docs EXCEPT ![f] = @ + 1]
  /\ todo' = todo \ {f} /\ failed' = failed \cup {f}
  /\ UNCHANGED <<card, shown, form, anchor, phase, sent, created, sales, due, chosen, plan>>

(* Mutants: all that was staged stays so, or none of it.                   *)
Remaining_All == form
Remaining_None == [form EXCEPT !.staged = {}]

(* What failed stays staged, and sends the user back to the form.          *)
Remaining == [form EXCEPT !.staged = failed]

FlushEnds ==
  /\ phase = "files" /\ todo = {}
  /\ form' = Remaining
  /\ IF failed # {} THEN BackToForm ELSE phase' = "plan" /\ UNCHANGED sent
  /\ UNCHANGED <<card, shown, anchor, created, server, todo, failed, chosen>>

(* Mutant: the schedule is cut from the total.                             *)
CutPlan_Total == SplitEvenly(sales[created].total, sent.plan)

(* The schedule is cut from the balance the server answered with.          *)
CutPlan == SplitEvenly(sales[created].balance, sent.plan)
Planned == sent.plan # None /\ sales[created].balance > 0

(* Mutant: any amounts are taken.                                          *)
PlanRefused_Any == FALSE

(* setPlan takes positive amounts that cover what is due now.              *)
PlanRefused ==
  \/ \E i \in DOMAIN CutPlan: CutPlan[i] <= 0
  \/ Sum(CutPlan) # due[created]

PutPlan ==
  /\ phase = "plan" /\ Planned /\ ~ PlanRefused
  /\ plan' = CutPlan
  /\ \/ phase' = "done" /\ UNCHANGED sent
     \/ "lost" \in Ops /\ BackToForm
  /\ UNCHANGED <<card, shown, form, anchor, created, sales, due, todo, failed, chosen, docs>>

PlanFails ==
  /\ phase = "plan" /\ Planned
  /\ PlanRefused \/ "fail" \in Ops
  /\ BackToForm
  /\ UNCHANGED <<card, shown, form, anchor, created, server, todo, failed, chosen>>

NoPlan ==
  /\ phase = "plan" /\ ~ Planned
  /\ phase' = "done"
  /\ UNCHANGED <<card, shown, form, anchor, sent, created, server, todo, failed, chosen>>

-----------------------------------------------------------------------------
(* An administrator changes the rate card; a payment comes in, of which    *)
(* there is one to a sale, before it has a plan (bounds).                  *)
CardChanges ==
  /\ "card" \in Ops /\ phase # "done"
  /\ card' \in Cards \ {card}
  /\ UNCHANGED <<shown, form, anchor, phase, sent, created, server, todo, failed, chosen>>

Pay(n) ==
  /\ "pay" \in Ops /\ sales # <<>> /\ plan = None
  /\ due[Len(sales)] = sales[Len(sales)].balance
  /\ due' = [due EXCEPT ![Len(sales)] = @ - n]
  /\ UNCHANGED <<card, shown, form, anchor, phase, sent, created, sales, todo, failed, chosen, docs, plan>>

Typing ==
  \/ \E e \in Events: PickEvent(e)
  \/ \E p \in Packages: PickPackage(p)
  \/ ToggleCustomize \/ ToggleFullyCustom
  \/ \E v \in Overrides, named \in BOOLEAN: TypeOverride(v, named)
  \/ \E a \in Addons: ToggleAddon(a)
  \/ \E t \in Taxes: PickTax(t)
  \/ \E d \in Discounts, n \in Deposits, c \in Counts: TypeTerms(d, n, c)

Sending ==
  \/ Submit \/ Create \/ CreateFails \/ Answered \/ AnswerLost
  \/ FlushEnds \/ PutPlan \/ PlanFails \/ NoPlan
  \/ \E f \in Files: StageFile(f) \/ RemoveFile(f) \/ Upload(f) \/ UploadFails(f)

Next == Typing \/ Sending \/ CardChanges \/ \E n \in Amounts: Pay(n)

Spec == Init /\ [][Next]_vars

-----------------------------------------------------------------------------
(* However often the form is sent again after an upload or the plan        *)
(* failed, it makes one sale (createdRef).  Not kept when the answer that  *)
(* carries the sale is lost.                                               *)
OneSale == Len(sales) <= 1

(* Every file wanted is attached once or still on the form, never both nor *)
(* neither, whichever uploads failed and were tried again.                 *)
NoFileLost ==
  \A f \in Files:
    /\ docs[f] <= 1
    /\ phase # "files" => (f \in chosen <=> ((f \in form.staged) # (docs[f] = 1)))

(* And even where answers are lost, none is dropped: what was wanted is    *)
(* attached or still on the form.                                          *)
NoFileDropped ==
  phase # "files" => \A f \in chosen: f \in form.staged \/ docs[f] > 0

(* The plan that is stored covers what is due (generateSchedule, setPlan), *)
(* and the one that the form cuts is taken unless a payment came between.  *)
PlanTiesOut ==
  /\ plan # None => Sum(plan) = due[created] /\ \A i \in DOMAIN plan: plan[i] > 0
  /\ phase = "plan" /\ Planned /\ due[created] = sales[created].balance => ~ PlanRefused

(* An override is of the package that is sold, not of one looked at before.*)
OverrideIsOfPackage == form.customized /\ form.package # None => anchor = form.package

(* What the form lets through the server takes, while the rate card is the *)
(* one shown: the two state their rules apart (packages, sellable;         *)
(* resolveSale).                                                           *)
ReadyIsAccepted == Ready /\ created = None /\ shown = card => ~ Unpriced(card, Dto(form))

(* And the live total is what the sale will cost, to the cent, or to two   *)
(* where half a cent was rounded.                                          *)
PreviewIsPrice ==
  Ready /\ created = None /\ shown = card =>
    ShowsPrice(ShownTotals, Stored(card, Dto(form)))

(* No discount reaches the add-ons: a sale costs at least them and their   *)
(* tax, however much is taken off the package (compute).                   *)
AddonsAtFullPrice ==
  Ready /\ created = None /\ shown = card =>
    LET p == Stored(card, Dto(form))
    IN p.total >= p.addonTotal + AddonTax(p.addonTotal, RateOf(form.addonTax))
=============================================================================
