------------------------------ MODULE SaleEdit ------------------------------
(***************************************************************************)
(* A sale edited: the form of EditSubmission.tsx, filled once from the     *)
(* record the page had when it opened, and update, which prices the sale   *)
(* anew at the taxes it was created with, while others amend and decide it.*)
(***************************************************************************)
EXTENDS SaleFields, TLC

CONSTANTS
  Cards,       \* the rate cards an administrator moves between
  FirstSales,  \* what was sold at first, as forms
  Rates,       \* tax rates a sale was created with: [rate, addonRate]
  Discounts, Overrides, \* what is typed
  Ops          \* what happens: "save"; besides: "card", "other", "decide", "cached"

VARIABLES
  card, shown, \* the rate card of the server and of the page
  sale,        \* the sale as it is stored: sold, rates, figures, status
  stored,      \* the rate card its figures were struck on
  cache,       \* the record in the browser's cache, None before one came
  form,        \* what is on the screen
  seed,        \* the record the form was filled from: "none" yet, the "current"
               \* one, or one "amended" since
  touched,     \* whether something was typed since
  anchor       \* the package whose figures the override belongs to

vars == <<card, shown, sale, stored, cache, form, seed, touched, anchor>>

Statuses == {"PENDING", "RETURNED", "APPROVED", "EXPORTED", "REJECTED", "VOIDED"}
Decided == {"APPROVED", "EXPORTED"}
Users == {"owner", "peer", "accountant"}

SaleEditTypeOK ==
  /\ card \in Cards /\ shown \in Cards /\ stored \in Cards
  /\ FieldsTypeOK(form)
  /\ sale.status \in Statuses
  /\ sale.rate \in Nat /\ sale.addonRate \in Nat \cup {None}
  /\ seed = "none" => form = Empty /\ ~ touched
  /\ cache = None => seed = "none"

(* The figures of what was sold.                                           *)
Struck(c, sold, rate, addonRate) == Priced(c, sold, rate, addonRate)

Init ==
  /\ card \in Cards /\ shown = card /\ stored = card
  /\ \E f \in FirstSales, t \in Rates:
       LET sold == SoldAs(f)
           addonRate == IF sold.addons = {} THEN None ELSE t.addonRate
       IN /\ ~ Refused(card, sold)
          /\ sale = [sold |-> sold, rate |-> t.rate, addonRate |-> addonRate, status |-> "PENDING",
                     figures |-> Struck(card, sold, t.rate, addonRate)]
  /\ cache = None /\ form = Empty /\ seed = "none" /\ touched = FALSE /\ anchor = None

-----------------------------------------------------------------------------
(* Filling the form.  A sale that was customized in part comes back with   *)
(* the other part made explicit: its name, or the price it was sold at.    *)
WasCustomized(r) == r.sold.named \/ r.sold.override # None

(* Mutant: only a renamed package comes back as a customized one.          *)
Filled_Renamed(r) ==
  [Empty EXCEPT
     !.event = r.sold.event, !.package = r.sold.package, !.addons = r.sold.addons,
     !.customized = r.sold.named, !.fully = r.sold.named /\ r.sold.override # None,
     !.named = r.sold.named, !.override = r.sold.override,
     !.discount = r.sold.discount, !.deposit = r.sold.deposit]

Filled(r) ==
  [Empty EXCEPT
     !.event = r.sold.event, !.package = r.sold.package, !.addons = r.sold.addons,
     !.customized = WasCustomized(r), !.fully = r.sold.named /\ r.sold.override # None,
     !.named = TRUE,
     !.override = IF r.sold.override # None THEN r.sold.override ELSE r.figures.base,
     !.discount = r.sold.discount, !.deposit = r.sold.deposit]

(* Mutant: the form is filled again whenever the record is fetched.        *)
Fills_Again == TRUE

Fills == seed = "none"

(* The record is fetched, and fills the form the first time; a page that   *)
(* is opened again is filled from the cache.                               *)
Fetch ==
  /\ cache # sale
  /\ cache' = sale
  /\ IF Fills
     THEN form' = Filled(sale) /\ seed' = "current" /\ touched' = FALSE /\ anchor' = sale.sold.package
     ELSE UNCHANGED <<form, seed, touched, anchor>>
  /\ UNCHANGED <<card, shown, sale, stored>>

Reopen ==
  /\ "cached" \in Ops /\ cache # None
  /\ form' = Filled(cache) /\ touched' = FALSE /\ anchor' = cache.sold.package
  /\ seed' = IF cache.sold = sale.sold /\ cache.figures = sale.figures THEN "current" ELSE "amended"
  /\ UNCHANGED <<card, shown, sale, stored, cache>>

Types(new) ==
  /\ seed # "none" /\ form # new
  /\ form' = new /\ touched' = TRUE
  /\ UNCHANGED <<card, shown, sale, stored, cache, seed>>

PickEvent(e) == form.event # e /\ Types(PickedEvent(form, e)) /\ UNCHANGED anchor

PickPackage(p) ==
  /\ form.event # None /\ form.package # p /\ shown.price[p][form.event] # None
  /\ Types(PickedPackage(form, p))
  /\ UNCHANGED anchor

ToggleCustomize ==
  /\ OnSale(shown, form)
  /\ Types(Customized(shown, form))
  /\ anchor' = form.package

ToggleFullyCustom ==
  /\ OnSale(shown, form) /\ form.customized
  /\ Types(FullyCustom(shown, form))
  /\ UNCHANGED anchor

TypeOverride(v, named) ==
  /\ OnSale(shown, form) /\ form.customized
  /\ Types([form EXCEPT !.override = v, !.named = named])
  /\ UNCHANGED anchor

ToggleAddon(a) ==
  /\ a \in Sellable(shown, form)
  /\ Types([form EXCEPT !.addons = SymDiff(@, {a})])
  /\ UNCHANGED anchor

TypeDiscount(d) == Types([form EXCEPT !.discount = d]) /\ UNCHANGED anchor

-----------------------------------------------------------------------------
(* The page's copy of the server's rule, and the rule.  Mutant: an owner   *)
(* may edit what is decided too.                                           *)
Editable_Own(r, u) ==
  r.status \in Decided \cup {"RETURNED", "PENDING"} /\ u \in {"owner", "accountant"}

Editable(r, u) ==
  IF r.status \in Decided THEN u = "accountant"
  ELSE r.status \in {"RETURNED", "PENDING"} /\ u \in {"owner", "accountant"}

MayUpdate(u) ==
  /\ u \in {"owner", "accountant"}
  /\ sale.status \in Decided => u = "accountant"
  /\ sale.status \notin {"REJECTED", "VOIDED"}

(* The add-ons' tax goes when the last add-on does.                        *)
KeptRate(sold) == IF sold.addons = {} THEN None ELSE sale.addonRate

(* Mutant: the taxes of the day, not those of the sale.                    *)
Repriced_AtFirstRate(c, sold) ==
  [sale EXCEPT !.sold = sold, !.addonRate = KeptRate(sold),
               !.figures = Struck(c, sold, CHOOSE n \in {t.rate: t \in Rates}: TRUE, KeptRate(sold)),
               !.status = IF @ \in Decided THEN @ ELSE "PENDING"]

Repriced(c, sold) ==
  [sale EXCEPT !.sold = sold, !.addonRate = KeptRate(sold),
               !.figures = Struck(c, sold, sale.rate, KeptRate(sold)),
               !.status = IF @ \in Decided THEN @ ELSE "PENDING"]

(* Saved: the browser forgets the record and leaves the page.              *)
Save(u) ==
  /\ "save" \in Ops /\ seed # "none" /\ Editable(cache, u)
  /\ Complete(form)
  /\ MayUpdate(u) /\ ~ Refused(card, SoldAs(form))
  /\ sale' = Repriced(card, SoldAs(form)) /\ stored' = card
  /\ form' = Empty /\ seed' = "none" /\ touched' = FALSE /\ anchor' = None
  /\ cache' = None
  /\ UNCHANGED <<card, shown>>

(* Meanwhile.                                                              *)
OtherSaves(f) ==
  /\ "other" \in Ops
  /\ sale.status \notin {"REJECTED", "VOIDED"} /\ ~ Refused(card, SoldAs(f))
  /\ sale.sold # SoldAs(f)
  /\ sale' = Repriced(card, SoldAs(f)) /\ stored' = card
  /\ seed' = IF seed = "none" THEN seed ELSE "amended"
  /\ UNCHANGED <<card, shown, cache, form, touched, anchor>>

OtherDecides(s) ==
  /\ "decide" \in Ops /\ sale.status # s
  /\ sale' = [sale EXCEPT !.status = s]
  /\ UNCHANGED <<card, shown, stored, cache, form, seed, touched, anchor>>

CardChanges ==
  /\ "card" \in Ops
  /\ card' \in Cards \ {card}
  /\ UNCHANGED <<shown, sale, stored, cache, form, seed, touched, anchor>>

(* A page that is loaded anew has the rate card of the server.             *)
Reload ==
  /\ shown # card \/ seed # "none"
  /\ shown' = card /\ cache' = None
  /\ form' = Empty /\ seed' = "none" /\ touched' = FALSE /\ anchor' = None
  /\ UNCHANGED <<card, sale, stored>>

Next ==
  \/ Fetch \/ Reopen \/ Reload \/ CardChanges
  \/ \E e \in Events: PickEvent(e)
  \/ \E p \in Packages: PickPackage(p)
  \/ ToggleCustomize \/ ToggleFullyCustom
  \/ \E v \in Overrides, named \in BOOLEAN: TypeOverride(v, named)
  \/ \E a \in Addons: ToggleAddon(a)
  \/ \E d \in Discounts: TypeDiscount(d)
  \/ \E u \in Users: Save(u)
  \/ \E f \in FirstSales: OtherSaves(f)
  \/ \E s \in Statuses: OtherDecides(s)

Spec == Init /\ [][Next]_vars

-----------------------------------------------------------------------------
(* What the page shows meanwhile: at the taxes that the sale keeps.        *)
ShownTotals == Totals(shown, form, cache.rate, cache.addonRate)

Fresh == seed # "none" /\ cache = sale /\ shown = card

(* What the form shows before it is saved is what the sale will then cost, *)
(* to the cent, or to two where half a cent was rounded.                   *)
EditIsPrice ==
  Fresh /\ OnSale(card, form) /\ Complete(form) /\ ~ Refused(card, SoldAs(form)) =>
    ShowsPrice(ShownTotals, Repriced(card, SoldAs(form)).figures)

(* An edit that the page offers is one the server takes.                   *)
EditIsAllowed ==
  Fresh => \A u \in Users: Editable(cache, u) => MayUpdate(u)

(* A form that was opened and saved untouched leaves the figures as they   *)
(* were, while the rate card is the one they were struck on: filling the   *)
(* form undoes sending it, customized in part or not.                      *)
UntouchedKeepsFigures ==
  seed = "current" /\ ~ touched /\ card = stored =>
    Repriced(card, SoldAs(form)).figures = sale.figures

(* The override on the screen is of the package on the screen.             *)
EditOverridesItsPackage == form.customized /\ form.package # None => anchor = form.package

(* What is typed stays until it is saved, whatever is fetched meanwhile.   *)
TypedStays == touched /\ cache' # cache /\ cache' # None => form' = form
=============================================================================
