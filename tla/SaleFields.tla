----------------------------- MODULE SaleFields -----------------------------
(***************************************************************************)
(* The fields that say what was sold, which the form of a new sale         *)
(* (NewSubmission.tsx) and that of an old one (EditSubmission.tsx) share,  *)
(* and what they send.  A package's name, looks and text are renamed or    *)
(* not, as one; its price is overridden apart.                             *)
(***************************************************************************)
EXTENDS Pricing

Empty == [event |-> None, package |-> None, addons |-> {}, customized |-> FALSE, fully |-> FALSE,
          named |-> FALSE, override |-> None, discount |-> [type |-> "PCT", value |-> 0], deposit |-> 0]

FieldsTypeOK(f) ==
  /\ f.event \in Events \cup {None} /\ f.package \in Packages \cup {None}
  /\ f.addons \subseteq Addons
  /\ f.override \in Nat \cup {None}
  /\ f.fully => f.customized

(* The package is one the show's brand sells and its city prices.          *)
Price(card, f) == card.price[f.package][f.event]
OnSale(card, f) == f.package # None /\ f.event # None /\ Price(card, f) # None
Sellable(card, f) == IF OnSale(card, f) THEN card.sells[f.event] ELSE {}

PickedEvent(f, e) == [f EXCEPT !.event = e, !.package = None, !.addons = {}]

(* Mutant: an override outlives the package it was started from.           *)
PickedPackage_KeepsCustom(f, p) == [f EXCEPT !.package = p, !.addons = {}]

PickedPackage(f, p) ==
  [f EXCEPT !.package = p, !.addons = {}, !.customized = FALSE, !.fully = FALSE]

(* The override starts from the package, or from nothing.                  *)
Prefilled(card, f) == [f EXCEPT !.named = TRUE, !.override = Price(card, f)]
Emptied(f) == [f EXCEPT !.named = FALSE, !.override = None]

Customized(card, f) ==
  IF f.customized
  THEN [Emptied(f) EXCEPT !.customized = FALSE, !.fully = FALSE]
  ELSE [Prefilled(card, f) EXCEPT !.customized = TRUE]

FullyCustom(card, f) ==
  IF f.fully THEN [Prefilled(card, f) EXCEPT !.fully = FALSE] ELSE [Emptied(f) EXCEPT !.fully = TRUE]

-----------------------------------------------------------------------------
(* A fully custom package states everything itself.                        *)
CustomReady(f) == f.fully => f.named /\ f.override # None

(* The browser itself holds a percentage to a hundred.                     *)
Complete(f) ==
  /\ f.event # None /\ f.package # None
  /\ CustomReady(f)
  /\ f.discount.type = "PCT" => f.discount.value <= 10000

(* What is sent, of an override only what is on the screen.                *)
SoldAs(f) ==
  [event |-> f.event, package |-> f.package, addons |-> f.addons,
   override |-> IF f.customized THEN f.override ELSE None,
   named |-> f.customized /\ f.named,
   discount |-> f.discount, deposit |-> f.deposit]

(* What the screen may show: only add-ons that it offers are counted.      *)
Totals(card, f, rate, addonRate) ==
  LET base == IF f.customized /\ f.override # None THEN f.override ELSE Price(card, f)
      extras == AddonTotal(card, f.addons \cap Sellable(card, f))
  IN Preview(base, extras, f.discount, rate, IF extras > 0 THEN addonRate ELSE None, f.deposit)

(* The figures that the screen and the sale both have.                     *)
Shared(priced) ==
  [taxable |-> priced.taxable, tax |-> priced.tax, total |-> priced.total, balance |-> priced.balance]

(* To the cent but for halves: the price is among what the screen may show,*)
(* which is that alone where nothing rounded is half a cent, and where     *)
(* something is, the discount is at most a cent too small and the total    *)
(* within two cents, however the halves go.                                *)
ShowsPrice(figures, priced) ==
  /\ Shared(priced) \in figures
  /\ \A f \in figures: f.taxable - priced.taxable \in 0 .. 1 /\ f.total - priced.total \in -2 .. 2
=============================================================================
