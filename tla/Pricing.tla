------------------------------ MODULE Pricing -------------------------------
(***************************************************************************)
(* What a sale costs: the engine that prices it (pricing.service.ts), the  *)
(* checks of what was sold against the rate card (resolveSale), and the    *)
(* browser's copies of the arithmetic (lib/pricing.ts,                     *)
(* lib/installments.ts).  Money is in cents, a discount's value in cents   *)
(* or hundredths of a percent, a tax rate in thousandths of a percent.     *)
(* The server computes exactly.  The browser rounds binary fractions, so   *)
(* what it shows is one of a set of figures: see Cents.                    *)
(***************************************************************************)
EXTENDS Integers, FiniteSetsExt

CONSTANTS
  Events,      \* shows; a show has a brand, a city and so a currency
  Packages, Addons,
  Taxes,       \* tax profiles
  None

(* The rate card: what a package costs at a show (None: not its brand, or  *)
(* no price for the city), the add-ons of the show's brand and currency,   *)
(* their prices, and the rate of each profile there is.                    *)
RateCard == [price: [Packages -> [Events -> Nat \cup {None}]],
             sells: [Events -> SUBSET Addons],
             addon: [Addons -> Nat],
             rate: [Taxes -> Nat \cup {None}]]

(* Halves away from zero, of amounts that are not negative.                *)
HalfUp(num, den) == (2 * num + den) \div (2 * den)

AddonTotal(card, addons) == MapThenSumSet(LAMBDA a: card.addon[a], addons)

-----------------------------------------------------------------------------
(* The server.                                                             *)
DiscountAmount(base, discount) ==
  IF discount.type = "PCT" THEN HalfUp(base * discount.value, 10000) ELSE discount.value

(* Mutant: a discount may take more than the package.                      *)
Applied_Uncapped(base, discount) == DiscountAmount(base, discount)

Applied(base, discount) == Min({DiscountAmount(base, discount), base})

Taxable(base, addonTotal, discount) == Max({0, base + addonTotal - Applied(base, discount)})

AddonTax(addonTotal, addonRate) ==
  IF addonRate = None THEN 0 ELSE HalfUp(addonTotal * addonRate, 100000)

TaxAmount(base, addonTotal, discount, rate, addonRate) ==
  IF addonRate = None
  THEN HalfUp(Taxable(base, addonTotal, discount) * rate, 100000)
  ELSE HalfUp(Max({0, base - Applied(base, discount)}) * rate, 100000) + AddonTax(addonTotal, addonRate)

PayStatus(paid, total) ==
  IF paid >= total /\ total > 0 THEN "PAID" ELSE IF paid > 0 THEN "PARTIAL" ELSE "UNPAID"

Compute(base, addonTotal, discount, rate, addonRate, deposit) ==
  LET taxable == Taxable(base, addonTotal, discount)
      tax == TaxAmount(base, addonTotal, discount, rate, addonRate)
  IN [base |-> base, addonTotal |-> addonTotal, taxable |-> taxable, tax |-> tax,
      total |-> taxable + tax, balance |-> taxable + tax - deposit,
      payStatus |-> PayStatus(deposit, taxable + tax)]

(* What was sold, as the form sends it: custom says that the package was   *)
(* renamed or repriced, override is the price given for it, if one was.    *)
Refused(card, dto) ==
  \/ card.price[dto.package][dto.event] = None
  \/ ~ dto.addons \subseteq card.sells[dto.event]
  \/ dto.discount.type = "PCT" /\ dto.discount.value > 10000

(* What it costs, at the taxes given: those picked, or, on an edit, those  *)
(* the sale was created with.                                              *)
Priced(card, dto, rate, addonRate) ==
  Compute(IF dto.override # None THEN dto.override ELSE card.price[dto.package][dto.event],
          AddonTotal(card, dto.addons), dto.discount, rate,
          IF dto.addons = {} THEN None ELSE addonRate, dto.deposit)

-----------------------------------------------------------------------------
(* The browser, whose figures are binary fractions (r2).  A product that   *)
(* is half a cent may come out a little below the half and then loses it:  *)
(* 50 % off 2.01 is 1.00 on the screen and 1.01 on the sale.  Nothing else *)
(* is near enough to a half for the error of a few products to matter.  So *)
(* a half goes to either side here, and a preview is the set of figures    *)
(* that it may show.                                                       *)
Cents(num, den) == {HalfUp(num, den), (2 * num + den - 1) \div (2 * den)}

DiscountPreview(base, discount) ==
  {Max({0, Min({raw, base})}) :
     raw \in IF discount.type = "AMT" THEN {discount.value} ELSE Cents(base * discount.value, 10000)}

(* Mutant: one tax on everything, before the discount is known.            *)
TaxPreview_Together(packageNet, addonTotal, rate, addonRate) ==
  Cents((packageNet + addonTotal) * rate, 100000)

TaxPreview(packageNet, addonTotal, rate, addonRate) ==
  IF addonRate = None
  THEN Cents((packageNet + addonTotal) * rate, 100000)
  ELSE {packageTax + addonTax : packageTax \in Cents(packageNet * rate, 100000),
                                addonTax \in Cents(addonTotal * addonRate, 100000)}

Preview(base, addonTotal, discount, rate, addonRate, deposit) ==
  UNION {LET taxable == Max({0, base + addonTotal - off})
         IN {[taxable |-> taxable, tax |-> tax, total |-> taxable + tax,
              balance |-> taxable + tax - deposit] :
               tax \in TaxPreview(Max({0, base - off}), addonTotal, rate, addonRate)} :
           off \in DiscountPreview(base, discount)}
=============================================================================
