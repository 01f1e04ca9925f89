------------------------------ MODULE Pricing ------------------------------
(***************************************************************************)
(* What a cart costs.  The amounts are computed in four places: the cart   *)
(* (CartService.toCartResponse), the checkout, which orders at what the    *)
(* cart said (CheckoutService.createOrder), the quote of a coupon          *)
(* (CouponsService.validate) and the quote of the shipping                 *)
(* (ShippingService.calculate).  The last two have code of their own.      *)
(*                                                                         *)
(* Amounts are cents.  A percentage and a tax rate are whole percents, so  *)
(* what they make is exact before it is rounded to cents; the code         *)
(* computes it in floating point.                                          *)
(***************************************************************************)
EXTENDS Integers, FiniteSets, FiniteSetsExt

CONSTANTS
  Variants,    \* product variants
  Prices,      \* prices of a variant
  Quantities,  \* quantities of a variant in the cart
  Fees,        \* values of the setting default_shipping_fee
  Thresholds,  \* values of free_shipping_threshold
  Rates,       \* values of tax_rate, in hundredths
  CouponRows,  \* coupons
  MaxEdits,    \* bound on what the admins change
  Null         \* null, and a setting that is missing

Amounts == Nat
Optional(S) == S \cup {Null}

\* used and usedByUser count the CouponUsage rows; open: the time is between
\* startsAt and endsAt.
CouponRow ==
  [type: {"PERCENTAGE", "FIXED_AMOUNT", "FREE_SHIPPING"}, value: Nat,
   status: {"ACTIVE", "INACTIVE"}, open: BOOLEAN,
   minOrderAmount: Optional(Amounts), maxDiscountAmount: Optional(Amounts),
   usageLimit: Optional(Nat), usageLimitPerUser: Optional(Nat),
   used: Nat, usedByUser: Nat]

ASSUME VariantsAssumption == IsFiniteSet(Variants)
ASSUME PricesAssumption == Prices \subseteq Nat /\ Quantities \subseteq Nat
ASSUME SettingsAssumption ==
  /\ Fees \subseteq Optional(Int)
  /\ Thresholds \subseteq Optional(Int)
  /\ Rates \subseteq Optional(Int)
ASSUME CouponsAssumption == CouponRows \subseteq CouponRow
ASSUME MaxEditsAssumption == MaxEdits \in Nat

Methods == {"standard", "express"}
\* A setting is any number, so a fee may be negative, and a total with it.
Totals == [subtotal: Amounts, discount: Amounts, shipping: Int,
           tax: Amounts, total: Int]
OrderLine == [unitPrice: Amounts, quantity: Nat, subtotal: Amounts]

VARIABLES
  row,        \* row[v]: the prices of variant v, which the admins change
  items,      \* items[v]: the quantity in the cart
  setting,    \* the settings in the database, which cart and checkout read
  cached,     \* the public settings in Redis, which the shipping quote reads
  coupon,     \* the coupon on the cart, if any
  validated,  \* what validateCartForCheckout returned, before the order
  order,      \* the order
  edits       \* how often the admins have changed something

pricingVars == <<row, items, setting, cached, coupon, validated, order, edits>>

PriceRow == [price: Prices, salePrice: Optional(Prices)]
Setting == [fee: Fees, threshold: Thresholds, rate: Rates]
PublicSetting == [fee: Fees, threshold: Thresholds]
Cart == [rows: [Variants -> PriceRow], items: [Variants -> Quantities]]

PricingTypeOK ==
  /\ row \in [Variants -> PriceRow]
  /\ items \in [Variants -> Quantities]
  /\ setting \in Setting
  /\ cached \in Optional(PublicSetting)
  /\ coupon \in Optional(CouponRows)
  /\ validated \in Optional([cart: Cart, totals: Totals])
  /\ order \in Optional([lines: [Variants -> OrderLine], totals: Totals])
  /\ edits \in 0 .. MaxEdits

-----------------------------------------------------------------------------
(* Amounts and settings.                                                   *)

\* n / d rounded to cents, halves up.
Money(n, d) == (2 * n + d) \div (2 * d)

ReadNumber(value) == IF value = Null THEN 0 ELSE value

\* Mutant: a negative rate is used as it is.
RateAsGiven(value) == IF value > 100 THEN value ELSE value * 100

\* A rate in ten-thousandths.  A value above 1 is taken for a percentage.
NormalizeTaxRate(value) ==
  IF value > 100 THEN value ELSE Max({value, 0}) * 100

CheckoutSettings ==
  [fee |-> ReadNumber(setting.fee),
   threshold |-> ReadNumber(setting.threshold),
   taxRate |-> NormalizeTaxRate(ReadNumber(setting.rate))]

-----------------------------------------------------------------------------
(* CartService.                                                            *)

PriceOf(r) == IF r.salePrice = Null THEN r.price ELSE r.salePrice

Subtotal(rows, quantity) ==
  SumFunction([v \in Variants |-> PriceOf(rows[v]) * quantity[v]])

Within(n, limit) == limit # Null => n < limit

\* isCouponUsableByCustomer.
CouponUsable(k, subtotal) ==
  /\ k.status = "ACTIVE"
  /\ k.open
  /\ k.minOrderAmount # Null => subtotal >= k.minOrderAmount
  /\ Within(k.used, k.usageLimit)
  /\ Within(k.usedByUser, k.usageLimitPerUser)

\* In hundredths of a cent, before it is rounded.
RawDiscount(k, subtotal) ==
  IF k.type = "PERCENTAGE" THEN subtotal * k.value ELSE 100 * k.value

Capped(k, amount) ==
  IF k.maxDiscountAmount = Null THEN amount
  ELSE Min({amount, 100 * k.maxDiscountAmount})

CouponDiscount(k, subtotal) ==
  IF k.type = "FREE_SHIPPING" THEN 0
  ELSE Money(Min({Capped(k, RawDiscount(k, subtotal)), 100 * subtotal}), 100)

ShippingEstimate(subtotal, s, free) ==
  [standard |-> IF \/ subtotal > 0 /\ s.threshold > 0 /\ subtotal >= s.threshold
                   \/ free
                THEN 0 ELSE s.fee,
   express |-> Max({s.fee * 2, 0})]

\* Mutant: the threshold is held against what is left after the discount.
TotalsOfRest(rows, quantity, k, method) ==
  LET subtotal == Subtotal(rows, quantity)
      usable == k # Null /\ CouponUsable(k, subtotal)
      discount == IF usable THEN CouponDiscount(k, subtotal) ELSE 0
      taxable == Max({subtotal - discount, 0})
      shipping == ShippingEstimate(taxable, CheckoutSettings,
                                   usable /\ k.type = "FREE_SHIPPING")[method]
      tax == Money(taxable * CheckoutSettings.taxRate, 10000)
  IN [subtotal |-> subtotal, discount |-> discount, shipping |-> shipping,
      tax |-> tax, total |-> taxable + shipping + tax]

\* The amounts of toCartResponse.
CartTotals(rows, quantity, k, method) ==
  LET subtotal == Subtotal(rows, quantity)
      usable == k # Null /\ CouponUsable(k, subtotal)
      discount == IF usable THEN CouponDiscount(k, subtotal) ELSE 0
      shipping == ShippingEstimate(subtotal, CheckoutSettings,
                                   usable /\ k.type = "FREE_SHIPPING")[method]
      taxable == Max({subtotal - discount, 0})
      tax == Money(taxable * CheckoutSettings.taxRate, 10000)
  IN [subtotal |-> subtotal, discount |-> discount, shipping |-> shipping,
      tax |-> tax, total |-> taxable + shipping + tax]

\* validateCartForCheckout: the cart is read once, and an empty cart or a
\* coupon that is not valid is refused.
ValidateCart(method) ==
  /\ order = Null
  /\ \E v \in Variants : items[v] > 0
  /\ coupon # Null => CouponUsable(coupon, Subtotal(row, items))
  /\ validated' = [cart |-> [rows |-> row, items |-> items],
                   totals |-> CartTotals(row, items, coupon, method)]
  /\ UNCHANGED <<row, items, setting, cached, coupon, order, edits>>

-----------------------------------------------------------------------------
(* CheckoutService.                                                        *)

\* Mutant: the lines have the prices of the moment.
LinesOfNow(cart) ==
  [v \in Variants |->
     [unitPrice |-> PriceOf(row[v]), quantity |-> cart.items[v],
      subtotal |-> PriceOf(row[v]) * cart.items[v]]]

\* toOrderItemCreateInput, for the items of the cart.
OrderLines(cart) ==
  [v \in Variants |->
     [unitPrice |-> PriceOf(cart.rows[v]), quantity |-> cart.items[v],
      subtotal |-> PriceOf(cart.rows[v]) * cart.items[v]]]

\* createOrder, of the cart as it was validated.
CreateOrder ==
  /\ validated # Null
  /\ order' = [lines |-> OrderLines(validated.cart), totals |-> validated.totals]
  /\ validated' = Null
  /\ UNCHANGED <<row, items, setting, cached, coupon, edits>>

-----------------------------------------------------------------------------
(* The other quotes.                                                       *)

\* CouponsService.assertUsable; usedByUser is 0 when no user is given.
QuoteUsable(k, subtotal, usedByUser) ==
  /\ ~ \/ k.status # "ACTIVE"
       \/ ~k.open
       \/ k.minOrderAmount # Null /\ subtotal < k.minOrderAmount
  /\ ~(k.usageLimit # Null /\ k.used >= k.usageLimit)
  /\ ~(k.usageLimitPerUser # Null /\ usedByUser >= k.usageLimitPerUser)

\* Mutant: the most that the coupon gives is forgotten.
QuoteUncapped(k, subtotal) ==
  IF k.type = "FREE_SHIPPING" THEN 0
  ELSE Money(Min({RawDiscount(k, subtotal), 100 * subtotal}), 100)

\* CouponsService.calculateDiscount.
QuoteDiscount(k, subtotal) ==
  LET raw == IF k.type = "PERCENTAGE" THEN subtotal * k.value ELSE 100 * k.value
      capped == IF k.maxDiscountAmount = Null THEN raw
                ELSE Min({raw, 100 * k.maxDiscountAmount})
  IN IF k.type = "FREE_SHIPPING" THEN 0
     ELSE Money(Min({capped, 100 * subtotal}), 100)

\* validate: the answer for a coupon and an amount, null for a refusal.
Quote(k, subtotal, usedByUser) ==
  IF QuoteUsable(k, subtotal, usedByUser) THEN QuoteDiscount(k, subtotal) ELSE Null

Public(s) == [fee |-> s.fee, threshold |-> s.threshold]

\* ShippingService.getSettings: from Redis, or else from the database.
ShippingSettings == IF cached = Null THEN Public(setting) ELSE cached

\* ShippingService.calculate.
Calculate(subtotal) ==
  LET fee == ReadNumber(ShippingSettings.fee)
      threshold == ReadNumber(ShippingSettings.threshold)
  IN [standard |-> IF subtotal > 0 /\ threshold > 0 /\ subtotal >= threshold
                   THEN 0 ELSE fee,
      express |-> Max({fee * 2, 0})]

-----------------------------------------------------------------------------
(* What the customer is shown before the order.                            *)

\* toCartItemResponse, for the items on the page of the cart or the checkout.
ItemsShown ==
  [v \in Variants |->
     [unitPrice |-> PriceOf(row[v]), quantity |-> items[v],
      subtotal |-> PriceOf(row[v]) * items[v]]]

\* Mutant: the rates are those of ShippingService, which knows no coupon.
QuotedRate(method) == Calculate(Subtotal(row, items))[method]

\* CheckoutService.shippingRate: the rates of the cart that it validates.
ShippingRate(method) == CartTotals(row, items, coupon, method).shipping

\* The total that the checkout page computes.  It leaves the tax out.
PageTotal(method) ==
  LET t == CartTotals(row, items, coupon, "standard")
  IN t.subtotal - t.discount + ShippingRate(method)

-----------------------------------------------------------------------------
(* The admins.                                                             *)

Edit == edits < MaxEdits /\ edits' = edits + 1

UpdatePrice(v) ==
  /\ Edit
  /\ \E r \in PriceRow : row' = [row EXCEPT ![v] = r]
  /\ UNCHANGED <<items, setting, cached, coupon, validated, order>>

\* SettingsService.update, which writes key by key.  The copy in Redis is
\* dropped afterwards, or not at all when the update or Redis fails.
UpdateSettings ==
  /\ Edit
  /\ setting' \in Setting
  /\ UNCHANGED <<row, items, cached, coupon, validated, order>>

\* The invalidation after an update, and the expiry of the copy.
DropSettings ==
  /\ cached # Null
  /\ cached' = Null
  /\ UNCHANGED <<row, items, setting, coupon, validated, order, edits>>

\* publicSettings, for any visitor.  PublicCache has its steps one by one.
StoreSettings ==
  /\ cached = Null
  /\ cached' = Public(setting)
  /\ UNCHANGED <<row, items, setting, coupon, validated, order, edits>>

-----------------------------------------------------------------------------
PricingInit ==
  /\ row \in [Variants -> PriceRow]
  /\ items \in [Variants -> Quantities]
  /\ setting \in Setting
  /\ cached = Null
  /\ coupon \in Optional(CouponRows)
  /\ validated = Null
  /\ order = Null
  /\ edits = 0

PricingNext ==
  \/ \E method \in Methods : ValidateCart(method)
  \/ CreateOrder
  \/ \E v \in Variants : UpdatePrice(v)
  \/ UpdateSettings
  \/ DropSettings
  \/ StoreSettings

PricingSpec == PricingInit /\ [][PricingNext]_pricingVars

-----------------------------------------------------------------------------
(* Properties.                                                             *)

\* An order holds together whatever was changed while it was made: its lines
\* add up to its subtotal, its discount is within it, and its amounts add up to
\* its total.
OrderHoldsTogether ==
  order # Null =>
    LET t == order.totals
    IN /\ t.subtotal = SumFunction([v \in Variants |-> order.lines[v].subtotal])
       /\ t.discount <= t.subtotal
       /\ t.total = t.subtotal - t.discount + t.shipping + t.tax

\* As long as nothing is changed the order has the lines that the customer was
\* shown, and costs the total of the checkout page for one of the two ways of
\* shipping and the tax on top of it, which the page does not show.
ChargedPageAndTax ==
  order # Null /\ edits = 0 =>
    /\ order.lines = ItemsShown
    /\ \E method \in Methods :
         /\ order.totals.shipping = ShippingRate(method)
         /\ order.totals.total = PageTotal(method) + order.totals.tax

\* A coupon never gives more than the goods cost, never makes goods and tax
\* dearer, and leaves the shipping as it is or makes it free: the shipping that
\* the goods earned is not lost by it.  So it never makes the order dearer,
\* unless the admins have set a fee below zero, which a free shipping loses.
CouponNeverCosts ==
  coupon # Null =>
    \A method \in Methods :
      LET with == CartTotals(row, items, coupon, method)
          without == CartTotals(row, items, Null, method)
      IN /\ with.discount <= with.subtotal
         /\ with.total - with.shipping <= without.total - without.shipping
         /\ with.shipping \in {without.shipping, 0}
         /\ ReadNumber(setting.fee) >= 0 => with.total <= without.total

\* Redis has the settings of the database, or none.
SettingsCurrent == cached \in {Null, Public(setting)}

\* What a customer is quoted is what the cart charges: the quote of a coupon is
\* what the cart does with it, and, unless the copy in Redis is behind, the
\* quote of the shipping for a subtotal is what a cart of that subtotal pays, if
\* no coupon makes it free.
QuoteAgrees ==
  LET subtotal == Subtotal(row, items)
  IN /\ coupon # Null =>
          Quote(coupon, subtotal, coupon.usedByUser)
            = IF CouponUsable(coupon, subtotal)
              THEN CartTotals(row, items, coupon, "standard").discount ELSE Null
     /\ SettingsCurrent =>
          Calculate(subtotal)
            = [method \in Methods |-> CartTotals(row, items, Null, method).shipping]
=============================================================================
