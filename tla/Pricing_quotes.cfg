\* Every cart of two variants, with one change while it is ordered.
SPECIFICATION PricingSpec
CONSTANTS
  Variants = {v1, v2}
  Prices = {3, 9}
  Quantities = {0, 3}
  Fees <- MCFees
  Thresholds <- MCThresholds
  Rates <- MCRates
  CouponRows <- MCCoupons
  MaxEdits = 1
  Null = Null
SYMMETRY MCSymmetry
INVARIANTS
  PricingTypeOK
  OrderHoldsTogether
  ChargedPageAndTax
  CouponNeverCosts
  QuoteAgrees
CHECK_DEADLOCK FALSE
