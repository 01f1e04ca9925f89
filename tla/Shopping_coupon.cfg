\* One customer, one request at a time: orders that one coupon discounts.
SPECIFICATION Spec
CONSTANTS
  Users = {u1}
  Variants = {v1}
  InitialStock <- MCStock
  Coupons = {k1}
  Limit <- MCLimit
  LimitPerUser <- MCNoLimit
  Quantities = {1}
  Requests = {r1}
  MaxCarts = 2
  MaxAsked = 2
  Undefined = Undefined
INVARIANT UsageLimitKept
CHECK_DEADLOCK FALSE
