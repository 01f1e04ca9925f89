\* Two requests under way at once, of one customer, besides the admins.
SPECIFICATION Spec
CONSTANTS
  Users = {u1}
  Variants = {v1}
  InitialStock <- MCStock
  Coupons = {k1}
  Limit <- MCLimit
  LimitPerUser <- MCNoLimit
  Quantities = {1}
  Requests = {r1, r2}
  MaxCarts = 2
  MaxAsked = 2
  Undefined = Undefined
INVARIANTS
  TypeOK
  NothingOrderedTwice
  OneActiveCart
  OrderedCartStaysClosed
SYMMETRY RequestSymmetry
CHECK_DEADLOCK FALSE
