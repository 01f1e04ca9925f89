\* Two requests under way at once, of returns or of the other services.
SPECIFICATION Spec
CONSTANTS
  Undefined = Undefined
  Orders = {o1}
  Amount = 2
  RefundAmounts = {}
  Updates = {"DELIVERED"}
  Requests = {r1, r2}
  MaxPayments = 2
  OrderItems = {i1}
  Bought <- MCBought
  UnitPrice <- MCUnitPrice
  Forms <- OneUnit
  Decisions = {"REJECTED"}
  MaxReturns = 2
SYMMETRY RequestSymmetry
INVARIANTS
  TypeOK
  PaidBackOnce
  PaymentsSound
  RefundsBounded
