\* Two forms for one order sent together, each checked by itself; nothing is turned
\* down, and no item is on two lines.
SPECIFICATION Spec
CONSTANTS
  Undefined = Undefined
  Orders = {o1}
  Amount = 2
  RefundAmounts = {}
  Updates = {"DELIVERED"}
  Requests = {r1, r2}
  MaxPayments = 1
  OrderItems = {i1}
  Bought <- MCBought
  UnitPrice <- MCUnitPrice
  Forms <- SingleLines
  Decisions = {}
  MaxReturns = 2
INVARIANTS
  ReturnedWithinBought
