\* Two refunds of a payment at once.
SPECIFICATION Spec
CONSTANTS
  Undefined = Undefined
  Orders = {o1}
  Amount = 2
  RefundAmounts = {1}
  Updates = {"SHIPPED", "DELIVERED", "RETURNED"}
  Requests = {r1, r2}
  MaxPayments = 1
INVARIANTS
  RefundWithinPaid
