\* An order, its payments and its stock, with two requests under way at once.
SPECIFICATION Spec
CONSTANTS
  Undefined = Undefined
  Variants = {v1}
  Orders = {o1}
  Items <- MCItems
  InitialStock <- MCInitialStock
  Edits = {}
  AdjustBy = {}
  SetTo = {}
  SetStatuses = {}
  Amount = 2
  RefundAmounts = {1}
  Updates = {"SHIPPED", "DELIVERED", "RETURNED"}
  Requests = {r1, r2}
  MaxPayments = 2
INVARIANTS
  TypeOK
  CancelledNotPaid
  RefundedIsFull
  CashRefundsStick
  CancelledIsRestored
  PaidOnlineIsTaken
SYMMETRY RequestSymmetry
