----------------------------- MODULE OrderTerms -----------------------------
(***************************************************************************)
(* What an order and its payments are made of.                             *)
(***************************************************************************)
EXTENDS Integers

CONSTANTS
  Orders,         \* carts on their way to an order
  Amount,         \* Order.totalAmount, and so the amount of each payment
  RefundAmounts,  \* amounts an admin asks to refund
  Undefined,      \* the optional amount left out: refund what remains
  Updates,        \* statuses an admin sets a shipment to
  Requests,       \* requests that can be under way at once
  MaxPayments     \* bound on the payments of an order

ASSUME AmountAssumption == Amount \in Nat
ASSUME RefundAmountsAssumption == RefundAmounts \subseteq Int

OrderStatus ==
  {"PENDING", "CONFIRMED", "PROCESSING", "SHIPPED", "DELIVERED",
   "CANCELLED", "RETURNED", "REFUNDED"}

PaymentStatus ==
  {"PENDING", "AUTHORIZED", "PAID", "FAILED", "REFUNDED",
   "PARTIALLY_REFUNDED", "CANCELLED"}

ShipmentStatus ==
  {"PENDING", "PROCESSING", "SHIPPED", "IN_TRANSIT", "DELIVERED", "FAILED",
   "RETURNED"}

ASSUME UndefinedAssumption == Undefined \notin Int
ASSUME UpdatesAssumption == Updates \subseteq ShipmentStatus
=============================================================================
