--------------------------- MODULE OrderLifecycle ---------------------------
(***************************************************************************)
(* The status of an order and its payments: OrdersService,                 *)
(* PaymentsService, CheckoutService.confirmPayment and                     *)
(* ShippingService.updateShipment.                                         *)
(*                                                                         *)
(* cancelOrder and collectCashOnDelivery run Serializable and re-check     *)
(* what they rely on, so each is one step.  updateShipment writes without  *)
(* looking, so it is one step too.  Every other handler reads first, and   *)
(* writes later what it decided on then: its request holds what it read.   *)
(*                                                                         *)
(* Stock is in Inventory; the two meet in Fulfilment.                      *)
(***************************************************************************)
EXTENDS OrderTerms, Sequences

\* MOCK stands for every method that is not cash on delivery.
PaymentMethod == {"MOCK", "CASH_ON_DELIVERY"}

\* refunded: the sum of the payment's Refund rows, all of them COMPLETED.
Payment == [method: PaymentMethod, status: PaymentStatus, refunded: Nat]

NewPayment(method) == [method |-> method, status |-> "PENDING", refunded |-> 0]

Transitions ==
  [PENDING    |-> {"CONFIRMED", "CANCELLED"},
   CONFIRMED  |-> {"PROCESSING", "CANCELLED", "REFUNDED"},
   PROCESSING |-> {"SHIPPED", "CANCELLED"},
   SHIPPED    |-> {"DELIVERED"},
   DELIVERED  |-> {"RETURNED", "REFUNDED"},
   RETURNED   |-> {"REFUNDED"},
   CANCELLED  |-> {},
   REFUNDED   |-> {}]

Cancellable == {"PENDING", "CONFIRMED", "PROCESSING"}
Reusable == {"PENDING", "AUTHORIZED", "PAID"}
Refundable == {"PAID", "PARTIALLY_REFUNDED"}

VARIABLES
  status,    \* status[o]: the order's status, "NONE" before it exists
  payments,  \* payments[o]: the order's payments, newest last
  shipment,  \* shipment[o]: status of the order's shipment
  request    \* request[r]: what the handler under way has read, if any

lifecycleVars == <<status, payments, shipment, request>>

NoRequest == [op |-> "none"]

Request ==
  {NoRequest}
  \cup [op: {"status"}, order: Orders, to: OrderStatus]
  \cup [op: {"create"}, order: Orders]
  \cup [op: {"confirm"}, order: Orders, payment: Nat]
  \cup [op: {"refund"}, order: Orders, payment: Nat, already: Nat, amount: Nat]

TypeOK ==
  /\ status \in [Orders -> OrderStatus \cup {"NONE"}]
  /\ payments \in [Orders -> Seq(Payment)]
  /\ shipment \in [Orders -> ShipmentStatus]
  /\ request \in [Requests -> Request]

Init ==
  /\ status = [o \in Orders |-> "NONE"]
  /\ payments = [o \in Orders |-> <<>>]
  /\ shipment = [o \in Orders |-> "PENDING"]
  /\ request = [r \in Requests |-> NoRequest]

Placed(o) == status[o] # "NONE"

PaymentsIn(o, statuses) == {i \in DOMAIN payments[o] : payments[o][i].status \in statuses}

\* Payment p in status s, with n more refunded.
Settled(p, s, n) == [p EXCEPT !.status = s, !.refunded = p.refunded + n]

\* Payment i of order o is settled anew.
Settle(o, i, s, n) ==
  payments' = [payments EXCEPT ![o][i] = Settled(payments[o][i], s, n)]

Begin(r, q) ==
  /\ request[r] = NoRequest
  /\ request' = [request EXCEPT ![r] = q]
  /\ UNCHANGED <<status, payments, shipment>>

End(r) == request' = [request EXCEPT ![r] = NoRequest]

-----------------------------------------------------------------------------
(* CheckoutService.                                                        *)

\* createOrder: confirmed at once, to be paid on delivery.
CreateOrder(o) ==
  /\ ~Placed(o)
  /\ status' = [status EXCEPT ![o] = "CONFIRMED"]
  /\ payments' = [payments EXCEPT ![o] = <<NewPayment("CASH_ON_DELIVERY")>>]
  /\ UNCHANGED <<shipment, request>>

\* Mutant: cash is confirmed like any other payment.
Unpaid(p) == p.status # "PAID"

\* confirmPayment looks at the newest payment alone.
Confirmable(p) == p.method # "CASH_ON_DELIVERY" /\ p.status # "PAID"

ConfirmRead(r, o) ==
  /\ Placed(o)
  /\ LET newest == Len(payments[o])
     IN /\ Confirmable(payments[o][newest])
        /\ Begin(r, [op |-> "confirm", order |-> o, payment |-> newest])

\* What became of the payment since then is asked again, of its status only.
ConfirmPaid(r) ==
  /\ request[r].op = "confirm"
  /\ LET o == request[r].order
         i == request[r].payment
     IN /\ payments[o][i].status # "PAID"
        /\ Settle(o, i, "PAID", 0)
        /\ status' = [status EXCEPT ![o] = "CONFIRMED"]
        /\ shipment' = [shipment EXCEPT ![o] = "PENDING"]
  /\ End(r)

ConfirmFailed(r) ==
  /\ request[r].op = "confirm"
  /\ LET o == request[r].order
         i == request[r].payment
     IN payments[o][i].status # "PAID" /\ Settle(o, i, "FAILED", 0)
  /\ End(r)
  /\ UNCHANGED <<status, shipment>>

-----------------------------------------------------------------------------
(* OrdersService.                                                          *)

\* updateOrderStatus, but for CANCELLED, which it hands to cancelOrder.
StatusRead(r, o, to) ==
  /\ Placed(o)
  /\ to # "CANCELLED"
  /\ to = status[o] \/ to \in Transitions[status[o]]
  /\ Begin(r, [op |-> "status", order |-> o, to |-> to])

StatusWrite(r) ==
  /\ request[r].op = "status"
  /\ status' = [status EXCEPT ![request[r].order] = request[r].to]
  /\ End(r)
  /\ UNCHANGED <<payments, shipment>>

Cancel(o) ==
  /\ status[o] \in Cancellable
  /\ PaymentsIn(o, Refundable) = {}
  /\ status' = [status EXCEPT ![o] = "CANCELLED"]
  /\ payments' = [payments EXCEPT ![o] =
                    [i \in DOMAIN @ |->
                       IF @[i].status = "PENDING" THEN Settled(@[i], "CANCELLED", 0)
                       ELSE @[i]]]
  /\ UNCHANGED <<shipment, request>>

-----------------------------------------------------------------------------
(* PaymentsService.                                                        *)

\* createCustomerPayment, when no payment of the order can be used again.
CreateRead(r, o) ==
  /\ Placed(o)
  /\ PaymentsIn(o, Reusable) = {}
  /\ Begin(r, [op |-> "create", order |-> o])

CreateWrite(r, method) ==
  /\ request[r].op = "create"
  /\ LET o == request[r].order
     IN /\ Len(payments[o]) < MaxPayments
        /\ payments' = [payments EXCEPT ![o] = Append(@, NewPayment(method))]
  /\ End(r)
  /\ UNCHANGED <<status, shipment>>

\* Mutant: collection does not look at the order.
Due(o, p) == p.method = "CASH_ON_DELIVERY" /\ p.status = "PENDING"

Collectable(o, p) ==
  /\ status[o] # "CANCELLED"
  /\ p.method = "CASH_ON_DELIVERY"
  /\ p.status = "PENDING"

Collect(o, i) ==
  /\ Collectable(o, payments[o][i])
  /\ Settle(o, i, "PAID", 0)
  /\ UNCHANGED <<status, shipment, request>>

\* Mutant: a refund of nothing, or less.
AtMostRemaining(refund, remaining) == refund <= remaining

Admissible(refund, remaining) == refund > 0 /\ refund <= remaining

\* refundPayment, and refundAdminOrder, which picks the payment.
RefundRead(r, o, i, amount) ==
  LET p == payments[o][i]
      remaining == Amount - p.refunded
      refund == IF amount = Undefined THEN remaining ELSE amount
  IN /\ p.status \in Refundable
     /\ Admissible(refund, remaining)
     /\ Begin(r, [op |-> "refund", order |-> o, payment |-> i,
                  already |-> p.refunded, amount |-> refund])

\* Mutant: every refund is taken for a full one.
Always(already, amount) == TRUE

Full(already, amount) == already + amount >= Amount

\* Neither the payment's status nor its refunds are looked at again.
RefundWrite(r) ==
  /\ request[r].op = "refund"
  /\ LET o == request[r].order
         amount == request[r].amount
         full == Full(request[r].already, amount)
     IN /\ Settle(o, request[r].payment,
                  IF full THEN "REFUNDED" ELSE "PARTIALLY_REFUNDED", amount)
        /\ status' = [status EXCEPT ![o] = IF full THEN "REFUNDED" ELSE @]
  /\ End(r)
  /\ UNCHANGED shipment

\* A request that fails before it writes, rolls back, or, confirming, finds
\* the payment PAID meanwhile.
Abandon(r) ==
  /\ request[r] # NoRequest
  /\ End(r)
  /\ UNCHANGED <<status, payments, shipment>>

-----------------------------------------------------------------------------
(* ShippingService.                                                        *)

UpdateShipment(o, to) ==
  /\ Placed(o)
  /\ shipment' = [shipment EXCEPT ![o] = to]
  /\ status' = [status EXCEPT ![o] = IF to \in {"SHIPPED", "DELIVERED"} THEN to ELSE @]
  /\ UNCHANGED <<payments, request>>

-----------------------------------------------------------------------------
\* What is done to order o in one step.
OrderStep(o) ==
  \/ CreateOrder(o)
  \/ Cancel(o)
  \/ \E i \in DOMAIN payments[o] : Collect(o, i)
  \/ \E to \in Updates : UpdateShipment(o, to)

\* A request reads.
ReadStep(r, o) ==
  \/ ConfirmRead(r, o)
  \/ \E to \in OrderStatus : StatusRead(r, o, to)
  \/ CreateRead(r, o)
  \/ \E i \in DOMAIN payments[o], amount \in RefundAmounts \cup {Undefined} :
       RefundRead(r, o, i, amount)

\* A request that has read writes, or fails.
WriteStep(r) ==
  \/ ConfirmPaid(r)
  \/ ConfirmFailed(r)
  \/ StatusWrite(r)
  \/ \E method \in PaymentMethod : CreateWrite(r, method)
  \/ RefundWrite(r)
  \/ Abandon(r)

Next ==
  \/ \E o \in Orders : OrderStep(o)
  \/ \E r \in Requests, o \in Orders : ReadStep(r, o)
  \/ \E r \in Requests : WriteStep(r)

Spec == Init /\ [][Next]_lifecycleVars

-----------------------------------------------------------------------------
(* Properties.                                                             *)

\* No money is taken for a cancelled order: however collection, confirmation,
\* shipping, status changes and cancellation interleave, an order that is
\* CANCELLED has no payment that is PAID.
CancelledNotPaid ==
  \A o \in Orders : status[o] = "CANCELLED" => PaymentsIn(o, {"PAID"}) = {}

\* A payment called REFUNDED has been paid back in full, whatever refunds of
\* it were under way together.
RefundedIsFull ==
  \A o \in Orders :
    \A i \in PaymentsIn(o, {"REFUNDED"}) : payments[o][i].refunded >= Amount

\* Cash that was paid back, in part or in full, stays marked so: collecting,
\* confirming or cancelling later does not make the payment look settled, or
\* due again.
CashRefundsStick ==
  \A o \in Orders :
    \A i \in DOMAIN payments[o] :
      LET p == payments[o][i]
      IN p.method = "CASH_ON_DELIVERY" =>
           (p.refunded > 0 <=> p.status \in {"REFUNDED", "PARTIALLY_REFUNDED"})

\* A refund cannot exceed the paid amount minus prior refunds.
RefundWithinPaid ==
  \A o \in Orders : \A i \in DOMAIN payments[o] : payments[o][i].refunded <= Amount
=============================================================================
