------------------------ MODULE OrderLifecycleProofs ------------------------
(***************************************************************************)
(* Proofs about OrderLifecycle, for any orders, amounts and number of      *)
(* requests under way, and any bound on the payments of an order.          *)
(***************************************************************************)
EXTENDS OrderLifecycle, TLAPS

-----------------------------------------------------------------------------
(* The inductive invariant.                                                *)

\* What RefundedIsFull says of one payment.
Sound(p) == p.status = "REFUNDED" => p.refunded >= Amount

PaymentsSound == \A o \in Orders : \A i \in DOMAIN payments[o] : Sound(payments[o][i])

\* What a request has read stays true in part: the order is there, and so is its
\* payment, of the same method, and at least as much of it is refunded.  No
\* request turns an order CANCELLED.
Agrees(q) ==
  q.op # "none" =>
    /\ Placed(q.order)
    /\ q.op = "status" => q.to \notin {"CANCELLED", "NONE"}
    /\ q.op \in {"confirm", "refund"} => q.payment \in DOMAIN payments[q.order]
    /\ q.op = "confirm" => payments[q.order][q.payment].method # "CASH_ON_DELIVERY"
    /\ q.op = "refund" => q.amount > 0 /\ q.already <= payments[q.order][q.payment].refunded

RequestsAgree == \A r \in Requests : Agrees(request[r])

\* A placed order has a payment, an order not placed has none.
PaidOnPlacing == \A o \in Orders : Placed(o) <=> payments[o] # <<>>

Core ==
  /\ TypeOK
  /\ PaymentsSound
  /\ RequestsAgree
  /\ PaidOnPlacing
  /\ CancelledNotPaid

\* What CashRefundsStick says of one payment.
CashMarked(p) ==
  p.method = "CASH_ON_DELIVERY" =>
    (p.refunded > 0 <=> p.status \in {"REFUNDED", "PARTIALLY_REFUNDED"})

\* Core is inductive by itself, and stays so when returns are paid back as well;
\* of cash nothing but these handlers keeps what CashRefundsStick says.
IInv == Core /\ CashRefundsStick

-----------------------------------------------------------------------------
(* What settling a payment does.                                           *)

LEMMA SettledPayment ==
  ASSUME NEW p \in Payment, NEW s \in PaymentStatus, NEW n \in Nat
  PROVE  /\ Settled(p, s, n) \in Payment
         /\ Settled(p, s, n).status = s
         /\ Settled(p, s, n).method = p.method
         /\ Settled(p, s, n).refunded = p.refunded + n
  <1>1. p.refunded + n \in Nat
    BY DEF Payment
  <1> DEFINE m == p.refunded + n
  <1> HIDE DEF m
  <1>2. /\ [p EXCEPT !.status = s, !.refunded = m] \in Payment
        /\ [p EXCEPT !.status = s, !.refunded = m].status = s
        /\ [p EXCEPT !.status = s, !.refunded = m].method = p.method
        /\ [p EXCEPT !.status = s, !.refunded = m].refunded = m
    BY <1>1 DEF Payment, m
  <1>3. QED
    BY <1>2 DEF Settled, m

LEMMA SettleEffect ==
  ASSUME TypeOK, NEW o \in Orders, NEW i \in DOMAIN payments[o],
         NEW s \in PaymentStatus, NEW n \in Nat, Settle(o, i, s, n)
  PROVE  /\ payments' \in [Orders -> Seq(Payment)]
         /\ \A o2 \in Orders : DOMAIN payments'[o2] = DOMAIN payments[o2]
         /\ payments'[o][i] = Settled(payments[o][i], s, n)
         /\ \A o2 \in Orders : \A j \in DOMAIN payments[o2] :
              <<o2, j>> # <<o, i>> => payments'[o2][j] = payments[o2][j]
  <1> DEFINE p == Settled(payments[o][i], s, n)
  <1>1. payments[o] \in Seq(Payment) /\ payments[o][i] \in Payment
    BY DEF TypeOK
  <1>2. p \in Payment
    BY <1>1, SettledPayment
  <1>3. payments' = [payments EXCEPT ![o] = [payments[o] EXCEPT ![i] = p]]
    BY DEF Settle, TypeOK
  <1> HIDE DEF p
  <1>4. [payments[o] EXCEPT ![i] = p] \in Seq(Payment)
    BY <1>1, <1>2
  <1>5. QED
    BY <1>1, <1>2, <1>3, <1>4 DEF TypeOK, p

\* Requests that agree with the payments go on agreeing with them when
\* payments are only added, or refunded further.
LEMMA RequestsKept ==
  ASSUME Core,
         \A o \in Orders : \A i \in DOMAIN payments[o] :
           /\ i \in DOMAIN payments'[o]
           /\ payments'[o][i].method = payments[o][i].method
           /\ payments'[o][i].refunded \in Nat
           /\ payments'[o][i].refunded >= payments[o][i].refunded,
         \A o \in Orders : Placed(o) => Placed(o)',
         \A r \in Requests : request'[r] \in {request[r], NoRequest}
  PROVE  RequestsAgree'
  <1>1. ASSUME NEW r \in Requests PROVE Agrees(request[r])'
    <2>1. CASE request'[r] = NoRequest
      BY <2>1 DEF Agrees, NoRequest
    <2>2. CASE request'[r] = request[r] /\ request[r].op # "none"
      <3>1. request[r].order \in Orders /\ Agrees(request[r])
        BY <2>2 DEF Core, TypeOK, Request, NoRequest, RequestsAgree
      <3>2. CASE request[r].op \notin {"confirm", "refund"}
        BY <2>2, <3>1, <3>2 DEF Agrees
      <3>3. CASE request[r].op = "confirm"
        BY <2>2, <3>1, <3>3 DEF Agrees
      <3>4. CASE request[r].op = "refund"
        <4>1. request[r].already \in Nat
          BY <3>4 DEF Core, TypeOK, Request, NoRequest
        <4>2. payments[request[r].order][request[r].payment] \in Payment
          BY <2>2, <3>1, <3>4 DEF Core, TypeOK, Agrees
        <4>3. QED
          BY <2>2, <3>1, <3>4, <4>1, <4>2 DEF Agrees, Payment
      <3>5. QED
        BY <3>2, <3>3, <3>4
    <2>3. CASE request'[r] = request[r] /\ request[r].op = "none"
      BY <2>3 DEF Agrees
    <2>4. QED
      BY <2>1, <2>2, <2>3
  <1>2. QED
    BY <1>1 DEF RequestsAgree

\* Settling a payment soundly keeps everything but what depends on the order.
LEMMA SettleKeeps ==
  ASSUME Core, NEW o \in Orders, NEW i \in DOMAIN payments[o],
         NEW s \in PaymentStatus, NEW n \in Nat, Settle(o, i, s, n),
         Sound(Settled(payments[o][i], s, n)),
         \A o2 \in Orders : Placed(o2) => Placed(o2)',
         \A r \in Requests : request'[r] \in {request[r], NoRequest}
  PROVE  /\ payments' \in [Orders -> Seq(Payment)]
         /\ PaymentsSound'
         /\ RequestsAgree'
         /\ \A o2 \in Orders : payments'[o2] # <<>> <=> payments[o2] # <<>>
         /\ \A o2 \in Orders : o2 # o => payments'[o2] = payments[o2]
         /\ \A j \in DOMAIN payments'[o] :
              payments'[o][j].status \in {payments[o][j].status, s}
         /\ DOMAIN payments'[o] = DOMAIN payments[o]
  <1>1. TypeOK
    BY DEF Core
  <1>2. /\ payments' \in [Orders -> Seq(Payment)]
        /\ \A o2 \in Orders : DOMAIN payments'[o2] = DOMAIN payments[o2]
        /\ payments'[o][i] = Settled(payments[o][i], s, n)
        /\ \A o2 \in Orders : \A j \in DOMAIN payments[o2] :
             <<o2, j>> # <<o, i>> => payments'[o2][j] = payments[o2][j]
    BY <1>1, SettleEffect
  <1>3. payments[o][i] \in Payment
    BY <1>1 DEF TypeOK
  <1>4. /\ Settled(payments[o][i], s, n).status = s
        /\ Settled(payments[o][i], s, n).method = payments[o][i].method
        /\ Settled(payments[o][i], s, n).refunded = payments[o][i].refunded + n
    BY <1>3, SettledPayment
  <1>5. ASSUME NEW o2 \in Orders, NEW j \in DOMAIN payments'[o2]
        PROVE  Sound(payments'[o2][j])
    <2>1. CASE <<o2, j>> = <<o, i>>
      BY <1>2, <2>1
    <2>2. CASE <<o2, j>> # <<o, i>>
      BY <1>2, <2>2 DEF Core, PaymentsSound
    <2>3. QED
      BY <2>1, <2>2
  <1>6. PaymentsSound'
    BY <1>5 DEF PaymentsSound, Sound
  <1>7. ASSUME NEW o2 \in Orders, NEW j \in DOMAIN payments[o2]
        PROVE  /\ j \in DOMAIN payments'[o2]
               /\ payments'[o2][j].method = payments[o2][j].method
               /\ payments'[o2][j].refunded \in Nat
               /\ payments'[o2][j].refunded >= payments[o2][j].refunded
    <2>1. payments[o2][j] \in Payment
      BY <1>1 DEF TypeOK
    <2>2. CASE <<o2, j>> = <<o, i>>
      BY <1>2, <1>3, <1>4, <2>2 DEF Payment
    <2>3. CASE <<o2, j>> # <<o, i>>
      BY <1>2, <2>1, <2>3 DEF Payment
    <2>4. QED
      BY <2>2, <2>3
  <1>8. RequestsAgree'
    BY <1>7, RequestsKept
  <1>9. ASSUME NEW o2 \in Orders
        PROVE  payments'[o2] # <<>> <=> payments[o2] # <<>>
    <2>1. payments[o2] \in Seq(Payment) /\ payments'[o2] \in Seq(Payment)
      BY <1>1, <1>2 DEF TypeOK
    <2>2. DOMAIN payments[o2] = DOMAIN payments'[o2]
      BY <1>2
    <2>3. Len(payments[o2]) = Len(payments'[o2])
      BY <2>1, <2>2
    <2>4. QED
      BY <2>1, <2>3
  <1>10. \A o2 \in Orders : o2 # o => payments'[o2] = payments[o2]
    BY <1>1 DEF Settle, TypeOK
  <1>11. \A j \in DOMAIN payments'[o] : payments'[o][j].status \in {payments[o][j].status, s}
    BY <1>2, <1>4
  <1>12. QED
    BY <1>2, <1>6, <1>8, <1>9, <1>10, <1>11

-----------------------------------------------------------------------------
(* The invariant is inductive: one lemma for each kind of step.            *)

LEMMA InitCore == Init => Core
  BY DEF Init, Core, TypeOK, OrderStatus, ShipmentStatus, Request, NoRequest,
         PaymentsSound, RequestsAgree, Agrees, PaidOnPlacing, Placed,
         CancelledNotPaid

\* A step that leaves payments alone and turns no order CANCELLED.
LEMMA PaymentsUnchanged ==
  ASSUME Core, payments' = payments,
         \A o \in Orders :
           \/ status'[o] = status[o]
           \/ Placed(o) /\ status'[o] \notin {"CANCELLED", "NONE"}
  PROVE  /\ PaymentsSound'
         /\ PaidOnPlacing'
         /\ CancelledNotPaid'
         /\ \A o \in Orders : Placed(o) => Placed(o)'
  <1>1. PaymentsSound'
    BY DEF Core, PaymentsSound, Sound
  <1>2. PaidOnPlacing'
    BY DEF Core, PaidOnPlacing, Placed
  <1>3. CancelledNotPaid'
    BY DEF Core, CancelledNotPaid, PaymentsIn
  <1>4. QED
    BY <1>1, <1>2, <1>3 DEF Placed

\* The same of a step that starts no request either.
LEMMA UnchangedKeeps ==
  ASSUME Core, payments' = payments,
         \A o \in Orders :
           \/ status'[o] = status[o]
           \/ Placed(o) /\ status'[o] \notin {"CANCELLED", "NONE"},
         \A r \in Requests : request'[r] \in {request[r], NoRequest}
  PROVE  PaymentsSound' /\ PaidOnPlacing' /\ CancelledNotPaid' /\ RequestsAgree'
  <1>1. \A o \in Orders : \A i \in DOMAIN payments[o] :
          /\ i \in DOMAIN payments'[o]
          /\ payments'[o][i].method = payments[o][i].method
          /\ payments'[o][i].refunded \in Nat
          /\ payments'[o][i].refunded >= payments[o][i].refunded
    <2>1. ASSUME NEW o \in Orders, NEW i \in DOMAIN payments[o]
          PROVE  payments[o][i].refunded \in Nat
      <3>1. payments[o][i] \in Payment
        BY DEF Core, TypeOK
      <3>2. QED
        BY <3>1 DEF Payment
    <2>2. QED
      BY <2>1
  <1>2. QED
    BY <1>1, PaymentsUnchanged, RequestsKept

\* A read adds a request that agrees with the payments.
LEMMA BeginKeeps ==
  ASSUME Core, NEW r \in Requests, NEW q \in Request, Begin(r, q), Agrees(q)
  PROVE  Core'
  <1>1. TypeOK'
    BY DEF Begin, Core, TypeOK
  <1>2. PaymentsSound' /\ PaidOnPlacing' /\ CancelledNotPaid'
    <2>1. status' = status /\ payments' = payments /\ status \in [Orders -> OrderStatus \cup {"NONE"}]
      BY DEF Begin, Core, TypeOK
    <2>2. QED
      BY <2>1, PaymentsUnchanged
  <1>3. request' = [request EXCEPT ![r] = q] /\ request \in [Requests -> Request]
    BY DEF Begin, Core, TypeOK
  <1>4. RequestsAgree'
    <2>1. \A r2 \in Requests : request'[r2] = q \/ request'[r2] = request[r2]
      BY <1>3
    <2>2. \A r2 \in Requests : Agrees(request'[r2])
      BY <2>1 DEF Core, RequestsAgree
    <2>3. payments' = payments /\ status' = status
      BY DEF Begin
    <2>4. QED
      BY <2>2, <2>3 DEF RequestsAgree, Agrees, Placed
  <1>5. QED
    BY <1>1, <1>2, <1>4 DEF Core

LEMMA ReadKeeps ==
  ASSUME Core, NEW r \in Requests, NEW o \in Orders, ReadStep(r, o)
  PROVE  Core'
  <1>1. CASE ConfirmRead(r, o)
    <2> DEFINE newest == Len(payments[o])
    <2>1. payments[o] \in Seq(Payment) /\ payments[o] # <<>>
      BY <1>1 DEF ConfirmRead, Core, TypeOK, PaidOnPlacing
    <2>2. newest \in DOMAIN payments[o] /\ newest \in Nat
      BY <2>1
    <2> DEFINE q == [op |-> "confirm", order |-> o, payment |-> newest]
    <2>3. Placed(o) /\ Begin(r, q) /\ payments[o][newest].method # "CASH_ON_DELIVERY"
      BY <1>1 DEF ConfirmRead, Confirmable
    <2>4. q \in Request
      BY <2>2 DEF Request
    <2>5. Agrees(q)
      BY <2>2, <2>3 DEF Agrees
    <2>6. QED
      BY <2>3, <2>4, <2>5, BeginKeeps
  <1>2. ASSUME NEW to \in OrderStatus, StatusRead(r, o, to) PROVE Core'
    <2> DEFINE q == [op |-> "status", order |-> o, to |-> to]
    <2>1. Placed(o) /\ Begin(r, q) /\ to \notin {"CANCELLED", "NONE"}
      BY <1>2 DEF StatusRead, OrderStatus
    <2>2. q \in Request
      BY DEF Request
    <2>3. QED
      BY <2>1, <2>2, BeginKeeps DEF Agrees
  <1>3. CASE CreateRead(r, o)
    <2> DEFINE q == [op |-> "create", order |-> o]
    <2>1. Placed(o) /\ Begin(r, q) /\ q \in Request
      BY <1>3 DEF CreateRead, Request
    <2>2. QED
      BY <2>1, BeginKeeps DEF Agrees
  <1>4. ASSUME NEW i \in DOMAIN payments[o], NEW amount \in RefundAmounts \cup {Undefined},
               RefundRead(r, o, i, amount)
        PROVE  Core'
    <2> DEFINE p == payments[o][i]
               refund == IF amount = Undefined THEN Amount - p.refunded ELSE amount
               q == [op |-> "refund", order |-> o, payment |-> i,
                     already |-> p.refunded, amount |-> refund]
    <2>1. payments[o] \in Seq(Payment) /\ p \in Payment
      BY DEF Core, TypeOK
    <2>2. i \in Nat /\ p.refunded \in Nat
      BY <2>1 DEF Payment
    <2>3. Begin(r, q) /\ refund > 0
      BY <1>4 DEF RefundRead, Admissible
    <2>8. Placed(o)
      <3>1. payments[o] # <<>>
        BY <2>1
      <3>2. QED
        BY <3>1 DEF Core, PaidOnPlacing
    <2>4. refund \in Nat
      <3>1. refund \in Int
        BY <2>2, AmountAssumption, RefundAmountsAssumption
      <3>2. QED
        BY <2>3, <3>1
    <2> HIDE DEF refund
    <2>5. q \in Request
      BY <2>2, <2>4 DEF Request
    <2>6. Agrees(q)
      BY <2>2, <2>3, <2>4, <2>8 DEF Agrees
    <2>7. QED
      BY <2>3, <2>5, <2>6, BeginKeeps
  <1>5. QED
    BY <1>1, <1>2, <1>3, <1>4 DEF ReadStep

LEMMA EndType ==
  ASSUME TypeOK, NEW r \in Requests, End(r)
  PROVE  /\ request' \in [Requests -> Request]
         /\ \A r2 \in Requests : request'[r2] \in {request[r2], NoRequest}
  BY DEF TypeOK, End, Request

\* Confirmations touch MOCK payments only, which nothing is required of but
\* that a REFUNDED one is refunded.
LEMMA ConfirmKeeps ==
  ASSUME Core, NEW r \in Requests, ConfirmPaid(r) \/ ConfirmFailed(r)
  PROVE  Core'
  <1> DEFINE o == request[r].order
             i == request[r].payment
             s == IF ConfirmPaid(r) THEN "PAID" ELSE "FAILED"
  <1>1. /\ request[r].op = "confirm"
        /\ Settle(o, i, s, 0)
        /\ End(r)
        /\ payments[o][i].status # "PAID"
    BY DEF ConfirmPaid, ConfirmFailed
  <1>2. o \in Orders
    BY <1>1 DEF Core, TypeOK, Request, NoRequest
  <1>3. Placed(o) /\ i \in DOMAIN payments[o] /\ payments[o][i].method # "CASH_ON_DELIVERY"
    BY <1>1 DEF Core, RequestsAgree, Agrees
  <1>4. payments[o][i] \in Payment /\ s \in PaymentStatus
    BY <1>2, <1>3 DEF Core, TypeOK, PaymentStatus
  <1>5. Sound(Settled(payments[o][i], s, 0))
    BY <1>3, <1>4, SettledPayment DEF Sound
  <1>6. /\ request' \in [Requests -> Request]
        /\ \A r2 \in Requests : request'[r2] \in {request[r2], NoRequest}
    BY <1>1, EndType DEF Core
  <1>7. /\ payments' \in [Orders -> Seq(Payment)]
        /\ PaymentsSound'
        /\ RequestsAgree'
        /\ \A o2 \in Orders : payments'[o2] # <<>> <=> payments[o2] # <<>>
        /\ \A o2 \in Orders : o2 # o => payments'[o2] = payments[o2]
        /\ \A j \in DOMAIN payments'[o] : payments'[o][j].status \in {payments[o][j].status, s}
    <2>1. \A o2 \in Orders : Placed(o2) => Placed(o2)'
      BY <1>2 DEF ConfirmPaid, ConfirmFailed, Core, TypeOK, Placed
    <2>2. QED
      BY <1>1, <1>2, <1>3, <1>4, <1>5, <1>6, <2>1, SettleKeeps
  <1>10. CASE ConfirmPaid(r)
    <2>1. status' = [status EXCEPT ![o] = "CONFIRMED"] /\ shipment' = [shipment EXCEPT ![o] = "PENDING"]
      BY <1>10 DEF ConfirmPaid
    <2>2. TypeOK'
      BY <1>2, <1>6, <1>7, <2>1 DEF Core, TypeOK, OrderStatus, ShipmentStatus
    <2>3. PaidOnPlacing'
      BY <1>2, <1>7, <1>3, <2>1 DEF Core, TypeOK, PaidOnPlacing, Placed
    <2>4. CancelledNotPaid'
      BY <1>2, <1>7, <2>1 DEF Core, TypeOK, CancelledNotPaid, PaymentsIn
    <2>5. QED
      BY <1>7, <2>2, <2>3, <2>4 DEF Core
  <1>11. CASE ~ConfirmPaid(r)
    <2>1. UNCHANGED <<status, shipment>> /\ s = "FAILED"
      BY <1>11 DEF ConfirmFailed
    <2>2. TypeOK'
      BY <1>6, <1>7, <2>1 DEF Core, TypeOK
    <2>3. PaidOnPlacing'
      BY <1>7, <2>1 DEF Core, PaidOnPlacing, Placed
    <2>4. CancelledNotPaid'
      <3>1. ASSUME NEW o2 \in Orders, status[o2] = "CANCELLED", NEW j \in DOMAIN payments'[o2],
                   payments'[o2][j].status = "PAID"
            PROVE  FALSE
        <4>1. CASE o2 = o
          <5>1. DOMAIN payments'[o] = DOMAIN payments[o]
            BY <1>1, <1>2, <1>3, <1>4, SettleEffect DEF Core
          <5>2. payments[o][j].status = "PAID" /\ j \in DOMAIN payments[o]
            BY <1>7, <2>1, <3>1, <4>1, <5>1
          <5>3. QED
            BY <3>1, <4>1, <5>2 DEF Core, CancelledNotPaid, PaymentsIn
        <4>2. CASE o2 # o
          BY <1>7, <3>1, <4>2 DEF Core, CancelledNotPaid, PaymentsIn
        <4>3. QED
          BY <4>1, <4>2
      <3>2. QED
        BY <2>1, <3>1 DEF CancelledNotPaid, PaymentsIn
    <2>5. QED
      BY <1>7, <2>2, <2>3, <2>4 DEF Core
  <1>12. QED
    BY <1>10, <1>11

LEMMA StatusKeeps ==
  ASSUME Core, NEW r \in Requests, StatusWrite(r)
  PROVE  Core'
  <1> DEFINE o == request[r].order
             to == request[r].to
  <1>1. o \in Orders /\ to \in OrderStatus /\ to \notin {"CANCELLED", "NONE"} /\ Placed(o)
    BY DEF StatusWrite, Core, TypeOK, Request, NoRequest, RequestsAgree, Agrees
  <1>2. /\ request' \in [Requests -> Request]
        /\ \A r2 \in Requests : request'[r2] \in {request[r2], NoRequest}
    BY EndType DEF Core, StatusWrite
  <1>3. /\ payments' = payments /\ shipment' = shipment
        /\ status' = [status EXCEPT ![o] = to]
        /\ status \in [Orders -> OrderStatus \cup {"NONE"}]
    BY DEF StatusWrite, Core, TypeOK
  <1>4. TypeOK'
    BY <1>1, <1>2, <1>3 DEF Core, TypeOK
  <1>5. PaymentsSound' /\ PaidOnPlacing' /\ CancelledNotPaid' /\ RequestsAgree'
    BY <1>1, <1>2, <1>3, UnchangedKeeps
  <1>6. QED
    BY <1>4, <1>5 DEF Core

LEMMA ShipmentKeeps ==
  ASSUME Core, NEW o \in Orders, NEW to \in Updates, UpdateShipment(o, to)
  PROVE  Core'
  <1>1. to \in ShipmentStatus
    BY UpdatesAssumption
  <1>2. /\ payments' = payments /\ request' = request
        /\ shipment' = [shipment EXCEPT ![o] = to]
        /\ status' = [status EXCEPT ![o] = IF to \in {"SHIPPED", "DELIVERED"} THEN to ELSE status[o]]
        /\ Placed(o)
    BY DEF UpdateShipment
  <1>3. TypeOK'
    BY <1>1, <1>2 DEF Core, TypeOK, OrderStatus
  <1>4. \A o2 \in Orders :
           \/ status'[o2] = status[o2]
           \/ Placed(o2) /\ status'[o2] \notin {"CANCELLED", "NONE"}
    BY <1>2 DEF Core, TypeOK
  <1>5. PaymentsSound' /\ PaidOnPlacing' /\ CancelledNotPaid' /\ RequestsAgree'
    BY <1>2, <1>4, UnchangedKeeps
  <1>6. QED
    BY <1>3, <1>5 DEF Core

LEMMA AbandonKeeps ==
  ASSUME Core, NEW r \in Requests, Abandon(r)
  PROVE  Core'
  <1>1. /\ request' \in [Requests -> Request]
        /\ \A r2 \in Requests : request'[r2] \in {request[r2], NoRequest}
    BY EndType DEF Core, Abandon
  <1>2. payments' = payments /\ status' = status /\ shipment' = shipment
    BY DEF Abandon
  <1>3. TypeOK'
    BY <1>1, <1>2 DEF Core, TypeOK
  <1>4. PaymentsSound' /\ PaidOnPlacing' /\ CancelledNotPaid' /\ RequestsAgree'
    BY <1>1, <1>2, UnchangedKeeps
  <1>5. QED
    BY <1>3, <1>4 DEF Core

\* Cash is collected only where it is due: never for a cancelled order.
LEMMA CollectKeeps ==
  ASSUME Core, NEW o \in Orders, NEW i \in DOMAIN payments[o], Collect(o, i)
  PROVE  Core'
  <1>1. /\ status[o] # "CANCELLED"
        /\ payments[o][i].status = "PENDING"
        /\ Settle(o, i, "PAID", 0)
        /\ status' = status /\ shipment' = shipment /\ request' = request
    BY DEF Collect, Collectable
  <1>2. payments[o][i] \in Payment /\ "PAID" \in PaymentStatus /\ 0 \in Nat
    BY DEF Core, TypeOK, PaymentStatus
  <1>4. Sound(Settled(payments[o][i], "PAID", 0))
    BY <1>2, SettledPayment DEF Sound
  <1>5. /\ \A o2 \in Orders : Placed(o2) => Placed(o2)'
        /\ \A r \in Requests : request'[r] \in {request[r], NoRequest}
    BY <1>1 DEF Placed
  <1>6. /\ payments' \in [Orders -> Seq(Payment)]
        /\ PaymentsSound'
        /\ RequestsAgree'
        /\ \A o2 \in Orders : payments'[o2] # <<>> <=> payments[o2] # <<>>
        /\ \A o2 \in Orders : o2 # o => payments'[o2] = payments[o2]
    BY <1>1, <1>2, <1>4, <1>5, SettleKeeps
  <1>7. TypeOK' /\ PaidOnPlacing'
    BY <1>1, <1>6 DEF Core, TypeOK, PaidOnPlacing, Placed
  <1>8. CancelledNotPaid'
    BY <1>1, <1>6 DEF Core, CancelledNotPaid, PaymentsIn
  <1>9. QED
    BY <1>6, <1>7, <1>8 DEF Core

\* A refund adds to what is refunded, so what it read is a lower bound.
LEMMA RefundKeeps ==
  ASSUME Core, NEW r \in Requests, RefundWrite(r)
  PROVE  Core'
  <1> DEFINE o == request[r].order
             i == request[r].payment
             already == request[r].already
             amount == request[r].amount
             s == IF Full(already, amount) THEN "REFUNDED" ELSE "PARTIALLY_REFUNDED"
  <1>1. /\ request[r].op = "refund"
        /\ Settle(o, i, s, amount)
        /\ status' = [status EXCEPT ![o] = IF Full(already, amount) THEN "REFUNDED" ELSE status[o]]
        /\ shipment' = shipment
        /\ End(r)
    BY DEF RefundWrite
  <1>2. o \in Orders /\ already \in Nat /\ amount \in Nat
    BY <1>1 DEF Core, TypeOK, Request, NoRequest
  <1>3. /\ Placed(o)
        /\ i \in DOMAIN payments[o]
        /\ amount > 0
        /\ already <= payments[o][i].refunded
    BY <1>1 DEF Core, RequestsAgree, Agrees
  <1>4. payments[o][i] \in Payment /\ s \in PaymentStatus
    BY <1>2, <1>3 DEF Core, TypeOK, PaymentStatus
  <1>5. Sound(Settled(payments[o][i], s, amount))
    <2>1. payments[o][i].refunded \in Nat
      BY <1>4 DEF Payment
    <2>2. s = "REFUNDED" => payments[o][i].refunded + amount >= Amount
      BY <1>2, <1>3, <2>1, AmountAssumption DEF Full
    <2> HIDE DEF s
    <2>3. QED
      BY <1>2, <1>4, <2>2, SettledPayment DEF Sound
  <1>6. /\ request' \in [Requests -> Request]
        /\ \A r2 \in Requests : request'[r2] \in {request[r2], NoRequest}
    BY <1>1, EndType DEF Core
  <1>7. \A o2 \in Orders :
           \/ status'[o2] = status[o2]
           \/ o2 = o /\ status'[o2] = "REFUNDED"
    BY <1>1, <1>2 DEF Core, TypeOK
  <1>8. \A o2 \in Orders : Placed(o2) => Placed(o2)'
    BY <1>7 DEF Placed
  <1>9. /\ payments' \in [Orders -> Seq(Payment)]
        /\ PaymentsSound'
        /\ RequestsAgree'
        /\ \A o2 \in Orders : payments'[o2] # <<>> <=> payments[o2] # <<>>
        /\ \A o2 \in Orders : o2 # o => payments'[o2] = payments[o2]
        /\ \A j \in DOMAIN payments'[o] : payments'[o][j].status \in {payments[o][j].status, s}
        /\ DOMAIN payments'[o] = DOMAIN payments[o]
    BY <1>1, <1>2, <1>3, <1>4, <1>5, <1>6, <1>8, SettleKeeps
  <1>10. TypeOK'
    BY <1>1, <1>2, <1>6, <1>9 DEF Core, TypeOK, OrderStatus
  <1>11. PaidOnPlacing'
    BY <1>3, <1>7, <1>9 DEF Core, PaidOnPlacing, Placed
  <1>12. ASSUME NEW o2 \in Orders, status'[o2] = "CANCELLED", NEW j \in DOMAIN payments'[o2]
         PROVE  payments'[o2][j].status # "PAID"
    <2>1. status[o2] = "CANCELLED"
      BY <1>7, <1>12
    <2>2. \A k \in DOMAIN payments[o2] : payments[o2][k].status # "PAID"
      BY <2>1 DEF Core, CancelledNotPaid, PaymentsIn
    <2>3. CASE o2 = o
      BY <1>9, <2>2, <2>3
    <2>4. CASE o2 # o
      BY <1>9, <2>2, <2>4
    <2>5. QED
      BY <2>3, <2>4
  <1>13. CancelledNotPaid'
    BY <1>12 DEF CancelledNotPaid, PaymentsIn
  <1>14. QED
    BY <1>9, <1>10, <1>11, <1>13 DEF Core

\* The payments of an order that appears, or gets one more: the new one is due,
\* and nothing of it is refunded.
LEMMA NewPaymentSound ==
  ASSUME NEW method \in PaymentMethod
  PROVE  /\ NewPayment(method) \in Payment
         /\ Sound(NewPayment(method))
         /\ NewPayment(method).status = "PENDING"
         /\ NewPayment(method).refunded = 0
  BY DEF NewPayment, Payment, PaymentStatus, Sound

LEMMA CreateOrderKeeps ==
  ASSUME Core, NEW o \in Orders, CreateOrder(o)
  PROVE  Core'
  <1> DEFINE p == NewPayment("CASH_ON_DELIVERY")
  <1>1. p \in Payment /\ Sound(p) /\ p.status = "PENDING"
    BY NewPaymentSound DEF PaymentMethod
  <1>2. /\ ~Placed(o)
        /\ status' = [status EXCEPT ![o] = "CONFIRMED"]
        /\ payments' = [payments EXCEPT ![o] = <<p>>]
        /\ shipment' = shipment
        /\ request' = request
    BY DEF CreateOrder
  <1> HIDE DEF p
  <1>3. <<p>> \in Seq(Payment) /\ DOMAIN <<p>> = {1} /\ <<p>>[1] = p /\ <<p>> # <<>>
    BY <1>1
  <1>4. TypeOK'
    BY <1>1, <1>2 DEF Core, TypeOK, OrderStatus
  <1>5. PaymentsSound'
    <2>1. \A o2 \in Orders : \A i \in DOMAIN payments'[o2] : Sound(payments'[o2][i])
      BY <1>1, <1>2, <1>3 DEF Core, TypeOK, PaymentsSound
    <2>2. QED
      BY <2>1 DEF PaymentsSound, Sound
  <1>6. RequestsAgree'
    <2>1. ASSUME NEW r \in Requests PROVE Agrees(request[r])'
      <3>1. CASE request[r].op = "none"
        BY <1>2, <3>1 DEF Agrees
      <3>2. CASE request[r].op # "none"
        <4>1. request[r].order \in Orders /\ Agrees(request[r])
          BY <3>2 DEF Core, TypeOK, Request, NoRequest, RequestsAgree
        <4>2. request[r].order # o
          BY <1>2, <3>2, <4>1 DEF Agrees
        <4>3. payments'[request[r].order] = payments[request[r].order] /\ status'[request[r].order] = status[request[r].order]
          BY <1>2, <4>1, <4>2 DEF Core, TypeOK
        <4>4. QED
          BY <1>2, <4>1, <4>3 DEF Agrees, Placed
      <3>3. QED
        BY <3>1, <3>2
    <2>2. QED
      BY <2>1 DEF RequestsAgree
  <1>7. PaidOnPlacing'
    BY <1>2, <1>3 DEF Core, TypeOK, PaidOnPlacing, Placed
  <1>8. CancelledNotPaid'
    BY <1>2 DEF Core, TypeOK, CancelledNotPaid, PaymentsIn
  <1>9. QED
    BY <1>4, <1>5, <1>6, <1>7, <1>8 DEF Core

LEMMA CreateWriteKeeps ==
  ASSUME Core, NEW r \in Requests, NEW method \in PaymentMethod, CreateWrite(r, method)
  PROVE  Core'
  <1> DEFINE o == request[r].order
             p == NewPayment(method)
  <1>1. p \in Payment /\ Sound(p) /\ p.status = "PENDING"
    BY NewPaymentSound
  <1>2. /\ request[r].op = "create"
        /\ payments' = [payments EXCEPT ![o] = Append(payments[o], p)]
        /\ status' = status /\ shipment' = shipment
        /\ End(r)
    BY DEF CreateWrite
  <1> HIDE DEF p
  <1>3. o \in Orders /\ Placed(o)
    BY <1>2 DEF Core, TypeOK, Request, NoRequest, RequestsAgree, Agrees
  <1>4. /\ request' \in [Requests -> Request]
        /\ \A r2 \in Requests : request'[r2] \in {request[r2], NoRequest}
    BY <1>2, EndType DEF Core
  <1>5. payments[o] \in Seq(Payment) /\ payments \in [Orders -> Seq(Payment)]
    BY <1>3 DEF Core, TypeOK
  <1> DEFINE n == Len(payments[o])
             appended == Append(payments[o], p)
  <1>6. /\ appended \in Seq(Payment)
        /\ DOMAIN payments[o] = 1 .. n
        /\ DOMAIN appended = 1 .. n + 1
        /\ appended[n + 1] = p
        /\ \A i \in 1 .. n : appended[i] = payments[o][i]
        /\ appended # <<>>
        /\ n \in Nat
    BY <1>1, <1>5
  <1>7. payments'[o] = appended /\ \A o2 \in Orders : o2 # o => payments'[o2] = payments[o2]
    BY <1>2, <1>3, <1>5
  <1>8. payments' \in [Orders -> Seq(Payment)]
    BY <1>2, <1>5, <1>6
  <1> HIDE DEF n, appended
  <1>9. TypeOK'
    BY <1>2, <1>4, <1>8 DEF Core, TypeOK
  <1>10. \A i \in DOMAIN appended : appended[i] = p \/ (i \in DOMAIN payments[o] /\ appended[i] = payments[o][i])
    BY <1>6
  <1>11. PaymentsSound'
    <2>1. ASSUME NEW o2 \in Orders, NEW i \in DOMAIN payments'[o2] PROVE Sound(payments'[o2][i])
      <3>1. CASE o2 = o
        BY <1>1, <1>3, <1>7, <1>10, <3>1 DEF Core, PaymentsSound
      <3>2. CASE o2 # o
        BY <1>7, <3>2 DEF Core, PaymentsSound
      <3>3. QED
        BY <3>1, <3>2
    <2>2. QED
      BY <2>1 DEF PaymentsSound, Sound
  <1>12. RequestsAgree'
    <2>1. ASSUME NEW o2 \in Orders, NEW i \in DOMAIN payments[o2]
          PROVE  /\ i \in DOMAIN payments'[o2]
                 /\ payments'[o2][i] = payments[o2][i]
                 /\ payments[o2][i] \in Payment
      <3>1. payments[o2][i] \in Payment
        BY DEF Core, TypeOK
      <3>2. CASE o2 = o
        BY <1>6, <1>7, <3>1, <3>2
      <3>3. CASE o2 # o
        BY <1>7, <3>1, <3>3
      <3>4. QED
        BY <3>2, <3>3
    <2>2. ASSUME NEW o2 \in Orders, NEW i \in DOMAIN payments[o2]
          PROVE  /\ i \in DOMAIN payments'[o2]
                 /\ payments'[o2][i].method = payments[o2][i].method
                 /\ payments'[o2][i].refunded \in Nat
                 /\ payments'[o2][i].refunded >= payments[o2][i].refunded
      BY <2>1 DEF Payment
    <2>3. \A o2 \in Orders : Placed(o2) => Placed(o2)'
      BY <1>2 DEF Placed
    <2>4. QED
      BY <1>4, <2>2, <2>3, RequestsKept
  <1>13. PaidOnPlacing'
    BY <1>2, <1>3, <1>6, <1>7 DEF Core, PaidOnPlacing, Placed
  <1>14. CancelledNotPaid'
    <2>1. ASSUME NEW o2 \in Orders, status[o2] = "CANCELLED", NEW i \in DOMAIN payments'[o2]
          PROVE  payments'[o2][i].status # "PAID"
      <3>1. \A k \in DOMAIN payments[o2] : payments[o2][k].status # "PAID"
        BY <2>1 DEF Core, CancelledNotPaid, PaymentsIn
      <3>2. CASE o2 = o
        BY <1>1, <1>7, <1>10, <3>1, <3>2
      <3>3. CASE o2 # o
        BY <1>7, <3>1, <3>3
      <3>4. QED
        BY <3>2, <3>3
    <2>2. QED
      BY <1>2, <2>1 DEF CancelledNotPaid, PaymentsIn
  <1>15. QED
    BY <1>9, <1>11, <1>12, <1>13, <1>14 DEF Core

\* Cancelling finds no payment PAID, and makes none so.
LEMMA CancelKeeps ==
  ASSUME Core, NEW o \in Orders, Cancel(o)
  PROVE  Core'
  <1> DEFINE cancelled ==
               [i \in DOMAIN payments[o] |->
                  IF payments[o][i].status = "PENDING" THEN Settled(payments[o][i], "CANCELLED", 0)
                  ELSE payments[o][i]]
  <1>1. /\ status[o] \in Cancellable
        /\ PaymentsIn(o, Refundable) = {}
        /\ status' = [status EXCEPT ![o] = "CANCELLED"]
        /\ payments' = [payments EXCEPT ![o] = cancelled]
        /\ shipment' = shipment
        /\ request' = request
    BY DEF Cancel
  <1>2. Placed(o)
    BY <1>1 DEF Placed, Cancellable
  <1>3. payments[o] \in Seq(Payment) /\ payments \in [Orders -> Seq(Payment)]
    BY DEF Core, TypeOK
  <1>4. ASSUME NEW i \in DOMAIN payments[o]
        PROVE  /\ cancelled[i] \in Payment
               /\ cancelled[i].method = payments[o][i].method
               /\ cancelled[i].refunded = payments[o][i].refunded
               /\ cancelled[i].status # "PAID"
               /\ Sound(cancelled[i])
    <2>1. payments[o][i] \in Payment
      BY <1>3
    <2>2. Sound(payments[o][i])
      BY DEF Core, PaymentsSound
    <2>3. payments[o][i].refunded \in Nat
      BY <2>1 DEF Payment
    <2>4. CASE payments[o][i].status = "PENDING"
      <3> DEFINE p == Settled(payments[o][i], "CANCELLED", 0)
      <3>1. "CANCELLED" \in PaymentStatus /\ 0 \in Nat
        BY DEF PaymentStatus
      <3>2. /\ p \in Payment
            /\ p.status = "CANCELLED"
            /\ p.method = payments[o][i].method
            /\ p.refunded = payments[o][i].refunded
        BY <2>1, <2>3, <3>1, SettledPayment
      <3>3. cancelled[i] = p
        BY <2>4
      <3> HIDE DEF p, cancelled
      <3>4. Sound(p)
        BY <2>2, <2>4, <3>2 DEF Sound
      <3>5. QED
        BY <3>2, <3>3, <3>4
    <2>5. CASE payments[o][i].status # "PENDING"
      <3>1. cancelled[i] = payments[o][i]
        BY <2>5
      <3>2. payments[o][i].status # "PAID"
        BY <1>1 DEF PaymentsIn, Refundable
      <3> HIDE DEF cancelled
      <3>3. QED
        BY <2>1, <2>2, <3>1, <3>2
    <2>6. QED
      BY <2>4, <2>5
  <1>5. DOMAIN cancelled = DOMAIN payments[o]
    OBVIOUS
  <1>6. cancelled \in Seq(Payment)
    <2> DEFINE n == Len(payments[o])
    <2>1. DOMAIN payments[o] = 1 .. n /\ n \in Nat
      BY <1>3
    <2>2. cancelled \in [1 .. n -> Payment]
      BY <1>4, <2>1
    <2> HIDE DEF cancelled, n
    <2>3. QED
      BY <2>1, <2>2
  <1> HIDE DEF cancelled
  <1>7. payments'[o] = cancelled /\ \A o2 \in Orders : o2 # o => payments'[o2] = payments[o2]
    BY <1>1, <1>3
  <1>8. TypeOK'
    BY <1>1, <1>3, <1>6 DEF Core, TypeOK, OrderStatus
  <1>9. PaymentsSound'
    <2>1. ASSUME NEW o2 \in Orders, NEW i \in DOMAIN payments'[o2] PROVE Sound(payments'[o2][i])
      <3>1. CASE o2 = o
        BY <1>4, <1>5, <1>7, <3>1
      <3>2. CASE o2 # o
        BY <1>7, <3>2 DEF Core, PaymentsSound
      <3>3. QED
        BY <3>1, <3>2
    <2>2. QED
      BY <2>1 DEF PaymentsSound, Sound
  <1>10. RequestsAgree'
    <2>1. ASSUME NEW o2 \in Orders, NEW i \in DOMAIN payments[o2]
          PROVE  /\ i \in DOMAIN payments'[o2]
                 /\ payments'[o2][i].method = payments[o2][i].method
                 /\ payments'[o2][i].refunded \in Nat
                 /\ payments'[o2][i].refunded >= payments[o2][i].refunded
      <3>1. payments[o2][i] \in Payment
        BY DEF Core, TypeOK
      <3>2. payments[o2][i].refunded \in Nat
        BY <3>1 DEF Payment
      <3>3. CASE o2 = o
        BY <1>4, <1>5, <1>7, <3>2, <3>3
      <3>4. CASE o2 # o
        BY <1>7, <3>2, <3>4
      <3>5. QED
        BY <3>3, <3>4
    <2>2. \A o2 \in Orders : Placed(o2) => Placed(o2)'
      BY <1>1 DEF Core, TypeOK, Placed
    <2>3. QED
      BY <1>1, <2>1, <2>2, RequestsKept
  <1>11. PaidOnPlacing'
    <2>1. payments[o] # <<>>
      BY <1>2 DEF Core, PaidOnPlacing
    <2>2. 1 \in DOMAIN payments[o]
      BY <1>3, <2>1
    <2>3. payments'[o] # <<>>
      BY <1>5, <1>7, <2>2
    <2>4. QED
      BY <1>1, <1>2, <1>7, <2>1, <2>3 DEF Core, TypeOK, PaidOnPlacing, Placed
  <1>12. CancelledNotPaid'
    <2>1. ASSUME NEW o2 \in Orders, status'[o2] = "CANCELLED", NEW i \in DOMAIN payments'[o2]
          PROVE  payments'[o2][i].status # "PAID"
      <3>1. CASE o2 = o
        BY <1>4, <1>5, <1>7, <3>1
      <3>2. CASE o2 # o
        <4>1. status[o2] = "CANCELLED"
          BY <1>1, <2>1, <3>2 DEF Core, TypeOK
        <4>2. QED
          BY <1>7, <3>2, <4>1 DEF Core, CancelledNotPaid, PaymentsIn
      <3>3. QED
        BY <3>1, <3>2
    <2>2. QED
      BY <2>1 DEF CancelledNotPaid, PaymentsIn
  <1>13. QED
    BY <1>8, <1>9, <1>10, <1>11, <1>12 DEF Core

\* Every step keeps it.
LEMMA StepKeeps ==
  ASSUME Core, [Next]_lifecycleVars
  PROVE  Core'
  <1>1. ASSUME NEW o \in Orders, OrderStep(o) PROVE Core'
    BY <1>1, CreateOrderKeeps, CancelKeeps, CollectKeeps, ShipmentKeeps DEF OrderStep
  <1>2. ASSUME NEW r \in Requests, NEW o \in Orders, ReadStep(r, o) PROVE Core'
    BY <1>2, ReadKeeps
  <1>3. ASSUME NEW r \in Requests, WriteStep(r) PROVE Core'
    BY <1>3, ConfirmKeeps, StatusKeeps, CreateWriteKeeps, RefundKeeps, AbandonKeeps
    DEF WriteStep
  <1>4. CASE UNCHANGED lifecycleVars
    BY <1>4 DEF lifecycleVars, Core, TypeOK, PaymentsSound, Sound, RequestsAgree, Agrees,
                PaidOnPlacing, Placed, CancelledNotPaid, PaymentsIn
  <1>5. QED
    BY <1>1, <1>2, <1>3, <1>4 DEF Next

-----------------------------------------------------------------------------
(* Cash that was paid back stays marked.                                   *)

LEMMA SettleMarks ==
  ASSUME Core, CashRefundsStick, NEW o \in Orders, NEW i \in DOMAIN payments[o],
         NEW s \in PaymentStatus, NEW n \in Nat, Settle(o, i, s, n),
         CashMarked(Settled(payments[o][i], s, n))
  PROVE  CashRefundsStick'
  <1>1. /\ \A o2 \in Orders : DOMAIN payments'[o2] = DOMAIN payments[o2]
        /\ payments'[o][i] = Settled(payments[o][i], s, n)
        /\ \A o2 \in Orders : \A j \in DOMAIN payments[o2] :
             <<o2, j>> # <<o, i>> => payments'[o2][j] = payments[o2][j]
    BY SettleEffect DEF Core
  <1>2. ASSUME NEW o2 \in Orders, NEW j \in DOMAIN payments'[o2]
        PROVE  CashMarked(payments'[o2][j])
    <2>1. CASE <<o2, j>> = <<o, i>>
      BY <1>1, <2>1
    <2>2. CASE <<o2, j>> # <<o, i>>
      BY <1>1, <2>2 DEF CashRefundsStick, CashMarked
    <2> QED BY <2>1, <2>2
  <1> QED BY <1>2 DEF CashRefundsStick, CashMarked

\* What is confirmed is not cash.
LEMMA ConfirmMarks ==
  ASSUME Core, CashRefundsStick, NEW r \in Requests, ConfirmPaid(r) \/ ConfirmFailed(r)
  PROVE  CashRefundsStick'
  <1> DEFINE o == request[r].order
             i == request[r].payment
  <1>1. PICK s \in {"PAID", "FAILED"} : request[r].op = "confirm" /\ Settle(o, i, s, 0)
    BY DEF ConfirmPaid, ConfirmFailed
  <1>2. o \in Orders
    BY <1>1 DEF Core, TypeOK, Request, NoRequest
  <1>3. i \in DOMAIN payments[o] /\ payments[o][i].method # "CASH_ON_DELIVERY"
    BY <1>1 DEF Core, RequestsAgree, Agrees
  <1>4. payments[o][i] \in Payment /\ s \in PaymentStatus
    BY <1>2, <1>3 DEF Core, TypeOK, PaymentStatus
  <1>5. CashMarked(Settled(payments[o][i], s, 0))
    BY <1>3, <1>4, SettledPayment DEF CashMarked
  <1> QED BY <1>1, <1>2, <1>3, <1>4, <1>5, SettleMarks

\* Of what is due nothing has been paid back.
LEMMA CollectMarks ==
  ASSUME Core, CashRefundsStick, NEW o \in Orders, NEW i \in DOMAIN payments[o], Collect(o, i)
  PROVE  CashRefundsStick'
  <1> DEFINE p == Settled(payments[o][i], "PAID", 0)
  <1>1. payments[o][i] \in Payment /\ "PAID" \in PaymentStatus
    BY DEF Core, TypeOK, PaymentStatus
  <1>2. payments[o][i].status = "PENDING" /\ CashMarked(payments[o][i])
    BY DEF Collect, Collectable, CashRefundsStick, CashMarked
  <1>3. payments[o][i].refunded \in Nat
    BY <1>1 DEF Payment
  <1>4. p.status = "PAID" /\ p.method = payments[o][i].method
          /\ p.refunded = payments[o][i].refunded
    BY <1>1, <1>3, SettledPayment
  <1> HIDE DEF p
  <1>5. CashMarked(p)
    BY <1>2, <1>4 DEF CashMarked
  <1> QED BY <1>1, <1>5, SettleMarks DEF Collect, p

\* A refund is of something.
LEMMA RefundMarks ==
  ASSUME Core, CashRefundsStick, NEW r \in Requests, RefundWrite(r)
  PROVE  CashRefundsStick'
  <1> DEFINE o == request[r].order
             i == request[r].payment
             n == request[r].amount
  <1>1. PICK s \in {"REFUNDED", "PARTIALLY_REFUNDED"} :
          request[r].op = "refund" /\ Settle(o, i, s, n)
    BY DEF RefundWrite
  <1>2. o \in Orders /\ n \in Nat
    BY <1>1 DEF Core, TypeOK, Request, NoRequest
  <1>3. i \in DOMAIN payments[o] /\ n > 0
    BY <1>1 DEF Core, RequestsAgree, Agrees
  <1>4. payments[o][i] \in Payment /\ s \in PaymentStatus
    BY <1>2, <1>3 DEF Core, TypeOK, PaymentStatus
  <1>5. payments[o][i].refunded + n > 0
    BY <1>2, <1>3, <1>4 DEF Payment
  <1>6. CashMarked(Settled(payments[o][i], s, n))
    BY <1>2, <1>4, <1>5, SettledPayment DEF CashMarked
  <1> QED BY <1>1, <1>2, <1>3, <1>4, <1>6, SettleMarks

LEMMA CreateMarks ==
  ASSUME Core, CashRefundsStick,
         \/ \E o \in Orders : CreateOrder(o)
         \/ \E r \in Requests, method \in PaymentMethod : CreateWrite(r, method)
  PROVE  CashRefundsStick'
  <1>1. PICK o \in Orders, method \in PaymentMethod :
          payments' \in {[payments EXCEPT ![o] = <<NewPayment(method)>>],
                         [payments EXCEPT ![o] = Append(payments[o], NewPayment(method))]}
    <2>1. ASSUME NEW o \in Orders, CreateOrder(o)
          PROVE  payments' = [payments EXCEPT ![o] = <<NewPayment("CASH_ON_DELIVERY")>>]
      BY <2>1 DEF CreateOrder
    <2>2. ASSUME NEW r \in Requests, NEW method \in PaymentMethod, CreateWrite(r, method)
          PROVE  \E o \in Orders :
                   payments' = [payments EXCEPT ![o] = Append(payments[o], NewPayment(method))]
      <3>1. request[r].order \in Orders
        BY <2>2 DEF CreateWrite, Core, TypeOK, Request, NoRequest
      <3> QED BY <2>2, <3>1 DEF CreateWrite
    <2>3. "CASH_ON_DELIVERY" \in PaymentMethod
      BY DEF PaymentMethod
    <2> QED BY <2>1, <2>2, <2>3
  <1> DEFINE p == NewPayment(method)
  <1>2. p \in Payment /\ CashMarked(p)
    BY DEF NewPayment, Payment, PaymentStatus, CashMarked
  <1> HIDE DEF p
  <1>3. payments[o] \in Seq(Payment) /\ payments \in [Orders -> Seq(Payment)]
    BY DEF Core, TypeOK
  <1>4. \A j \in DOMAIN payments'[o] :
          payments'[o][j] = p \/ (j \in DOMAIN payments[o] /\ payments'[o][j] = payments[o][j])
    <2>1. CASE payments' = [payments EXCEPT ![o] = <<p>>]
      BY <1>3, <2>1
    <2>2. CASE payments' = [payments EXCEPT ![o] = Append(payments[o], p)]
      <3>1. payments'[o] = Append(payments[o], p)
        BY <1>3, <2>2
      <3> QED BY <1>2, <1>3, <3>1
    <2> QED BY <1>1, <2>1, <2>2 DEF p
  <1>5. \A o2 \in Orders : o2 # o => payments'[o2] = payments[o2]
    BY <1>1, <1>3
  <1>6. \A o2 \in Orders : \A j \in DOMAIN payments[o2] : CashMarked(payments[o2][j])
    BY DEF CashRefundsStick, CashMarked
  <1>7. \A o2 \in Orders : \A j \in DOMAIN payments'[o2] : CashMarked(payments'[o2][j])
    BY <1>2, <1>4, <1>5, <1>6
  <1> QED BY <1>7 DEF CashRefundsStick, CashMarked

\* What is cancelled was due.
LEMMA CancelMarks ==
  ASSUME Core, CashRefundsStick, NEW o \in Orders, Cancel(o)
  PROVE  CashRefundsStick'
  <1>1. /\ DOMAIN payments'[o] = DOMAIN payments[o]
        /\ \A i \in DOMAIN payments[o] :
             payments'[o][i] = IF payments[o][i].status = "PENDING"
                               THEN Settled(payments[o][i], "CANCELLED", 0) ELSE payments[o][i]
        /\ \A o2 \in Orders : o2 # o => payments'[o2] = payments[o2]
    BY DEF Cancel, Core, TypeOK
  <1>2. ASSUME NEW o2 \in Orders, NEW j \in DOMAIN payments'[o2]
        PROVE  CashMarked(payments'[o2][j])
    <2>1. j \in DOMAIN payments[o2] /\ CashMarked(payments[o2][j])
      BY <1>1 DEF CashRefundsStick, CashMarked
    <2>2. CASE payments'[o2][j] = payments[o2][j]
      BY <2>1, <2>2
    <2>3. CASE payments[o2][j].status = "PENDING"
                 /\ payments'[o2][j] = Settled(payments[o2][j], "CANCELLED", 0)
      <3>1. payments[o2][j] \in Payment /\ "CANCELLED" \in PaymentStatus /\ 0 \in Nat
        BY <2>1 DEF Core, TypeOK, PaymentStatus
      <3>2. payments[o2][j].refunded \in Nat
        BY <3>1 DEF Payment
      <3>3. /\ payments'[o2][j].status = "CANCELLED"
            /\ payments'[o2][j].method = payments[o2][j].method
            /\ payments'[o2][j].refunded = payments[o2][j].refunded
        BY <2>3, <3>1, <3>2, SettledPayment
      <3> QED BY <2>1, <2>3, <3>3 DEF CashMarked
    <2> QED BY <1>1, <2>1, <2>2, <2>3
  <1> QED BY <1>2 DEF CashRefundsStick, CashMarked

LEMMA StepMarks ==
  ASSUME Core, CashRefundsStick, [Next]_lifecycleVars
  PROVE  CashRefundsStick'
  <1>1. CASE UNCHANGED payments
    BY <1>1 DEF CashRefundsStick
  <1>2. ASSUME NEW o \in Orders, OrderStep(o) PROVE CashRefundsStick'
    BY <1>1, <1>2, CreateMarks, CancelMarks, CollectMarks DEF OrderStep, UpdateShipment
  <1>3. ASSUME NEW r \in Requests, NEW o \in Orders, ReadStep(r, o) PROVE CashRefundsStick'
    BY <1>1, <1>3 DEF ReadStep, ConfirmRead, StatusRead, CreateRead, RefundRead, Begin
  <1>4. ASSUME NEW r \in Requests, WriteStep(r) PROVE CashRefundsStick'
    BY <1>1, <1>4, ConfirmMarks, CreateMarks, RefundMarks DEF WriteStep, StatusWrite, Abandon
  <1> QED BY <1>1, <1>2, <1>3, <1>4 DEF Next, lifecycleVars

-----------------------------------------------------------------------------
(* What is paid back is not taken again.                                   *)

\* A payment stays in its place, and as much of it is refunded; one that is new
\* is not refunded.
RefundedSame ==
  /\ \A o \in Orders : \A i \in DOMAIN payments[o] :
       i \in DOMAIN payments'[o] /\ payments'[o][i].refunded = payments[o][i].refunded
  /\ \A o \in Orders : \A i \in DOMAIN payments'[o] :
       i \in DOMAIN payments[o] \/ payments'[o][i].refunded = 0

LEMMA RefundedNat ==
  ASSUME Core, NEW o \in Orders, NEW i \in DOMAIN payments[o]
  PROVE  payments[o][i] \in Payment /\ payments[o][i].refunded \in Nat
  <1>1. payments[o][i] \in Payment
    BY DEF Core, TypeOK
  <1> QED BY <1>1 DEF Payment

LEMMA SettleSame ==
  ASSUME Core, NEW o \in Orders, NEW i \in DOMAIN payments[o], NEW s \in PaymentStatus,
         Settle(o, i, s, 0)
  PROVE  RefundedSame
  <1>1. payments[o][i] \in Payment /\ payments[o][i].refunded \in Nat /\ 0 \in Nat
    BY RefundedNat
  <1>2. Settled(payments[o][i], s, 0).refunded = payments[o][i].refunded
    BY <1>1, SettledPayment
  <1>3. /\ \A q \in Orders : DOMAIN payments'[q] = DOMAIN payments[q]
        /\ payments'[o][i] = Settled(payments[o][i], s, 0)
        /\ \A q \in Orders : \A j \in DOMAIN payments[q] :
             <<q, j>> # <<o, i>> => payments'[q][j] = payments[q][j]
    BY <1>1, SettleEffect DEF Core
  <1> QED BY <1>2, <1>3 DEF RefundedSame

\* Only a refund changes what is refunded.
LEMMA RefundedStays ==
  ASSUME Core, [Next]_lifecycleVars, \A r \in Requests : ~RefundWrite(r)
  PROVE  RefundedSame
  <1>1. CASE UNCHANGED payments
    BY <1>1 DEF RefundedSame
  <1>2. ASSUME NEW q \in Orders, CreateOrder(q) PROVE RefundedSame
    <2> DEFINE p == NewPayment("CASH_ON_DELIVERY")
    <2>1. payments[q] = <<>>
      BY <1>2 DEF CreateOrder, Core, PaidOnPlacing
    <2>2. p.refunded = 0
      BY DEF NewPayment
    <2>3. payments' = [payments EXCEPT ![q] = <<p>>] /\ payments \in [Orders -> Seq(Payment)]
      BY <1>2 DEF CreateOrder, Core, TypeOK
    <2> HIDE DEF p
    <2>4. DOMAIN payments[q] = {}
      BY <2>1
    <2>5. payments'[q] = <<p>> /\ \A o \in Orders : o # q => payments'[o] = payments[o]
      BY <2>3
    <2>6. \A i \in DOMAIN payments'[q] : payments'[q][i] = p
      BY <2>5
    <2> QED BY <2>2, <2>4, <2>5, <2>6 DEF RefundedSame
  <1>3. ASSUME NEW q \in Orders, Cancel(q) PROVE RefundedSame
    <2>1. /\ DOMAIN payments'[q] = DOMAIN payments[q]
          /\ \A i \in DOMAIN payments[q] :
               payments'[q][i] \in {payments[q][i], Settled(payments[q][i], "CANCELLED", 0)}
          /\ \A o \in Orders : o # q => payments'[o] = payments[o]
      BY <1>3 DEF Cancel, Core, TypeOK
    <2>2. ASSUME NEW i \in DOMAIN payments[q]
          PROVE  Settled(payments[q][i], "CANCELLED", 0).refunded = payments[q][i].refunded
      <3>1. payments[q][i] \in Payment /\ payments[q][i].refunded \in Nat
        BY RefundedNat
      <3>2. "CANCELLED" \in PaymentStatus /\ 0 \in Nat
        BY DEF PaymentStatus
      <3> QED BY <3>1, <3>2, SettledPayment
    <2>3. \A i \in DOMAIN payments[q] : payments'[q][i].refunded = payments[q][i].refunded
      BY <2>1, <2>2
    <2> QED BY <2>1, <2>3 DEF RefundedSame
  <1>4. ASSUME NEW q \in Orders, OrderStep(q) PROVE RefundedSame
    <2>1. "PAID" \in PaymentStatus
      BY DEF PaymentStatus
    <2> QED BY <1>1, <1>2, <1>3, <1>4, <2>1, SettleSame DEF OrderStep, UpdateShipment, Collect
  <1>5. ASSUME NEW r \in Requests, NEW q \in Orders, ReadStep(r, q) PROVE RefundedSame
    BY <1>1, <1>5 DEF ReadStep, ConfirmRead, StatusRead, CreateRead, RefundRead, Begin
  <1>6. ASSUME NEW r \in Requests, ConfirmPaid(r) \/ ConfirmFailed(r) PROVE RefundedSame
    <2>1. request[r].op = "confirm"
      BY <1>6 DEF ConfirmPaid, ConfirmFailed
    <2>2. request[r].order \in Orders /\ request[r].payment \in DOMAIN payments[request[r].order]
      BY <2>1 DEF Core, TypeOK, Request, NoRequest, RequestsAgree, Agrees
    <2>3. "PAID" \in PaymentStatus /\ "FAILED" \in PaymentStatus
      BY DEF PaymentStatus
    <2> QED BY <1>6, <2>2, <2>3, SettleSame DEF ConfirmPaid, ConfirmFailed
  <1>7. ASSUME NEW r \in Requests, NEW method \in PaymentMethod, CreateWrite(r, method)
        PROVE  RefundedSame
    <2> DEFINE q == request[r].order
               p == NewPayment(method)
    <2>1. q \in Orders
      BY <1>7 DEF CreateWrite, Core, TypeOK, Request, NoRequest
    <2>2. p \in Payment /\ p.refunded = 0
      BY NewPaymentSound
    <2>3. /\ payments' = [payments EXCEPT ![q] = Append(payments[q], p)]
          /\ payments \in [Orders -> Seq(Payment)] /\ payments[q] \in Seq(Payment)
      BY <1>7, <2>1 DEF CreateWrite, Core, TypeOK
    <2> HIDE DEF p, q
    <2>4. /\ payments'[q] = Append(payments[q], p)
          /\ \A o \in Orders : o # q => payments'[o] = payments[o]
      BY <2>1, <2>3
    <2>5. /\ \A i \in DOMAIN payments[q] :
               i \in DOMAIN payments'[q] /\ payments'[q][i] = payments[q][i]
          /\ \A i \in DOMAIN payments'[q] : i \in DOMAIN payments[q] \/ payments'[q][i] = p
      BY <2>2, <2>3, <2>4
    <2> QED BY <2>2, <2>4, <2>5 DEF RefundedSame
  <1>8. ASSUME NEW r \in Requests, WriteStep(r) PROVE RefundedSame
    BY <1>1, <1>6, <1>7, <1>8 DEF WriteStep, StatusWrite, Abandon
  <1> QED BY <1>1, <1>4, <1>5, <1>8 DEF Next, lifecycleVars

\* A payment stays in its place, and at least as much of it stays refunded.
Grown(o, i) ==
  /\ i \in DOMAIN payments'[o]
  /\ payments'[o][i].refunded \in Nat
  /\ payments'[o][i].refunded >= payments[o][i].refunded

LEMMA SettleGrows ==
  ASSUME Core, NEW q \in Orders, NEW j \in DOMAIN payments[q],
         NEW s \in PaymentStatus, NEW n \in Nat, Settle(q, j, s, n),
         NEW o \in Orders, NEW i \in DOMAIN payments[o]
  PROVE  Grown(o, i)
  <1>1. /\ payments[o][i].refunded \in Nat
        /\ payments[q][j] \in Payment /\ payments[q][j].refunded \in Nat
    BY RefundedNat
  <1>2. Settled(payments[q][j], s, n).refunded = payments[q][j].refunded + n
    BY <1>1, SettledPayment
  <1>3. /\ DOMAIN payments'[o] = DOMAIN payments[o]
        /\ payments'[q][j] = Settled(payments[q][j], s, n)
        /\ <<o, i>> # <<q, j>> => payments'[o][i] = payments[o][i]
    BY SettleEffect DEF Core
  <1> QED BY <1>1, <1>2, <1>3 DEF Grown

\* What a refund request is about.
LEMMA RefundOf ==
  ASSUME Core, NEW r \in Requests, request[r].op = "refund"
  PROVE  /\ request[r].order \in Orders
         /\ request[r].payment \in DOMAIN payments[request[r].order]
         /\ request[r].amount \in Nat
  BY DEF Core, TypeOK, Request, NoRequest, RequestsAgree, Agrees

LEMMA PaymentsGrow ==
  ASSUME Core, [Next]_lifecycleVars, NEW o \in Orders, NEW i \in DOMAIN payments[o]
  PROVE  Grown(o, i)
  <1>1. CASE \A r \in Requests : ~RefundWrite(r)
    BY <1>1, RefundedStays, RefundedNat DEF RefundedSame, Grown
  <1>2. ASSUME NEW r \in Requests, RefundWrite(r) PROVE Grown(o, i)
    <2>1. PICK s \in {"REFUNDED", "PARTIALLY_REFUNDED"} :
            request[r].op = "refund"
              /\ Settle(request[r].order, request[r].payment, s, request[r].amount)
      BY <1>2 DEF RefundWrite
    <2>2. s \in PaymentStatus
      BY DEF PaymentStatus
    <2> QED BY <2>1, <2>2, RefundOf, SettleGrows
  <1> QED BY <1>1, <1>2

\* What a request is when it has read.
LEMMA BeginIs ==
  ASSUME Core, NEW r \in Requests, NEW q, Begin(r, q)
  PROVE  /\ payments' = payments
         /\ \A s \in Requests : request'[s] = IF s = r THEN q ELSE request[s]
  BY DEF Core, TypeOK, Begin

-----------------------------------------------------------------------------
LEMMA Invariance == Spec => []IInv
  <1>1. Init => IInv
    BY InitCore DEF IInv, Init, CashRefundsStick
  <1>2. IInv /\ [Next]_lifecycleVars => IInv'
    BY StepKeeps, StepMarks DEF IInv
  <1> QED BY <1>1, <1>2, PTL DEF Spec

-----------------------------------------------------------------------------
(* Theorems.                                                               *)

\* The state of an order, its payments, its shipment and the requests under way
\* always has its type; so a request never refunds a negative amount.
THEOREM TypeCorrect == Spec => []TypeOK
  <1>1. IInv => TypeOK
    BY DEF IInv, Core
  <1>2. QED
    BY Invariance, <1>1, PTL

\* An order that is CANCELLED has no payment that is PAID, however cancellation,
\* collection, confirmation, shipping and status changes interleave.
THEOREM CancelledCorrect == Spec => []CancelledNotPaid
  <1>1. IInv => CancelledNotPaid
    BY DEF IInv, Core
  <1>2. QED
    BY Invariance, <1>1, PTL

\* A payment that refundPayment calls REFUNDED is paid back in full: the refunds
\* it read when it decided so can only have grown since.
THEOREM RefundedCorrect == Spec => []RefundedIsFull
  <1>1. IInv => RefundedIsFull
    BY DEF IInv, Core, PaymentsSound, Sound, RefundedIsFull, PaymentsIn
  <1>2. QED
    BY Invariance, <1>1, PTL

\* Cash that was paid back stays marked as paid back.
THEOREM CashCorrect == Spec => []CashRefundsStick
  <1>1. IInv => CashRefundsStick
    BY DEF IInv
  <1>2. QED
    BY Invariance, <1>1, PTL
=============================================================================
