--------------------------- MODULE FulfilmentProofs ---------------------------
(***************************************************************************)
(* Fulfilment implements OrderLifecycle and Inventory, for any orders,     *)
(* variants, amounts and number of requests: so what is proved of each of  *)
(* the two holds of both together.  What relates the two is proved here.   *)
(***************************************************************************)
EXTENDS Fulfilment, TLAPS

SP == INSTANCE InventoryProofs
LP == INSTANCE OrderLifecycleProofs

-----------------------------------------------------------------------------
(* The modules proved about are those that Fulfilment is made of.          *)

\* The proofs are instantiated beside the modules, so that each definition is
\* there twice: SameLifecycle and SameStock say that the two are one.
LEMMA LifecycleAssumptions ==
  LP!AmountAssumption /\ LP!RefundAmountsAssumption /\ LP!UndefinedAssumption
    /\ LP!UpdatesAssumption
  BY AmountAssumption, RefundAmountsAssumption, UndefinedAssumption, UpdatesAssumption
  DEF ShipmentStatus, LP!ShipmentStatus

LEMMA StockAssumptions ==
  SP!ItemsAssumption /\ SP!InitialStockAssumption /\ SP!EditsAssumption
    /\ SP!UndefinedAssumption
  <1>1. SP!Write = Stock!Write /\ SP!VariantStatus = Stock!VariantStatus
    BY DEF SP!Write, Stock!Write, SP!Row, Stock!Row, SP!VariantStatus, Stock!VariantStatus
  <1>2. Undefined \notin Stock!Write \cup Nat \cup Stock!VariantStatus
    BY NoWriteAssumption, UndefinedAssumption
  <1> QED BY <1>1, <1>2, ItemsAssumption, InitialStockAssumption, EditsAssumption

LEMMA SameLifecycle ==
  /\ Lifecycle!Init => LP!Init
  /\ Lifecycle!Next => LP!Next
  /\ Lifecycle!TypeOK <=> LP!TypeOK
  <1>1. Lifecycle!Init => LP!Init
    BY DEF Lifecycle!Init, LP!Init, Lifecycle!NoRequest, LP!NoRequest
  <1>2. Lifecycle!Next => LP!Next
    BY DEF Lifecycle!Next, LP!Next, Lifecycle!OrderStep, LP!OrderStep, Lifecycle!ReadStep,
           LP!ReadStep, Lifecycle!WriteStep, LP!WriteStep, Lifecycle!CreateOrder, LP!CreateOrder,
           Lifecycle!Cancel, LP!Cancel, Lifecycle!Collect, LP!Collect, Lifecycle!UpdateShipment,
           LP!UpdateShipment, Lifecycle!ConfirmRead, LP!ConfirmRead, Lifecycle!StatusRead,
           LP!StatusRead, Lifecycle!CreateRead, LP!CreateRead, Lifecycle!RefundRead, LP!RefundRead,
           Lifecycle!ConfirmPaid, LP!ConfirmPaid, Lifecycle!ConfirmFailed, LP!ConfirmFailed,
           Lifecycle!StatusWrite, LP!StatusWrite, Lifecycle!CreateWrite, LP!CreateWrite,
           Lifecycle!RefundWrite, LP!RefundWrite, Lifecycle!Abandon, LP!Abandon, Lifecycle!Placed,
           LP!Placed, Lifecycle!PaymentsIn, LP!PaymentsIn, Lifecycle!Settled, LP!Settled,
           Lifecycle!Settle, LP!Settle, Lifecycle!Begin, LP!Begin, Lifecycle!End, LP!End,
           Lifecycle!NoRequest, LP!NoRequest, Lifecycle!NewPayment, LP!NewPayment,
           Lifecycle!Confirmable, LP!Confirmable, Lifecycle!Collectable, LP!Collectable,
           Lifecycle!Admissible, LP!Admissible, Lifecycle!Full, LP!Full, Lifecycle!Transitions,
           LP!Transitions, Lifecycle!Cancellable, LP!Cancellable, Lifecycle!Reusable, LP!Reusable,
           Lifecycle!Refundable, LP!Refundable, Lifecycle!PaymentMethod, LP!PaymentMethod,
           OrderStatus, Lifecycle!OrderStatus, LP!OrderStatus
  <1>3. Lifecycle!TypeOK <=> LP!TypeOK
    BY DEF Lifecycle!TypeOK, LP!TypeOK, Lifecycle!Payment, LP!Payment, Lifecycle!PaymentMethod,
           LP!PaymentMethod, Lifecycle!PaymentStatus, LP!PaymentStatus, Lifecycle!ShipmentStatus,
           LP!ShipmentStatus, Lifecycle!OrderStatus, LP!OrderStatus, Lifecycle!Request, LP!Request,
           Lifecycle!NoRequest, LP!NoRequest
  <1> QED BY <1>1, <1>2, <1>3

LEMMA SameStock ==
  /\ Stock!Init => SP!Init
  /\ Stock!Next => SP!Next
  /\ Stock!TypeOK <=> SP!TypeOK
  <1>1. Stock!Init => SP!Init
    BY DEF Stock!Init, SP!Init, Stock!Idle, SP!Idle, Stock!NewEdit, SP!NewEdit
  <1>2. Stock!Next => SP!Next
    BY DEF Stock!Next, SP!Next, Stock!CashNext, SP!CashNext, Stock!CheckoutStep, SP!CheckoutStep,
           Stock!ConfirmStep, SP!ConfirmStep, Stock!EditStep, SP!EditStep, Stock!BeginCheckout,
           SP!BeginCheckout, Stock!BeginConfirm, SP!BeginConfirm, Stock!ReadVariant,
           SP!ReadVariant, Stock!WriteVariant, SP!WriteVariant, Stock!DecrementVariant,
           SP!DecrementVariant, Stock!OverwriteVariant, SP!OverwriteVariant, Stock!Commit,
           SP!Commit, Stock!Rollback, SP!Rollback, Stock!Restore, SP!Restore, Stock!ReadToAdjust,
           SP!ReadToAdjust, Stock!WriteAdjustment, SP!WriteAdjustment, Stock!ReadToSet,
           SP!ReadToSet, Stock!WriteSet, SP!WriteSet, Stock!LogSet, SP!LogSet, Stock!ReadToDelete,
           SP!ReadToDelete, Stock!WriteDelete, SP!WriteDelete, Stock!Fetch, SP!Fetch, Stock!Idle,
           SP!Idle, Stock!Locked, SP!Locked, Stock!Owns, SP!Owns, Stock!Released, SP!Released,
           Stock!AllDeducted, SP!AllDeducted, Stock!Sellable, SP!Sellable, Stock!StillSellable,
           SP!StillSellable, Stock!Decremented, SP!Decremented, Stock!Stocked, SP!Stocked,
           Stock!Restocked, SP!Restocked, Stock!KeysFree, SP!KeysFree, Stock!VariantsOf,
           SP!VariantsOf, Stock!Permitted, SP!Permitted, Stock!AdjustedStatus, SP!AdjustedStatus,
           Stock!Patched, SP!Patched, Stock!NewEdit, SP!NewEdit, Stock!DoneEdit, SP!DoneEdit,
           Stock!VariantStatus, SP!VariantStatus
  <1>3. Stock!TypeOK <=> SP!TypeOK
    BY DEF Stock!TypeOK, SP!TypeOK, Stock!Row, SP!Row, Stock!Write, SP!Write, Stock!VariantStatus,
           SP!VariantStatus, Stock!Transaction, SP!Transaction, Stock!Edit, SP!Edit, Stock!NewEdit,
           SP!NewEdit, Stock!DoneEdit, SP!DoneEdit
  <1> QED BY <1>1, <1>2, <1>3

-----------------------------------------------------------------------------
(* Fulfilment implements both.                                             *)

ConfirmingTyped == confirming \in [Orders -> Requests \cup {Undefined}]

LEMMA ConfirmingStep == ConfirmingTyped /\ [Next]_vars => ConfirmingTyped'
  BY DEF ConfirmingTyped, Next, PlaceOrder, CancelOrder, FinishConfirmation, FailConfirmation,
     StockStep, OrderStep, BeginConfirmation, RequestStep, vars

LEMMA ConfirmingCorrect == Spec => []ConfirmingTyped
  <1>1. Init => ConfirmingTyped
    BY DEF Init, ConfirmingTyped
  <1> QED BY <1>1, ConfirmingStep, PTL DEF Spec

LEMMA LifecycleStep ==
  ConfirmingTyped /\ [Next]_vars => [Lifecycle!Next]_Lifecycle!lifecycleVars
  <1> SUFFICES ASSUME ConfirmingTyped, [Next]_vars, ~UNCHANGED lifecycleVars
               PROVE  Lifecycle!Next
    BY DEF lifecycleVars, Lifecycle!lifecycleVars
  <1>1. ASSUME NEW o \in Orders, PlaceOrder(o) \/ CancelOrder(o) \/ OrderStep(o)
        PROVE  Lifecycle!Next
    BY <1>1 DEF PlaceOrder, CancelOrder, OrderStep, Lifecycle!Next, Lifecycle!OrderStep,
       Lifecycle!ReadStep
  <1>2. ASSUME NEW o \in Orders, FinishConfirmation(o) \/ FailConfirmation(o)
        PROVE  Lifecycle!Next
    BY <1>2 DEF ConfirmingTyped, FinishConfirmation, FailConfirmation, Lifecycle!Next,
       Lifecycle!WriteStep
  <1>3. ASSUME NEW r \in Requests, RequestStep(r)
        PROVE  Lifecycle!Next
    BY <1>3 DEF RequestStep, Lifecycle!Next, Lifecycle!WriteStep
  <1>4. ~UNCHANGED vars
    BY DEF vars
  <1>5. (\A o \in Orders : ~StockStep(o)) /\ \A r \in Requests : ~BeginConfirmation(r)
    BY DEF StockStep, BeginConfirmation, lifecycleVars
  <1> QED BY <1>1, <1>2, <1>3, <1>4, <1>5 DEF Next

\* The order of a confirmation is an order.
TypedOrders == \A r \in Requests : request[r].op = "confirm" => request[r].order \in Orders

LEMMA OrdersTyped == LP!IInv => TypedOrders
  BY DEF LP!IInv, LP!Core, LP!TypeOK, LP!Request, LP!NoRequest, TypedOrders

LEMMA StockSteps == TypedOrders /\ [Next]_vars => [Stock!Next]_Stock!vars
  <1> SUFFICES ASSUME TypedOrders, [Next]_vars, ~UNCHANGED stockVars
               PROVE  Stock!Next
    BY DEF stockVars, Stock!vars
  <1>1. ASSUME NEW o \in Orders, PlaceOrder(o) \/ FinishConfirmation(o) \/ FailConfirmation(o)
        PROVE  Stock!Next
    BY <1>1 DEF PlaceOrder, FinishConfirmation, FailConfirmation, Stock!Next, Stock!CashNext,
       Stock!CheckoutStep
  <1>2. ASSUME NEW o \in Orders, CancelOrder(o)
        PROVE  Stock!Next
    BY <1>2 DEF CancelOrder, Stock!Next, Stock!CashNext
  <1>3. ASSUME NEW o \in Orders, StockStep(o)
        PROVE  Stock!Next
    BY <1>3 DEF StockStep, Stock!Next, Stock!CashNext, Stock!CheckoutStep, Stock!ConfirmStep
  <1>4. ASSUME NEW r \in Requests, BeginConfirmation(r)
        PROVE  Stock!Next
    <2>1. request[r].order \in Orders
      BY <1>4 DEF TypedOrders, BeginConfirmation
    <2> QED BY <1>4, <2>1 DEF BeginConfirmation, Stock!Next, Stock!ConfirmStep
  <1>5. ~UNCHANGED vars
    BY DEF vars
  <1>6. (\A o \in Orders : ~OrderStep(o)) /\ \A r \in Requests : ~RequestStep(r)
    BY DEF OrderStep, RequestStep, stockVars
  <1> QED BY <1>1, <1>2, <1>3, <1>4, <1>5, <1>6 DEF Next

\* Every step of Fulfilment is one of OrderLifecycle, or none of it.
THEOREM LifecycleImplemented == Spec => Lifecycle!Spec
  <1>1. Init => Lifecycle!Init
    BY DEF Init
  <1> QED BY <1>1, ConfirmingCorrect, LifecycleStep, PTL DEF Spec, Lifecycle!Spec

LEMMA LifecycleInvariant == Spec => []LP!IInv
  <1>1. Lifecycle!Spec => LP!Spec
    <2>1. [Lifecycle!Next]_Lifecycle!lifecycleVars => [LP!Next]_LP!lifecycleVars
      BY SameLifecycle DEF Lifecycle!lifecycleVars, LP!lifecycleVars
    <2> QED BY <2>1, SameLifecycle, PTL DEF Lifecycle!Spec, LP!Spec
  <1>2. LP!Spec => []LP!IInv
    BY LP!Invariance, LifecycleAssumptions
  <1> QED BY <1>1, <1>2, LifecycleImplemented, PTL

\* Every step of Fulfilment is one of Inventory, or none of it: confirmations
\* deduct, and cancellations restore, as Inventory has them do.
THEOREM StockImplemented == Spec => Stock!Spec
  <1>1. Init => Stock!Init
    BY DEF Init
  <1> QED BY <1>1, LifecycleInvariant, OrdersTyped, StockSteps, PTL DEF Spec, Stock!Spec

LEMMA StockIsProved == Stock!Spec => SP!Spec
  <1>1. [Stock!Next]_Stock!vars => [SP!Next]_SP!vars
    BY SameStock DEF Stock!vars, SP!vars
  <1> QED BY <1>1, SameStock, PTL DEF Stock!Spec, SP!Spec

LEMMA StockInvariant == Spec => [](SP!TypeOK /\ SP!KeysTellReturns)
  <1>1. Stock!Spec => SP!Spec
    BY StockIsProved
  <1>2. SP!Spec => [](SP!TypeOK /\ SP!KeysTellReturns)
    BY SP!KeysCorrect, StockAssumptions
  <1> QED BY <1>1, <1>2, StockImplemented, PTL

-----------------------------------------------------------------------------
(* What OrderLifecycle guarantees, of the composition.                     *)

\* The types of orders and stock together.
THEOREM TypeCorrect == Spec => []TypeOK
  <1>1. LP!IInv /\ SP!TypeOK /\ ConfirmingTyped => TypeOK
    BY SameLifecycle, SameStock DEF TypeOK, LP!IInv, LP!Core, ConfirmingTyped
  <1> QED BY <1>1, LifecycleInvariant, StockInvariant, ConfirmingCorrect, PTL

LEMMA OfPayments == LP!IInv => CancelledNotPaid /\ RefundedIsFull /\ CashRefundsStick
  BY DEF LP!IInv, LP!Core, LP!PaymentsSound, LP!Sound, LP!CancelledNotPaid, LP!PaymentsIn,
     LP!CashRefundsStick, CancelledNotPaid, RefundedIsFull, CashRefundsStick, Lifecycle!CancelledNotPaid,
     Lifecycle!RefundedIsFull, Lifecycle!CashRefundsStick, Lifecycle!PaymentsIn

\* No cancelled order has a payment that is PAID, also when the payment is
\* confirmed in a transaction that deducts stock.
THEOREM CancelledCorrect == Spec => []CancelledNotPaid
  BY OfPayments, LifecycleInvariant, PTL

\* A payment that refundPayment calls REFUNDED is paid back in full.
THEOREM RefundedCorrect == Spec => []RefundedIsFull
  BY OfPayments, LifecycleInvariant, PTL

\* Cash that was paid back stays marked as paid back.
THEOREM CashCorrect == Spec => []CashRefundsStick
  BY OfPayments, LifecycleInvariant, PTL

\* Stock does not go below zero, and items go back at most once, also when
\* orders, payments and shipments take part.
THEOREM StockCorrect ==
  Spec => [](Stock!StockNonNegative /\ Stock!RestoredAtMostOnce)
  <1>1. Stock!Spec => SP!Spec
    BY StockIsProved
  <1>2. SP!Spec => []SP!StockNonNegative /\ []SP!RestoredAtMostOnce
    BY SP!StockCorrect, SP!RestoreCorrect, StockAssumptions
  <1>3. SP!StockNonNegative /\ SP!RestoredAtMostOnce
          => Stock!StockNonNegative /\ Stock!RestoredAtMostOnce
    BY DEF SP!StockNonNegative, SP!RestoredAtMostOnce,
       Stock!StockNonNegative, Stock!RestoredAtMostOnce
  <1> QED BY <1>1, <1>2, <1>3, StockImplemented, PTL

-----------------------------------------------------------------------------
(* What relates orders and stock.                                          *)

\* The confirmation whose transaction is open is one of that order.
ConfirmingSound ==
  \A o \in Orders :
    confirming[o] # Undefined =>
      request[confirming[o]].op = "confirm" /\ request[confirming[o]].order = o

\* What is known of either part.
Parts == LP!IInv /\ SP!TypeOK /\ SP!KeysTellReturns /\ ConfirmingTyped

LEMMA PartsCorrect == Spec => []Parts
  BY LifecycleInvariant, StockInvariant, ConfirmingCorrect, PTL DEF Parts

\* A request is not changed while its confirmation's transaction is open.
LEMMA ConfirmingStays ==
  ASSUME Parts, ConfirmingSound, [Next]_vars PROVE ConfirmingSound'
  <1> USE DEF Parts, ConfirmingTyped
  <1>0. request \in [Requests -> LP!Request]
    BY DEF LP!IInv, LP!Core, LP!TypeOK
  <1>1. ASSUME UNCHANGED <<request, confirming>> PROVE ConfirmingSound'
    BY <1>1 DEF ConfirmingSound
  <1>2. ASSUME NEW r \in Requests, BeginConfirmation(r) PROVE ConfirmingSound'
    BY <1>2 DEF BeginConfirmation, ConfirmingSound, lifecycleVars
  <1>3. ASSUME NEW o \in Orders, FinishConfirmation(o) \/ FailConfirmation(o)
        PROVE  ConfirmingSound'
    <2>1. /\ confirming[o] \in Requests /\ confirming[o] # Undefined
          /\ request' = [request EXCEPT ![confirming[o]] = Lifecycle!NoRequest]
          /\ confirming' = [confirming EXCEPT ![o] = Undefined]
      BY <1>3 DEF FinishConfirmation, FailConfirmation, Lifecycle!ConfirmPaid,
         Lifecycle!Abandon, Lifecycle!End
    <2>2. ASSUME NEW q \in Orders, confirming'[q] # Undefined
          PROVE  request'[confirming'[q]] = request[confirming[q]] /\ confirming'[q] = confirming[q]
      <3>1. q # o /\ confirming'[q] = confirming[q]
        BY <2>1, <2>2
      <3>2. confirming[q] # confirming[o]
        BY <2>1, <2>2, <3>1 DEF ConfirmingSound
      <3> QED BY <1>0, <2>1, <3>1, <3>2
    <2> QED BY <2>1, <2>2 DEF ConfirmingSound
  <1>4. ASSUME NEW r \in Requests, RequestStep(r) PROVE ConfirmingSound'
    <2>1. /\ request' = [request EXCEPT ![r] = Lifecycle!NoRequest]
          /\ \A o \in Orders : confirming[o] # r
          /\ UNCHANGED confirming
      BY <1>4 DEF RequestStep, Lifecycle!ConfirmFailed, Lifecycle!RefundWrite,
         Lifecycle!StatusWrite, Lifecycle!CreateWrite, Lifecycle!Abandon, Lifecycle!End
    <2> QED BY <1>0, <2>1 DEF ConfirmingSound
  <1>5. ASSUME NEW o \in Orders, NEW r \in Requests, Lifecycle!ReadStep(r, o), UNCHANGED confirming
        PROVE  ConfirmingSound'
    <2>1. PICK q : request[r] = Lifecycle!NoRequest /\ request' = [request EXCEPT ![r] = q]
      BY <1>5 DEF Lifecycle!ReadStep, Lifecycle!ConfirmRead, Lifecycle!StatusRead,
         Lifecycle!CreateRead, Lifecycle!RefundRead, Lifecycle!Begin
    <2>2. \A w \in Orders : confirming[w] # Undefined => confirming[w] # r
      BY <2>1 DEF ConfirmingSound, Lifecycle!NoRequest
    <2> QED BY <1>0, <1>5, <2>1, <2>2 DEF ConfirmingSound
  <1>6. ASSUME NEW o \in Orders, PlaceOrder(o) \/ CancelOrder(o) \/ StockStep(o)
        PROVE  ConfirmingSound'
    BY <1>1, <1>6 DEF PlaceOrder, CancelOrder, StockStep, lifecycleVars, Lifecycle!CreateOrder,
       Lifecycle!Cancel
  <1>7. ASSUME NEW o \in Orders, OrderStep(o) PROVE ConfirmingSound'
    <2>1. CASE \E i \in DOMAIN payments[o] : Lifecycle!Collect(o, i)
      BY <1>1, <1>7, <2>1 DEF OrderStep, Lifecycle!Collect
    <2>2. CASE \E to \in Updates : Lifecycle!UpdateShipment(o, to)
      BY <1>1, <1>7, <2>2 DEF OrderStep, Lifecycle!UpdateShipment
    <2> QED BY <1>5, <1>7, <2>1, <2>2 DEF OrderStep
  <1>8. CASE UNCHANGED vars
    BY <1>1, <1>8 DEF vars, lifecycleVars
  <1> QED BY <1>2, <1>3, <1>4, <1>6, <1>7, <1>8 DEF Next

\* Event keys are never taken back.
LEMMA KeysStay ==
  ASSUME [Next]_vars PROVE eventKeys \subseteq eventKeys'
  BY DEF Next, PlaceOrder, CancelOrder, FinishConfirmation, FailConfirmation, StockStep,
     OrderStep, BeginConfirmation, RequestStep, Stock!Commit, Stock!Restore, Stock!Rollback,
     Stock!BeginCheckout, Stock!BeginConfirm, Stock!ReadVariant, Stock!DecrementVariant,
     Stock!OverwriteVariant, Stock!WriteVariant, stockVars, vars

\* Nothing but cancelOrder makes an order CANCELLED.
LEMMA OnlyCancelled ==
  ASSUME Parts, [Next]_vars, NEW o \in Orders, status[o] # "CANCELLED", status'[o] = "CANCELLED"
  PROVE  CancelOrder(o)
  <1> USE DEF Parts, ConfirmingTyped
  <1>0. /\ status \in [Orders -> LP!OrderStatus \cup {"NONE"}]
        /\ request \in [Requests -> LP!Request]
        /\ \A r \in Requests : LP!Agrees(request[r])
    BY DEF LP!IInv, LP!Core, LP!TypeOK, LP!RequestsAgree
  <1>1. ~UNCHANGED status
    OBVIOUS
  <1>2. ASSUME NEW q \in Orders, CancelOrder(q) PROVE q = o
    BY <1>0, <1>2 DEF CancelOrder, Lifecycle!Cancel
  <1>3. ASSUME NEW q \in Orders, PlaceOrder(q) PROVE FALSE
    BY <1>0, <1>3 DEF PlaceOrder, Lifecycle!CreateOrder
  <1>4. ASSUME NEW q \in Orders, FinishConfirmation(q) \/ FailConfirmation(q) PROVE FALSE
    BY <1>0, <1>1, <1>4 DEF FinishConfirmation, FailConfirmation, Lifecycle!ConfirmPaid,
       Lifecycle!Abandon
  <1>5. ASSUME NEW q \in Orders, StockStep(q) PROVE FALSE
    BY <1>1, <1>5 DEF StockStep, lifecycleVars
  <1>6. ASSUME NEW q \in Orders, OrderStep(q) PROVE FALSE
    <2>1. ASSUME NEW i \in DOMAIN payments[q], Lifecycle!Collect(q, i) PROVE FALSE
      BY <1>1, <2>1 DEF Lifecycle!Collect
    <2>2. ASSUME NEW to \in Updates, Lifecycle!UpdateShipment(q, to) PROVE FALSE
      BY <1>0, <2>2 DEF Lifecycle!UpdateShipment
    <2>3. ASSUME NEW r \in Requests, Lifecycle!ReadStep(r, q) PROVE FALSE
      BY <1>1, <2>3 DEF Lifecycle!ReadStep, Lifecycle!ConfirmRead, Lifecycle!StatusRead,
         Lifecycle!CreateRead, Lifecycle!RefundRead, Lifecycle!Begin
    <2> QED BY <1>6, <2>1, <2>2, <2>3 DEF OrderStep
  <1>7. ASSUME NEW r \in Requests, RequestStep(r) PROVE FALSE
    <2>1. CASE Lifecycle!StatusWrite(r)
      <3>1. request[r].to # "CANCELLED"
        BY <1>0, <2>1 DEF Lifecycle!StatusWrite, LP!Agrees
      <3> QED BY <1>0, <2>1, <3>1 DEF Lifecycle!StatusWrite
    <2>2. CASE Lifecycle!RefundWrite(r)
      BY <1>0, <2>2 DEF Lifecycle!RefundWrite
    <2>3. CASE ~Lifecycle!StatusWrite(r) /\ ~Lifecycle!RefundWrite(r)
      BY <1>1, <1>7, <2>3 DEF RequestStep, Lifecycle!ConfirmFailed, Lifecycle!CreateWrite,
         Lifecycle!Abandon
    <2> QED BY <2>1, <2>2, <2>3
  <1>8. ASSUME NEW r \in Requests, BeginConfirmation(r) PROVE FALSE
    BY <1>1, <1>8 DEF BeginConfirmation, lifecycleVars
  <1>9. ~UNCHANGED vars
    BY <1>1 DEF vars, lifecycleVars
  <1> QED BY <1>2, <1>3, <1>4, <1>5, <1>6, <1>7, <1>8, <1>9 DEF Next

LEMMA RestoredStays ==
  ASSUME Parts, Parts', CancelledIsRestored, [Next]_vars PROVE CancelledIsRestored'
  <1> SUFFICES ASSUME NEW o \in Orders, status'[o] = "CANCELLED"
               PROVE  o \in eventKeys' /\ returned'[o] = 1
    BY DEF CancelledIsRestored
  <1>1. o \in eventKeys'
    <2>1. CASE status[o] = "CANCELLED"
      BY <2>1, KeysStay DEF CancelledIsRestored
    <2>2. CASE status[o] # "CANCELLED"
      BY <2>2, OnlyCancelled DEF CancelOrder, Stock!Restore
    <2> QED BY <2>1, <2>2
  <1> QED BY <1>1 DEF Parts, SP!KeysTellReturns

\* The items of a cancelled order were put back, once: cancelOrder with its
\* restoration is one transaction, and no other handler cancels.
THEOREM RestoredCorrect == Spec => []CancelledIsRestored
  <1>1. Init => CancelledIsRestored
    BY DEF Init, Lifecycle!Init, CancelledIsRestored
  <1> QED BY <1>1, PartsCorrect, RestoredStays, PTL DEF Spec

-----------------------------------------------------------------------------
(* What was paid for online is off the shelf.                              *)

PaidOnline(o, i) ==
  i \in DOMAIN payments[o] /\ payments[o][i].status = "PAID" /\ payments[o][i].method = "MOCK"

LEMMA PaidOnlineMeans ==
  PaidOnlineIsTaken <=> \A o \in Orders : \A i : PaidOnline(o, i) => taken[o] > returned[o]
  BY DEF PaidOnlineIsTaken, PaidOnline, Lifecycle!PaymentsIn

\* What settling payment i of order o does.
LEMMA SettleMeans ==
  ASSUME LP!TypeOK, NEW o \in Orders, NEW i \in DOMAIN payments[o],
         NEW s \in LP!PaymentStatus, NEW n \in Nat, Lifecycle!Settle(o, i, s, n)
  PROVE  /\ \A q \in Orders : DOMAIN payments'[q] = DOMAIN payments[q]
         /\ payments'[o][i].status = s
         /\ payments'[o][i].method = payments[o][i].method
         /\ \A q \in Orders : \A j \in DOMAIN payments[q] :
              <<q, j>> # <<o, i>> => payments'[q][j] = payments[q][j]
  <1>1. LP!Settle(o, i, s, n)
    BY DEF Lifecycle!Settle, LP!Settle, Lifecycle!Settled, LP!Settled
  <1>2. /\ \A q \in Orders : DOMAIN payments'[q] = DOMAIN payments[q]
        /\ payments'[o][i] = LP!Settled(payments[o][i], s, n)
        /\ \A q \in Orders : \A j \in DOMAIN payments[q] :
             <<q, j>> # <<o, i>> => payments'[q][j] = payments[q][j]
    BY <1>1, LP!SettleEffect, LifecycleAssumptions
  <1>3. payments[o][i] \in LP!Payment
    BY DEF LP!TypeOK
  <1>4. /\ LP!Settled(payments[o][i], s, n).status = s
        /\ LP!Settled(payments[o][i], s, n).method = payments[o][i].method
    BY <1>3, LP!SettledPayment, LifecycleAssumptions
  <1> QED BY <1>2, <1>4

\* A settlement that does not pay leaves no payment online PAID that was not.
LEMMA SettlePays ==
  ASSUME LP!TypeOK, NEW q \in Orders, NEW j \in DOMAIN payments[q],
         NEW s \in LP!PaymentStatus, s # "PAID", NEW n \in Nat, Lifecycle!Settle(q, j, s, n),
         NEW o \in Orders, NEW i, PaidOnline(o, i)'
  PROVE  PaidOnline(o, i)
  <1>1. /\ \A w \in Orders : DOMAIN payments'[w] = DOMAIN payments[w]
        /\ payments'[q][j].status = s
        /\ \A w \in Orders : \A k \in DOMAIN payments[w] :
             <<w, k>> # <<q, j>> => payments'[w][k] = payments[w][k]
    BY SettleMeans
  <1>2. i \in DOMAIN payments[o]
    BY <1>1 DEF PaidOnline
  <1>3. <<o, i>> # <<q, j>>
    BY <1>1 DEF PaidOnline
  <1>4. payments'[o][i] = payments[o][i]
    BY <1>1, <1>2, <1>3
  <1> QED BY <1>2, <1>4 DEF PaidOnline

\* No step but a confirmation makes a payment online PAID.
LEMMA RequestPays ==
  ASSUME Parts, NEW r \in Requests, RequestStep(r), NEW o \in Orders, NEW i, PaidOnline(o, i)'
  PROVE  PaidOnline(o, i)
  <1> USE DEF Parts
  <1>0. /\ LP!TypeOK /\ LP!Agrees(request[r]) /\ request[r] \in LP!Request
        /\ payments \in [Orders -> Seq(LP!Payment)]
    BY DEF LP!IInv, LP!Core, LP!TypeOK, LP!RequestsAgree
  <1>1. CASE Lifecycle!ConfirmFailed(r)
    <2>1. /\ request[r].order \in Orders
          /\ request[r].payment \in DOMAIN payments[request[r].order]
          /\ Lifecycle!Settle(request[r].order, request[r].payment, "FAILED", 0)
      BY <1>0, <1>1 DEF Lifecycle!ConfirmFailed, LP!Agrees, LP!Request, LP!NoRequest
    <2>2. "FAILED" \in LP!PaymentStatus
      BY DEF LP!PaymentStatus
    <2> QED BY <1>0, <2>1, <2>2, SettlePays
  <1>2. CASE Lifecycle!RefundWrite(r)
    <2>1. PICK s \in {"REFUNDED", "PARTIALLY_REFUNDED"} :
            Lifecycle!Settle(request[r].order, request[r].payment, s, request[r].amount)
      BY <1>2 DEF Lifecycle!RefundWrite
    <2>2. /\ request[r].order \in Orders /\ request[r].amount \in Nat
          /\ request[r].payment \in DOMAIN payments[request[r].order]
      BY <1>0, <1>2 DEF Lifecycle!RefundWrite, LP!Agrees, LP!Request, LP!NoRequest
    <2>3. s \in LP!PaymentStatus /\ s # "PAID"
      BY DEF LP!PaymentStatus
    <2> QED BY <1>0, <2>1, <2>2, <2>3, SettlePays
  <1>3. ASSUME NEW method \in Lifecycle!PaymentMethod, Lifecycle!CreateWrite(r, method)
        PROVE  PaidOnline(o, i)
    <2> DEFINE q == request[r].order
               p == Lifecycle!NewPayment(method)
    <2>1. q \in Orders /\ payments' = [payments EXCEPT ![q] = Append(payments[q], p)]
      BY <1>0, <1>3 DEF Lifecycle!CreateWrite, LP!Request, LP!NoRequest
    <2>2. p.status = "PENDING"
      BY DEF Lifecycle!NewPayment
    <2>3. CASE o # q
      BY <1>0, <2>1, <2>3 DEF PaidOnline
    <2>4. CASE o = q
      <3>1. payments[o] \in Seq(LP!Payment) /\ payments'[o] = Append(payments[o], p)
        BY <1>0, <2>1, <2>4
      <3>2. i \in 1 .. Len(payments[o]) + 1 /\ payments'[o][i].status = "PAID"
            /\ payments'[o][i].method = "MOCK"
        <4> HIDE DEF p
        <4> QED BY <3>1 DEF PaidOnline
      <3>3. i # Len(payments[o]) + 1
        <4>1. payments'[o][Len(payments[o]) + 1] = p
          <5> HIDE DEF p
          <5> QED BY <3>1
        <4> QED BY <2>2, <3>2, <4>1
      <3>4. i \in DOMAIN payments[o] /\ payments'[o][i] = payments[o][i]
        <4> HIDE DEF p
        <4> QED BY <3>1, <3>2, <3>3
      <3> QED BY <3>2, <3>4 DEF PaidOnline
    <2> QED BY <2>3, <2>4
  <1>4. CASE Lifecycle!StatusWrite(r) \/ Lifecycle!Abandon(r)
    BY <1>4 DEF Lifecycle!StatusWrite, Lifecycle!Abandon, PaidOnline
  <1> QED BY <1>1, <1>2, <1>3, <1>4 DEF RequestStep

LEMMA TakenStays ==
  ASSUME Parts, ConfirmingSound, PaidOnlineIsTaken, [Next]_vars PROVE PaidOnlineIsTaken'
  <1> USE DEF Parts, ConfirmingTyped
  <1>0. /\ LP!TypeOK /\ payments \in [Orders -> Seq(LP!Payment)]
        /\ taken \in [Orders -> Nat] /\ returned \in [Orders -> Nat]
        /\ request \in [Requests -> LP!Request]
    BY DEF LP!IInv, LP!Core, LP!TypeOK, SP!TypeOK
  <1>a. ASSUME \A o \in Orders : \A i : PaidOnline(o, i)' => PaidOnline(o, i),
               UNCHANGED <<taken, returned>>
        PROVE  PaidOnlineIsTaken'
    BY <1>a, PaidOnlineMeans DEF PaidOnlineIsTaken, PaidOnline, Lifecycle!PaymentsIn
  <1>1. ASSUME NEW o \in Orders, PlaceOrder(o) PROVE PaidOnlineIsTaken'
    <2>1. /\ payments' = [payments EXCEPT ![o] = <<Lifecycle!NewPayment("CASH_ON_DELIVERY")>>]
          /\ taken' = [taken EXCEPT ![o] = @ + 1]
          /\ UNCHANGED returned
      BY <1>1 DEF PlaceOrder, Lifecycle!CreateOrder, Stock!Commit
    <2>2. ASSUME NEW q \in Orders, NEW i, PaidOnline(q, i)' PROVE PaidOnline(q, i) /\ q # o
      <3>1. CASE q = o
        BY <1>0, <2>1, <2>2, <3>1 DEF PaidOnline, Lifecycle!NewPayment
      <3> QED BY <1>0, <2>1, <2>2, <3>1 DEF PaidOnline
    <2>3. \A q \in Orders \ {o} : taken'[q] = taken[q]
      BY <1>0, <2>1
    <2>4. \A q \in Orders : \A i : PaidOnline(q, i)' => taken'[q] > returned'[q]
      BY <2>1, <2>2, <2>3, PaidOnlineMeans
    <2> QED BY <2>4 DEF PaidOnlineIsTaken, PaidOnline, Lifecycle!PaymentsIn
  <1>2. ASSUME NEW o \in Orders, CancelOrder(o) PROVE PaidOnlineIsTaken'
    <2>1. /\ UNCHANGED taken
          /\ \A q \in Orders \ {o} : returned'[q] = returned[q] /\ payments'[q] = payments[q]
      BY <1>0, <1>2 DEF CancelOrder, Lifecycle!Cancel, Stock!Restore
    <2>2. ASSUME NEW i, PaidOnline(o, i)' PROVE FALSE
      <3>1. i \in DOMAIN payments[o] /\ payments'[o][i] =
              IF payments[o][i].status = "PENDING"
              THEN Lifecycle!Settled(payments[o][i], "CANCELLED", 0) ELSE payments[o][i]
        BY <1>0, <1>2, <2>2 DEF CancelOrder, Lifecycle!Cancel, PaidOnline
      <3>2. payments[o][i] \in LP!Payment
        BY <1>0, <3>1
      <3>3. payments[o][i].status # "PAID"
        BY <1>2, <3>1 DEF CancelOrder, Lifecycle!Cancel, Lifecycle!PaymentsIn, Lifecycle!Refundable
      <3>4. Lifecycle!Settled(payments[o][i], "CANCELLED", 0).status = "CANCELLED"
        BY <3>2 DEF LP!Payment, Lifecycle!Settled
      <3> QED BY <2>2, <3>1, <3>3, <3>4 DEF PaidOnline
    <2>3. \A q \in Orders : \A i : PaidOnline(q, i)' => taken'[q] > returned'[q]
      BY <2>1, <2>2, PaidOnlineMeans DEF PaidOnline
    <2> QED BY <2>3 DEF PaidOnlineIsTaken, PaidOnline, Lifecycle!PaymentsIn
  <1>3. ASSUME NEW o \in Orders, FinishConfirmation(o) PROVE PaidOnlineIsTaken'
    <2> DEFINE r == confirming[o]
               k == request[r].payment
    <2>1. r \in Requests /\ request[r].op = "confirm" /\ request[r].order = o
      BY <1>3 DEF FinishConfirmation, ConfirmingSound
    <2>2. k \in DOMAIN payments[o]
      BY <2>1 DEF LP!IInv, LP!Core, LP!RequestsAgree, LP!Agrees
    <2>3. Lifecycle!Settle(o, k, "PAID", 0) /\ "PAID" \in LP!PaymentStatus
      BY <1>3, <2>1 DEF FinishConfirmation, Lifecycle!ConfirmPaid, LP!PaymentStatus
    <2>4. /\ taken'[o] = taken[o] + 1 /\ UNCHANGED returned
          /\ \A q \in Orders \ {o} : taken'[q] = taken[q]
      BY <1>0, <1>3 DEF FinishConfirmation, Stock!Commit
    <2>5. taken[o] >= returned[o]
      <3>1. SP!KeysTellReturns /\ taken[o] \in Nat
        BY <1>0
      <3> QED BY <3>1 DEF SP!KeysTellReturns
    <2>6. ASSUME NEW q \in Orders, q # o, NEW i, PaidOnline(q, i)' PROVE PaidOnline(q, i)
      BY <1>0, <2>2, <2>3, <2>6, SettleMeans DEF PaidOnline
    <2>7. \A q \in Orders : \A i : PaidOnline(q, i)' => taken'[q] > returned'[q]
      BY <1>0, <2>4, <2>5, <2>6, PaidOnlineMeans
    <2> QED BY <2>7 DEF PaidOnlineIsTaken, PaidOnline, Lifecycle!PaymentsIn
  <1>4. ASSUME NEW o \in Orders, FailConfirmation(o) \/ StockStep(o) PROVE PaidOnlineIsTaken'
    <2>1. UNCHANGED <<payments, taken, returned>>
      BY <1>4 DEF FailConfirmation, StockStep, Lifecycle!Abandon, lifecycleVars, Stock!Rollback,
         Stock!BeginCheckout, Stock!ReadVariant, Stock!DecrementVariant, Stock!OverwriteVariant,
         Stock!WriteVariant
    <2> QED BY <1>a, <2>1 DEF PaidOnline
  <1>5. ASSUME NEW o \in Orders, OrderStep(o) PROVE PaidOnlineIsTaken'
    <2>0. UNCHANGED <<taken, returned>>
      BY <1>5 DEF OrderStep, stockVars
    <2>1. ASSUME NEW k \in DOMAIN payments[o], Lifecycle!Collect(o, k) PROVE PaidOnlineIsTaken'
      <3>1. Lifecycle!Settle(o, k, "PAID", 0) /\ payments[o][k].method = "CASH_ON_DELIVERY"
            /\ "PAID" \in LP!PaymentStatus
        BY <2>1 DEF Lifecycle!Collect, Lifecycle!Collectable, LP!PaymentStatus
      <3>2. /\ \A q \in Orders : DOMAIN payments'[q] = DOMAIN payments[q]
            /\ payments'[o][k].method = payments[o][k].method
            /\ \A q \in Orders : \A j \in DOMAIN payments[q] :
                 <<q, j>> # <<o, k>> => payments'[q][j] = payments[q][j]
        BY <1>0, <3>1, SettleMeans
      <3>3. ASSUME NEW q \in Orders, NEW i, PaidOnline(q, i)' PROVE PaidOnline(q, i)
        BY <3>1, <3>2, <3>3 DEF PaidOnline
      <3> QED BY <1>a, <2>0, <3>3
    <2>2. ASSUME NEW to \in Updates, Lifecycle!UpdateShipment(o, to) PROVE PaidOnlineIsTaken'
      BY <1>a, <2>0, <2>2 DEF Lifecycle!UpdateShipment, PaidOnline
    <2>3. ASSUME NEW r \in Requests, Lifecycle!ReadStep(r, o) PROVE PaidOnlineIsTaken'
      BY <1>a, <2>0, <2>3 DEF Lifecycle!ReadStep, Lifecycle!ConfirmRead, Lifecycle!StatusRead,
         Lifecycle!CreateRead, Lifecycle!RefundRead, Lifecycle!Begin, PaidOnline
    <2> QED BY <1>5, <2>1, <2>2, <2>3 DEF OrderStep
  <1>6. ASSUME NEW r \in Requests, RequestStep(r) PROVE PaidOnlineIsTaken'
    BY <1>a, <1>6, RequestPays DEF RequestStep, stockVars
  <1>7. ASSUME NEW r \in Requests, BeginConfirmation(r) PROVE PaidOnlineIsTaken'
    BY <1>a, <1>7 DEF BeginConfirmation, lifecycleVars, Stock!BeginConfirm, PaidOnline
  <1>8. CASE UNCHANGED vars
    BY <1>a, <1>8 DEF vars, lifecycleVars, stockVars, PaidOnline
  <1> QED BY <1>1, <1>2, <1>3, <1>4, <1>5, <1>6, <1>7, <1>8 DEF Next

\* What was paid for online was taken off the shelf more often than it was put
\* back: confirmPayment deducts in the transaction that marks the payment PAID,
\* and cancelOrder refuses an order with such a payment.
THEOREM TakenCorrect == Spec => []PaidOnlineIsTaken
  <1>1. Init => ConfirmingSound
    BY DEF Init, ConfirmingSound
  <1>2. Init => PaidOnlineIsTaken
    BY DEF Init, Lifecycle!Init, PaidOnlineIsTaken, Lifecycle!PaymentsIn
  <1> QED BY <1>1, <1>2, PartsCorrect, ConfirmingStays, TakenStays, PTL DEF Spec
=============================================================================
