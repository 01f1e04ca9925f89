----------------------------- MODULE Fulfilment -----------------------------
(***************************************************************************)
(* Orders, their payments and the stock they move: OrderLifecycle and      *)
(* Inventory together.                                                     *)
(*                                                                         *)
(* Creating an order and deducting its items is one transaction, cancelling*)
(* it and putting them back is one, and confirming a payment and deducting *)
(* the items is one.  The rest of either module moves on its own.  The     *)
(* admins' writes to the catalogue are left to Inventory: they look at no  *)
(* order and no payment.                                                   *)
(***************************************************************************)
EXTENDS OrderTerms, Sequences

CONSTANTS
  Variants, Items, InitialStock, Edits, AdjustBy, SetTo, SetStatuses

VARIABLES
  row, pending, ledger, work, placed, taken, eventKeys, returned, edit,
  status, payments, shipment, request,
  confirming  \* confirming[o]: the confirmation whose transaction is open

Stock == INSTANCE Inventory
Lifecycle == INSTANCE OrderLifecycle

\* What Inventory assumes of its constants.
ASSUME ItemsAssumption == Items \in [Orders -> [Variants -> Nat]]
ASSUME InitialStockAssumption == InitialStock \in [Variants -> Nat]
ASSUME EditsAssumption ==
  /\ AdjustBy \subseteq Int \ {0}
  /\ SetTo \subseteq Nat
  /\ SetStatuses \subseteq Stock!VariantStatus
ASSUME NoWriteAssumption == Undefined \notin Stock!Write \cup Stock!VariantStatus

stockVars == <<row, pending, ledger, work, placed, taken, eventKeys, returned, edit>>
lifecycleVars == <<status, payments, shipment, request>>
vars == <<stockVars, lifecycleVars, confirming>>

TypeOK ==
  /\ Stock!TypeOK
  /\ Lifecycle!TypeOK
  /\ confirming \in [Orders -> Requests \cup {Undefined}]

Init ==
  /\ Stock!Init
  /\ Lifecycle!Init
  /\ confirming = [o \in Orders |-> Undefined]

\* The payment a confirmation has marked PAID, uncommitted, is locked.
PaymentLocked(o, i) ==
  confirming[o] # Undefined /\ request[confirming[o]].payment = i

-----------------------------------------------------------------------------
(* Transactions of both.                                                   *)

\* createOrder.
PlaceOrder(o) ==
  /\ work[o].kind = "checkout"
  /\ Stock!Commit(o)
  /\ Lifecycle!CreateOrder(o)
  /\ UNCHANGED confirming

\* Mutant: a cancelled order's items stay off the shelf.
CancelOnly(o) ==
  /\ Lifecycle!Cancel(o)
  /\ UNCHANGED <<stockVars, confirming>>

\* cancelOrder: it also writes the payments that are PENDING, and fails when
\* a confirmation under way is about to change one of them.
CancelOrder(o) ==
  /\ \A i \in Lifecycle!PaymentsIn(o, {"PENDING"}) : ~PaymentLocked(o, i)
  /\ Lifecycle!Cancel(o)
  /\ Stock!Restore(o)
  /\ UNCHANGED confirming

\* confirmPayment has read the order; its update of the payment matches.
BeginConfirmation(r) ==
  LET o == request[r].order
  IN /\ request[r].op = "confirm"
     /\ payments[o][request[r].payment].status # "PAID"
     /\ confirming[o] = Undefined
     /\ Stock!BeginConfirm(o)
     /\ confirming' = [confirming EXCEPT ![o] = r]
     /\ UNCHANGED lifecycleVars

\* Mutant: the payment is confirmed outside of the transaction that deducts.
ConfirmOnly(o) ==
  /\ confirming[o] # Undefined
  /\ Stock!Rollback(o)
  /\ Lifecycle!ConfirmPaid(confirming[o])
  /\ confirming' = [confirming EXCEPT ![o] = Undefined]

\* confirmPayment has dealt with every item.
FinishConfirmation(o) ==
  /\ confirming[o] # Undefined
  /\ Stock!Commit(o)
  /\ Lifecycle!ConfirmPaid(confirming[o])
  /\ confirming' = [confirming EXCEPT ![o] = Undefined]

\* An item is short, or the transaction is broken off.
FailConfirmation(o) ==
  /\ confirming[o] # Undefined
  /\ Stock!Rollback(o)
  /\ Lifecycle!Abandon(confirming[o])
  /\ confirming' = [confirming EXCEPT ![o] = Undefined]

-----------------------------------------------------------------------------
(* Steps of one.                                                           *)

StockStep(o) ==
  /\ \/ Stock!BeginCheckout(o)
     \/ \E v \in Variants : Stock!ReadVariant(o, v)
     \/ Stock!DecrementVariant(o)
     \/ Stock!OverwriteVariant(o)
     \/ work[o].kind = "checkout" /\ Stock!Rollback(o)
  /\ UNCHANGED <<lifecycleVars, confirming>>

OrderStep(o) ==
  /\ \/ \E i \in DOMAIN payments[o] : Lifecycle!Collect(o, i)
     \/ \E to \in Updates : Lifecycle!UpdateShipment(o, to)
     \/ \E r \in Requests : Lifecycle!ReadStep(r, o)
  /\ UNCHANGED <<stockVars, confirming>>

\* A request whose transaction does not touch stock, and waits for no lock.
RequestStep(r) ==
  /\ \A o \in Orders : confirming[o] # r
  /\ \/ /\ request[r].op \in {"confirm", "refund"}
        /\ ~PaymentLocked(request[r].order, request[r].payment)
        /\ Lifecycle!ConfirmFailed(r) \/ Lifecycle!RefundWrite(r)
     \/ Lifecycle!StatusWrite(r)
     \/ \E method \in Lifecycle!PaymentMethod : Lifecycle!CreateWrite(r, method)
     \/ Lifecycle!Abandon(r)
  /\ UNCHANGED <<stockVars, confirming>>

Next ==
  \/ \E o \in Orders :
       \/ PlaceOrder(o)
       \/ CancelOrder(o)
       \/ FinishConfirmation(o)
       \/ FailConfirmation(o)
       \/ StockStep(o)
       \/ OrderStep(o)
  \/ \E r \in Requests : BeginConfirmation(r) \/ RequestStep(r)

Spec == Init /\ [][Next]_vars

-----------------------------------------------------------------------------
(* Properties.                                                             *)

\* Cancelling an order restores its stock atomically: the items of a cancelled
\* order were put back, once, and under keys that keep it at once.
CancelledIsRestored ==
  \A o \in Orders :
    status[o] = "CANCELLED" => o \in eventKeys /\ returned[o] = 1

\* What was paid for online is off the shelf: however the order was cancelled,
\* revived, refunded and confirmed before, its items were taken more often than
\* they were put back.
PaidOnlineIsTaken ==
  \A o \in Orders :
    \A i \in Lifecycle!PaymentsIn(o, {"PAID"}) :
      payments[o][i].method = "MOCK" => taken[o] > returned[o]

\* No money is taken for a cancelled order: cancelOrder and
\* collectCashOnDelivery re-check what they rely on, and confirmPayment holds
\* the payment it is about to turn to PAID.
CancelledNotPaid == Lifecycle!CancelledNotPaid

\* refundPayment calls a payment REFUNDED only when it was paid back in full,
\* whatever refunds of it were under way together.
RefundedIsFull == Lifecycle!RefundedIsFull

\* Cash that was paid back stays marked so, whatever collects, confirms or
\* cancels later.
CashRefundsStick == Lifecycle!CashRefundsStick
=============================================================================
