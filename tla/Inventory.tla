----------------------------- MODULE Inventory -----------------------------
(***************************************************************************)
(* The stock of the product variants and everything that writes it:        *)
(*                                                                         *)
(*  - CheckoutService.createOrder and confirmPayment, interactive          *)
(*    transactions at READ COMMITTED.  A row they update stays locked, its *)
(*    new version unseen, until they commit or roll back; what they read   *)
(*    of a row is the version committed when they read it.                 *)
(*  - OrdersService.restoreCancelledOrderInventory, run inside the         *)
(*    Serializable transaction of cancelOrder: it aborts when a row it     *)
(*    writes has changed since it began, so it is one atomic step.         *)
(*  - CatalogService.adjustInventory, updateInventory,                     *)
(*    updateProductVariant and deleteProductVariant: a read, and later     *)
(*    a write of absolute values, with nothing held in between.            *)
(*                                                                         *)
(* Whether an order may be paid or cancelled is decided in OrderLifecycle; *)
(* Fulfilment puts the two together.                                       *)
(***************************************************************************)
EXTENDS Integers

CONSTANTS
  Variants,      \* product variants
  Orders,        \* carts on their way to an order: Order.cartId is unique
  Items,         \* Items[o][v]: units of v that order o asks for
  InitialStock,  \* stock each variant was created with
  Edits,         \* requests of admins to the catalogue, each made once
  AdjustBy,      \* quantities an admin adjusts stock by
  SetTo,         \* stock levels an admin sets
  SetStatuses,   \* statuses an admin sets
  Undefined      \* an optional field left out, or a row version not there

VariantStatus == {"ACTIVE", "INACTIVE", "OUT_OF_STOCK", "DISCONTINUED"}

\* What is modelled of a ProductVariant row; deleted: deletedAt is set.
Row == [stock: Int, status: VariantStatus, deleted: BOOLEAN]

\* A row version written by the transaction of order by, not yet committed.
Write == [by: Orders, row: Row]

ASSUME ItemsAssumption == Items \in [Orders -> [Variants -> Nat]]
ASSUME InitialStockAssumption == InitialStock \in [Variants -> Nat]
ASSUME EditsAssumption ==
  /\ AdjustBy \subseteq Int \ {0}
  /\ SetTo \subseteq Nat
  /\ SetStatuses \subseteq VariantStatus
ASSUME UndefinedAssumption == Undefined \notin Write \cup Nat \cup VariantStatus

VARIABLES
  row,       \* row[v]: the committed version of variant v
  pending,   \* pending[v]: the uncommitted version that locks v, if any
  ledger,    \* ledger[v]: sum of the quantities in the committed InventoryLog
  work,      \* work[o]: the transaction of order o that is open, if any
  placed,    \* orders that exist, with their items
  taken,     \* taken[o]: how many times the items of o were deducted
  eventKeys, \* orders whose order-cancel event keys are in InventoryLog
  returned,  \* returned[o]: how many times the items of o were put back
  edit       \* edit[e]: progress of the admin's request e

vars == <<row, pending, ledger, work, placed, taken, eventKeys, returned, edit>>

VariantsOf(o) == {v \in Variants : Items[o][v] > 0}

\* No transaction of an order is open.
Idle == [kind |-> "none", todo |-> {}, read |-> {}]

\* kind: the handler; todo: items not yet deducted; read: the row fetched for
\* the item at hand and not yet written, if any.
Transaction ==
  [kind: {"none", "checkout", "confirm"},
   todo: SUBSET Variants,
   read: SUBSET (Variants \X Row)]

NewEdit == [op |-> "new"]
DoneEdit == [op |-> "done"]

Edit ==
  {NewEdit, DoneEdit}
  \cup [op: {"adjust"}, variant: Variants, quantity: Int, seen: Row]
  \cup [op: {"set"}, variant: Variants, seen: Row,
        stock: Nat \cup {Undefined}, status: VariantStatus \cup {Undefined}]
  \cup [op: {"log"}, variant: Variants, seen: Row, stock: Nat]
  \cup [op: {"delete"}, variant: Variants]

TypeOK ==
  /\ row \in [Variants -> Row]
  /\ pending \in [Variants -> Write \cup {Undefined}]
  /\ ledger \in [Variants -> Int]
  /\ work \in [Orders -> Transaction]
  /\ placed \in SUBSET Orders
  /\ taken \in [Orders -> Nat]
  /\ eventKeys \in SUBSET Orders
  /\ returned \in [Orders -> Nat]
  /\ edit \in [Edits -> Edit]

Init ==
  /\ row = [v \in Variants |->
              [stock |-> InitialStock[v], status |-> "ACTIVE", deleted |-> FALSE]]
  /\ pending = [v \in Variants |-> Undefined]
  /\ ledger = InitialStock
  /\ work = [o \in Orders |-> Idle]
  /\ placed = {}
  /\ taken = [o \in Orders |-> 0]
  /\ eventKeys = {}
  /\ returned = [o \in Orders |-> 0]
  /\ edit = [e \in Edits |-> NewEdit]

\* A version of row r with other stock and status.
Stocked(r, stock, status) == [r EXCEPT !.stock = stock, !.status = status]

Locked(v) == pending[v] # Undefined

Owns(o, v) == Locked(v) /\ pending[v].by = o

-----------------------------------------------------------------------------
(* The transactions of createOrder and confirmPayment.                     *)

\* createOrder opens its transaction and creates the order row.  The unique
\* cartId admits one such row, committed or not, for each cart.
BeginCheckout(o) ==
  /\ o \notin placed
  /\ work[o] = Idle
  /\ work' = [work EXCEPT ![o] =
                [kind |-> "checkout", todo |-> VariantsOf(o), read |-> {}]]
  /\ UNCHANGED <<row, pending, ledger, placed, taken, eventKeys, returned, edit>>

\* confirmPayment has turned a payment of the order to PAID and goes on to its
\* items; the payment row it locked keeps a second confirmation of that payment
\* out.
BeginConfirm(o) ==
  /\ o \in placed
  /\ work[o] = Idle
  /\ work' = [work EXCEPT ![o] =
                [kind |-> "confirm", todo |-> VariantsOf(o), read |-> {}]]
  /\ UNCHANGED <<row, pending, ledger, placed, taken, eventKeys, returned, edit>>

\* What each handler demands of the row it has fetched.
Sellable(kind, r, quantity) ==
  /\ ~r.deleted
  /\ r.stock >= quantity
  /\ CASE kind = "checkout" -> r.status = "ACTIVE"
       [] kind = "confirm"  -> r.status \notin {"INACTIVE", "DISCONTINUED"}

\* The findUnique of the next item.
ReadVariant(o, v) ==
  /\ v \in work[o].todo
  /\ work[o].read = {}
  /\ Sellable(work[o].kind, row[v], Items[o][v])
  /\ work' = [work EXCEPT ![o].read = {<<v, row[v]>>}]
  /\ UNCHANGED <<row, pending, ledger, placed, taken, eventKeys, returned, edit>>

\* The item at hand is done: its new row version is r, and it stays locked.
WriteVariant(o, v, r) ==
  /\ pending' = [pending EXCEPT ![v] = [by |-> o, row |-> r]]
  /\ work' = [work EXCEPT ![o].todo = @ \ {v}, ![o].read = {}]
  /\ UNCHANGED <<row, ledger, placed, taken, eventKeys, returned, edit>>

\* Mutants of the next two: the row is not asked again for its stock; the stock
\* is computed from the row as it was read.
StillActive(r, quantity) == r.status = "ACTIVE"
SetFromSeen(r, seen, quantity) ==
  Stocked(r, seen.stock - quantity,
          IF seen.stock = quantity THEN "OUT_OF_STOCK" ELSE "ACTIVE")

\* The condition of createOrder's decrement.
StillSellable(r, quantity) == r.status = "ACTIVE" /\ r.stock >= quantity

\* Row r with quantity taken off, its status computed from the row as it was
\* read.
Decremented(r, seen, quantity) ==
  Stocked(r, r.stock - quantity,
          IF seen.stock = quantity THEN "OUT_OF_STOCK" ELSE "ACTIVE")

\* createOrder's conditional decrement, of the row as it is now.
DecrementVariant(o) ==
  \E p \in work[o].read :
    LET v == p[1]
        quantity == Items[o][v]
    IN /\ work[o].kind = "checkout"
       /\ ~Locked(v)
       /\ StillSellable(row[v], quantity)
       /\ WriteVariant(o, v, Decremented(row[v], p[2], quantity))

\* confirmPayment's unconditional update: stock and status are both computed
\* from the row as it was read.
OverwriteVariant(o) ==
  \E p \in work[o].read :
    LET v == p[1]
        seen == p[2]
        quantity == Items[o][v]
    IN /\ work[o].kind = "confirm"
       /\ ~Locked(v)
       /\ WriteVariant(o, v,
            Stocked(row[v], seen.stock - quantity,
                    IF seen.stock = quantity THEN "OUT_OF_STOCK" ELSE seen.status))

\* Mutant: a transaction that ends leaves its rows locked.
StillHeld(o) == pending

\* What remains locked when the transaction of o ends.
Released(o) == [v \in Variants |-> IF Owns(o, v) THEN Undefined ELSE pending[v]]

\* Mutant: the loop over the items ends too early.
NoneAtHand(o) == work[o].read = {}

\* The loop over the items has ended.
AllDeducted(o) == work[o].todo = {}

\* Every item is deducted: row versions, log entries and order become visible.
Commit(o) ==
  /\ work[o].kind # "none"
  /\ AllDeducted(o)
  /\ row' = [v \in Variants |-> IF Owns(o, v) THEN pending[v].row ELSE row[v]]
  /\ pending' = Released(o)
  /\ ledger' = [v \in Variants |->
                  IF Owns(o, v) THEN ledger[v] - Items[o][v] ELSE ledger[v]]
  /\ work' = [work EXCEPT ![o] = Idle]
  /\ placed' = placed \cup {o}
  /\ taken' = [taken EXCEPT ![o] = @ + 1]
  /\ UNCHANGED <<eventKeys, returned, edit>>

\* A thrown exception (an item that cannot be sold, a decrement that matched
\* no row), a deadlock the database breaks, the transaction's time limit or
\* the loss of the connection: nothing of the transaction remains.
Rollback(o) ==
  /\ work[o].kind # "none"
  /\ pending' = Released(o)
  /\ work' = [work EXCEPT ![o] = Idle]
  /\ UNCHANGED <<row, ledger, placed, taken, eventKeys, returned, edit>>

-----------------------------------------------------------------------------
(* The stock of a cancelled order.                                         *)

Restocked(r, quantity) ==
  Stocked(r, r.stock + quantity,
          IF r.status = "OUT_OF_STOCK" THEN "ACTIVE" ELSE r.status)

\* Mutant: log entries without event keys.
NoKeys(o) == TRUE

\* The unique event keys make a second restoration of the order fail, and the
\* whole cancellation with it.
KeysFree(o) == o \notin eventKeys

Restore(o) ==
  /\ o \in placed
  /\ KeysFree(o)
  /\ \A v \in VariantsOf(o) : ~Locked(v)
  /\ row' = [v \in Variants |->
               IF v \in VariantsOf(o) THEN Restocked(row[v], Items[o][v]) ELSE row[v]]
  /\ ledger' = [v \in Variants |-> ledger[v] + Items[o][v]]
  /\ eventKeys' = eventKeys \cup {o}
  /\ returned' = [returned EXCEPT ![o] = @ + 1]
  /\ UNCHANGED <<pending, work, placed, taken, edit>>

-----------------------------------------------------------------------------
(* The admins' writes.                                                     *)

\* getVariantOrThrow finds the variant, as it is now.
Fetch(e, v, request) ==
  /\ edit[e] = NewEdit
  /\ ~row[v].deleted
  /\ edit' = [edit EXCEPT ![e] = request]
  /\ UNCHANGED <<row, pending, ledger, work, placed, taken, eventKeys, returned>>

Permitted(stock) == stock >= 0

ReadToAdjust(e, v, n) ==
  /\ Permitted(row[v].stock + n)
  /\ Fetch(e, v, [op |-> "adjust", variant |-> v, quantity |-> n, seen |-> row[v]])

\* The status adjustInventory derives from the row it read.
AdjustedStatus(seen, n) ==
  IF seen.stock + n = 0 /\ seen.status = "ACTIVE" THEN "OUT_OF_STOCK"
  ELSE IF seen.stock + n > 0 /\ seen.status = "OUT_OF_STOCK" THEN "ACTIVE"
  ELSE seen.status

\* One batch transaction: the new absolute stock and its log entry.
WriteAdjustment(e) ==
  /\ edit[e].op = "adjust"
  /\ LET v == edit[e].variant
         seen == edit[e].seen
         n == edit[e].quantity
     IN /\ ~Locked(v)
        /\ row' = [row EXCEPT ![v] =
                     Stocked(@, seen.stock + n, AdjustedStatus(seen, n))]
        /\ ledger' = [ledger EXCEPT ![v] = @ + n]
  /\ edit' = [edit EXCEPT ![e] = DoneEdit]
  /\ UNCHANGED <<pending, work, placed, taken, eventKeys, returned>>

\* Mutant: an optional field is written though it was left out.
Overwritten(old, new) == new

\* An optional field is written when it is there.
Patched(old, new) == IF new = Undefined THEN old ELSE new

\* updateInventory and updateProductVariant: stock and status are optional.
ReadToSet(e, v, stock, status) ==
  Fetch(e, v, [op |-> "set", variant |-> v, seen |-> row[v],
               stock |-> stock, status |-> status])

WriteSet(e) ==
  /\ edit[e].op = "set"
  /\ LET v == edit[e].variant
         stock == edit[e].stock
     IN /\ ~Locked(v)
        /\ row' = [row EXCEPT ![v] =
                     Stocked(@, Patched(@.stock, stock), Patched(@.status, edit[e].status))]
        /\ edit' = [edit EXCEPT ![e] =
                      IF stock \in {Undefined, edit[e].seen.stock}
                      THEN DoneEdit
                      ELSE [op |-> "log", variant |-> v, seen |-> edit[e].seen,
                            stock |-> stock]]
  /\ UNCHANGED <<pending, ledger, work, placed, taken, eventKeys, returned>>

\* The log entry of a set stock is a statement of its own, after the update;
\* a failure in between leaves the update without one.
LogSet(e) ==
  /\ edit[e].op = "log"
  /\ \/ ledger' = [ledger EXCEPT ![edit[e].variant] =
                     @ + edit[e].stock - edit[e].seen.stock]
     \/ UNCHANGED ledger
  /\ edit' = [edit EXCEPT ![e] = DoneEdit]
  /\ UNCHANGED <<row, pending, work, placed, taken, eventKeys, returned>>

ReadToDelete(e, v) == Fetch(e, v, [op |-> "delete", variant |-> v])

WriteDelete(e) ==
  /\ edit[e].op = "delete"
  /\ LET v == edit[e].variant
     IN /\ ~Locked(v)
        /\ row' = [row EXCEPT ![v] = [stock |-> @.stock, status |-> "DISCONTINUED",
                                      deleted |-> TRUE]]
  /\ edit' = [edit EXCEPT ![e] = DoneEdit]
  /\ UNCHANGED <<pending, ledger, work, placed, taken, eventKeys, returned>>

-----------------------------------------------------------------------------
CheckoutStep(o) ==
  \/ BeginCheckout(o)
  \/ \E v \in Variants : ReadVariant(o, v)
  \/ DecrementVariant(o)
  \/ Commit(o)
  \/ Rollback(o)

ConfirmStep(o) == BeginConfirm(o) \/ OverwriteVariant(o)

EditStep(e) ==
  \/ \E v \in Variants :
       \/ \E n \in AdjustBy : ReadToAdjust(e, v, n)
       \/ \E stock \in SetTo \cup {Undefined}, status \in SetStatuses \cup {Undefined} :
            ReadToSet(e, v, stock, status)
       \/ ReadToDelete(e, v)
  \/ WriteAdjustment(e)
  \/ WriteSet(e)
  \/ LogSet(e)
  \/ WriteDelete(e)

\* Cash on delivery, the only way createOrder takes payment: stock moves by
\* conditional decrements and increments alone.
CashNext == \E o \in Orders : CheckoutStep(o) \/ Restore(o)

Next ==
  \/ CashNext
  \/ \E o \in Orders : ConfirmStep(o)
  \/ \E e \in Edits : EditStep(e)

CashSpec == Init /\ [][CashNext]_vars

Spec == Init /\ [][Next]_vars

\* An interactive transaction is rolled back when its time is up, and a
\* statement that waits for a row is served in the order it asked.
Fairness ==
  /\ \A o \in Orders : WF_vars(Commit(o) \/ Rollback(o))
  /\ \A e \in Edits :
       /\ SF_vars(WriteAdjustment(e))
       /\ SF_vars(WriteSet(e))
       /\ WF_vars(LogSet(e))
       /\ SF_vars(WriteDelete(e))

LiveSpec == Spec /\ Fairness

-----------------------------------------------------------------------------
(* Properties.                                                             *)

\* Stock cannot go below zero, whatever the handlers interleave: neither the
\* stale absolute writes of adjustInventory and confirmPayment nor two
\* checkouts of the last unit get it there.
StockNonNegative == \A v \in Variants : row[v].stock >= 0

\* The items of an order go back on the shelf at most once, however often the
\* order comes to be cancelled, and only after they were taken.
RestoredAtMostOnce ==
  \A o \in Orders : returned[o] <= 1 /\ returned[o] <= taken[o]

\* With cash-on-delivery traffic alone, the committed stock is what the
\* inventory log adds up to.
LedgerAgrees == \A v \in Variants : row[v].stock = ledger[v]

\* A request of an admin that waits for a row an order has locked is answered,
\* however many orders come and go on that row.
EditsFinish ==
  \A e \in Edits : edit[e].op \notin {"new", "done"} ~> edit[e] = DoneEdit

-----------------------------------------------------------------------------
(* What cash-on-delivery promises.                                         *)

Reservation(o) ==
  IF o \in eventKeys THEN "released" ELSE IF o \in placed THEN "reserved" ELSE "none"

Ledger == INSTANCE StockLedger WITH
            available <- [v \in Variants |-> row[v].stock],
            reservation <- [o \in Orders |-> Reservation(o)]

\* Order by order, all items are reserved at once or none is, against stock
\* that is there; a cancelled order's items come back once.
ImplementsLedger == Ledger!Spec
=============================================================================
