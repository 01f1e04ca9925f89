------------------------------ MODULE Returns ------------------------------
(***************************************************************************)
(* Returned items and what is paid back for them: ReturnsService, beside   *)
(* the handlers of OrderLifecycle, which write the same orders and         *)
(* payments.                                                               *)
(*                                                                         *)
(* createCustomerReturn checks the items and creates the return with no    *)
(* transaction around the two.  updateReturnStatus is a READ COMMITTED     *)
(* transaction: its first write locks the return's row, and to pay the     *)
(* return back it reads the order's payments and writes one of them later. *)
(***************************************************************************)
EXTENDS OrderTerms, Sequences, FiniteSets, Functions

CONSTANTS
  OrderItems,  \* the items of an order
  Bought,      \* Bought[i]: quantity of item i in an order
  UnitPrice,   \* UnitPrice[i]: what one unit of it cost
  Forms,       \* lists of lines a customer fills in
  Decisions,   \* statuses, besides REFUNDED, that an admin gives a return
  MaxReturns   \* bound on the returns of an order

ReturnStatus ==
  {"REQUESTED", "APPROVED", "REJECTED", "RECEIVED", "REFUNDED", "CANCELLED"}

\* The same item may be on several lines.
Line == [item: OrderItems, quantity: Nat \ {0}]

ASSUME BoughtAssumption == Bought \in [OrderItems -> Nat \ {0}]
ASSUME UnitPriceAssumption == UnitPrice \in [OrderItems -> Nat]
ASSUME FormsAssumption == Forms \subseteq Seq(Line)
ASSUME DecisionsAssumption == Decisions \subseteq ReturnStatus \ {"REFUNDED"}
ASSUME RequestsAssumption == IsFiniteSet(Requests)

Active == {"REQUESTED", "APPROVED", "RECEIVED", "REFUNDED"}

VARIABLES
  status, payments, shipment, request,
  returns,  \* returns[o]: the order's returns, oldest first
  task      \* task[r]: what a handler of returns under way has read, if any

Lifecycle == INSTANCE OrderLifecycle

lifecycleVars == <<status, payments, shipment, request>>
vars == <<status, payments, shipment, request, returns, task>>

\* refunds: the number of Refund rows made for the return.
Return == [lines: Seq(Line), status: ReturnStatus, refunds: Nat]

NoTask == [op |-> "none"]

Task ==
  {NoTask}
  \cup [op: {"create"}, order: Orders, lines: Seq(Line)]
  \cup [op: {"open"}, order: Orders, return: Nat]
  \cup [op: {"pay"}, order: Orders, return: Nat, payment: Nat, already: Nat]

TypeOK ==
  /\ Lifecycle!TypeOK
  /\ returns \in [Orders -> Seq(Return)]
  /\ task \in [Requests -> Task]

Init ==
  /\ Lifecycle!Init
  /\ returns = [o \in Orders |-> <<>>]
  /\ task = [r \in Requests |-> NoTask]

\* A request is served by one handler.
Free(r) == request[r] = Lifecycle!NoRequest /\ task[r] = NoTask

Begin(r, t) ==
  /\ Free(r)
  /\ task' = [task EXCEPT ![r] = t]
  /\ UNCHANGED <<lifecycleVars, returns>>

End(r) == task' = [task EXCEPT ![r] = NoTask]

-----------------------------------------------------------------------------
(* createCustomerReturn.                                                   *)

\* The sum of h[k] for k in S.
Total(h, S) == SumFunctionOnSet(h, S)

Quantity(lines, i) ==
  Total([k \in DOMAIN lines |-> lines[k].quantity], {k \in DOMAIN lines : lines[k].item = i})

\* The returns of order o that count.
ActiveReturns(o) == {k \in DOMAIN returns[o] : returns[o][k].status \in Active}

\* Units of item i in them.
Returned(o, i) ==
  Total([k \in DOMAIN returns[o] |-> Quantity(returns[o][k].lines, i)], ActiveReturns(o))

\* validateReturnItems looks at one line after the other.
Returnable(o, lines) ==
  \A k \in DOMAIN lines :
    lines[k].quantity <= Bought[lines[k].item] - Returned(o, lines[k].item)

CreateRead(r, o, lines) ==
  /\ status[o] = "DELIVERED"
  /\ Returnable(o, lines)
  /\ Begin(r, [op |-> "create", order |-> o, lines |-> lines])

CreateWrite(r) ==
  /\ task[r].op = "create"
  /\ LET o == task[r].order
     IN /\ Len(returns[o]) < MaxReturns
        /\ returns' = [returns EXCEPT ![o] =
             Append(@, [lines |-> task[r].lines, status |-> "REQUESTED", refunds |-> 0])]
  /\ End(r)
  /\ UNCHANGED lifecycleVars

-----------------------------------------------------------------------------
(* updateReturnStatus.                                                     *)

\* A transaction that pays the return back holds its row.
ReturnLocked(o, k) ==
  \E r \in Requests : task[r].op = "pay" /\ task[r].order = o /\ task[r].return = k

\* Any status but REFUNDED: one blind write.
Decide(o, k, to) ==
  /\ ~ReturnLocked(o, k)
  /\ returns' = [returns EXCEPT ![o][k].status = to]
  /\ UNCHANGED <<lifecycleVars, task>>

\* REFUNDED: a return that has the status already is left alone.
OpenReturn(r, o, k) ==
  /\ returns[o][k].status # "REFUNDED"
  /\ Begin(r, [op |-> "open", order |-> o, return |-> k])

\* Mutant: the return is not asked for its refund.
AnyReturn(return) == TRUE

\* createReturnRefundIfNeeded looks for the refund of the row just locked; the
\* unique returnRequestId of a Refund admits no second one either.
Unpaid(return) == return.refunds = 0

Value(lines) ==
  Total([k \in DOMAIN lines |-> UnitPrice[lines[k].item] * lines[k].quantity], DOMAIN lines)

\* Mutant: earlier refunds are forgotten.
Payable(value, already) == value <= Amount

Covered(value, already) == value <= Amount - already

\* The row is locked, and the newest payment that is PAID is to be refunded.
LockReturn(r) ==
  /\ task[r].op = "open"
  /\ LET o == task[r].order
         k == task[r].return
     IN /\ ~ReturnLocked(o, k)
        /\ Unpaid(returns[o][k])
        /\ \E i \in Lifecycle!PaymentsIn(o, {"PAID"}) :
             /\ \A j \in Lifecycle!PaymentsIn(o, {"PAID"}) : j <= i
             /\ Covered(Value(returns[o][k].lines), payments[o][i].refunded)
             /\ task' = [task EXCEPT ![r] =
                           [op |-> "pay", order |-> o, return |-> k, payment |-> i,
                            already |-> payments[o][i].refunded]]
  /\ UNCHANGED <<lifecycleVars, returns>>

\* Mutant: every return is taken for all that was paid.
Always(value, already) == TRUE

Full(value, already) == already + value >= Amount

PaidBack(return) ==
  [lines |-> return.lines, status |-> "REFUNDED", refunds |-> return.refunds + 1]

\* Refund, payment, order and return are written and committed; the payment is
\* not looked at again.
PayBack(r) ==
  /\ task[r].op = "pay"
  /\ LET o == task[r].order
         k == task[r].return
         value == Value(returns[o][k].lines)
         full == Full(value, task[r].already)
     IN /\ returns' = [returns EXCEPT ![o][k] = PaidBack(returns[o][k])]
        /\ Lifecycle!Settle(o, task[r].payment,
                            IF full THEN "REFUNDED" ELSE "PARTIALLY_REFUNDED", value)
        /\ status' = [status EXCEPT ![o] = IF full THEN "REFUNDED" ELSE "RETURNED"]
  /\ End(r)
  /\ UNCHANGED <<shipment, request>>

\* A handler that throws, or whose transaction is rolled back.
GiveUp(r) ==
  /\ task[r] # NoTask
  /\ End(r)
  /\ UNCHANGED <<lifecycleVars, returns>>

-----------------------------------------------------------------------------
\* The other services.
LifecycleStep ==
  /\ \/ \E o \in Orders : Lifecycle!OrderStep(o)
     \/ \E r \in Requests, o \in Orders : Free(r) /\ Lifecycle!ReadStep(r, o)
     \/ \E r \in Requests : Lifecycle!WriteStep(r)
  /\ UNCHANGED <<returns, task>>

ReturnStep(o) ==
  \E k \in DOMAIN returns[o] :
    \/ \E to \in Decisions : Decide(o, k, to)
    \/ \E r \in Requests : OpenReturn(r, o, k)

TaskStep(r) ==
  \/ \E o \in Orders, lines \in Forms : CreateRead(r, o, lines)
  \/ CreateWrite(r)
  \/ LockReturn(r)
  \/ PayBack(r)
  \/ GiveUp(r)

Next ==
  \/ LifecycleStep
  \/ \E o \in Orders : ReturnStep(o)
  \/ \E r \in Requests : TaskStep(r)

Spec == Init /\ [][Next]_vars

-----------------------------------------------------------------------------
(* Properties.                                                             *)

\* A return is paid back at most once, and one that is REFUNDED has been paid
\* back: however admins change its status back and forth, and whoever else
\* refunds it at the same time.
PaidBackOnce ==
  \A o \in Orders :
    \A k \in DOMAIN returns[o] :
      LET return == returns[o][k]
      IN return.refunds <= 1 /\ (return.status = "REFUNDED" => return.refunds = 1)

\* Refunds of returns leave the payments as sound as OrderLifecycle has them:
\* one that is REFUNDED was paid back in full, and nothing stays paid for an
\* order that is CANCELLED.
PaymentsSound == Lifecycle!RefundedIsFull /\ Lifecycle!CancelledNotPaid

\* Overlapping refunds each believe that what they read still remains, so what a
\* payment gives back can exceed what was paid, but only by what overlaps: it
\* stays within the amount paid for each request that can be under way at once,
\* whatever mix of refunds and returns they are and however long it goes on.
\* With one request at a time this is the limit that refundPayment and
\* createReturnRefundIfNeeded claim.
RefundsBounded ==
  \A o \in Orders : \A i \in DOMAIN payments[o] :
    payments[o][i].refunded <= Cardinality(Requests) * Amount

\* Return quantity exceeds remaining purchased quantity: what is on its way back
\* or back was bought.
ReturnedWithinBought ==
  \A o \in Orders, i \in OrderItems : Returned(o, i) <= Bought[i]
=============================================================================
