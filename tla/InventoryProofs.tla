-------------------------- MODULE InventoryProofs --------------------------
(***************************************************************************)
(* Proofs about Inventory, for any variants, orders, items and admins.     *)
(***************************************************************************)
EXTENDS Inventory, TLAPS

\* Every committed and uncommitted row version, open transaction and request
\* of an admin has its type in every reachable state.
LEMMA TypeInit == Init => TypeOK
  BY ItemsAssumption, InitialStockAssumption
  DEF Init, TypeOK, Row, VariantStatus, Transaction, Idle, Edit, NewEdit

\* Changing stock and status of a row touches nothing else.
LEMMA StockedRow ==
  ASSUME NEW r \in Row, NEW stock \in Int, NEW status \in VariantStatus
  PROVE  /\ Stocked(r, stock, status) \in Row
         /\ Stocked(r, stock, status).stock = stock
         /\ Stocked(r, stock, status).status = status
         /\ Stocked(r, stock, status).deleted = r.deleted
  BY DEF Stocked, Row

\* The type of what an open transaction has fetched.
LEMMA FetchedType ==
  ASSUME TypeOK, NEW o \in Orders, NEW p \in work[o].read
  PROVE  p[1] \in Variants /\ p[2] \in Row
  BY DEF TypeOK, Transaction

LEMMA WriteVariantType ==
  ASSUME TypeOK, NEW o \in Orders, NEW v \in Variants, NEW r \in Row, WriteVariant(o, v, r)
  PROVE  TypeOK'
  <1>1. [by |-> o, row |-> r] \in Write
    BY DEF Write
  <1>2. pending' \in [Variants -> Write \cup {Undefined}]
    BY <1>1 DEF TypeOK, WriteVariant
  <1>3. work' \in [Orders -> Transaction]
    <2> DEFINE t == [work[o] EXCEPT !.todo = work[o].todo \ {v}, !.read = {}]
    <2>1. work[o] \in Transaction /\ work \in [Orders -> Transaction]
      BY DEF TypeOK
    <2>2. t \in Transaction
      BY <2>1 DEF Transaction
    <2>3. work' = [work EXCEPT ![o] = t]
      BY DEF WriteVariant
    <2> HIDE DEF t
    <2> QED BY <2>1, <2>2, <2>3
  <1>4. QED
    BY <1>2, <1>3 DEF TypeOK, WriteVariant

LEMMA TypeCheckout ==
  ASSUME TypeOK, NEW o \in Orders, CheckoutStep(o) \/ ConfirmStep(o)
  PROVE  TypeOK'
  <1> USE ItemsAssumption
  <1>1. CASE BeginCheckout(o)
    BY <1>1 DEF BeginCheckout, TypeOK, Transaction, VariantsOf
  <1>2. CASE BeginConfirm(o)
    BY <1>2 DEF BeginConfirm, TypeOK, Transaction, VariantsOf
  <1>3. ASSUME NEW v \in Variants, ReadVariant(o, v) PROVE TypeOK'
    <2>1. {<<v, row[v]>>} \in SUBSET (Variants \X Row)
      BY DEF TypeOK
    <2>2. work' \in [Orders -> Transaction]
      <3> DEFINE fetched == {<<v, row[v]>>}
      <3>1. work' = [work EXCEPT ![o].read = fetched]
        BY <1>3 DEF ReadVariant
      <3>2. fetched \in SUBSET (Variants \X Row)
        BY <2>1
      <3> HIDE DEF fetched
      <3>3. QED
        BY <3>1, <3>2 DEF TypeOK, Transaction
    <2>3. QED
      BY <1>3, <2>2 DEF ReadVariant, TypeOK
  <1>4. CASE DecrementVariant(o)
    <2>1. PICK p \in work[o].read :
            WriteVariant(o, p[1],
              Stocked(row[p[1]], row[p[1]].stock - Items[o][p[1]],
                IF p[2].stock = Items[o][p[1]] THEN "OUT_OF_STOCK" ELSE "ACTIVE"))
      BY <1>4 DEF DecrementVariant, StillSellable, Decremented
    <2>2. p[1] \in Variants /\ row[p[1]] \in Row /\ Items[o][p[1]] \in Nat
      BY FetchedType DEF TypeOK
    <2>3. /\ row[p[1]].stock - Items[o][p[1]] \in Int
          /\ (IF p[2].stock = Items[o][p[1]] THEN "OUT_OF_STOCK" ELSE "ACTIVE") \in VariantStatus
      BY <2>2 DEF Row, VariantStatus
    <2>4. QED
      BY <2>1, <2>2, <2>3, StockedRow, WriteVariantType
  <1>5. CASE OverwriteVariant(o)
    <2>1. PICK p \in work[o].read :
            WriteVariant(o, p[1],
              Stocked(row[p[1]], p[2].stock - Items[o][p[1]],
                IF p[2].stock = Items[o][p[1]] THEN "OUT_OF_STOCK" ELSE p[2].status))
      BY <1>5 DEF OverwriteVariant
    <2>2. p[1] \in Variants /\ p[2] \in Row /\ row[p[1]] \in Row /\ Items[o][p[1]] \in Nat
      BY FetchedType DEF TypeOK
    <2>3. /\ p[2].stock - Items[o][p[1]] \in Int
          /\ (IF p[2].stock = Items[o][p[1]] THEN "OUT_OF_STOCK" ELSE p[2].status) \in VariantStatus
      BY <2>2 DEF Row, VariantStatus
    <2>4. QED
      BY <2>1, <2>2, <2>3, StockedRow, WriteVariantType
  <1>6. CASE Commit(o)
    <2>1. \A v \in Variants : Owns(o, v) => pending[v].row \in Row
      BY DEF TypeOK, Owns, Locked, Write
    <2>2. row' \in [Variants -> Row]
      BY <1>6, <2>1 DEF Commit, TypeOK
    <2>3. pending' \in [Variants -> Write \cup {Undefined}]
      BY <1>6 DEF Commit, Released, TypeOK
    <2>4. ledger' \in [Variants -> Int]
      BY <1>6 DEF Commit, TypeOK
    <2>5. work' \in [Orders -> Transaction]
      BY <1>6 DEF Commit, TypeOK, Idle, Transaction
    <2>6. QED
      BY <1>6, <2>2, <2>3, <2>4, <2>5 DEF Commit, TypeOK
  <1>7. CASE Rollback(o)
    BY <1>7 DEF Rollback, Released, TypeOK, Idle, Transaction
  <1>8. QED
    BY <1>1, <1>2, <1>3, <1>4, <1>5, <1>6, <1>7 DEF CheckoutStep, ConfirmStep

LEMMA TypeRestore ==
  ASSUME TypeOK, NEW o \in Orders, Restore(o)
  PROVE  TypeOK'
  <1> USE ItemsAssumption
  <1>1. ASSUME NEW v \in Variants PROVE Restocked(row[v], Items[o][v]) \in Row
    <2>1. row[v] \in Row /\ Items[o][v] \in Nat
      BY DEF TypeOK
    <2>2. /\ row[v].stock + Items[o][v] \in Int
          /\ (IF row[v].status = "OUT_OF_STOCK" THEN "ACTIVE" ELSE row[v].status) \in VariantStatus
      BY <2>1 DEF Row, VariantStatus
    <2>3. QED
      BY <2>1, <2>2, StockedRow DEF Restocked
  <1>2. row' \in [Variants -> Row]
    BY <1>1 DEF Restore, TypeOK
  <1>3. ledger' \in [Variants -> Int]
    <2>1. \A v \in Variants : ledger[v] + Items[o][v] \in Int
      BY DEF TypeOK
    <2>2. QED
      BY <2>1 DEF Restore
  <1>4. QED
    BY <1>2, <1>3 DEF Restore, TypeOK

LEMMA TypeEdit ==
  ASSUME TypeOK, NEW e \in Edits, EditStep(e)
  PROVE  TypeOK'
  <1> USE EditsAssumption
  <1>1. ASSUME NEW v \in Variants, NEW n \in AdjustBy, ReadToAdjust(e, v, n) PROVE TypeOK'
    <2>1. [op |-> "adjust", variant |-> v, quantity |-> n, seen |-> row[v]] \in Edit
      BY DEF TypeOK, Edit
    <2>2. QED
      BY <1>1, <2>1 DEF ReadToAdjust, Permitted, Fetch, TypeOK
  <1>2. ASSUME NEW v \in Variants, NEW stock \in SetTo \cup {Undefined},
               NEW status \in SetStatuses \cup {Undefined}, ReadToSet(e, v, stock, status)
        PROVE  TypeOK'
    <2>1. [op |-> "set", variant |-> v, seen |-> row[v], stock |-> stock,
           status |-> status] \in Edit
      BY DEF TypeOK, Edit
    <2>2. QED
      BY <1>2, <2>1 DEF ReadToSet, Fetch, TypeOK
  <1>3. ASSUME NEW v \in Variants, ReadToDelete(e, v) PROVE TypeOK'
    BY <1>3 DEF ReadToDelete, Fetch, TypeOK, Edit
  <1>4. DoneEdit \in Edit
    BY DEF Edit
  <1>5. CASE WriteAdjustment(e)
    <2>1. edit[e].variant \in Variants /\ edit[e].quantity \in Int /\ edit[e].seen \in Row
      BY <1>5 DEF WriteAdjustment, TypeOK, Edit, NewEdit, DoneEdit
    <2>2. AdjustedStatus(edit[e].seen, edit[e].quantity) \in VariantStatus
      BY <2>1 DEF AdjustedStatus, Row, VariantStatus
    <2>3. edit[e].seen.stock + edit[e].quantity \in Int
      BY <2>1 DEF Row
    <2>4. row' \in [Variants -> Row]
      BY <1>5, <2>1, <2>2, <2>3, StockedRow DEF WriteAdjustment, TypeOK
    <2>5. ledger' \in [Variants -> Int]
      BY <1>5, <2>1 DEF WriteAdjustment, TypeOK
    <2>6. QED
      BY <1>4, <1>5, <2>4, <2>5 DEF WriteAdjustment, TypeOK
  <1>6. CASE WriteSet(e)
    <2>1. /\ edit[e].variant \in Variants /\ edit[e].seen \in Row
          /\ edit[e].stock \in Nat \cup {Undefined}
          /\ edit[e].status \in VariantStatus \cup {Undefined}
      BY <1>6 DEF WriteSet, Patched, TypeOK, Edit, NewEdit, DoneEdit
    <2>2. row' \in [Variants -> Row]
      <3> DEFINE r == row[edit[e].variant]
                 newStock == IF edit[e].stock = Undefined THEN r.stock ELSE edit[e].stock
                 newStatus == IF edit[e].status = Undefined THEN r.status ELSE edit[e].status
      <3>1. r \in Row /\ newStock \in Int /\ newStatus \in VariantStatus
        BY <2>1 DEF TypeOK, Row
      <3>2. Stocked(r, newStock, newStatus) \in Row
        BY <3>1, StockedRow
      <3>3. row' = [row EXCEPT ![edit[e].variant] = Stocked(r, newStock, newStatus)]
        BY <1>6 DEF WriteSet, Patched
      <3>4. QED
        BY <3>2, <3>3 DEF TypeOK
    <2>4. edit[e].stock # Undefined =>
            [op |-> "log", variant |-> edit[e].variant, seen |-> edit[e].seen,
             stock |-> edit[e].stock] \in Edit
      BY <2>1 DEF Edit
    <2>5. edit' \in [Edits -> Edit]
      BY <1>4, <1>6, <2>4 DEF WriteSet, Patched, TypeOK
    <2>6. QED
      BY <1>6, <2>2, <2>5 DEF WriteSet, Patched, TypeOK
  <1>7. CASE LogSet(e)
    <2>1. ledger' \in [Variants -> Int]
      <3>1. CASE UNCHANGED ledger
        BY <3>1 DEF TypeOK
      <3>2. CASE ledger' = [ledger EXCEPT ![edit[e].variant] =
                              @ + edit[e].stock - edit[e].seen.stock]
        <4>1. edit[e].stock \in Nat /\ edit[e].seen \in Row /\ edit[e].variant \in Variants
          BY <1>7 DEF LogSet, TypeOK, Edit, NewEdit, DoneEdit
        <4>2. QED
          BY <3>2, <4>1 DEF TypeOK, Row
      <3>3. QED
        BY <1>7, <3>1, <3>2 DEF LogSet
    <2>2. QED
      BY <1>4, <1>7, <2>1 DEF LogSet, TypeOK
  <1>8. CASE WriteDelete(e)
    <2>1. edit[e].variant \in Variants
      BY <1>8 DEF WriteDelete, TypeOK, Edit, NewEdit, DoneEdit
    <2>2. [stock |-> row[edit[e].variant].stock, status |-> "DISCONTINUED",
           deleted |-> TRUE] \in Row
      BY <2>1 DEF TypeOK, Row, VariantStatus
    <2>3. row' \in [Variants -> Row]
      BY <1>8, <2>2 DEF WriteDelete, TypeOK
    <2>4. QED
      BY <1>4, <1>8, <2>3 DEF WriteDelete, TypeOK
  <1>9. QED
    BY <1>1, <1>2, <1>3, <1>5, <1>6, <1>7, <1>8 DEF EditStep

LEMMA TypeNext == TypeOK /\ [Next]_vars => TypeOK'
  <1> SUFFICES ASSUME TypeOK, [Next]_vars PROVE TypeOK'
    OBVIOUS
  <1>1. CASE UNCHANGED vars
    BY <1>1 DEF vars, TypeOK
  <1>2. CASE Next
    BY <1>2, TypeCheckout, TypeRestore, TypeEdit DEF Next, CashNext
  <1>3. QED
    BY <1>1, <1>2

\* Every variable keeps its type under every handler.
THEOREM TypeCorrect == Spec => []TypeOK
  BY TypeInit, TypeNext, PTL DEF Spec

-----------------------------------------------------------------------------
(* Stock cannot go below zero.                                             *)

\* Neither what is committed, nor a version that waits for its commit, nor
\* the absolute level a stale read is about to be written with, is negative.
NoNegativeTarget ==
  /\ \A v \in Variants : row[v].stock >= 0
  /\ \A v \in Variants : Locked(v) => pending[v].row.stock >= 0
  /\ \A o \in Orders : \A p \in work[o].read :
       work[o].kind = "confirm" => p[2].stock >= Items[o][p[1]]
  /\ \A e \in Edits :
       edit[e].op = "adjust" => edit[e].seen.stock + edit[e].quantity >= 0

LEMMA TargetInit == Init => NoNegativeTarget
  BY InitialStockAssumption
  DEF Init, NoNegativeTarget, Locked, Idle, NewEdit

LEMMA TargetWriteVariant ==
  ASSUME TypeOK, NoNegativeTarget, NEW o \in Orders, NEW v \in Variants,
         NEW r \in Row, r.stock >= 0, WriteVariant(o, v, r)
  PROVE  NoNegativeTarget'
  <1>1. \A w \in Variants : Locked(w)' => (pending[w].row.stock >= 0)'
    BY DEF TypeOK, NoNegativeTarget, WriteVariant, Locked
  <1>2. \A q \in Orders : \A p \in work'[q].read :
          work'[q].kind = "confirm" => p[2].stock >= Items[q][p[1]]
    BY DEF TypeOK, Transaction, NoNegativeTarget, WriteVariant
  <1>3. QED
    BY <1>1, <1>2 DEF NoNegativeTarget, WriteVariant

LEMMA TargetOrder ==
  ASSUME TypeOK, NoNegativeTarget, NEW o \in Orders,
         CheckoutStep(o) \/ ConfirmStep(o) \/ Restore(o)
  PROVE  NoNegativeTarget'
  <1> USE ItemsAssumption
  <1>1. CASE BeginCheckout(o) \/ BeginConfirm(o)
    <2>1. \A q \in Orders : work'[q].read \in {{}, work[q].read}
                               /\ (q = o \/ work'[q] = work[q])
                               /\ work'[o].read = {}
      BY <1>1 DEF BeginCheckout, BeginConfirm, TypeOK
    <2>2. \A q \in Orders : \A p \in work'[q].read :
            work'[q].kind = "confirm" => p[2].stock >= Items[q][p[1]]
      BY <2>1 DEF NoNegativeTarget
    <2>3. UNCHANGED <<row, pending, edit>>
      BY <1>1 DEF BeginCheckout, BeginConfirm
    <2>4. QED
      BY <2>2, <2>3 DEF NoNegativeTarget, Locked
  <1>2. ASSUME NEW v \in Variants, ReadVariant(o, v) PROVE NoNegativeTarget'
    <2>1. row[v].stock >= Items[o][v]
      BY <1>2 DEF ReadVariant, Sellable
    <2>2. \A q \in Orders : \A p \in work'[q].read :
            work'[q].kind = "confirm" => p[2].stock >= Items[q][p[1]]
      <3> SUFFICES ASSUME NEW q \in Orders, NEW p \in work'[q].read,
                          work'[q].kind = "confirm"
                   PROVE  p[2].stock >= Items[q][p[1]]
        OBVIOUS
      <3>1. CASE q = o
        <4>1. p = <<v, row[v]>>
          BY <1>2, <3>1 DEF ReadVariant, TypeOK, Transaction
        <4>2. QED
          BY <2>1, <3>1, <4>1
      <3>2. CASE q # o
        BY <1>2, <3>2 DEF ReadVariant, TypeOK, NoNegativeTarget
      <3>3. QED
        BY <3>1, <3>2
    <2>3. QED
      BY <1>2, <2>2 DEF ReadVariant, NoNegativeTarget, Locked
  <1>3. CASE DecrementVariant(o)
    <2>1. PICK p \in work[o].read :
            /\ row[p[1]].stock >= Items[o][p[1]]
            /\ WriteVariant(o, p[1],
                 Stocked(row[p[1]], row[p[1]].stock - Items[o][p[1]],
                   IF p[2].stock = Items[o][p[1]] THEN "OUT_OF_STOCK" ELSE "ACTIVE"))
      BY <1>3 DEF DecrementVariant, StillSellable, Decremented
    <2>2. p[1] \in Variants /\ row[p[1]] \in Row /\ Items[o][p[1]] \in Nat
      BY FetchedType DEF TypeOK
    <2>3. /\ row[p[1]].stock - Items[o][p[1]] \in Int
          /\ row[p[1]].stock - Items[o][p[1]] >= 0
          /\ (IF p[2].stock = Items[o][p[1]] THEN "OUT_OF_STOCK" ELSE "ACTIVE") \in VariantStatus
      BY <2>1, <2>2 DEF Row, VariantStatus
    <2>4. QED
      BY <2>1, <2>2, <2>3, StockedRow, TargetWriteVariant
  <1>4. CASE OverwriteVariant(o)
    <2>1. PICK p \in work[o].read :
            /\ work[o].kind = "confirm"
            /\ WriteVariant(o, p[1],
                 Stocked(row[p[1]], p[2].stock - Items[o][p[1]],
                   IF p[2].stock = Items[o][p[1]] THEN "OUT_OF_STOCK" ELSE p[2].status))
      BY <1>4 DEF OverwriteVariant
    <2>2. /\ p[1] \in Variants /\ p[2] \in Row /\ row[p[1]] \in Row
          /\ Items[o][p[1]] \in Nat /\ p[2].stock >= Items[o][p[1]]
      BY <2>1, FetchedType DEF TypeOK, NoNegativeTarget
    <2>3. /\ p[2].stock - Items[o][p[1]] \in Int
          /\ p[2].stock - Items[o][p[1]] >= 0
          /\ (IF p[2].stock = Items[o][p[1]] THEN "OUT_OF_STOCK" ELSE p[2].status) \in VariantStatus
      BY <2>2 DEF Row, VariantStatus
    <2>4. QED
      BY <2>1, <2>2, <2>3, StockedRow, TargetWriteVariant
  <1>5. CASE Commit(o) \/ Rollback(o)
    <2>1. pending' = Released(o)
      BY <1>5 DEF Commit, Rollback
    <2>2. \A w \in Variants : Locked(w)' => (pending[w].row.stock >= 0)'
      BY <2>1 DEF Released, NoNegativeTarget, Locked, Owns
    <2>3. \A w \in Variants : row'[w].stock >= 0
      BY <1>5 DEF Commit, Rollback, NoNegativeTarget, Owns
    <2>4. QED
      BY <1>5, <2>2, <2>3 DEF Commit, Rollback, NoNegativeTarget, TypeOK, Idle
  <1>6. CASE Restore(o)
    <2>1. ASSUME NEW v \in Variants PROVE Restocked(row[v], Items[o][v]).stock >= 0
      <3>1. row[v] \in Row /\ Items[o][v] \in Nat /\ row[v].stock >= 0
        BY DEF TypeOK, NoNegativeTarget
      <3>2. /\ row[v].stock + Items[o][v] \in Int
            /\ row[v].stock + Items[o][v] >= 0
            /\ (IF row[v].status = "OUT_OF_STOCK" THEN "ACTIVE" ELSE row[v].status) \in VariantStatus
        BY <3>1 DEF Row, VariantStatus
      <3>3. QED
        BY <3>1, <3>2, StockedRow DEF Restocked
    <2>2. \A v \in Variants : row'[v].stock >= 0
      BY <1>6, <2>1 DEF Restore, NoNegativeTarget
    <2>3. QED
      BY <1>6, <2>2 DEF Restore, NoNegativeTarget, Locked
  <1>7. QED
    BY <1>1, <1>2, <1>3, <1>4, <1>5, <1>6 DEF CheckoutStep, ConfirmStep

LEMMA TargetEdit ==
  ASSUME TypeOK, NoNegativeTarget, NEW e \in Edits, EditStep(e)
  PROVE  NoNegativeTarget'
  <1> USE EditsAssumption
  <1>1. ASSUME NEW v \in Variants, NEW n \in AdjustBy, ReadToAdjust(e, v, n)
        PROVE  NoNegativeTarget'
    BY <1>1 DEF ReadToAdjust, Permitted, Fetch, NoNegativeTarget, TypeOK, Locked
  <1>2. ASSUME NEW v \in Variants, NEW stock \in SetTo \cup {Undefined},
               NEW status \in SetStatuses \cup {Undefined}, ReadToSet(e, v, stock, status)
        PROVE  NoNegativeTarget'
    BY <1>2 DEF ReadToSet, Fetch, NoNegativeTarget, TypeOK, Locked
  <1>3. ASSUME NEW v \in Variants, ReadToDelete(e, v) PROVE NoNegativeTarget'
    BY <1>3 DEF ReadToDelete, Fetch, NoNegativeTarget, TypeOK, Locked
  <1>4. CASE WriteAdjustment(e)
    <2>1. edit[e].variant \in Variants /\ edit[e].quantity \in Int /\ edit[e].seen \in Row
      BY <1>4 DEF WriteAdjustment, TypeOK, Edit, NewEdit, DoneEdit
    <2>2. AdjustedStatus(edit[e].seen, edit[e].quantity) \in VariantStatus
      BY <2>1 DEF AdjustedStatus, Row, VariantStatus
    <2>3. /\ edit[e].seen.stock + edit[e].quantity \in Int
          /\ edit[e].seen.stock + edit[e].quantity >= 0
      BY <1>4, <2>1 DEF Row, WriteAdjustment, NoNegativeTarget
    <2>4. \A v \in Variants : row'[v].stock >= 0
      BY <1>4, <2>1, <2>2, <2>3, StockedRow DEF WriteAdjustment, TypeOK, NoNegativeTarget
    <2>5. QED
      BY <1>4, <2>4 DEF WriteAdjustment, NoNegativeTarget, TypeOK, Locked, DoneEdit
  <1>5. CASE WriteSet(e)
    <2> DEFINE r == row[edit[e].variant]
               newStock == IF edit[e].stock = Undefined THEN r.stock ELSE edit[e].stock
               newStatus == IF edit[e].status = Undefined THEN r.status ELSE edit[e].status
    <2>1. /\ edit[e].variant \in Variants
          /\ edit[e].stock \in Nat \cup {Undefined}
          /\ edit[e].status \in VariantStatus \cup {Undefined}
      BY <1>5 DEF WriteSet, Patched, TypeOK, Edit, NewEdit, DoneEdit
    <2>2. r \in Row /\ newStock \in Int /\ newStock >= 0 /\ newStatus \in VariantStatus
      BY <2>1 DEF TypeOK, Row, NoNegativeTarget
    <2>3. Stocked(r, newStock, newStatus).stock >= 0
      BY <2>2, StockedRow
    <2>4. row' = [row EXCEPT ![edit[e].variant] = Stocked(r, newStock, newStatus)]
      BY <1>5 DEF WriteSet, Patched
    <2>5. \A v \in Variants : row'[v].stock >= 0
      BY <2>3, <2>4 DEF TypeOK, NoNegativeTarget
    <2>6. \A d \in Edits :
            edit'[d].op = "adjust" => edit'[d].seen.stock + edit'[d].quantity >= 0
      BY <1>5 DEF WriteSet, Patched, NoNegativeTarget, TypeOK, DoneEdit
    <2>7. QED
      BY <1>5, <2>5, <2>6 DEF WriteSet, Patched, NoNegativeTarget, Locked
  <1>6. CASE LogSet(e)
    BY <1>6 DEF LogSet, NoNegativeTarget, TypeOK, Locked, DoneEdit
  <1>7. CASE WriteDelete(e)
    <2>1. \A v \in Variants : row'[v].stock >= 0
      BY <1>7 DEF WriteDelete, NoNegativeTarget, TypeOK
    <2>2. QED
      BY <1>7, <2>1 DEF WriteDelete, NoNegativeTarget, TypeOK, Locked, DoneEdit
  <1>8. QED
    BY <1>1, <1>2, <1>3, <1>4, <1>5, <1>6, <1>7 DEF EditStep

LEMMA TargetNext == TypeOK /\ NoNegativeTarget /\ [Next]_vars => NoNegativeTarget'
  <1> SUFFICES ASSUME TypeOK, NoNegativeTarget, [Next]_vars PROVE NoNegativeTarget'
    OBVIOUS
  <1>1. CASE UNCHANGED vars
    BY <1>1 DEF vars, NoNegativeTarget, Locked
  <1>2. CASE Next
    BY <1>2, TargetOrder, TargetEdit DEF Next, CashNext
  <1>3. QED
    BY <1>1, <1>2

\* Stock cannot go below zero, whichever handlers interleave.
THEOREM StockCorrect == Spec => []StockNonNegative
  <1>1. NoNegativeTarget => StockNonNegative
    BY DEF NoNegativeTarget, StockNonNegative
  <1>2. QED
    BY <1>1, TargetInit, TargetNext, TypeCorrect, PTL DEF Spec
-----------------------------------------------------------------------------
(* The items of an order go back at most once.                             *)

\* The event keys tell the orders whose items went back, and those exist.
KeysTellReturns ==
  \A o \in Orders :
    /\ returned[o] = IF o \in eventKeys THEN 1 ELSE 0
    /\ o \in eventKeys => o \in placed
    /\ o \in placed => taken[o] >= 1

LEMMA KeysCorrect == Spec => [](TypeOK /\ KeysTellReturns)
  <1>1. Init => KeysTellReturns
    BY DEF Init, KeysTellReturns
  <1>2. TypeOK /\ KeysTellReturns /\ [Next]_vars => KeysTellReturns'
    <2> SUFFICES ASSUME TypeOK, KeysTellReturns, [Next]_vars PROVE KeysTellReturns'
      OBVIOUS
    <2>1. CASE UNCHANGED vars
      BY <2>1 DEF vars, KeysTellReturns
    <2>2. ASSUME NEW o \in Orders, CheckoutStep(o) \/ ConfirmStep(o) PROVE KeysTellReturns'
      <3>1. CASE Commit(o)
        BY <3>1 DEF Commit, KeysTellReturns, TypeOK
      <3>2. CASE ~Commit(o)
        <4>1. UNCHANGED <<placed, taken, eventKeys, returned>>
          BY <2>2, <3>2 DEF CheckoutStep, ConfirmStep, BeginCheckout, BeginConfirm, ReadVariant,
             DecrementVariant, OverwriteVariant, WriteVariant, Rollback
        <4>2. QED
          BY <4>1 DEF KeysTellReturns
      <3>3. QED
        BY <3>1, <3>2
    <2>3. ASSUME NEW o \in Orders, Restore(o) PROVE KeysTellReturns'
      BY <2>3 DEF Restore, KeysFree, KeysTellReturns, TypeOK
    <2>4. ASSUME NEW e \in Edits, EditStep(e) PROVE KeysTellReturns'
      <3>1. UNCHANGED <<placed, taken, eventKeys, returned>>
        BY <2>4 DEF EditStep, ReadToAdjust, Permitted, ReadToSet, ReadToDelete, Fetch, WriteAdjustment,
           WriteSet, LogSet, WriteDelete
      <3>2. QED
        BY <3>1 DEF KeysTellReturns
    <2>5. QED
      BY <2>1, <2>2, <2>3, <2>4 DEF Next, CashNext
  <1>3. QED
    BY <1>1, <1>2, TypeCorrect, PTL DEF Spec

\* However often an order is cancelled, paid and cancelled again, its items go
\* back at most once, and only after they were taken.
THEOREM RestoreCorrect == Spec => []RestoredAtMostOnce
  <1>1. TypeOK /\ KeysTellReturns => RestoredAtMostOnce
    BY DEF KeysTellReturns, RestoredAtMostOnce, TypeOK
  <1>2. QED
    BY <1>1, KeysCorrect, PTL

-----------------------------------------------------------------------------
(* What an open transaction has dealt with.                                *)

\* Its versions are those of the items that are done.
ItemsAreHeld ==
  \A o \in Orders, v \in Variants :
    Owns(o, v) <=> work[o].kind # "none" /\ v \in VariantsOf(o) \ work[o].todo

\* What is fetched is still to be done, and what is to be done is an item.
FetchedIsToDo ==
  \A o \in Orders :
    /\ work[o].todo \subseteq VariantsOf(o)
    /\ \A p \in work[o].read : p[1] \in work[o].todo
    /\ work[o].kind = "none" => work[o].todo = {} /\ work[o].read = {}

LEMMA HeldInit == Init => ItemsAreHeld /\ FetchedIsToDo
  BY DEF Init, ItemsAreHeld, FetchedIsToDo, Owns, Locked, Idle

LEMMA HeldWriteVariant ==
  ASSUME TypeOK, ItemsAreHeld, FetchedIsToDo, NEW o \in Orders, NEW v \in work[o].todo,
         NEW r \in Row, ~Locked(v), work[o].kind # "none", WriteVariant(o, v, r)
  PROVE  ItemsAreHeld' /\ FetchedIsToDo'
  <1>1. v \in Variants /\ v \in VariantsOf(o)
    BY DEF FetchedIsToDo, VariantsOf
  <1>2. [by |-> o, row |-> r] # Undefined
    BY UndefinedAssumption DEF Write
  <1>3. /\ pending'[v] = [by |-> o, row |-> r]
        /\ \A w \in Variants : w # v => pending'[w] = pending[w]
    BY <1>1 DEF WriteVariant, TypeOK
  <1>4. /\ work'[o].kind = work[o].kind
        /\ work'[o].todo = work[o].todo \ {v}
        /\ work'[o].read = {}
        /\ \A q \in Orders : q # o => work'[q] = work[q]
    BY DEF WriteVariant, TypeOK, Transaction
  <1>5. ASSUME NEW q \in Orders, NEW w \in Variants
        PROVE  Owns(q, w)' <=> work'[q].kind # "none" /\ w \in VariantsOf(q) \ work'[q].todo
    <2>1. Owns(q, w) <=> work[q].kind # "none" /\ w \in VariantsOf(q) \ work[q].todo
      BY DEF ItemsAreHeld
    <2>2. CASE w = v
      <3>1. ~Owns(q, w)
        BY <2>2 DEF Owns
      <3>2. Owns(q, w)' <=> q = o
        BY <1>2, <1>3, <2>2 DEF Owns, Locked
      <3>3. QED
        BY <1>1, <1>4, <2>1, <2>2, <3>1, <3>2
    <2>3. CASE w # v
      <3>1. Owns(q, w)' <=> Owns(q, w)
        BY <1>3, <2>3 DEF Owns, Locked
      <3>2. QED
        BY <1>4, <2>1, <2>3, <3>1
    <2>4. QED
      BY <2>2, <2>3
  <1>6. ItemsAreHeld'
    BY <1>5 DEF ItemsAreHeld, VariantsOf
  <1>7. FetchedIsToDo'
    BY <1>4 DEF FetchedIsToDo, VariantsOf
  <1>8. QED
    BY <1>6, <1>7

LEMMA HeldOrder ==
  ASSUME TypeOK, ItemsAreHeld, FetchedIsToDo, NEW o \in Orders,
         CheckoutStep(o) \/ ConfirmStep(o)
  PROVE  ItemsAreHeld' /\ FetchedIsToDo'
  <1> USE DEF VariantsOf
  <1>1. CASE BeginCheckout(o) \/ BeginConfirm(o)
    <2>1. /\ pending' = pending
          /\ work[o] = Idle
          /\ work'[o].kind # "none" /\ work'[o].todo = VariantsOf(o) /\ work'[o].read = {}
          /\ \A q \in Orders : q # o => work'[q] = work[q]
      BY <1>1 DEF BeginCheckout, BeginConfirm, TypeOK
    <2>2. ItemsAreHeld'
      BY <2>1 DEF ItemsAreHeld, Owns, Locked, Idle
    <2>3. FetchedIsToDo'
      BY <2>1 DEF FetchedIsToDo
    <2>4. QED
      BY <2>2, <2>3
  <1>2. ASSUME NEW v \in Variants, ReadVariant(o, v)
        PROVE  ItemsAreHeld' /\ FetchedIsToDo'
    <2>1. /\ pending' = pending
          /\ v \in work[o].todo
          /\ work'[o].kind = work[o].kind /\ work'[o].todo = work[o].todo
          /\ work'[o].read = {<<v, row[v]>>}
          /\ \A q \in Orders : q # o => work'[q] = work[q]
      BY <1>2 DEF ReadVariant, TypeOK, Transaction
    <2>2. work[o].kind # "none"
      BY <2>1 DEF FetchedIsToDo
    <2>3. ItemsAreHeld'
      BY <2>1 DEF ItemsAreHeld, Owns, Locked
    <2>4. FetchedIsToDo'
      BY <2>1, <2>2 DEF FetchedIsToDo
    <2>5. QED
      BY <2>3, <2>4
  <1>3. CASE DecrementVariant(o)
    <2>1. PICK p \in work[o].read :
            /\ work[o].kind = "checkout"
            /\ ~Locked(p[1])
            /\ WriteVariant(o, p[1],
                 Stocked(row[p[1]], row[p[1]].stock - Items[o][p[1]],
                   IF p[2].stock = Items[o][p[1]] THEN "OUT_OF_STOCK" ELSE "ACTIVE"))
      BY <1>3 DEF DecrementVariant, StillSellable, Decremented
    <2>2. /\ row[p[1]] \in Row /\ p[1] \in work[o].todo
          /\ row[p[1]].stock - Items[o][p[1]] \in Int
          /\ (IF p[2].stock = Items[o][p[1]] THEN "OUT_OF_STOCK" ELSE "ACTIVE") \in VariantStatus
      BY FetchedType, ItemsAssumption DEF TypeOK, FetchedIsToDo, Row, VariantStatus
    <2>3. QED
      BY <2>1, <2>2, StockedRow, HeldWriteVariant
  <1>4. CASE OverwriteVariant(o)
    <2>1. PICK p \in work[o].read :
            /\ work[o].kind = "confirm"
            /\ ~Locked(p[1])
            /\ WriteVariant(o, p[1],
                 Stocked(row[p[1]], p[2].stock - Items[o][p[1]],
                   IF p[2].stock = Items[o][p[1]] THEN "OUT_OF_STOCK" ELSE p[2].status))
      BY <1>4 DEF OverwriteVariant
    <2>2. /\ row[p[1]] \in Row /\ p[1] \in work[o].todo
          /\ p[2].stock - Items[o][p[1]] \in Int
          /\ (IF p[2].stock = Items[o][p[1]] THEN "OUT_OF_STOCK" ELSE p[2].status) \in VariantStatus
      BY FetchedType, ItemsAssumption DEF TypeOK, FetchedIsToDo, Row, VariantStatus
    <2>3. QED
      BY <2>1, <2>2, StockedRow, HeldWriteVariant
  <1>5. CASE Commit(o) \/ Rollback(o)
    <2>1. /\ pending' = Released(o)
          /\ work'[o] = Idle
          /\ \A q \in Orders : q # o => work'[q] = work[q]
      BY <1>5 DEF Commit, Rollback, TypeOK
    <2>2. \A q \in Orders, w \in Variants : Owns(q, w)' <=> (Owns(q, w) /\ q # o)
      BY <2>1 DEF Released, Owns, Locked
    <2>3. ItemsAreHeld'
      BY <2>1, <2>2 DEF ItemsAreHeld, Idle
    <2>4. FetchedIsToDo'
      BY <2>1 DEF FetchedIsToDo, Idle
    <2>5. QED
      BY <2>3, <2>4
  <1>6. QED
    BY <1>1, <1>2, <1>3, <1>4, <1>5 DEF CheckoutStep, ConfirmStep

LEMMA HeldNext ==
  TypeOK /\ ItemsAreHeld /\ FetchedIsToDo /\ [Next]_vars => ItemsAreHeld' /\ FetchedIsToDo'
  <1> SUFFICES ASSUME TypeOK, ItemsAreHeld, FetchedIsToDo, [Next]_vars
               PROVE  ItemsAreHeld' /\ FetchedIsToDo'
    OBVIOUS
  <1>1. ASSUME UNCHANGED <<pending, work>> PROVE ItemsAreHeld' /\ FetchedIsToDo'
    BY <1>1 DEF ItemsAreHeld, FetchedIsToDo, Owns, Locked, VariantsOf
  <1>2. CASE UNCHANGED vars
    BY <1>1, <1>2 DEF vars
  <1>3. ASSUME NEW o \in Orders, Restore(o) PROVE UNCHANGED <<pending, work>>
    BY <1>3 DEF Restore
  <1>4. ASSUME NEW e \in Edits, EditStep(e) PROVE UNCHANGED <<pending, work>>
    BY <1>4 DEF EditStep, ReadToAdjust, Permitted, ReadToSet, ReadToDelete, Fetch, WriteAdjustment,
       WriteSet, LogSet, WriteDelete
  <1>5. QED
    BY <1>1, <1>2, <1>3, <1>4, HeldOrder DEF Next, CashNext

LEMMA HeldCorrect == Spec => [](ItemsAreHeld /\ FetchedIsToDo)
  BY HeldInit, HeldNext, TypeCorrect, PTL DEF Spec

-----------------------------------------------------------------------------
(* Cash on delivery.                                                       *)

LEMMA CashIsSpec == CashSpec => Spec
  <1>1. [CashNext]_vars => [Next]_vars
    BY DEF Next
  <1>2. QED
    BY <1>1, PTL DEF CashSpec, Spec

\* With cash-on-delivery traffic alone, every uncommitted version is the
\* committed one less the items of its order.
PendingIsDecrement ==
  /\ \A o \in Orders : work[o].kind # "confirm"
  /\ \A o \in Orders, v \in Variants :
       Owns(o, v) => pending[v].row.stock = row[v].stock - Items[o][v]

LEMMA DecrementInit == Init => PendingIsDecrement /\ LedgerAgrees
  BY InitialStockAssumption DEF Init, PendingIsDecrement, LedgerAgrees, Owns, Locked, Idle

\* A step of an order that neither commits nor restores changes no committed
\* row, and keeps the uncommitted ones as they should be.
LEMMA DecrementStep ==
  ASSUME TypeOK, PendingIsDecrement, NEW o \in Orders, CheckoutStep(o), ~Commit(o)
  PROVE  PendingIsDecrement' /\ UNCHANGED <<row, ledger, placed, eventKeys>>
  <1>1. CASE BeginCheckout(o) \/ \E v \in Variants : ReadVariant(o, v)
    <2>1. UNCHANGED <<row, pending, ledger, placed, eventKeys>>
      BY <1>1 DEF BeginCheckout, ReadVariant
    <2>2. \A q \in Orders : work'[q].kind \in {"checkout", work[q].kind}
      <3>1. CASE BeginCheckout(o)
        BY <3>1 DEF BeginCheckout, TypeOK
      <3>2. ASSUME NEW v \in Variants, ReadVariant(o, v)
            PROVE  \A q \in Orders : work'[q].kind = work[q].kind
        BY <3>2 DEF ReadVariant, TypeOK, Transaction
      <3>3. QED
        BY <1>1, <3>1, <3>2
    <2>3. QED
      BY <2>1, <2>2 DEF PendingIsDecrement, Owns, Locked
  <1>2. CASE DecrementVariant(o)
    <2>1. PICK p \in work[o].read :
            /\ ~Locked(p[1])
            /\ WriteVariant(o, p[1],
                 Stocked(row[p[1]], row[p[1]].stock - Items[o][p[1]],
                   IF p[2].stock = Items[o][p[1]] THEN "OUT_OF_STOCK" ELSE "ACTIVE"))
      BY <1>2 DEF DecrementVariant, StillSellable, Decremented
    <2> DEFINE r == Stocked(row[p[1]], row[p[1]].stock - Items[o][p[1]],
                      IF p[2].stock = Items[o][p[1]] THEN "OUT_OF_STOCK" ELSE "ACTIVE")
    <2>2. /\ p[1] \in Variants /\ row[p[1]] \in Row
          /\ row[p[1]].stock - Items[o][p[1]] \in Int
          /\ (IF p[2].stock = Items[o][p[1]] THEN "OUT_OF_STOCK" ELSE "ACTIVE") \in VariantStatus
      BY FetchedType, ItemsAssumption DEF TypeOK, Row, VariantStatus
    <2>3. r.stock = row[p[1]].stock - Items[o][p[1]]
      BY <2>2, StockedRow
    <2> HIDE DEF r
    <2>4. /\ pending'[p[1]] = [by |-> o, row |-> r]
          /\ \A v \in Variants : v # p[1] => pending'[v] = pending[v]
          /\ UNCHANGED <<row, ledger, placed, eventKeys>>
      BY <2>1, <2>2 DEF WriteVariant, TypeOK, r
    <2>5. \A q \in Orders : work'[q].kind = work[q].kind
      BY <2>1 DEF WriteVariant, TypeOK, Transaction
    <2>6. ASSUME NEW q \in Orders, NEW v \in Variants, Owns(q, v)'
          PROVE  pending'[v].row.stock = row'[v].stock - Items[q][v]
      <3>1. CASE v = p[1]
        BY <2>3, <2>4, <2>6, <3>1 DEF Owns
      <3>2. CASE v # p[1]
        BY <2>4, <2>6, <3>2 DEF Owns, Locked, PendingIsDecrement
      <3>3. QED
        BY <3>1, <3>2
    <2>7. QED
      BY <2>4, <2>5, <2>6 DEF PendingIsDecrement
  <1>3. CASE Rollback(o)
    <2>1. /\ pending' = Released(o)
          /\ \A q \in Orders : work'[q].kind \in {"none", work[q].kind}
          /\ UNCHANGED <<row, ledger, placed, eventKeys>>
      BY <1>3 DEF Rollback, TypeOK, Idle
    <2>2. \A q \in Orders, w \in Variants :
            Owns(q, w)' => Owns(q, w) /\ pending'[w] = pending[w]
      BY <2>1 DEF Released, Owns, Locked
    <2>3. QED
      BY <2>1, <2>2 DEF PendingIsDecrement
  <1>4. QED
    BY <1>1, <1>2, <1>3 DEF CheckoutStep

\* What a commit does to the committed rows and to the log.
LEMMA CommitTakesItems ==
  ASSUME TypeOK, ItemsAreHeld, FetchedIsToDo, PendingIsDecrement,
         NEW o \in Orders, Commit(o)
  PROVE  /\ \A v \in Variants : row'[v].stock = row[v].stock - Items[o][v]
         /\ \A v \in Variants : ledger'[v] = ledger[v] - Items[o][v]
         /\ PendingIsDecrement'
  <1> USE ItemsAssumption
  <1>1. \A v \in Variants : ~Owns(o, v) => Items[o][v] = 0
    BY DEF Commit, AllDeducted, ItemsAreHeld, VariantsOf
  <1>2. \A v \in Variants : Owns(o, v) => pending[v].row.stock = row[v].stock - Items[o][v]
    BY DEF PendingIsDecrement
  <1>3. \A v \in Variants : row[v].stock \in Int /\ ledger[v] \in Int
    BY DEF TypeOK, Row
  <1>4. \A v \in Variants : row'[v].stock = row[v].stock - Items[o][v]
    BY <1>1, <1>2, <1>3 DEF Commit
  <1>5. \A v \in Variants : ledger'[v] = ledger[v] - Items[o][v]
    BY <1>1, <1>3 DEF Commit
  <1>6. \A q \in Orders, w \in Variants :
          Owns(q, w)' => Owns(q, w) /\ q # o /\ pending'[w] = pending[w] /\ row'[w] = row[w]
    BY DEF Commit, Released, Owns, Locked
  <1>7. \A q \in Orders : work'[q].kind \in {"none", work[q].kind}
    BY DEF Commit, TypeOK, Idle
  <1>8. PendingIsDecrement'
    BY <1>6, <1>7 DEF PendingIsDecrement
  <1>9. QED
    BY <1>4, <1>5, <1>8

\* What a restoration does to them.
LEMMA RestoreReturnsItems ==
  ASSUME TypeOK, PendingIsDecrement, NEW o \in Orders, Restore(o)
  PROVE  /\ \A v \in Variants : row'[v].stock = row[v].stock + Items[o][v]
         /\ \A v \in Variants : ledger'[v] = ledger[v] + Items[o][v]
         /\ PendingIsDecrement'
  <1>1. ASSUME NEW v \in Variants
        PROVE  row'[v].stock = row[v].stock + Items[o][v]
    <2>1. /\ row[v] \in Row /\ Items[o][v] \in Nat
          /\ row[v].stock + Items[o][v] \in Int
          /\ (IF row[v].status = "OUT_OF_STOCK" THEN "ACTIVE" ELSE row[v].status) \in VariantStatus
      BY ItemsAssumption DEF TypeOK, Row, VariantStatus
    <2>2. Restocked(row[v], Items[o][v]).stock = row[v].stock + Items[o][v]
      BY <2>1, StockedRow DEF Restocked
    <2>3. QED
      BY <2>1, <2>2 DEF Restore, VariantsOf, Row
  <1>2. \A q \in Orders, w \in Variants : Owns(q, w)' => Owns(q, w) /\ row'[w] = row[w]
    BY DEF Restore, Owns, Locked
  <1>3. PendingIsDecrement'
    BY <1>2 DEF PendingIsDecrement, Restore
  <1>4. QED
    BY <1>1, <1>3 DEF Restore

\* A checkout under way is of an order that does not exist yet.
CheckoutIsNew ==
  /\ eventKeys \subseteq placed
  /\ \A o \in Orders : work[o].kind = "checkout" => o \notin placed

LEMMA NewStep ==
  ASSUME TypeOK, CheckoutIsNew, [CashNext]_vars
  PROVE  CheckoutIsNew'
  <1>1. CASE UNCHANGED vars
    BY <1>1 DEF vars, CheckoutIsNew
  <1>2. ASSUME NEW o \in Orders, BeginCheckout(o) \/ Commit(o) \/ Rollback(o)
        PROVE  CheckoutIsNew'
    <2>1. /\ \A q \in Orders : q # o => work'[q] = work[q]
          /\ \/ work'[o].kind = "none" /\ placed' \in {placed, placed \cup {o}}
             \/ o \notin placed /\ placed' = placed
          /\ eventKeys' = eventKeys
      BY <1>2 DEF BeginCheckout, Commit, Rollback, TypeOK, Idle
    <2>2. QED
      BY <2>1 DEF CheckoutIsNew
  <1>3. ASSUME NEW o \in Orders, NEW v \in Variants, ReadVariant(o, v)
        PROVE  CheckoutIsNew'
    BY <1>3 DEF ReadVariant, CheckoutIsNew, TypeOK, Transaction
  <1>4. ASSUME NEW o \in Orders, DecrementVariant(o) PROVE CheckoutIsNew'
    BY <1>4 DEF DecrementVariant, StillSellable, Decremented, WriteVariant, CheckoutIsNew, TypeOK, Transaction
  <1>5. ASSUME NEW o \in Orders, Restore(o) PROVE CheckoutIsNew'
    BY <1>5 DEF Restore, CheckoutIsNew
  <1>6. QED
    BY <1>1, <1>2, <1>3, <1>4, <1>5 DEF CashNext, CheckoutStep

\* The induction that both results below share.
CashInv ==
  /\ TypeOK
  /\ ItemsAreHeld
  /\ FetchedIsToDo
  /\ NoNegativeTarget
  /\ PendingIsDecrement
  /\ CheckoutIsNew

LEMMA CashInvariant == CashSpec => []CashInv
  <1>1. TypeOK /\ ItemsAreHeld /\ FetchedIsToDo /\ PendingIsDecrement /\ [CashNext]_vars
          => PendingIsDecrement'
    <2> SUFFICES ASSUME TypeOK, ItemsAreHeld, FetchedIsToDo, PendingIsDecrement,
                        [CashNext]_vars
                 PROVE  PendingIsDecrement'
      OBVIOUS
    <2>1. CASE UNCHANGED vars
      BY <2>1 DEF vars, PendingIsDecrement, Owns, Locked
    <2>2. ASSUME NEW o \in Orders, CheckoutStep(o) PROVE PendingIsDecrement'
      BY <2>2, DecrementStep, CommitTakesItems
    <2>3. ASSUME NEW o \in Orders, Restore(o) PROVE PendingIsDecrement'
      BY <2>3, RestoreReturnsItems
    <2>4. QED
      BY <2>1, <2>2, <2>3 DEF CashNext
  <1>2. Spec => []NoNegativeTarget
    BY TargetInit, TargetNext, TypeCorrect, PTL DEF Spec
  <1>3. Init => CheckoutIsNew
    BY DEF Init, CheckoutIsNew, Idle
  <1>4. QED
    BY <1>1, <1>2, <1>3, CashIsSpec, DecrementInit, NewStep, TypeCorrect, HeldCorrect, PTL
    DEF CashSpec, CashInv

\* With cash-on-delivery traffic alone, the inventory log adds up to the stock.
THEOREM LedgerCorrect == CashSpec => []LedgerAgrees
  <1>1. CashInv /\ LedgerAgrees /\ [CashNext]_vars => LedgerAgrees'
    <2> SUFFICES ASSUME CashInv, LedgerAgrees, [CashNext]_vars PROVE LedgerAgrees'
      OBVIOUS
    <2> USE DEF CashInv
    <2>1. CASE UNCHANGED vars
      BY <2>1 DEF vars, LedgerAgrees
    <2>2. ASSUME NEW o \in Orders, CheckoutStep(o) PROVE LedgerAgrees'
      BY <2>2, DecrementStep, CommitTakesItems DEF LedgerAgrees
    <2>3. ASSUME NEW o \in Orders, Restore(o) PROVE LedgerAgrees'
      BY <2>3, RestoreReturnsItems DEF LedgerAgrees
    <2>4. QED
      BY <2>1, <2>2, <2>3 DEF CashNext
  <1>2. QED
    BY <1>1, CashInvariant, DecrementInit, PTL DEF CashSpec

\* Cash on delivery implements the stock ledger: a commit reserves every item
\* of an order from stock that is there, a restoration gives them back, and no
\* other step moves stock or the standing of an order.
THEOREM LedgerImplemented == CashSpec => ImplementsLedger
  <1>1. Init => Ledger!Init
    BY InitialStockAssumption DEF Init, Ledger!Init, Reservation
  <1>2. CashInv /\ CashInv' /\ [CashNext]_vars
          => [Ledger!Next]_<<[v \in Variants |-> row[v].stock],
                             [o \in Orders |-> Reservation(o)]>>
    <2> SUFFICES ASSUME CashInv, CashInv', [CashNext]_vars
                 PROVE  [Ledger!Next]_<<[v \in Variants |-> row[v].stock],
                                        [o \in Orders |-> Reservation(o)]>>
      OBVIOUS
    <2> USE DEF CashInv
    <2>1. ASSUME UNCHANGED <<row, placed, eventKeys>>
          PROVE  UNCHANGED <<[v \in Variants |-> row[v].stock],
                             [o \in Orders |-> Reservation(o)]>>
      BY <2>1 DEF Reservation
    <2>2. CASE UNCHANGED vars
      BY <2>1, <2>2 DEF vars
    <2>3. ASSUME NEW o \in Orders, CheckoutStep(o), ~Commit(o)
          PROVE  UNCHANGED <<[v \in Variants |-> row[v].stock],
                             [q \in Orders |-> Reservation(q)]>>
      BY <2>1, <2>3, DecrementStep
    <2>4. ASSUME NEW o \in Orders, Commit(o) PROVE Ledger!Reserve(o)
      <3>1. o \notin placed /\ o \notin eventKeys
        BY <2>4 DEF CheckoutIsNew, PendingIsDecrement, Commit, TypeOK, Transaction
      <3>2. /\ placed' = placed \cup {o}
            /\ eventKeys' = eventKeys
        BY <2>4 DEF Commit
      <3>3. \A v \in Variants : row'[v].stock = row[v].stock - Items[o][v]
        BY <2>4, CommitTakesItems
      <3>4. \A v \in Variants : Items[o][v] <= row[v].stock
        <4>1. \A v \in Variants :
                row'[v].stock >= 0 /\ row[v].stock \in Int /\ Items[o][v] \in Nat
          BY ItemsAssumption DEF NoNegativeTarget, TypeOK, Row
        <4>2. QED
          BY <3>3, <4>1
      <3>5. [q \in Orders |-> Reservation(q)]' =
              [[q \in Orders |-> Reservation(q)] EXCEPT ![o] = "reserved"]
        BY <3>1, <3>2 DEF Reservation
      <3>6. QED
        BY <3>1, <3>3, <3>4, <3>5 DEF Ledger!Reserve, Reservation
    <2>5. ASSUME NEW o \in Orders, Restore(o) PROVE Ledger!Release(o)
      <3>1. /\ o \in placed /\ o \notin eventKeys
            /\ placed' = placed
            /\ eventKeys' = eventKeys \cup {o}
        BY <2>5 DEF Restore, KeysFree
      <3>2. \A v \in Variants : row'[v].stock = row[v].stock + Items[o][v]
        BY <2>5, RestoreReturnsItems
      <3>3. [q \in Orders |-> Reservation(q)]' =
              [[q \in Orders |-> Reservation(q)] EXCEPT ![o] = "released"]
        BY <3>1 DEF Reservation
      <3>4. QED
        BY <3>1, <3>2, <3>3 DEF Ledger!Release, Reservation
    <2>6. QED
      BY <2>2, <2>3, <2>4, <2>5 DEF CashNext, Ledger!Next
  <1>3. QED
    BY <1>1, <1>2, CashInvariant, PTL DEF CashSpec, ImplementsLedger, Ledger!Spec
=============================================================================
