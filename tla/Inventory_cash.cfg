\* Cash on delivery only: three orders over two variants, placed, rolled back
\* and cancelled in every order.
SPECIFICATION CashSpec
CONSTANTS
  v1 = v1
  v2 = v2
  bulk = bulk
  Undefined = Undefined
  Items <- MCItems
  InitialStock <- MCInitialStock
  Variants = {v1, v2}
  Orders = {o1, o2, bulk}
  Edits = {}
  AdjustBy = {}
  SetTo = {}
  SetStatuses = {}
INVARIANTS
  LedgerAgrees
PROPERTIES
  ImplementsLedger
CHECK_DEADLOCK FALSE
