\* Every writer of stock at once: two orders that want the same rows, paid or
\* cancelled, and a request of an admin, which is answered.
SPECIFICATION LiveSpec
CONSTANTS
  v1 = v1
  v2 = v2
  bulk = bulk
  Undefined = Undefined
  Items <- MCItems
  InitialStock <- MCInitialStock
  Variants = {v1, v2}
  Orders = {o1, bulk}
  Edits = {e1}
  AdjustBy <- MCAdjustBy
  SetTo = {0}
  SetStatuses = {"ACTIVE"}
INVARIANTS
  TypeOK
  StockNonNegative
  RestoredAtMostOnce
PROPERTIES
  EditsFinish
