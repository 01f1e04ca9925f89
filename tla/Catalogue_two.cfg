\* Two requests of admins at once, runs of the seed and an order.
SPECIFICATION Spec
CONSTANTS
  k1 = k1
  c1 = c1
  p1 = p1
  v1 = v1
  Categories = {k1}
  Collections = {c1}
  Products = {p1}
  Variants = {v1, v2}
  Requests = {r1, r2}
  SeedRows <- MCSeedRows
  Levels = {1}
  Statuses = {"INACTIVE"}
  ProductStatuses = {"DRAFT", "ACTIVE"}
  VariantStatuses = {"DISCONTINUED"}
  Undefined = Undefined
  Absent = Absent
INVARIANTS
  TypeOK
  StockStatusAgrees
  SeedLogsOnce
SYMMETRY RequestSymmetry
CHECK_DEADLOCK FALSE
