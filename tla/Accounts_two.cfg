\* Two calls of one customer from one browser, and two requests of admins.
SPECIFICATION Spec
CONSTANTS
  u1 = u1
  Users = {u1}
  Devices = {d1}
  UserOf <- MCUserOf
  Products = {p1}
  Calls = {c1, c2}
  Requests = {r1, r2}
  Statuses = {"APPROVED"}
  Undefined = Undefined
INVARIANTS
  TypeOK
  ServedWhileSignedIn
  VerifiedWasBought
PROPERTIES
  ConflictIsTrue
  DeletedReviewStaysHidden
SYMMETRY Symmetry
CHECK_DEADLOCK FALSE
