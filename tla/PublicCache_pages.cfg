\* One process, with two requests under way at once.
SPECIFICATION LiveSpec
CONSTANTS
  Processes = {p1}
  Requests = {r1, r2}
  Served = {"homepage"}
  Written = {"banners", "catalog"}
  MaxWrites = 1
  MaxFaults = 1
  None = None
INVARIANTS
  TypeOK
  Fresh
PROPERTY Settles

CHECK_DEADLOCK FALSE
