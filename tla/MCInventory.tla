---------------------------- MODULE MCInventory ----------------------------
(***************************************************************************)
(* Small instances of Inventory: two variants, orders that compete for     *)
(* them, and a few admins.                                                 *)
(***************************************************************************)
EXTENDS Inventory

CONSTANTS v1, v2, bulk

\* The order bulk asks for two units of v1; every other order for one unit of
\* each variant, so that two of them lock both rows, in either order.
MCItems ==
  [o \in Orders |->
     IF o = bulk THEN [v \in Variants |-> IF v = v1 THEN 2 ELSE 0]
     ELSE [v \in Variants |-> 1]]

\* Not enough of v1 for every order.
MCInitialStock == [v \in Variants |-> IF v = v1 THEN 3 ELSE 2]

\* Adjustments down and up (a cfg has no negative numbers).
MCAdjustBy == {-1, 1}
=============================================================================
