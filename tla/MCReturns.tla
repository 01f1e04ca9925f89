----------------------------- MODULE MCReturns -----------------------------
(***************************************************************************)
(* Small instances of Returns: an order of three units of one item, paid   *)
(* for with a discount of one.                                             *)
(***************************************************************************)
EXTENDS Returns, TLC

MCBought == [i \in OrderItems |-> 3]
MCUnitPrice == [i \in OrderItems |-> 1]

Lines(quantities) ==
  {[k \in DOMAIN q |-> [item |-> i, quantity |-> q[k]]] : q \in quantities, i \in OrderItems}

\* No item on two lines.
SingleLines == Lines({<<1>>, <<2>>, <<3>>})

\* Returns of half of what was paid.
OneUnit == Lines({<<1>>})

\* Which request is which does not matter.
RequestSymmetry == Permutations(Requests)
=============================================================================
