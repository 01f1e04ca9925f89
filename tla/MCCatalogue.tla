---------------------------- MODULE MCCatalogue ----------------------------
(***************************************************************************)
(* Small instances of Catalogue.                                           *)
(***************************************************************************)
EXTENDS Catalogue, TLC

CONSTANTS k1, c1, p1, v1

\* One product in one collection, with one variant, and a category.  The second
\* variant is for the admins to create.
MCSeedRows ==
  <<[table |-> "category", id |-> k1, parent |-> Undefined],
    [table |-> "collection", id |-> c1],
    [table |-> "product", id |-> p1],
    [table |-> "link", id |-> p1, collection |-> c1],
    [table |-> "variant", id |-> v1, product |-> p1, stock |-> 1]>>

\* Which request is which does not matter.
RequestSymmetry == Permutations(Requests)
=============================================================================
