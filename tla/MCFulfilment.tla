---------------------------- MODULE MCFulfilment ----------------------------
(***************************************************************************)
(* Small instances of Fulfilment: orders of one unit of each variant.      *)
(***************************************************************************)
EXTENDS Fulfilment, TLC

MCItems == [o \in Orders |-> [v \in Variants |-> 1]]

\* Enough for one order to be deducted twice, not for two.
MCInitialStock == [v \in Variants |-> 3]

\* Which request is which does not matter.
RequestSymmetry == Permutations(Requests)
=============================================================================
