----------------------------- MODULE MCShopping -----------------------------
(***************************************************************************)
(* Small instances of Shopping.                                            *)
(***************************************************************************)
EXTENDS Shopping, TLC

MCStock == [v \in Variants |-> 2]

\* One use of a coupon, by whoever comes first.
MCLimit == [k \in Coupons |-> 1]
MCNoLimit == [k \in Coupons |-> Undefined]

\* Which request is which does not matter.
RequestSymmetry == Permutations(Requests)
=============================================================================
