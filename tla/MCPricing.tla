----------------------------- MODULE MCPricing -----------------------------
(***************************************************************************)
(* A small instance of Pricing.                                            *)
(***************************************************************************)
EXTENDS Pricing, TLC

\* A negative rate, a rate that is a share, and one that is a percentage; a fee
\* that is charged, and one that is given; no threshold, and one.
MCRates == {-10, 15, 800}
MCThresholds == {Null, 9}
MCFees == {5, -4}
MCSymmetry == Permutations(Variants)

Plain ==
  [type |-> "PERCENTAGE", value |-> 50, status |-> "ACTIVE", open |-> TRUE,
   minOrderAmount |-> Null, maxDiscountAmount |-> Null,
   usageLimit |-> Null, usageLimitPerUser |-> Null,
   used |-> 1, usedByUser |-> 1]

\* Coupons that differ from a plain one in one thing or two: what they give,
\* and what keeps them from being used.
MCCoupons ==
  {Plain,
   [Plain EXCEPT !.value = 150],
   [Plain EXCEPT !.maxDiscountAmount = 2],
   [Plain EXCEPT !.type = "FIXED_AMOUNT", !.value = 6, !.usageLimit = 2],
   [Plain EXCEPT !.type = "FREE_SHIPPING", !.minOrderAmount = 9],
   [Plain EXCEPT !.status = "INACTIVE"],
   [Plain EXCEPT !.open = FALSE],
   [Plain EXCEPT !.usageLimit = 1],
   [Plain EXCEPT !.usageLimitPerUser = 1]}
=============================================================================
