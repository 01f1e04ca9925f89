-------------------------- MODULE MCOrderLifecycle --------------------------
(***************************************************************************)
(* Small instances of OrderLifecycle.  Orders share nothing here, so one   *)
(* order shows what any number of them would.                              *)
(***************************************************************************)
EXTENDS OrderLifecycle, TLC

\* Which request is which does not matter.
RequestSymmetry == Permutations(Requests)
=============================================================================
