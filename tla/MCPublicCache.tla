--------------------------- MODULE MCPublicCache ---------------------------
(***************************************************************************)
(* A small instance of PublicCache.                                        *)
(***************************************************************************)
EXTENDS PublicCache, TLC

\* Which request is which does not matter to what is safe.
RequestSymmetry == Permutations(Requests)
=============================================================================
