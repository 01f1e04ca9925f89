----------------------------- MODULE MCAccounts -----------------------------
(***************************************************************************)
(* Small instances of Accounts.                                            *)
(***************************************************************************)
EXTENDS Accounts, TLC

CONSTANT u1

\* Every browser is the same customer's.
MCUserOf == [d \in Devices |-> u1]

\* Which of them is which does not matter.
Symmetry == Permutations(Calls) \cup Permutations(Requests) \cup Permutations(Devices)
=============================================================================
