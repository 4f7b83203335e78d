----------------------------- MODULE MCWithdrawer -----------------------------
(***************************************************************************)
(* Values for the constants of Withdrawer.                                 *)
(***************************************************************************)
EXTENDS Withdrawer, TLC

CONSTANTS r1, r2, r3, f1

\* Withdrawable requests are interchangeable.
RequestSymmetry == Permutations(Requests)
=============================================================================
