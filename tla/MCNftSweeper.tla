----------------------------- MODULE MCNftSweeper -----------------------------
(***************************************************************************)
(* Values for the constants of NftSweeper.                                 *)
(***************************************************************************)
EXTENDS NftSweeper

CONSTANTS t1, t2, p1, a1

\* All tokens are at one deposit address.
OneAddress == [t \in Tokens |-> a1]
=============================================================================
