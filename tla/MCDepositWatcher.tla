--------------------------- MODULE MCDepositWatcher ---------------------------
(***************************************************************************)
(* Values for the constants of DepositWatcher.                             *)
(***************************************************************************)
EXTENDS DepositWatcher

CONSTANTS t1, t2, s1, alice, bob

\* Every transaction pays one user.
OnePayment == [t \in Txs |-> <<alice>>]

\* One transaction pays two users: its logs have consecutive indexes.
PayBoth == [t \in Txs |-> <<alice, bob>>]
=============================================================================
