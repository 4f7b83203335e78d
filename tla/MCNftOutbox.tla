------------------------------ MODULE MCNftOutbox -----------------------------
(***************************************************************************)
(* Values for the constants of NftOutbox.                                  *)
(***************************************************************************)
EXTENDS NftOutbox

CONSTANTS m1, d1, x, y, z, alice, bob

ForAlice == [t \in Tokens |-> alice]

Withdraw(user, key) == [op |-> "withdraw", user |-> user, token |-> d1, key |-> key, to |-> user]
Transfer(user, key, to) == [op |-> "transfer", user |-> user, token |-> d1, key |-> key, to |-> to]

\* Alice withdraws the deposited token and gives it to Bob, who withdraws it too.
WithdrawAndTransfer ==
    <<Withdraw(alice, x), Transfer(alice, y, bob), Withdraw(bob, z)>>

\* Alice repeats her withdrawal with its key.
WithdrawAgain ==
    <<Withdraw(alice, x), Withdraw(alice, x), Transfer(alice, y, bob), Withdraw(bob, z)>>
=============================================================================
