------------------------------ MODULE MCMoneyApi ------------------------------
(***************************************************************************)
(* Instances of MoneyApi for TLC.                                          *)
(***************************************************************************)
EXTENDS MoneyApi, TLC

CONSTANTS alice, bob, c1, c2, c3, c4, c5

\* One client key for everything: two withdrawals and a transfer of alice, and the
\* real faucet twice for bob.
RetryKind == (c1 :> "withdraw") @@ (c2 :> "withdraw") @@ (c3 :> "transfer")
                @@ (c4 :> "send") @@ (c5 :> "send")
RetryUser == (c1 :> alice) @@ (c2 :> alice) @@ (c3 :> alice) @@ (c4 :> bob) @@ (c5 :> bob)
OneKey == [c \in Calls |-> "k"]

\* Debits of two wallets, two of them transfers in opposite directions, and the
\* simulated faucet.
DebitKind == (c1 :> "withdraw") @@ (c2 :> "transfer") @@ (c3 :> "transfer") @@ (c4 :> "simulate")
DebitUser == (c1 :> alice) @@ (c2 :> alice) @@ (c3 :> bob) @@ (c4 :> bob)
DebitKey == (c1 :> "k1") @@ (c2 :> "k2") @@ (c3 :> "k3") @@ (c4 :> "k4")
DebitAmount == [c \in Calls |-> IF c = c1 THEN 2 ELSE 1]

\* The real faucet twice for one user.
SendKind == [c \in Calls |-> "send"]
SendUser == [c \in Calls |-> alice]

\* Transfers go to the other user.
Other == [c \in Calls |-> IF User[c] = alice THEN bob ELSE alice]

One == [c \in Calls |-> 1]
Balances == (alice :> 2) @@ (bob :> 1)

Unlimited == [kind \in Kinds |-> {}]
\* One call of a user and two of all users within one unit of time.
Windowed == [kind \in Kinds |-> {<<1, 1>>}]
GlobalWindowed == [kind \in Kinds |-> {<<1, 2>>}]
=============================================================================
