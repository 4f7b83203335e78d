--------------------------------- MODULE Bank ---------------------------------
(***************************************************************************)
(* What the money endpoints promise their callers: every call takes effect *)
(* at one instant, on wallets that are never overdrawn, and the calls that *)
(* are retries of one operation execute it once between them.  It says     *)
(* nothing of locks, rate limits, keys or PostgreSQL transactions.         *)
(***************************************************************************)
EXTENDS Integers

CONSTANTS
    Calls, Users,
    Operation,  \* Operation[c]: the same for retries of one operation
    Legs,       \* Legs[c][u]: what the execution of c adds to the wallet of u
    Opening     \* Opening[u]: balance at the start

VARIABLES
    balance,    \* balance[u]: the wallet of u
    answer      \* answer[c]: "none" as long as c is not answered

vars == <<balance, answer>>

Init == balance = Opening /\ answer = [c \in Calls |-> "none"]

Executed(c) == \E d \in Calls : Operation[d] = Operation[c] /\ answer[d] = "ok"

Answer(c, a) == answer[c] = "none" /\ answer' = [answer EXCEPT ![c] = a]

\* The first call of the operation that is not refused.
Execute(c) ==
    /\ Answer(c, "ok") /\ ~Executed(c)
    /\ balance' = [u \in Users |-> balance[u] + Legs[c][u]]
    /\ \A u \in Users : balance'[u] >= 0

\* A retry of what was executed is told so.
Replay(c) ==
    /\ Answer(c, "replayed") /\ Executed(c)
    /\ UNCHANGED balance

\* A refused or a lost call changes nothing.
Refuse(c) ==
    /\ Answer(c, "refused")
    /\ UNCHANGED balance

Deposit(u) ==
    /\ balance' = [balance EXCEPT ![u] = @ + 1]
    /\ UNCHANGED answer

Next ==
    \/ \E c \in Calls : Execute(c) \/ Replay(c) \/ Refuse(c)
    \/ \E u \in Users : Deposit(u)

Spec == Init /\ [][Next]_vars
=============================================================================
