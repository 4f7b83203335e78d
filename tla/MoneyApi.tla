------------------------------- MODULE MoneyApi -------------------------------
(***************************************************************************)
(* The money endpoints of the API: POST /withdrawals, /transfers and       *)
(* /demo/faucet (backend/app/services/withdrawal_service.py,               *)
(* transfer_service.py, wallet_service.py) on the ledger                   *)
(* (services/ledger.py) with its idempotency keys, wallet locks and rate   *)
(* limits.                                                                 *)
(*                                                                         *)
(* A call is one HTTP request and one PostgreSQL transaction at READ       *)
(* COMMITTED.  Every statement that reads or locks what other calls write  *)
(* is a step of its own.  A retry of the client is another call with the   *)
(* same key.  There is one asset; balance[u] is the sum of the committed   *)
(* entries of the wallet account of u.  A wallet account that does not     *)
(* exist yet is inserted under a unique index, which makes others wait     *)
(* just as its row lock does.                                              *)
(***************************************************************************)
EXTENDS Integers, FiniteSets

CONSTANTS
    Calls,         \* HTTP requests
    Users,
    Kind,          \* Kind[c]: "withdraw", "transfer", "simulate" or "send" (faucet)
    User,          \* User[c]: the authenticated user
    Peer,          \* Peer[c]: the recipient of a transfer
    Amount,        \* Amount[c]: base units, validated
    ClientKey,     \* ClientKey[c]: the Idempotency-Key header
    UserLimits,    \* UserLimits[kind]: pairs <<window, limit>> per user
    GlobalLimits,  \* GlobalLimits[kind]: the same over all users
    Opening,       \* Opening[u]: balance at the start
    None,
    MaxTime,       \* bound: time
    MaxFailures,   \* bound: calls that are lost
    MaxCredits     \* bound: deposits credited by the worker

Kinds == {"withdraw", "transfer", "simulate", "send"}

ASSUME ApiAssumption ==
    /\ IsFiniteSet(Calls)
    /\ Kind \in [Calls -> Kinds] /\ User \in [Calls -> Users] /\ Peer \in [Calls -> Users]
    /\ \A c \in Calls : Kind[c] = "transfer" => Peer[c] # User[c]
    /\ Amount \in [Calls -> Nat \ {0}]
    /\ Opening \in [Users -> Nat]
    /\ None \notin Calls /\ None \notin Int
    /\ MaxTime \in Nat /\ MaxFailures \in Nat /\ MaxCredits \in Nat

VARIABLES
    balance,   \* committed balance of every wallet
    txs,       \* committed ledger transactions
    requests,  \* calls whose WithdrawalRequest row is committed
    events,    \* committed rate-limit events
    wallet,    \* wallet[u]: the call that holds the row lock of u's account
    posted,    \* calls whose ledger transaction is inserted but not committed
    stamp,     \* stamp[c]: time of the uncommitted rate-limit event of c
    faucet,    \* faucet[c]: nonce of the faucet transaction of c, and whether it was sent
    pc,
    result,    \* answer to each call
    now, failures, credits

callVars == <<wallet, posted, stamp, pc, result>>
dbVars == <<balance, txs, requests, events>>
worldVars == <<now, failures, credits>>
vars == <<balance, txs, requests, events, wallet, posted, stamp, faucet, pc, result,
          now, failures, credits>>

-----------------------------------------------------------------------------
(* Ledger transactions and their keys.                                       *)

Domain(kind) == IF kind \in {"simulate", "send"} THEN "faucet" ELSE kind

\* The header alone is the key.
UnscopedKey(c) == <<ClientKey[c]>>

\* scoped_idempotency_key.
ScopedKey(c) == <<Domain(Kind[c]), User[c], ClientKey[c]>>

FaucetTx(c) == <<faucet[c].nonce, User[c], Amount[c]>>

\* ref_id: the new withdrawal, the two parties, the hash of the faucet transaction,
\* or the placeholder hash of the key.
Ref(c) ==
    IF Kind[c] = "withdraw" THEN <<"request", c>>
    ELSE IF Kind[c] = "transfer" THEN <<"parties", User[c], Peer[c]>>
    ELSE IF Kind[c] = "send" THEN <<"hash", FaucetTx(c)>>
    ELSE <<"placeholder", ScopedKey(c)>>

Transaction(c) ==
    [key |-> ScopedKey(c), kind |-> Kind[c], user |-> User[c], ref |-> Ref(c)]

\* No unique constraint on ledger_transactions.idempotency_key.
KeyNeverTaken(c) == FALSE

\* A committed transaction has the key.
KeyTaken(c) == \E t \in txs : t.key = ScopedKey(c)

\* find_transaction_by_idempotency_key.
Found(c) == \E t \in txs : t.key = ScopedKey(c)

\* Any transaction with the key may be replayed.
AnyReplay(c) == TRUE

\* _assert_replay_compatible.
ReplayCompatible(c) == \E t \in txs : t.key = ScopedKey(c) /\ t.kind = Kind[c] /\ t.ref = Ref(c)

\* The legs of the transaction on the wallets.
Leg(c, u) ==
    (IF Kind[c] \in {"withdraw", "transfer"} /\ u = User[c] THEN -Amount[c] ELSE 0)
    + (IF \/ Kind[c] = "transfer" /\ u = Peer[c]
          \/ Kind[c] = "simulate" /\ u = User[c] THEN Amount[c] ELSE 0)

\* The wallets its entries refer to.
Touched(c) ==
    IF Kind[c] = "transfer" THEN {User[c], Peer[c]}
    ELSE IF Kind[c] = "send" THEN {} ELSE {User[c]}

-----------------------------------------------------------------------------
(* Rate limits.                                                              *)

Windows(kind) == {w[1] : w \in UserLimits[kind] \cup GlobalLimits[kind]}

\* _count_events, for the action of the kind: both faucets count as one.
Counted(kind, since, who) ==
    Cardinality({e \in events :
        Domain(e.kind) = Domain(kind) /\ e.at >= since /\ e.user \in who})

\* The two loops of enforce_rate_limit.
Exceeded(c) ==
    \/ \E w \in UserLimits[Kind[c]] : Counted(Kind[c], now - w[1], {User[c]}) >= w[2]
    \/ \E w \in GlobalLimits[Kind[c]] : Counted(Kind[c], now - w[1], Users) >= w[2]

Limited(c) == Kind[c] # "transfer"

\* The delete statement: events older than every window.
Expired(e, c) ==
    /\ Domain(e.kind) = Domain(Kind[c]) /\ Windows(Kind[c]) # {}
    /\ \A w \in Windows(Kind[c]) : e.at < stamp[c] - w

-----------------------------------------------------------------------------
(* Locks of PostgreSQL.                                                      *)

\* A call that inserted entries holds a key-share lock on their accounts.
Shares(c, u) == c \in posted /\ pc[c] = "commit" /\ u \in Touched(c)

\* The lock is not waited for.
WalletAlwaysFree(c) == TRUE

\* SELECT ... FOR UPDATE does not wait: nobody else has the row in any mode.
WalletFree(c) ==
    /\ wallet[User[c]] = None
    /\ \A d \in Calls \ {c} : ~Shares(d, User[c])

\* Foreign-key checks need the accounts in key-share mode.
EntriesFree(c) == \A u \in Touched(c) : wallet[u] \in {None, c}

\* An insert waits for a call that inserted the same unique key: the ledger
\* transaction, or the deposit row of a simulated faucet.
KeyHolders(c) == {d \in posted \ {c} : ScopedKey(d) = ScopedKey(c)}

RowHolders(c) ==
    {d \in Calls \ {c} : /\ Kind[d] = "simulate" /\ ScopedKey(d) = ScopedKey(c)
                         /\ pc[d] \in {"post", "insert", "entries", "commit"}}

WaitsFor(c, d) ==
    \/ pc[c] = "lock" /\ (wallet[User[c]] = d \/ Shares(d, User[c]))
    \/ pc[c] = "entries" /\ \E u \in Touched(c) : wallet[u] = d
    \/ pc[c] = "insert" /\ d \in KeyHolders(c)
    \/ pc[c] = "row" /\ d \in RowHolders(c)

Deadlocked(c) ==
    \E S \in SUBSET Calls :
        /\ c \in S
        /\ \A x \in S : \E y \in S \ {x} : WaitsFor(x, y)

-----------------------------------------------------------------------------
(* The endpoints.                                                            *)

Init ==
    /\ balance = Opening
    /\ txs = {} /\ requests = {} /\ events = {}
    /\ wallet = [u \in Users |-> None]
    /\ posted = {}
    /\ stamp = [c \in Calls |-> None]
    /\ faucet = [c \in Calls |-> [nonce |-> 0, sent |-> FALSE]]
    /\ pc = [c \in Calls |-> "start"]
    /\ result = [c \in Calls |-> "none"]
    /\ now = 0 /\ failures = 0 /\ credits = 0

Goto(c, step) == pc' = [pc EXCEPT ![c] = step] /\ UNCHANGED <<wallet, posted, stamp, result>>

\* The session is not closed.
FinishKeepsLock(c, answer) ==
    /\ pc' = [pc EXCEPT ![c] = "done"]
    /\ result' = [result EXCEPT ![c] = answer]
    /\ posted' = posted \ {c}
    /\ stamp' = [stamp EXCEPT ![c] = None]
    /\ UNCHANGED wallet

\* The call is answered and get_db closes its session, which ends the transaction
\* and releases its locks.
Finish(c, answer) ==
    /\ pc' = [pc EXCEPT ![c] = "done"]
    /\ result' = [result EXCEPT ![c] = answer]
    /\ posted' = posted \ {c}
    /\ stamp' = [stamp EXCEPT ![c] = None]
    /\ wallet' = [u \in Users |-> IF wallet[u] = c THEN None ELSE wallet[u]]

\* The lookup of the key at the beginning of every endpoint.
Start(c) ==
    /\ pc[c] = "start"
    /\ IF Found(c) THEN Finish(c, "replayed")
       ELSE Goto(c, IF Limited(c) THEN "limit" ELSE "lock")
    /\ UNCHANGED <<dbVars, faucet, worldVars>>

\* enforce_rate_limit: the event is inserted in the open transaction.
EnforceRateLimit(c) ==
    /\ pc[c] = "limit"
    /\ IF Exceeded(c) THEN Finish(c, "limited")
       ELSE /\ stamp' = [stamp EXCEPT ![c] = now]
            /\ pc' = [pc EXCEPT ![c] = IF Kind[c] = "withdraw" THEN "lock"
                                       ELSE IF Kind[c] = "send" THEN "nonce" ELSE "row"]
            /\ UNCHANGED <<wallet, posted, result>>
    /\ UNCHANGED <<dbVars, faucet, worldVars>>

\* lock_user_asset.
LockUserAsset(c) ==
    /\ pc[c] = "lock" /\ WalletFree(c)
    /\ wallet' = [wallet EXCEPT ![User[c]] = c]
    /\ pc' = [pc EXCEPT ![c] = "check"]
    /\ UNCHANGED <<dbVars, posted, stamp, faucet, result, worldVars>>

\* available_balance and the test; a withdrawal also inserts its request row.
CheckBalance(c) ==
    /\ pc[c] = "check"
    /\ IF balance[User[c]] < Amount[c] THEN Finish(c, "insufficient") ELSE Goto(c, "post")
    /\ UNCHANGED <<dbVars, faucet, worldVars>>

\* The deposit row of _faucet_simulate, whose tx_hash is made from the key.
InsertDepositRow(c) ==
    /\ pc[c] = "row" /\ RowHolders(c) = {}
    /\ IF KeyTaken(c) THEN Finish(c, "error") ELSE Goto(c, "post")
    /\ UNCHANGED <<dbVars, faucet, worldVars>>

Sent == {FaucetTx(c) : c \in {d \in Calls : faucet[d].sent}}

\* _faucet_send: pending_nonce of the faucet account.
ReadFaucetNonce(c) ==
    /\ pc[c] = "nonce"
    /\ faucet' = [faucet EXCEPT ![c].nonce = Cardinality(Sent)]
    /\ Goto(c, "send")
    /\ UNCHANGED <<dbVars, worldVars>>

\* send_native or send_erc20: the same transaction again is taken as sent, another
\* one with a used nonce is refused.
SendFaucet(c) ==
    /\ pc[c] = "send"
    /\ IF \E t \in Sent : t[1] = faucet[c].nonce /\ t # FaucetTx(c)
       THEN Finish(c, "error") /\ UNCHANGED faucet
       ELSE faucet' = [faucet EXCEPT ![c].sent = TRUE] /\ Goto(c, "post")
    /\ UNCHANGED <<dbVars, worldVars>>

\* ledger.post: the second lookup of the key.
Post(c) ==
    /\ pc[c] = "post"
    /\ IF ~Found(c) THEN Goto(c, "insert")
       ELSE IF ReplayCompatible(c) THEN Goto(c, "commit")
       ELSE Finish(c, "error")
    /\ UNCHANGED <<dbVars, faucet, worldVars>>

\* ledger.post: the flush of the transaction, outside the try.
InsertTransaction(c) ==
    /\ pc[c] = "insert" /\ KeyHolders(c) = {}
    /\ IF KeyTaken(c) THEN Finish(c, "error")
       ELSE /\ posted' = posted \cup {c}
            /\ pc' = [pc EXCEPT ![c] = "entries"]
            /\ UNCHANGED <<wallet, stamp, result>>
    /\ UNCHANGED <<dbVars, faucet, worldVars>>

\* ledger.post: the flush of the entries.
InsertEntries(c) ==
    /\ pc[c] = "entries" /\ EntriesFree(c)
    /\ Goto(c, "commit")
    /\ UNCHANGED <<dbVars, faucet, worldVars>>

\* The commit of the route, and the answer.
CommitCall(c) ==
    /\ pc[c] = "commit"
    /\ IF c \in posted
       THEN /\ txs' = txs \cup {Transaction(c)}
            /\ balance' = [u \in Users |-> balance[u] + Leg(c, u)]
            /\ Finish(c, "ok")
       ELSE UNCHANGED <<txs, balance>> /\ Finish(c, "replayed")
    /\ requests' = IF Kind[c] = "withdraw" THEN requests \cup {c} ELSE requests
    /\ events' = IF stamp[c] = None THEN events
                 ELSE {e \in events : ~Expired(e, c)} \cup
                        {[call |-> c, kind |-> Kind[c], user |-> User[c], at |-> stamp[c]]}
    /\ UNCHANGED <<faucet, worldVars>>

\* PostgreSQL aborts one of the transactions that wait for each other.
BreakDeadlock(c) ==
    /\ Deadlocked(c)
    /\ Finish(c, "error")
    /\ UNCHANGED <<dbVars, faucet, worldVars>>

\* The process dies or the connection is lost: the transaction is rolled back.
Lose(c) ==
    /\ failures < MaxFailures /\ failures' = failures + 1
    /\ pc[c] \notin {"start", "done"}
    /\ Finish(c, "lost")
    /\ UNCHANGED <<dbVars, faucet, now, credits>>

\* The worker credits a deposit; its entry waits for the lock of the wallet.
CreditDeposit(u) ==
    /\ credits < MaxCredits /\ credits' = credits + 1
    /\ wallet[u] = None
    /\ balance' = [balance EXCEPT ![u] = @ + 1]
    /\ UNCHANGED <<txs, requests, events, callVars, faucet, now, failures>>

Tick ==
    /\ now < MaxTime /\ now' = now + 1
    /\ UNCHANGED <<dbVars, callVars, faucet, failures, credits>>

\* A call that has begun.
Step(c) ==
    \/ EnforceRateLimit(c) \/ LockUserAsset(c) \/ CheckBalance(c)
    \/ InsertDepositRow(c) \/ ReadFaucetNonce(c) \/ SendFaucet(c)
    \/ Post(c) \/ InsertTransaction(c) \/ InsertEntries(c) \/ CommitCall(c)
    \/ BreakDeadlock(c)

Next ==
    \/ \E c \in Calls : Start(c)
    \/ \E c \in Calls : Step(c)
    \/ \E c \in Calls : Lose(c)
    \/ \E u \in Users : CreditDeposit(u)
    \/ Tick

Spec == Init /\ [][Next]_vars

\* A call that has begun is not stopped by the server.
FairSpec == Spec /\ \A c \in Calls : WF_vars(Step(c))

-----------------------------------------------------------------------------
(* Properties.                                                               *)

Steps == {"start", "limit", "lock", "check", "row", "nonce", "send", "post", "insert",
          "entries", "commit", "done"}

Answers == {"none", "ok", "replayed", "limited", "insufficient", "error", "lost"}

\* Type correctness; only a call that is under way holds a wallet or has an
\* uncommitted transaction.
TypeOK ==
    /\ balance \in [Users -> Int]
    /\ requests \subseteq Calls
    /\ wallet \in [Users -> Calls \cup {None}]
    /\ posted \subseteq {c \in Calls : pc[c] \in {"entries", "commit"}}
    /\ stamp \in [Calls -> Nat \cup {None}]
    /\ faucet \in [Calls -> [nonce : Nat, sent : BOOLEAN]]
    /\ pc \in [Calls -> Steps] /\ result \in [Calls -> Answers]
    /\ now \in 0..MaxTime /\ failures \in 0..MaxFailures /\ credits \in 0..MaxCredits
    /\ \A u \in Users : wallet[u] # None =>
            pc[wallet[u]] \in {"check", "post", "insert", "entries", "commit"}

\* No wallet is overdrawn by concurrent withdrawals and transfers, in whatever
\* order their checks and commits interleave with each other and with deposits.
NoOverspend == \A u \in Users : balance[u] >= 0

\* Every committed withdrawal request, which the worker will pay, has its own
\* reservation in the ledger; a racing retry commits no second request on the
\* reservation of the first.
EveryRequestReserved ==
    \A c \in requests : \E t \in txs : t.kind = "withdraw" /\ t.ref = <<"request", c>>

\* A call that reports success is backed by a committed transaction of the same
\* operation, user and key: a key that a client uses for several operations
\* never makes one of them pass for another.
SuccessIsReal ==
    \A c \in Calls : result[c] \in {"ok", "replayed"} =>
        \E t \in txs : Domain(t.kind) = Domain(Kind[c]) /\ t.user = User[c] /\ t.key = ScopedKey(c)

SameOperation(c, d) ==
    Domain(Kind[c]) = Domain(Kind[d]) /\ User[c] = User[d] /\ ClientKey[c] = ClientKey[d]

\* Calls with the same key execute once, retried and raced as they may be.
OncePerKey ==
    \A c, d \in Calls : SameOperation(c, d) /\ result[c] = "ok" /\ result[d] = "ok" => c = d

\* The answer as a client sees it: refused calls are all alike.
Answer(c) == IF result[c] \in {"none", "ok", "replayed"} THEN result[c] ELSE "refused"

AtOnce == INSTANCE Bank WITH
    Operation <- [c \in Calls |-> ScopedKey(c)],
    Legs <- [c \in Calls |-> [u \in Users |-> Leg(c, u)]],
    answer <- [c \in Calls |-> Answer(c)]

\* The endpoints are a bank: the steps of concurrent calls, of their retries and of
\* lost calls have the effect of calls executed one after the other, each with the
\* funds it takes and each operation once, and a replay follows what it replays.
ImplementsBank == AtOnce!Spec

\* Every call that begins is answered, also when transfers in opposite
\* directions lock each other out.
EveryCallAnswered == \A c \in Calls : pc[c] # "start" ~> pc[c] = "done"

\* The same key gives the same result: when one of its calls succeeded, no other
\* one of them is answered by an error.
SameKeySameResult ==
    \A c, d \in Calls : SameOperation(c, d) /\ result[c] = "ok" =>
        result[d] \notin {"limited", "insufficient", "error"}

\* One key sends at most one faucet transaction.
FaucetSentOnce ==
    \A c, d \in Calls : SameOperation(c, d) /\ faucet[c].sent /\ faucet[d].sent =>
        FaucetTx(c) = FaucetTx(d)
=============================================================================
