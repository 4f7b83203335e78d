------------------------------ MODULE NftSweeper ------------------------------
(***************************************************************************)
(* The NFT sweeper (backend/worker/nft_sweeper.py and its loop in          *)
(* worker/main.py): a token credited at a deposit address is moved into    *)
(* the hot wallet.  The hot wallet pays the gas of the deposit address,    *)
(* with a nonce of the row it shares with the other outboxes; the deposit  *)
(* address then signs the transfer.                                        *)
(*                                                                         *)
(* A pass has four phases, each a transaction: discover, fund, sweep,      *)
(* confirm.  The calls for one sweep are one step; between two of them     *)
(* blocks are mined, other outboxes pay, users fund their address, and the *)
(* worker may fail, which rolls the phase back but not what it broadcast.  *)
(*                                                                         *)
(* A balance is counted in gas budgets; a sweep uses one up.  The chain is *)
(* not reorganised.  A provider that is behind has no receipt of the last  *)
(* MaxLag blocks.                                                          *)
(***************************************************************************)
EXTENDS Integers, FiniteSets

CONSTANTS
    Tokens,         \* credited NFTs, each with one row of nft_sweeps at most
    AddressOf,      \* AddressOf[t]: the deposit address t was sent to
    Payouts,        \* requests of the other outboxes
    MayRevert,      \* tokens whose transfer may revert
    NoRow,          \* no HotWalletNonce row yet
    Confirmations,  \* DEPOSIT_CONFIRMATIONS
    MaxAttempts,    \* MAX_SWEEP_ATTEMPTS
    MaxHeight,      \* bound: height of the chain
    MaxLag,         \* bound: blocks the answering provider is behind
    MaxGifts,       \* bound: gas budgets sent to deposit addresses by others
    MaxRedeposits,  \* bound: tokens that come back after a withdrawal
    MaxFailures     \* bound: failed phases, signatures and broadcasts

ASSUME NftSweeperAssumption ==
    /\ IsFiniteSet(Tokens) /\ IsFiniteSet(Payouts) /\ Tokens \cap Payouts = {}
    /\ MayRevert \subseteq Tokens
    /\ NoRow \notin Int
    /\ Confirmations \in Nat /\ MaxAttempts \in Nat \ {0} /\ MaxHeight \in Nat /\ MaxLag \in Nat
    /\ MaxGifts \in Nat /\ MaxRedeposits \in Nat /\ MaxFailures \in Nat

VARIABLES
    height,    \* height of the chain
    hotPool,   \* pending transactions of the hot wallet: who they are for, nonce
    hotMined,  \* mined transactions of the hot wallet: who they are for, nonce
    balance,   \* balance[a]: gas budgets at deposit address a
    pool,      \* pending transfers of the deposit addresses: token, nonce
    mined,     \* mined transfers of the deposit addresses: token, nonce, height, status
    owner,     \* owner[t]: deposit, hot or out
    gifts,     \* gas budgets sent by others so far
    returned,  \* tokens that came back to the deposit address
    failures,  \* failures so far
    db,        \* committed state: sweeps, next_nonce, nonces of the payouts
    session,   \* what the open session of the sweeper sees
    locked,    \* the sweeper holds the lock of the nonce row
    pc,        \* phase of the pass
    todo,      \* sweeps the phase still has to visit
    head       \* head read at the start of the confirm phase; 0 in the others

chainVars == <<height, hotPool, hotMined, balance, pool, mined, owner>>
worldVars == <<gifts, returned>>
workerVars == <<db, session, locked, pc, todo, head>>
vars == <<height, hotPool, hotMined, balance, pool, mined, owner, gifts, returned, failures,
          db, session, locked, pc, todo, head>>

Addresses == {AddressOf[t] : t \in Tokens}

NoNonce == -1
NoBlock == -1

Larger(a, b) == IF a <= b THEN b ELSE a
Smaller(a, b) == IF a <= b THEN a ELSE b

-----------------------------------------------------------------------------
(* The chain, as the calls of ChainClient show it.                           *)

\* Transactions of address a.
Of(S, a) == {tx \in S : AddressOf[tx.token] = a}

\* One past the run of the pending nonces P from account nonce n on.
FirstFree(n, P) ==
    CHOOSE m \in n..(n + Cardinality(P)) : m \notin P /\ \A i \in n..(m - 1) : i \in P

\* latest_nonce of the hot wallet.
Account == Cardinality(hotMined)

\* pending_nonce of the hot wallet and of deposit address a.
HotPending == FirstFree(Account, {tx.nonce : tx \in hotPool})
AddressPending(a) == FirstFree(Cardinality(Of(mined, a)), {tx.nonce : tx \in Of(pool, a)})

\* A node takes a transaction of the hot wallet whose nonce is neither used nor
\* pending.  What it makes of another ("nonce too low", "already known") does not
\* matter: the sweeper treats every answer alike.
HotAccepts(tx) == tx.nonce >= Account /\ \A other \in hotPool : other.nonce # tx.nonce

Init ==
    /\ height = 0
    /\ hotPool = {} /\ hotMined = {}
    /\ balance = [a \in Addresses |-> 0]
    /\ pool = {} /\ mined = {}
    /\ owner = [t \in Tokens |-> "deposit"]
    /\ gifts = 0 /\ returned = {} /\ failures = 0
    /\ db = [sweeps |-> [t \in Tokens |-> [status |-> "none", attempts |-> 0, fund |-> NoNonce,
                                           nonce |-> NoNonce, since |-> NoBlock]],
             next |-> NoRow, payouts |-> [p \in Payouts |-> NoNonce]]
    /\ session = db
    /\ locked = FALSE
    /\ pc = "discover" /\ todo = {} /\ head = 0

\* A block without transactions.
MineEmpty ==
    /\ height < MaxHeight
    /\ height' = height + 1
    /\ UNCHANGED <<hotPool, hotMined, balance, pool, mined, owner, worldVars, failures, workerVars>>

\* A block with the next transaction of the hot wallet: a payout or a gas budget.
MineHot ==
    /\ height < MaxHeight
    /\ height' = height + 1
    /\ \E tx \in hotPool :
        /\ tx.nonce = Account
        /\ hotPool' = hotPool \ {tx} /\ hotMined' = hotMined \cup {tx}
        /\ balance' = IF tx.for \in Tokens
                      THEN [balance EXCEPT ![AddressOf[tx.for]] = @ + 1] ELSE balance
    /\ UNCHANGED <<pool, mined, owner, worldVars, failures, workerVars>>

\* A block with the next transfer of a deposit address.
MineSweep ==
    /\ height < MaxHeight
    /\ height' = height + 1
    /\ \E tx \in pool, ok \in BOOLEAN :
        LET a == AddressOf[tx.token]
        IN  /\ tx.nonce = Cardinality(Of(mined, a)) /\ balance[a] > 0
            /\ IF ok THEN owner[tx.token] = "deposit"
               ELSE owner[tx.token] # "deposit" \/ tx.token \in MayRevert
            /\ pool' = pool \ {tx}
            /\ mined' = mined \cup {[token |-> tx.token, nonce |-> tx.nonce,
                                     at |-> height + 1, ok |-> ok]}
            /\ owner' = IF ok THEN [owner EXCEPT ![tx.token] = "hot"] ELSE owner
            /\ balance' = [balance EXCEPT ![a] = @ - 1]
    /\ UNCHANGED <<hotPool, hotMined, worldVars, failures, workerVars>>

\* Somebody else sends gas to a deposit address.
Gift(a) ==
    /\ gifts < MaxGifts
    /\ gifts' = gifts + 1
    /\ balance' = [balance EXCEPT ![a] = @ + 1]
    /\ UNCHANGED <<height, hotPool, hotMined, pool, mined, owner, returned, failures, workerVars>>

\* A withdrawal of the token is mined (see NftOutbox).
Withdrawn(t) ==
    /\ owner[t] = "hot"
    /\ owner' = [owner EXCEPT ![t] = "out"]
    /\ UNCHANGED <<height, hotPool, hotMined, balance, pool, mined, worldVars, failures, workerVars>>

\* The token is sent to the deposit address again, and credited by the watcher.
Redeposit(t) ==
    /\ Cardinality(returned) < MaxRedeposits
    /\ owner[t] = "out"
    /\ owner' = [owner EXCEPT ![t] = "deposit"]
    /\ returned' = returned \cup {t}
    /\ UNCHANGED <<height, hotPool, hotMined, balance, pool, mined, gifts, failures, workerVars>>

\* The lock of the nonce row is not waited for.
LockIgnored == TRUE

LockFree == ~locked

\* The nonce of nonce_row: the row follows the chain when the chain is ahead.
NextNonce(row) == IF row = NoRow THEN HotPending ELSE Larger(row, HotPending)

\* Another outbox (Withdrawer, NftOutbox) signs a payout with the next nonce of
\* the row and broadcasts it.
Pay(p) ==
    /\ db.payouts[p] = NoNonce
    /\ LockFree
    /\ LET n == NextNonce(db.next)
       IN  /\ db' = [db EXCEPT !.payouts[p] = n, !.next = n + 1]
           /\ session' = [session EXCEPT !.payouts[p] = n, !.next = n + 1]
           /\ hotPool' = IF HotAccepts([for |-> p, nonce |-> n])
                         THEN hotPool \cup {[for |-> p, nonce |-> n]} ELSE hotPool
    /\ UNCHANGED <<height, hotMined, balance, pool, mined, owner, worldVars, failures,
                   locked, pc, todo, head>>

-----------------------------------------------------------------------------
(* One pass of the sweeper.                                                  *)

InStatus(d, S) == {t \in Tokens : d.sweeps[t].status \in S}

\* attempts, counted up to where it is compared.
Attempted(row) == [row EXCEPT !.attempts = Smaller(@ + 1, MaxAttempts)]

\* A failed sweep is re-armed whatever its attempts.
RearmedAlways(row) == row.status = "failed"

\* The last attempt is not used.
RearmedOnceLess(row) == row.status = "failed" /\ row.attempts < MaxAttempts - 1

Rearmed(row) == row.status = "failed" /\ row.attempts < MaxAttempts

\* discover_sweeps and its commit: a new row, or a failed one that starts again.
\* Every other existing row is skipped.
Discover ==
    /\ pc = "discover"
    /\ session' = [db EXCEPT !.sweeps = [t \in Tokens |->
            IF db.sweeps[t].status = "none" THEN [db.sweeps[t] EXCEPT !.status = "pending"]
            ELSE IF Rearmed(db.sweeps[t])
            THEN [status |-> "pending", attempts |-> db.sweeps[t].attempts, fund |-> NoNonce,
                  nonce |-> NoNonce, since |-> NoBlock]
            ELSE db.sweeps[t]]]
    /\ db' = session'
    /\ pc' = "fund"
    /\ todo' = InStatus(db', {"pending", "funding"})
    /\ UNCHANGED <<chainVars, worldVars, failures, locked, head>>

\* broadcast_raw of a gas transaction: it returns, or raises after or before a
\* node took it.
BroadcastGas(tx) ==
    \/ /\ hotPool' = IF HotAccepts(tx) THEN hotPool \cup {tx} ELSE hotPool
       /\ UNCHANGED failures
    \/ /\ failures < MaxFailures /\ failures' = failures + 1
       /\ hotPool' \in {hotPool, IF HotAccepts(tx) THEN hotPool \cup {tx} ELSE hotPool}

\* fund_pending for a sweep whose address has the gas already.
FundSkip(t) ==
    /\ pc = "fund" /\ t \in todo
    /\ balance[AddressOf[t]] >= 1
    /\ session' = [session EXCEPT !.sweeps[t].status = "funded"]
    /\ todo' = todo \ {t}
    /\ UNCHANGED <<chainVars, worldVars, failures, db, locked, pc, head>>

\* fund_pending for a FUNDING sweep: the gas transaction is sent again, at the
\* nonce it has.  Whatever broadcast_raw says, the row stays as it is.
FundAgain(t) ==
    /\ pc = "fund" /\ t \in todo
    /\ balance[AddressOf[t]] < 1 /\ session.sweeps[t].status = "funding"
    /\ BroadcastGas([for |-> t, nonce |-> session.sweeps[t].fund])
    /\ todo' = todo \ {t}
    /\ UNCHANGED <<height, hotMined, balance, pool, mined, owner, worldVars, db, session, locked, pc,
                   head>>

\* The next nonce of the session, which reads and locks the row at its first use.
SessionNonce == IF locked THEN session.next ELSE NextNonce(session.next)

\* The nonce row is not advanced.
FundedRow(t, n) ==
    [session EXCEPT !.sweeps[t] = [Attempted(session.sweeps[t]) EXCEPT !.status = "funding",
                                                                       !.fund = n],
                    !.next = n]

\* What the loop of fund_pending assigns when a gas transaction is signed.
Funded(t, n) ==
    [session EXCEPT !.sweeps[t] = [Attempted(session.sweeps[t]) EXCEPT !.status = "funding",
                                                                       !.fund = n],
                    !.next = n + 1]

\* fund_pending for a PENDING sweep: nonce and status are set, then the gas
\* transaction is broadcast, before the phase commits.
Fund(t) ==
    /\ pc = "fund" /\ t \in todo
    /\ balance[AddressOf[t]] < 1 /\ session.sweeps[t].status = "pending"
    /\ session' = Funded(t, SessionNonce)
    /\ BroadcastGas([for |-> t, nonce |-> SessionNonce])
    /\ locked' = TRUE
    /\ todo' = todo \ {t}
    /\ UNCHANGED <<height, hotMined, balance, pool, mined, owner, worldVars, db, pc, head>>

\* The signature fails: the attempt counts, and the row is locked.
FundUnsigned(t) ==
    /\ pc = "fund" /\ t \in todo
    /\ balance[AddressOf[t]] < 1 /\ session.sweeps[t].status = "pending"
    /\ failures < MaxFailures /\ failures' = failures + 1
    /\ session' = [session EXCEPT !.sweeps[t] = Attempted(@), !.next = SessionNonce]
    /\ locked' = TRUE
    /\ todo' = todo \ {t}
    /\ UNCHANGED <<chainVars, worldVars, db, pc, head>>

CommitFund ==
    /\ pc = "fund" /\ todo = {}
    /\ db' = session
    /\ locked' = FALSE
    /\ pc' = "sweep"
    /\ todo' = InStatus(session, {"funded"})
    /\ UNCHANGED <<chainVars, worldVars, failures, session, head>>

\* A sweep that is signed keeps its nonce.
SweepNonce(t) ==
    IF session.sweeps[t].nonce = NoNonce THEN AddressPending(AddressOf[t])
    ELSE session.sweeps[t].nonce

\* A node has the transfer, or takes it: its nonce is free and the address can pay.
Sendable(tx) ==
    LET a == AddressOf[tx.token]
    IN  \/ tx \in pool
        \/ \E m \in mined : m.token = tx.token /\ m.nonce = tx.nonce
        \/ /\ tx.nonce >= Cardinality(Of(mined, a)) /\ balance[a] > 0
           /\ \A other \in Of(pool, a) : other.nonce # tx.nonce

Sent(tx) ==
    IF Sendable(tx) /\ ~\E m \in mined : m.token = tx.token /\ m.nonce = tx.nonce
    THEN pool \cup {tx} ELSE pool

\* sweep_funded for one sweep: signed if it is not yet, then broadcast.  When that
\* raises, after or before a node took it, the signature is kept and the sweep
\* stays FUNDED.
SweepFunded(t) ==
    LET tx == [token |-> t, nonce |-> SweepNonce(t)]
        signed == [Attempted(session.sweeps[t]) EXCEPT !.nonce = tx.nonce]
    IN  /\ pc = "sweep" /\ t \in todo
        /\ \/ /\ Sendable(tx)
              /\ pool' = Sent(tx)
              /\ session' = [session EXCEPT !.sweeps[t] = [signed EXCEPT !.status = "sweeping"]]
              /\ UNCHANGED failures
           \/ /\ session' = [session EXCEPT !.sweeps[t] = signed]
              /\ IF Sendable(tx)
                 THEN /\ failures < MaxFailures /\ failures' = failures + 1
                      /\ pool' \in {pool, Sent(tx)}
                 ELSE UNCHANGED <<failures, pool>>
        /\ todo' = todo \ {t}
        /\ UNCHANGED <<height, hotPool, hotMined, balance, mined, owner, worldVars, db, locked, pc,
                       head>>

\* The nonce cannot be read or the transfer not be signed: only the attempt counts.
SweepUnsigned(t) ==
    /\ pc = "sweep" /\ t \in todo
    /\ session.sweeps[t].nonce = NoNonce
    /\ failures < MaxFailures /\ failures' = failures + 1
    /\ session' = [session EXCEPT !.sweeps[t] = Attempted(@)]
    /\ todo' = todo \ {t}
    /\ UNCHANGED <<chainVars, worldVars, db, locked, pc, head>>

\* The commit of the sweep phase; the confirm phase starts with one head.
CommitSweep ==
    /\ pc = "sweep" /\ todo = {}
    /\ db' = session
    /\ pc' = "confirm"
    /\ head' \in {h \in 0..height : h >= height - MaxLag}
    /\ todo' = InStatus(session, {"sweeping"})
    /\ UNCHANGED <<chainVars, worldVars, failures, session, locked>>

\* The receipts of the sweep that a provider may have.
Receipts(row, t) == {m \in mined : m.token = t /\ m.nonce = row.nonce}

\* _reconcile_unmined.
Reconcile(row, t) ==
    IF Cardinality(Of(mined, AddressOf[t])) <= row.nonce THEN [row EXCEPT !.since = NoBlock]
    ELSE IF row.since = NoBlock THEN [row EXCEPT !.since = head]
    ELSE IF head - row.since >= Confirmations THEN [row EXCEPT !.status = "failed"]
    ELSE row

\* Any successful receipt will do.
ConfirmedUnchecked(row, t, m) ==
    [row EXCEPT !.since = NoBlock, !.status = IF head - m.at >= Confirmations THEN "swept" ELSE @]

\* confirm_sweeps with a receipt: its depth, the hash of its block, its status, and
\* that the hot wallet owns the token now.
Confirmed(row, t, m) ==
    [row EXCEPT !.since = NoBlock,
                !.status = IF head - m.at < Confirmations THEN @
                           ELSE IF ~m.ok THEN "failed"
                           ELSE IF owner[t] = "hot" THEN "swept" ELSE @]

\* The body of the loop of confirm_sweeps.
ConfirmSweep(t) ==
    LET row == session.sweeps[t]
    IN  /\ pc = "confirm" /\ t \in todo
        /\ \/ /\ \A m \in Receipts(row, t) : m.at > height - MaxLag
              /\ session' = [session EXCEPT !.sweeps[t] = Reconcile(row, t)]
           \/ \E m \in Receipts(row, t) :
                session' = [session EXCEPT !.sweeps[t] = Confirmed(row, t, m)]
        /\ todo' = todo \ {t}
        /\ UNCHANGED <<chainVars, worldVars, failures, db, locked, pc, head>>

CommitConfirm ==
    /\ pc = "confirm" /\ todo = {}
    /\ db' = session
    /\ pc' = "discover" /\ head' = 0
    /\ UNCHANGED <<chainVars, worldVars, failures, session, locked, todo>>

\* The lock outlives the phase that fails.
FailKeepsLock ==
    /\ failures < MaxFailures
    /\ pc # "discover"
    /\ failures' = failures + 1
    /\ session' = db
    /\ pc' = "discover" /\ todo' = {} /\ head' = 0
    /\ UNCHANGED <<chainVars, worldVars, db, locked>>

\* An exception or a crash: the phase is rolled back, and a new pass starts.
Fail ==
    /\ failures < MaxFailures
    /\ pc # "discover"
    /\ failures' = failures + 1
    /\ session' = db
    /\ locked' = FALSE
    /\ pc' = "discover" /\ todo' = {} /\ head' = 0
    /\ UNCHANGED <<chainVars, worldVars, db>>

Mine == MineEmpty \/ MineHot \/ MineSweep

Work ==
    \/ Discover
    \/ \E t \in Tokens : FundSkip(t) \/ FundAgain(t) \/ Fund(t) \/ FundUnsigned(t)
    \/ CommitFund
    \/ \E t \in Tokens : SweepFunded(t) \/ SweepUnsigned(t)
    \/ CommitSweep
    \/ \E t \in Tokens : ConfirmSweep(t)
    \/ CommitConfirm

Next ==
    \/ Mine
    \/ \E a \in Addresses : Gift(a)
    \/ \E t \in Tokens : Withdrawn(t) \/ Redeposit(t)
    \/ \E p \in Payouts : Pay(p)
    \/ Work
    \/ Fail

Spec == Init /\ [][Next]_vars

\* Blocks keep being mined and the loop of the worker keeps taking its steps.
FairSpec == Spec /\ WF_vars(Mine) /\ WF_vars(Work)

-----------------------------------------------------------------------------
(* Properties.                                                               *)

Sweeps == [status : {"none", "pending", "funding", "funded", "sweeping", "swept", "failed"},
           attempts : 0..MaxAttempts, fund : Int, nonce : Int, since : Int]

Databases == [sweeps : [Tokens -> Sweeps], next : Nat \cup {NoRow}, payouts : [Payouts -> Int]]

\* Type correctness; the lock is held in the fund phase only, and no address pays
\* more than it has.
TypeOK ==
    /\ height \in 0..MaxHeight /\ head \in 0..MaxHeight
    /\ gifts \in 0..MaxGifts /\ failures \in 0..MaxFailures
    /\ hotPool \cup hotMined \subseteq [for : Tokens \cup Payouts, nonce : Nat]
    /\ balance \in [Addresses -> Nat]
    /\ pool \subseteq [token : Tokens, nonce : Nat]
    /\ mined \subseteq [token : Tokens, nonce : Nat, at : 1..MaxHeight, ok : BOOLEAN]
    /\ owner \in [Tokens -> {"deposit", "hot", "out"}]
    /\ returned \subseteq Tokens
    /\ db \in Databases /\ session \in Databases
    /\ pc \in {"discover", "fund", "sweep", "confirm"} /\ todo \subseteq Tokens
    /\ locked => pc = "fund"

\* Nobody else may use the nonce that a FUNDING sweep will use again: it is not
\* that of a payout or of another sweep, although the gas transaction is sent
\* before its nonce is committed.
FundNonceOwned ==
    \A t \in InStatus(db, {"funding"}) :
        /\ \A p \in Payouts : db.payouts[p] # db.sweeps[t].fund
        /\ \A u \in InStatus(db, {"funding"}) : db.sweeps[u].fund = db.sweeps[t].fund => t = u

\* A sweep is recorded as SWEPT only when its transfer moved the token out of the
\* deposit address, Confirmations blocks ago or more.
SweptIsMoved ==
    \A t \in InStatus(db, {"swept"}) :
        \E m \in Receipts(db.sweeps[t], t) : m.ok /\ m.at + Confirmations <= height

\* The hot wallet cannot be drained by a transfer that keeps reverting: an attempt
\* is counted for the gas and another for the transfer, so a token is paid for by
\* half its attempts, and by one more for every failure, although a gas
\* transaction is sent before its attempt is committed.
GasBounded ==
    \A t \in Tokens :
        Cardinality({tx \in hotPool \cup hotMined : tx.for = t}) <= (MaxAttempts + 1) \div 2 + failures

\* Every nonce below the next one is hotMined, pending, or that of a FUNDING sweep,
\* which sends it again: gap-free nonces.
GapFree ==
    db.next # NoRow =>
        \A n \in 0..(db.next - 1) :
            \/ n < Account
            \/ \E tx \in hotPool : tx.nonce = n
            \/ \E t \in InStatus(db, {"funding"}) : db.sweeps[t].fund = n

\* The transfer of the sweep is pending, or its receipt is too close to the bound of
\* the chain to be confirmed.
TransferWaiting(t) ==
    \/ \E tx \in pool : tx.token = t
    \/ \E m \in Receipts(db.sweeps[t], t) : m.at > MaxHeight - Confirmations - MaxLag

\* Or a gas transaction for the sweep or with its gas nonce is pending.
Waiting(t) ==
    TransferWaiting(t) \/ \E tx \in hotPool : tx.for = t \/ tx.nonce = db.sweeps[t].fund

GivenUp(t) == db.sweeps[t].status = "failed" /\ db.sweeps[t].attempts = MaxAttempts

\* The gas of the sweep is gone.  Another transfer of the address has used it up; or
\* a transfer of its own that was broadcast by a phase that failed before its commit
\* has, and reverted; or its gas nonce went to the transaction of such a phase.  A
\* FUNDED sweep is not funded again, and a FUNDING one only sends its gas
\* transaction again, whose nonce is used.
Starved(t) ==
    /\ balance[AddressOf[t]] < 1
    /\ \/ db.sweeps[t].status = "funded"
       \/ db.sweeps[t].status = "funding" /\ db.sweeps[t].fund < Account

\* The transfer of a FUNDED sweep was signed and not sent, and another transfer of
\* the address was sent with its nonce.  The signature is kept, so every later pass
\* sends what no node takes.
Superseded(t) ==
    /\ db.sweeps[t].status = "funded"
    /\ \E tx \in Of(pool \cup mined, AddressOf[t]) :
        tx.token # t /\ tx.nonce = db.sweeps[t].nonce

\* A credited token leaves its deposit address in the end, although broadcasts and
\* phases fail and tokens share an address, unless the sweep was given up after its
\* attempts, its gas was used up, its nonce was used by another transfer of the
\* address, or one of its transactions is still pending.  And confirm_sweeps resolves
\* every transfer that was broadcast, unless the token left the hot wallet before the
\* transfer was Confirmations deep.
SweptUnlessReturned ==
    <>[](\A t \in Tokens \ returned :
            /\ owner[t] = "deposit" => Waiting(t) \/ GivenUp(t) \/ Starved(t) \/ Superseded(t)
            /\ db.sweeps[t].status = "sweeping" => TransferWaiting(t) \/ owner[t] = "out")

\* A token that is deposited a second time leaves its deposit address, too.
DepositedIsSwept ==
    <>[](\A t \in Tokens :
            owner[t] = "deposit" => Waiting(t) \/ GivenUp(t) \/ Starved(t) \/ Superseded(t))

\* A FUNDED sweep whose broadcast failed is sent by a later pass: it does not stay
\* FUNDED at an address that has the gas for it and no transfer pending.
FundedIsSwept ==
    <>[](\A t \in InStatus(db, {"funded"}) :
            balance[AddressOf[t]] < 1 \/ Of(pool, AddressOf[t]) # {})
=============================================================================
