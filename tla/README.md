# Kasa: a TLA+ model of the custody backend

Kasa is a custodial wallet: users have deposit addresses on EVM chains, the backend keeps a
double-entry ledger of what they own, and a hot wallet pays withdrawals. This directory holds TLA+
specifications of the parts of `backend/` that move money, the TLC configurations that check them and
TLAPS proofs of their central invariants. Paths below are relative to the repository root.

## 1. Inventory

Two processes share one PostgreSQL database: the API (`backend/app`, FastAPI, one session and one
transaction per request) and the worker (`backend/worker`, one asyncio loop per chain and task). They
never call each other; they meet in the rows. The worker also talks to JSON-RPC providers
(`app/chain/client.py`), which fail over to one another and need not agree on the head.

| Component | State | Operations | Correct when |
|---|---|---|---|
| Deposit watcher (`worker/watcher.py`, `worker/main.py`) | `onchain_deposits`, `chain_cursors`, ledger | scan, credit, reverse, rewind | each transfer on the chain is credited once, to its recipient, and a credit of a replaced block is taken back |
| Withdrawal outbox (`worker/withdrawer.py`) | `withdrawal_requests`, ledger | sign, broadcast, confirm, reconcile | each request is paid once or refunded, never both, and never left behind |
| Nonce row (`worker/_nonce.py`) | `hot_wallet_nonces` | `nonce_row` | no nonce is used twice and none is skipped |
| Ledger (`app/services/ledger.py`) | `ledger_accounts`, `ledger_transactions`, `ledger_entries` | `post`, `lock_user_asset`, `available_balance` | one transaction per key, no wallet overdrawn |
| Money endpoints (`withdrawal_service`, `transfer_service`, `wallet_service`) | the above | `POST /withdrawals`, `/transfers`, `/demo/faucet` | retries and races change nothing more than one call would |
| Rate limits (`rate_limit.py`) | `rate_limit_events` | `enforce_rate_limit` | no window has more calls than its limit |
| NFT watcher (`worker/nft_watcher.py`) | `nft_deposits`, `nft_holdings`, the same cursor | record, credit, remove | a token is held by whom its canonical deposit pays |
| NFT minter and withdrawer (`worker/nft_minter.py`, `nft_withdrawer.py`), NFT service (`nft_service.py`), mint request (`admin_service.py`) | `nft_mint_requests`, `nft_withdrawal_requests`, `nft_holdings`, `nft_transfers`, nonce row | mint, transfer, request; sign, broadcast, confirm, reconcile | a token is in one withdrawal at a time, and custody has what the holdings say |
| NFT sweeper (`worker/nft_sweeper.py`) | `nft_sweeps`, nonce row, accounts of deposit addresses | discover, fund, sweep, confirm | a credited token reaches the hot wallet, and no nonce is lost on the way |
| Registration (`auth_service.py`) | `users.hd_index`, `deposit_addresses` | `register_user` | no two users share an address |
| Chain client (`app/chain/client.py`) | providers | reads, broadcasts, log decoding | answers as some provider would |
| Amounts, limits, addresses, HD wallet, registry | none | pure conversions | round trips |
| Admin reports, read-only endpoints, schemas, migrations, contracts, frontend | none of their own | | |

What is hard in this code, in one line each (the lines are in `PROJECT.json`, `hazards`):

* the chain changes between any two RPC calls of a pass, and providers lag behind one another;
* a pass is one transaction that may fail anywhere, but a broadcast is not rolled back with it;
* rows are keyed by log indexes that change when a transaction is mined again;
* several senders, and people outside the system, may use the hot-wallet account;
* an NFT credit is a row that others overwrite, reference and delete, not an entry that is added;
* API calls of one user interleave at every statement, at READ COMMITTED, and clients retry;
* locks are taken in an order that depends on the direction of a transfer.

## 2. Modules

| Module | Models | Extended by |
|---|---|---|
| `DepositWatcher` | the watcher's pass, the chain, the simulated faucet's rows | `MCDepositWatcher`, `DepositWatcherProofs` and, through it, `DepositOnceProofs` |
| `Withdrawer` | the outbox's three phases, the nonce row, the hot-wallet account on the chain | `MCWithdrawer`, `WithdrawerProofs` |
| `MoneyApi` | the three money endpoints on the ledger, its locks, keys and rate limits | `MCMoneyApi`, `MoneyApiProofs` |
| `NftWatcher` | the NFT half of the watcher's pass, the chain, internal transfers | `MCNftWatcher`, `NftWatcherProofs` |
| `NftOutbox` | NFT minter and NFT withdrawer on one nonce row, the NFT endpoints, the holdings | `MCNftOutbox`, `NftOutboxProofs` |
| `NftSweeper` | the sweeper's four phases, hot wallet and deposit addresses on the chain, other payouts | `MCNftSweeper`, `NftSweeperProofs` |
| `Outbox` | abstract: what every outbox promises | instantiated by `Withdrawer` and `NftOutbox` |
| `CreditBook` | abstract: what the watcher adds to the ledger | instantiated by `DepositWatcher` |
| `Bank` | abstract: what the money endpoints promise their callers | instantiated by `MoneyApi` |

The `MC` modules only give values to constants. The definition a mutant replaces has its mutated form
just before it, with a comment that names the mistake; no action uses those forms.

### DepositWatcher

`chain` is the canonical chain; a block hash is the prefix of the chain up to the block, so two chains
that reconverge share hashes again. `db` is the committed database and `session` what the open session
sees: the rows, the set of ledger idempotency keys posted and the cursor. `pc`, `todo` and `lowest` are
the program counter of the pass.

A pass is `BeginScan` (read the head, move the cursor inside the session), `RecordBlock` per height,
`StartCredit` and `CreditRow` per row (`confirm_and_credit`), `StartReorgs` and `CheckRow` per row
(`handle_reorgs`), and `Commit`. `Fail` is an exception or a crash. Between any two of these, `Mine`
extends the chain and `Reorg` replaces its last blocks, moving transactions to other heights and other
log indexes or out of the chain. `FaucetSimulate` is the API's commit of a simulated deposit.
`block_number`, `block_hash` and the log queries answer as a provider at most `MaxLag` blocks behind.

Abstractions. An amount is one unit. Deposit addresses are given by their owners; all users exist from
the start. Assets are not told apart. A native transfer has a constant log index in the code: it is the
case of a transaction with a single base. The NFT half of the pass is in `NftWatcher`; here it could only
lower the rewound cursor further. `last_finalized_block` (never read) and the sum that `pending_balance`
shows are not modelled. `run_scan` in
`watcher.py` is the same pass without the NFT half.

### Withdrawer

`chain` and `mempool` are the hot-wallet account: at most one of its transactions in a block, mined in
nonce order. A signed transaction is the pair of request and nonce, since its bytes are fixed when it is
signed. `SignPending` (or `SignNothing`) is the first transaction of a pass: it touches the chain only by
one read, so it is one step, and a failure inside it changes nothing. `BroadcastOk` and `BroadcastError`
are the outcomes of `broadcast_raw` for one request, followed by `CommitBroadcast`; the nodes may have
taken a transaction although the call raised. `ReadHead`, `ReadReceipt`, `ReconcileUnmined` or
`ConfirmReceipt` and `CommitConfirm` are the third transaction. `Fail` rolls the open one back.
`SendForeign` is a transaction of the hot wallet that the outbox did not sign; it may replace a pending
one. `Evict` drops a pending one.

Abstractions. The order of creation of requests is not recorded: a batch may be any of the pending ones,
in any order, which includes the order the code takes. APPROVED and REJECTED are statuses no code sets.
`attempts` and the error text are not read. A replaced block's transactions return to the mempool.

### MoneyApi

A call has its inputs fixed by constants and a program counter `pc[c]`. The steps are the statements at
which calls can meet: the first lookup of the key (`Start`), `EnforceRateLimit`, `LockUserAsset`,
`CheckBalance`, `InsertDepositRow`, `ReadFaucetNonce`, `SendFaucet`, then `ledger.post` as `Post`,
`InsertTransaction` and `InsertEntries`, and the route's `CommitCall`. An insert of a unique key waits
for an uncommitted insert of the same key; `FOR UPDATE` conflicts with the key-share locks that entries
take on their accounts; a cycle of waits is broken by an error in one of its calls (`BreakDeadlock`).
`Finish` ends a call and its transaction. `Lose` is a crash or a lost connection. `CreditDeposit` is
the worker's posting to a wallet.

Abstractions. One asset; balances are running sums of committed entries. Inputs that fail validation
(amount, address, limit, unknown recipient or asset) end before anything is written and are left out.
An account that does not exist yet is inserted under a unique index, which makes others wait as the row
lock does. The waits of two deletes of expired rate-limit events are left out: they come before any
other lock of the call and cannot be part of a cycle. The handler for IntegrityError around the second
flush of `post` cannot be reached: the unique key is inserted by the first flush.

### NftWatcher

The same chain and the same pass as `DepositWatcher`: `BeginScan`, `RecordBlock`, `StartCredit`,
`CreditRow`, `StartReorgs`, `CheckRow`, then `Commit`, or `FlushRejected` when the statements of the pass
violate a foreign key, or `Fail`. `db.owner[k]` is the user of the holding of token `k`. `UpsertHolding`
overwrites it, `RemoveHolding` deletes it. `TransferNft` is the API's commit of an internal transfer; it
adds the token to `referenced`, whose holdings the database will not delete. `AddedTwice` is a second
insert of one holding inside a loop, which violates the unique key: the session does not flush by itself,
so the loop does not see its own first insert.

Abstractions. Contract and token id are one value. A log moves a fixed token to a fixed user. The status
of a holding is left to `NftOutbox`: here it is HELD or absent. A withdrawal request references a holding
as a transfer does and is not told apart from it.

### NftOutbox

`reqs` has the rows of both request tables. A loop `l` has its own program counter, list `todo[l]`, first
read `read[l]` and uncommitted decisions `buffer[l]`. The sign phase is `SelectNonceRow` (claims, and
locks the row if there is one), `ReadPendingNonce` and `SignAndCommit`; between the first two and the last
the other loop may create the row. `Broadcast` is the whole second phase: it touches each request once
and its outcomes are a set. `ReadReceipt`, `ReconcileUnmined` and `CommitConfirm` are the third. An API call
is `LookUpKey` and then one of `Refused`, `TransferNft`, `RequestWithdrawal`, which lock the holding and
commit. `CreditRedeposit` is the watcher's credit of a withdrawn token that was sent to a deposit address.
`location` says where a token is on the chain; a withdrawal reverts unless the hot wallet has the token.

Abstractions. No reorganisations, foreign transactions or lagging providers: the phases are those of
`Withdrawer`, which has all three. The token id that a mint learns from its receipt is named after its
request. A rate limit may refuse a withdrawal call at any time, without counting (see `MoneyApi` for that).

### NftSweeper

`Discover`, then per sweep `FundSkip`, `FundAgain`, `Fund` or `FundUnsigned`, then `SweepFunded` or
`SweepUnsigned`, then `ConfirmSweep`; a commit ends each phase and `Fail` rolls the open one back, but not
what it broadcast. `Pay` is a payout of another outbox on the same nonce row, which waits while the sweeper
holds its lock (`locked`). The chain has the account of the hot wallet (`hotPool`, `hotMined`), the
accounts of the deposit addresses (`pool`, `mined`) and their balances, counted in gas budgets. `Gift` is
gas from elsewhere, `Withdrawn` and `Redeposit` are the later life of a token.

Abstractions. The calls made for one sweep are one step. A gas budget pays exactly one transfer, and a new
signature of a gas transaction with another price counts as the same transaction. `attempts` is counted up
to `MaxAttempts`, where it is compared. No reorganisations.

### Outbox

A request goes from none to open, signed, and paid or refunded; it is signed once, with a nonce no other
request has, and never moves after it is resolved. An unsignable one is refunded while open. A step may
move several requests, since a phase commits all it did at once. In both implementations a request is open
while it is REQUESTED, signed while SIGNING or BROADCAST, and `phase` and `nonce` are read from the
committed rows.

### CreditBook

An append-only book of credits and reversals. A deposit is credited under a revision above all its earlier
ones, and only when each of those was reversed by an earlier transaction; what is reversed was credited. A
step is what one transaction adds, since a pass may credit a deposit and then reverse that very credit.
`DepositWatcher` implements it (`ImplementsCreditBook`) with the credit and reversal keys of the committed
ledger.

### Bank

Every call takes effect at one instant: it executes and moves its amounts between wallets none of which is
overdrawn, is a replay of an operation that was executed, or is refused and changes nothing. `MoneyApi`
implements it (`ImplementsBank`) with its committed balances and the answers of its calls: a call that met a
limit, an error or a deadlock, or was lost, is refused. Two calls are of one operation when endpoint, user
and client key are the same. So the endpoints are linearizable although they run as interleaved
READ COMMITTED transactions.

## 3. Runs

All bounds are constants named `Max...`. Every run takes well under five minutes.

| Run | Shows |
|---|---|
| `deposit_watcher` | `LedgerMatchesRows`, `CreditedOnlyFinal`, `ImplementsCreditBook`, `NoDoubleCredit` (while there was at most one reorganisation), `EventuallyBacked` (after two), `CursorNeverSkips` and `DepositCreditedUnlessReorg` (while there was none): reorganisations as deep as the chain, moving heights and log indexes, one failed pass, a simulated deposit. |
| `withdrawer_safety` | `NonceUnique`, `LedgerMatchesStatus`, `RefundedNotPaid`, `ImplementsOutbox`: a batch of two, a foreign transaction that may supersede either, an eviction, one failure, current providers, no reorganisation. |
| `withdrawer_live` | `GapFree`, `SettledIsPaid`, `MinedPayoutResolved`, `PayoutNotAbandoned`: three requests, one unsignable, a failure at any step, a reorganisation shallower than the depth at which a receipt counts. |
| `api_retries` | `EveryRequestReserved`, `SuccessIsReal`, `OncePerKey`, `ImplementsBank`: five calls with one client key, two withdrawals, a transfer and the real faucet twice, under rate limits of one per unit of time, one lost call. |
| `api_debits` | `NoOverspend`, `ImplementsBank`, `EveryCallAnswered`: a withdrawal, transfers in opposite directions, a simulated faucet and a deposit on two wallets, one lost call. |
| `nft_watcher` | `HoldingsMatchDeposits`, `HeldOnlyFinal`, `NoPhantomUnlessReferenced`, `DepositHeldUnlessReorg`: one token and two logs that exclude each other and pay different users, two reorganisations as deep as the chain, a failed pass, transfers. |
| `nft_outbox` | `NoncesGapFree`, `WithdrawingIsOpen`, `CustodyMatchesHoldings`, `ImplementsOutbox`: a mint and a deposited token that Alice withdraws and gives to Bob, who withdraws it to a deposit address; one failure. |
| `nft_sweeper` | `FundNonceOwned`, `SweptIsMoved`, `GasBounded`, `SweptUnlessReturned`: two tokens at one deposit address, which share its gas and its nonces, one of them may revert; one payout of another outbox, one gift of gas, one token that is withdrawn and comes back, one failure; `MaxAttempts` 2 instead of 3. |

`TypeOK` is checked once per module. Deadlock checking is on for deposit watcher and withdrawer,
whose loops never end. The API runs switch it off because they end when all calls are answered, the NFT
runs because a loop with nothing to do at the bound of the chain is left out.

The bounds are small because each hazard needs few of everything: one transaction that is mined twice,
two requests for one nonce, two calls with one key. Confirmations are 1 or 2 instead of 12 and the margin
1 or 2 instead of 64; only their order relative to the depth of a reorganisation matters, and the runs
take reorganisations up to the depth the property allows. Symmetry is used only in `withdrawer_safety`,
over its interchangeable requests.

The conditions in the properties are what the code needs. `NoDoubleCredit` needs at most one
reorganisation: two in opposite directions between two passes leave a transaction credited under two
log indexes until the next pass. `CursorNeverSkips` and `DepositCreditedUnlessReorg` need current providers
(`deposit_watcher` has `MaxLag` 0), since logs above the head of a provider are lost.
`RefundedNotPaid` needs current providers and no reorganisation, since
the marker of the grace gate may be stale (see `withdrawer_false_refund`). `GapFree` and
`PayoutNotAbandoned` need a hot wallet nobody else uses or a mempool that keeps what it took: `withdrawer_live`
has neither a foreign transaction nor an eviction, and `PayoutNotAbandoned` is violated with either.
`HoldingsMatchDeposits` and `NoPhantomUnlessReferenced` say in their text what the code does not
keep: the holding of a token of which a deposit was once orphaned, even if it was resurrected since, and
one that is referenced. `WithdrawingIsOpen` and `CustodyMatchesHoldings` leave out tokens that came back.
`SweptUnlessReturned` leaves out three kinds of sweeps that the code abandons at the deposit address: those
given up after their attempts (`GivenUp`), those whose gas another transfer used up (`Starved`), and FUNDED ones
whose kept signature has a nonce that another transfer of the address used (`Superseded`). The last one needs two
tokens at one address, which is the usual case, since a user has one address per chain; with one token the
property would hold without it. Its second half leaves out sweeps whose token was withdrawn before they
were confirmed: their rows stay SWEEPING, because `ownerOf` is no longer the hot wallet.

Three more configurations pass. They vary a run and ask the same of the code:

| Configuration | Property | What is different |
|---|---|---|
| `DepositLag.cfg` (`MCDepositWatcher`) | `RecordedIsCredited` | Providers up to two blocks behind with confirmations 1, so that `block_hash` answers None for a CONFIRMED deposit; two transactions, one failed pass, no reorganisation. The row waits and is credited. |
| `NftOutboxRetry.cfg` (`MCNftOutbox`) | `WithdrawingIsOpen`, `ImplementsOutbox` | Alice repeats a withdrawal with its key, while the first call is under way or after its transaction reverted; no mint. The request is not opened again. |
| `NftSweeperLag.cfg` (`MCNftSweeper`) | those of `nft_sweeper` | One token and a provider one block behind, so that a sweep is declared dropped although it was mined; a chain of five blocks. |

Fairness. `FairSpec` of the five worker models assumes weak fairness of `Mine` (the chains keep growing) and of
the worker's own steps (the loops in `main.py` catch every exception and poll again). It assumes nothing
of reorganisations, failures, evictions or foreign transactions, which are bounded instead. `FairSpec` of
`MoneyApi` is weak fairness of each call that has begun: the server and PostgreSQL finish what they
started. A call that never starts is allowed.

### Where documents and code disagree

Four runs check what a document or a comment says and find it violated. `PROJECT.json`, `findings`, quotes
the sentences.

| Run | What happens |
|---|---|
| `deposit_lost` | The re-check in `confirm_and_credit` orphans a row without rewinding the cursor, so the transaction, mined again below it, is never credited. |
| `withdrawer_false_refund` | With a lagging provider the grace gate opens too early and a mined payout is refunded. |
| `nft_phantom` | An NFT that was transferred before its deposit is reorganised away: the holding cannot be deleted, and from then on every pass of the watcher of that chain fails, the fungible half included. |
| `sweeper_gap` | A FUNDING sweep with an unsent gas transaction becomes FUNDED because its address got gas from elsewhere; its nonce is never sent, and all later hot-wallet transactions wait. |

Further configurations are kept beside the runs. Each checks one property of its module under the same
conventions, and TLC finds it violated in seconds:

| Configuration | Property | What happens |
|---|---|---|
| `DepositWrongUser.cfg` (`MCDepositWatcher`) | `CreditedToRecipient` | A row is resurrected under its old user although the log with its index now pays another one; `watcher.py:100` says the same transaction is re-credited. |
| `WithdrawerSuperseded.cfg` (`MCWithdrawer`) | `PayoutNotAbandoned` | A SIGNING request whose nonce somebody else used is retried for ever; `withdrawer.py:191` says a signed transaction is never stranded. |
| `ApiRace.cfg` (`MCMoneyApi`) | `SameKeySameResult` | A retry that races its original gets an error; `docs/api_architecture.md:14` says the same key replays the same result. |
| `ApiFaucetRetry.cfg` (`MCMoneyApi`) | `FaucetSentOnce` | A retry that races its original, or follows a crash, sends the faucet transaction again; `wallet_service.py:191` says it does not. |
| `NftCreditLost.cfg` (`MCNftWatcher`) | `CanonicalCreditIsHeld` | A deposit mined again under another key is credited, then the orphaning of the old row deletes the holding. |
| `NftRedeposit.cfg` (`MCNftOutbox`) | `RedepositIsHeld` | A withdrawal to a deposit address is credited by the watcher before it is confirmed; the confirmation overwrites HELD with WITHDRAWN. |
| `SweeperStranded.cfg` (`MCNftSweeper`) | `FundedIsSwept` | A sweep whose broadcast failed keeps its signed transfer. Another sweep of the address is mined with the same nonce; from then on the kept transfer is refused on every pass, and the sweep stays FUNDED with its gas. `nft_sweeper.py:242` says a failed broadcast is retried in the next pass. |
| `SweeperRedeposit.cfg` (`MCNftSweeper`) | `DepositedIsSwept` | A token that is deposited again meets its old SWEPT row and is never swept; `README.md:10` says a deposited NFT is swept so that it becomes withdrawable. |

More follow from the same models and have no configuration of their own:

* A BROADCAST transaction the nodes dropped is not sent again (`PayoutNotAbandoned` fails with
  `MaxEvictions = 1`), because `broadcast_signed` selects only SIGNING requests.
* On a chain shorter than confirmations plus margin, `handle_reorgs` takes a simulated deposit (block 0,
  zero hash) as a candidate and reverses its credit.
* `enforce_rate_limit` counts before it inserts and nothing serialises the two, so overlapping calls of a
  user all pass a limit that any of them would have used up.
* The gas of a sweep may be used up before its transfer is mined, and is not paid again (`Starved` in
  `NftSweeper`). A transfer that was broadcast by a phase that then failed may revert. One budget makes every
  sweep of the address FUNDED, and only one of them can use it. And if the budget arrives between the visits of two
  sweeps in one phase, the other sweep uses it, and the one it was paid for stays FUNDING: its gas nonce is used, so
  sending it again does nothing.
* `attempts` counts the gas transaction and the transfer alike, so three attempts re-arm a failed sweep
  once (`GasBounded`).

## 4. Proofs

TLAPS checks these for all values of the constants that satisfy the assumptions stated in the modules
(`WatcherAssumption`, `HashAssumption`, `NullAssumption`, `WithdrawerAssumption`, `ApiAssumption`, `NftWatcherAssumption`,
`NftOutboxAssumption`, `NftSweeperAssumption`: kinds of the constants, disjointness of null values and of
kinds of requests, finiteness, and in `NftOutbox` that one scoped key belongs to one user, as
`scoped_idempotency_key` makes it). The bounds of the runs (`MaxHeight`, `MaxReorgs`, `MaxFailures`, ...) are
arbitrary numbers in the proofs. Every inductive invariant below was first checked by TLC on the
configurations of its module.

| Theorem | States | Hypothesis |
|---|---|---|
| `WatcherTypeCorrect`, `LedgerFollowsRows`, `OnlyFinalDepositsAreCredited` | `TypeOK`, `LedgerMatchesRows`, `CreditedOnlyFinal` | |
| `WatcherIsCreditBook` | `ImplementsCreditBook` | |
| `CursorSkipsNothing` | `CursorNeverSkips` | `MaxLag = 0` |
| `TransferCreditedOnce` | `NoDoubleCredit` | `MaxLag <= Confirmations`, and always `StaleInWindow` |
| `CreditReachesRecipient` | `CreditedToRecipient` | `OneUserPerKey` |
| `WithdrawerTypeCorrect`, `NoncesNeverShared`, `WithdrawalLedgerFollowsStatus`, `WithdrawerIsOutbox` | `TypeOK`, `NonceUnique`, `LedgerMatchesStatus`, `ImplementsOutbox` | |
| `SettledWithdrawalsArePaid` | `SettledIsPaid` | `MaxReorgDepth <= Confirmations` |
| `RefundedWithdrawalsAreNotPaid` | `RefundedNotPaid` | `MaxLag = 0`, while `reorgs = 0` |
| `WithdrawalNoncesGapFree` | `GapFree` | `Foreign = {}`, or while `evictions = 0` |
| `ApiTypeCorrect`, `WalletsNeverOverdrawn`, `RequestsAreReserved`, `SuccessIsCommitted`, `KeysExecuteOnce` | `TypeOK`, `NoOverspend`, `EveryRequestReserved`, `SuccessIsReal`, `OncePerKey` | |
| `EndpointsAreABank` | `ImplementsBank` | |
| `NftWatcherTypeCorrect`, `HoldingsFollowDeposits`, `OnlyFinalDepositsAreHeld` | `TypeOK`, `HoldingsMatchDeposits`, `HeldOnlyFinal` | |
| `NftOutboxTypeCorrect`, `NftNoncesGapFree`, `WithdrawingHoldingIsOpen`, `HoldingsAreInCustody`, `NftLoopsAreOutbox` | `TypeOK`, `NoncesGapFree`, `WithdrawingIsOpen`, `CustodyMatchesHoldings`, `ImplementsOutbox` | |
| `NftSweeperTypeCorrect`, `FundNoncesAreOwned`, `SweptTokensMoved`, `GasIsBounded` | `TypeOK`, `FundNonceOwned`, `SweptIsMoved`, `GasBounded` | |
| `GapHasOneCause` | `GapFree` of the sweeper | always `SkipsOwnGas` |

A hypothesis is what the code needs, not what the proof needs: TLC finds the property violated without it. A
provider behind the one that gave the head has no logs above its own and the cursor passes them; a reorganisation
deeper than `Confirmations` removes a settled payout; with a provider that is behind a mined payout is refunded
(run `withdrawer_false_refund`), and so is one that a
reorganisation moved; and a foreign transaction that is dropped after `pending_nonce` counted it
leaves a gap. A transfer credited under two log indexes stays so if, before the next pass, the chain grows so much
that the old row falls below the window of `handle_reorgs` (`StaleInWindow` excludes that; with `Margin` 0 and
`MaxHeight` 4 TLC reaches it). Two users get one key when a transaction with two transfers is mined again with
other log indexes (`DepositWrongUser.cfg`; `OneUserPerKey` excludes it). And `GapHasOneCause` turns run
`sweeper_gap` around: the behaviour in that run, `FundSkip` of a FUNDING sweep whose gas transaction was never
sent, is the only way to a gap, so that a test of FUNDING before the balance would close it.

The arguments, by module:

* `DepositWatcherProofs`. The inductive invariant `WatcherInv` adds to the type that, in the committed and in
  the open database, credits and reversals carry revisions no newer than that of their row and that the row's
  status says which of the two the current revision has. That excludes a key that was used before; without it
  a re-credit could be swallowed. `PhaseInv` adds what a row in `todo` must look like, so that a credit is only
  posted for a CONFIRMED row. `FinalInv` adds that a CONFIRMED row is and stays deep enough (the chain never
  becomes shorter) and that the session loses no credit before `handle_reorgs`, so that a rollback credits
  nothing; with the hash comparison of `CreditRow` this is `CreditedOnlyFinal`. It holds for lagging providers
  too: they answer with the canonical hash or with none. `CursorInv` says which transfers the cursor has passed:
  those of the session that are not still in `todo`, and a row never disappears (`RowStep`). For the refinement,
  `BookInv` says that the session has all committed keys, and that a credit only it has is of the current revision
  of a row that is not CREDITED in the committed database; so a commit is a step of the book and a rollback
  a stutter. `PayeeInv` says that the user of a row is one whom a log with its key pays on some chain.
* `DepositOnceProofs`. After the one reorganisation that `NoDoubleCredit` allows, a row still carries the hash of
  its block, and a hash is a prefix of the chain: the rows are the history of the replaced chain, and no history
  variable is needed. `OnceInv` says that the credits of a transaction whose blocks were replaced are all of
  one mining (`StaleTogether`), as the canonical ones are, and that it has credits of both kinds only in
  the open session, with the replaced ones still to be compared by `handle_reorgs` (`Unmixed`). A pass that
  credits a transfer under its new index therefore takes the old credit back before it commits, if the old row is
  inside the window.
* `WithdrawerProofs`. `WithdrawerInv` adds that every nonce in use is below the nonce row, that only the signing
  phase sets nonces, and which statuses the requests in `todo` and `current` have. The refinement needs
  `AheadInv`: row by row, the open session is where the committed database is or, inside the broadcast
  and confirm phases, one move ahead of it, so that a commit is a step of the abstract outbox and a
  rollback a stutter. The three theorems about the chain rest on `PayoutInv`. `Ordered(chain)` says that a
  block has at most one hot-wallet transaction, that its nonce is the number of those below it, and that every
  smaller nonce is used; hence a nonce is used once (`UsedOnce`) and what a reorganisation removes is
  pending again. `SentInv` ties a transaction to the nonce of its request. `ReceiptInv` keeps of a
  receipt what its hash proves, although the chain may change before it is used. `SettledInv` is that the
  payout of a settled request is `Confirmations` deep. `RefundInv` and `UnminedInv` are the argument for the
  grace gate: a marked request has a used nonce, so if its receipt is not found on the next visit, it can no
  longer be mined.
* `MoneyApiProofs`. `ApiInv` adds that a call past its balance test holds the lock of its wallet and that the
  committed balance still covers its amount (others can only raise it while the lock is held), and that a
  withdrawal about to commit without a ledger transaction of its own has one committed already:
  `_assert_replay_compatible` lets no other one pass. `KeyInv` adds that an uncommitted ledger transaction
  is the only one of its key, committed or not, which is what the wait for the unique key gives; so a second
  execution cannot commit, and a success has a transaction behind it. For `EndpointsAreABank`, `AnswerInv` adds
  that every committed ledger transaction has a call with its key that was answered with success, which is what
  a replay needs; the instant of a call is its commit.
* `NftWatcherProofs`. `NftWatcherInv` carries the three parts of `HoldingsMatchDeposits` for both databases
  (`Matches`), what a row knows of its log whatever the chain has become (`RowsInv`), and how far the open pass
  is from the database (`PassInv`). The proof showed that "no deposit of the token is orphaned now" is not
  enough for the third part: a deposit that is orphaned takes the holding of another credited one with it, and
  may be resurrected later, so that none is orphaned any more. `HoldingsMatchDeposits` therefore says "was once
  orphaned" (`OnceOrphaned`).
* `NftOutboxProofs`. `NftOutboxInv` relates each row to its transaction (`RowInv`), the set of signed nonces to
  the next one and the set of mined ones to the account (`NonceInv`), the uncommitted decisions of a confirm
  phase to the chain (`LoopInv`), and a token to its requests (`TokenInv`, `LocationInv`). The pending nonce that
  a loop read before it held the lock may be old when it is used, but never above the next free one; that, and
  that a batch uses up an interval (`BatchUsesInterval`), is why no nonce is lost. One refinement mapping
  covers both loops.
* `NftSweeperProofs`. `NftSweeperInv` has the nonces of sweeps and payouts apart in both databases
  (`NoncesInv`), the receipt behind every SWEPT row (`MovedInv`), and for `GasBounded` an account of the gas
  transactions (`GasInv`): `n` of them are covered by the attempts of the row and the failures, with what a
  row that may start again, or one never funded, has left. The bound alone is not inductive, since
  `attempts` is rolled back by a failed phase that has sent gas already. `GapInv` states `GapFree` of the session
  as well as of the database, since either may be what the next transaction starts from; the nonces that
  `NextNonce` jumps over are pending (`FirstFreeIsFree`).

Only model-checked are the liveness properties (`EventuallyBacked`, `DepositCreditedUnlessReorg`,
`MinedPayoutResolved`, `PayoutNotAbandoned`, `EveryCallAnswered`, `NoPhantomUnlessReferenced`,
`DepositHeldUnlessReorg`, `SweptUnlessReturned`): fairness and `ENABLED` are outside the prover's reach. Every
safety property of the passing runs is a theorem.

## 5. Not modelled, and the plan

Not modelled for good:

* the frontend, the contracts (thin OpenZeppelin classes), migrations and seed scripts;
* passwords, tokens and key derivation (library calls), read-only endpoints and reports, text formatting;
* amounts, limits, decoding of logs and flattening of traces: functions without state, covered by unit
  tests over their inputs, with no interleaving to explore;
* registration: one unique key decides the race on `hd_index`; the loser gets an internal error;
* `mint_nft_stub`, which stores a holding without a chain for demonstrations;
* a change of the hot-wallet address in `nonce_row`: it follows from the mnemonic, which is changed while
  the worker is stopped, and nothing in the code says what becomes of requests signed by the old one.

Left for later: reorganisations in `NftOutbox` and `NftSweeper`.
