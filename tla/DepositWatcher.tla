---------------------------- MODULE DepositWatcher ----------------------------
(***************************************************************************)
(* The deposit watcher of the worker process (backend/worker/watcher.py,   *)
(* driven by backend/worker/main.py) over a chain that reorganises.        *)
(*                                                                         *)
(* One pass of the watcher is one database transaction: it advances the    *)
(* cursor, records the transfers of the new blocks, credits the deposits   *)
(* that are deep enough, reverses the ones whose block was replaced, and   *)
(* commits.  Every RPC call of the pass is a step of its own, so blocks    *)
(* are mined and replaced between any two of them.  An exception or a      *)
(* crash anywhere in the pass rolls all of it back.                        *)
(*                                                                         *)
(* A block is identified by its ancestry: the hash of height n is the      *)
(* prefix of the chain up to n, so a chain that reconverges has its old    *)
(* hashes again.  An amount is one unit; the ledger is the set of the      *)
(* idempotency keys it has posted.                                         *)
(***************************************************************************)
EXTENDS Integers, Sequences, FiniteSets

CONSTANTS
    Txs,            \* on-chain transactions that pay deposit addresses
    Users,          \* owners of deposit addresses
    Recipients,     \* Recipients[t]: the sequence of users that t pays
    Bases,          \* block-wide log indexes at which the logs of a tx can start
    LogIndexes,     \* every log index that occurs
    Sims,           \* idempotency keys of simulated faucet requests
    Salts,          \* what tells apart two blocks with the same transactions
    NoCursor,       \* no ChainCursor row yet
    NoHash,         \* block_hash() returned None
    ZeroHash,       \* the all-zero block hash of a simulated deposit
    StartBlock,     \* start_block(chain)
    Confirmations,  \* DEPOSIT_CONFIRMATIONS
    Margin,         \* max(REORG_DEPTH, REORG_FINALITY_DEPTH)
    MaxHeight,      \* bound: height of the chain
    MaxReorgs,      \* bound: number of reorganisations
    MaxReorgDepth,  \* bound: blocks replaced by one reorganisation
    MaxLag,         \* bound: blocks the answering provider is behind
    MaxFailures     \* bound: passes that fail

ASSUME WatcherAssumption ==
    /\ Recipients \in [Txs -> Seq(Users)]
    /\ LogIndexes \subseteq Nat /\ Bases \subseteq LogIndexes
    /\ \A t \in Txs, b \in Bases : \A i \in DOMAIN Recipients[t] : b + i - 1 \in LogIndexes
    /\ 0 \in Salts
    /\ StartBlock \in Nat /\ Confirmations \in Nat /\ Margin \in Nat
    /\ MaxHeight \in Nat /\ MaxReorgs \in Nat /\ MaxReorgDepth \in Nat
    /\ MaxLag \in Nat /\ MaxFailures \in Nat

ASSUME NullAssumption ==
    /\ NoCursor \notin Int
    /\ (Txs \X LogIndexes) \cap Sims = {}

VARIABLES
    chain,     \* the canonical chain: chain[n] is the block at height n
    reorgs,    \* reorganisations so far
    failures,  \* failed passes so far
    db,        \* committed state: rows, posted ledger keys, cursor
    session,   \* what the open session of the watcher sees
    pc,        \* phase of the pass
    todo,      \* heights, then rows, the phase still has to visit
    lowest     \* lowest orphaned block of the pass; MaxHeight + 1 for None

vars == <<chain, reorgs, failures, db, session, pc, todo, lowest>>
watcherVars == <<db, session, pc, todo, lowest, failures>>

-----------------------------------------------------------------------------
(* The chain, as the calls of ChainClient show it.                           *)

Smaller(a, b) == IF a <= b THEN a ELSE b
Larger(a, b) == IF a <= b THEN b ELSE a

\* A transaction in a block is a pair: the transaction and its first log index.
Blocks == [salt : Salts, txs : SUBSET (Txs \X Bases)]

\* None is no block hash.
ASSUME HashAssumption == NoHash \notin Seq(Blocks)

Hash(n) == SubSeq(chain, 1, n)

MinedIn(c, n) == {t \in Txs : \E h \in 1..n : \E b \in Bases : <<t, b>> \in c[h].txs}

\* The Transfer logs to deposit addresses in a block, as record_deposits reads
\* them: the key (tx_hash, log_index) and the owner of the address.
Logs(block) ==
    UNION {{[key |-> <<p[1], p[2] + i - 1>>, user |-> Recipients[p[1]][i]] :
                i \in DOMAIN Recipients[p[1]]} : p \in block.txs}

\* block_number(): the head of whichever provider answers.
Heads == {h \in 0..Len(chain) : h >= Len(chain) - MaxLag}

\* block_hash(n): None when no reachable provider has the block.
BlockHashes(n) ==
    (IF n <= Len(chain) THEN {Hash(n)} ELSE {})
        \cup (IF n > Len(chain) - MaxLag THEN {NoHash} ELSE {})

-----------------------------------------------------------------------------
(* Rows of onchain_deposits and the ledger.                                  *)

Rows == (Txs \X LogIndexes) \cup Sims

Statuses == {"none", "seen", "confirmed", "credited", "orphaned"}

NoRow == [status |-> "none", block |-> 0, hash |-> ZeroHash, user |-> ZeroHash, rev |-> 0]

NewRow(status, n, hash, user) ==
    [status |-> status, block |-> n, hash |-> hash, user |-> user, rev |-> 0]

\* The keys "deposit-credit:{id}:{rev}" and "deposit-reverse:{id}:{rev}"; the
\* credit of a simulated deposit is posted under the key of its request.
CreditKey(k, rev) == <<"credit", k, rev>>
ReverseKey(k, rev) == <<"reverse", k, rev>>

\* The row is resurrected at its new block with its old revision.
InsertIfNewSameRevision(row, n, hash, user) ==
    IF row.status = "none" THEN NewRow("seen", n, hash, user)
    ELSE IF row.status = "orphaned"
         THEN [row EXCEPT !.status = "seen", !.block = n, !.hash = hash]
         ELSE row

\* A known row is taken for an orphaned one whatever its status.
InsertIfNewAnyStatus(row, n, hash, user) ==
    IF row.status = "none" THEN NewRow("seen", n, hash, user)
    ELSE [row EXCEPT !.status = "seen", !.block = n, !.hash = hash, !.rev = @ + 1]

\* _insert_if_new: only an unknown or an orphaned row is touched.  A resurrected
\* row takes block, hash and amount of the new log but keeps its user.
InsertIfNew(row, n, hash, user) ==
    IF row.status = "none" THEN NewRow("seen", n, hash, user)
    ELSE IF row.status = "orphaned"
         THEN [status |-> "seen", block |-> n, hash |-> hash, user |-> row.user,
               rev |-> row.rev + 1]
         ELSE row

\* The loop of record_deposits over the logs of the block at height n.
RecordLogs(rows, n) ==
    [k \in Rows |->
        IF \E log \in Logs(chain[n]) : log.key = k
        THEN InsertIfNew(rows[k], n, Hash(n),
                         (CHOOSE log \in Logs(chain[n]) : log.key = k).user)
        ELSE rows[k]]

Init ==
    /\ chain = <<>>
    /\ reorgs = 0
    /\ failures = 0
    /\ db = [rows |-> [k \in Rows |-> NoRow], posted |-> {}, cursor |-> NoCursor]
    /\ session = db
    /\ pc = "idle"
    /\ todo = {}
    /\ lowest = MaxHeight + 1

-----------------------------------------------------------------------------
(* The environment: blocks are mined and replaced.                           *)

\* A set of transactions, each with the log index it starts at.
Placements(T) ==
    {S \in SUBSET (T \X Bases) : \A p, q \in S : p[1] = q[1] => p = q}

TipSalt == IF chain = <<>> THEN 0 ELSE chain[Len(chain)].salt

Mine ==
    /\ Len(chain) < MaxHeight
    /\ \E S \in Placements(Txs \ MinedIn(chain, Len(chain))) :
            chain' = Append(chain, [salt |-> TipSalt, txs |-> S])
    /\ UNCHANGED <<reorgs, watcherVars>>

\* The chain with its blocks above n replaced: transaction t is now at height
\* height[t], its logs starting at base[t].
Replaced(n, s, height, base) ==
    [h \in 1..Len(chain) |->
        IF h <= n THEN chain[h]
        ELSE [salt |-> s, txs |-> {<<t, base[t]>> : t \in {u \in DOMAIN base : height[u] = h}}]]

\* A transaction of the replaced blocks is mined again, at any of their heights
\* and at any log index, or is pending again (height 0).
Reorg ==
    /\ reorgs < MaxReorgs
    /\ \E n \in 0..(Len(chain) - 1), s \in Salts :
        LET moved == Txs \ MinedIn(chain, n)
        IN  /\ Len(chain) - n <= MaxReorgDepth
            /\ \E height \in [moved -> {0} \cup (n + 1)..Len(chain)], base \in [moved -> Bases] :
                chain' = Replaced(n, s, height, base)
            /\ chain' # chain
    /\ reorgs' = reorgs + 1
    /\ UNCHANGED watcherVars

-----------------------------------------------------------------------------
(* One pass of the watcher: _run_deposit_scans and _watcher_loop.            *)

\* The scan resumes one block too late.
FromBlockSkips(cursor) == IF cursor = NoCursor THEN StartBlock ELSE cursor + 2

FromBlock(cursor) == IF cursor = NoCursor THEN StartBlock ELSE cursor + 1

\* head = block_number(); the cursor moves to the head inside the session.
BeginScan ==
    /\ pc = "idle"
    /\ \E head \in Heads :
        /\ session' = [db EXCEPT !.cursor =
                            IF db.cursor = NoCursor THEN head ELSE Larger(db.cursor, head)]
        /\ todo' = FromBlock(db.cursor)..head
    /\ pc' = "record"
    /\ UNCHANGED <<chain, reorgs, failures, db, lowest>>

\* record_deposits for one height.  ERC-20 logs are fetched in chunks over the
\* whole range and native transfers block by block after that, so the heights
\* of a range are read at different times in no one order.  A provider that is
\* behind has no logs above its own head.
RecordBlock ==
    /\ pc = "record"
    /\ \E n \in todo, view \in Heads :
        /\ session' = IF n \in 1..view
                      THEN [session EXCEPT !.rows = RecordLogs(session.rows, n)]
                      ELSE session
        /\ todo' = todo \ {n}
    /\ UNCHANGED <<chain, reorgs, failures, db, pc, lowest>>

\* The threshold is off by one.
FinalStrict(row, head) == row.status = "seen" /\ row.block < head - Confirmations

\* The query of confirm_and_credit for SEEN rows that are deep enough.
Final(row, head) == row.status = "seen" /\ row.block <= head - Confirmations

\* First half of confirm_and_credit: SEEN rows at the threshold or below become
\* CONFIRMED, then every CONFIRMED row is selected.
StartCredit ==
    /\ pc = "record" /\ todo = {}
    /\ \E head \in Heads :
        /\ session' = [session EXCEPT !.rows = [k \in Rows |->
                IF Final(session.rows[k], head) THEN [session.rows[k] EXCEPT !.status = "confirmed"]
                ELSE session.rows[k]]]
        /\ todo' = {k \in Rows : \/ Final(session.rows[k], head)
                                  \/ session.rows[k].status = "confirmed"}
    /\ pc' = "credit"
    /\ UNCHANGED <<chain, reorgs, failures, db, lowest>>

\* Any answer will do.
StillCanonicalUnchecked(row, canonical) == TRUE

\* The re-check of the block hash before a credit.
StillCanonical(row, canonical) == canonical # NoHash /\ canonical = row.hash

\* Another block is at the height of the row now.  None does not say so.
OtherBlock(row, canonical) == canonical \notin {NoHash, row.hash}

\* Body of the loop of confirm_and_credit, _credit_deposit included.
CreditRow(k) ==
    /\ pc = "credit" /\ k \in todo
    /\ LET row == session.rows[k]
       IN  \E canonical \in BlockHashes(row.block) :
            \/ /\ canonical = NoHash
               /\ UNCHANGED session
            \/ /\ StillCanonical(row, canonical)
               /\ session' = [session EXCEPT !.rows[k].status = "credited",
                                             !.posted = @ \cup {CreditKey(k, row.rev)}]
            \/ /\ OtherBlock(row, canonical)
               /\ session' = [session EXCEPT !.rows[k].status = "orphaned"]
    /\ todo' = todo \ {k}
    /\ UNCHANGED <<chain, reorgs, failures, db, pc, lowest>>

\* The window does not reach past the confirmation depth.
WindowFloorNoMargin(head) == head - Confirmations

WindowFloor(head) == head - (Confirmations + Margin)

\* First half of handle_reorgs: the candidates inside the window.
StartReorgs ==
    /\ pc = "credit" /\ todo = {}
    /\ \E head \in Heads :
        todo' = {k \in Rows : /\ session.rows[k].status \in {"seen", "confirmed", "credited"}
                              /\ session.rows[k].block > WindowFloor(head)}
    /\ pc' = "reorgs"
    /\ UNCHANGED <<chain, reorgs, failures, db, session, lowest>>

\* Body of the loop of handle_reorgs, _reverse_credit included.
CheckRow(k) ==
    /\ pc = "reorgs" /\ k \in todo
    /\ LET row == session.rows[k]
       IN  \E canonical \in BlockHashes(row.block) :
            IF ~OtherBlock(row, canonical)
            THEN UNCHANGED <<session, lowest>>
            ELSE /\ session' = [session EXCEPT
                        !.rows[k].status = "orphaned",
                        !.posted = IF row.status = "credited"
                                   THEN @ \cup {ReverseKey(k, row.rev)} ELSE @]
                 /\ lowest' = Smaller(lowest, row.block)
    /\ todo' = todo \ {k}
    /\ UNCHANGED <<chain, reorgs, failures, db, pc>>

\* The cursor is rewound below the lowest orphaned block and the pass commits.
Commit ==
    /\ pc = "reorgs" /\ todo = {}
    /\ session' = [session EXCEPT !.cursor = Smaller(@, lowest - 1)]
    /\ db' = session'
    /\ pc' = "idle"
    /\ lowest' = MaxHeight + 1
    /\ UNCHANGED <<chain, reorgs, failures, todo>>

\* The session survives the exception.
FailKeepsSession ==
    /\ pc # "idle"
    /\ failures < MaxFailures
    /\ failures' = failures + 1
    /\ pc' = "idle"
    /\ todo' = {}
    /\ lowest' = MaxHeight + 1
    /\ UNCHANGED <<chain, reorgs, db, session>>

\* An exception (ChainRpcError, a database error) or a crash: the session is
\* rolled back and the loop starts a new pass.
Fail ==
    /\ pc # "idle"
    /\ failures < MaxFailures
    /\ failures' = failures + 1
    /\ session' = db
    /\ pc' = "idle"
    /\ todo' = {}
    /\ lowest' = MaxHeight + 1
    /\ UNCHANGED <<chain, reorgs, db>>

\* _faucet_simulate, run and committed by the API process: a CREDITED row at
\* block 0 with the zero hash.  The open session sees it (READ COMMITTED).
FaucetSimulate(s, u) ==
    LET Add(d) == [d EXCEPT !.rows[s] = NewRow("credited", 0, ZeroHash, u),
                            !.posted = @ \cup {CreditKey(s, 0)}]
    IN  /\ db.rows[s].status = "none"
        /\ db' = Add(db)
        /\ session' = Add(session)
        /\ UNCHANGED <<chain, reorgs, failures, pc, todo, lowest>>

Watch ==
    \/ BeginScan
    \/ RecordBlock
    \/ StartCredit
    \/ \E k \in Rows : CreditRow(k)
    \/ StartReorgs
    \/ \E k \in Rows : CheckRow(k)
    \/ Commit

Next ==
    \/ Mine
    \/ Reorg
    \/ Watch
    \/ Fail
    \/ \E s \in Sims, u \in Users : FaucetSimulate(s, u)

Spec == Init /\ [][Next]_vars

\* Blocks keep being mined, and the loop of the worker keeps taking its steps.
FairSpec == Spec /\ WF_vars(Mine) /\ WF_vars(Watch)

-----------------------------------------------------------------------------
(* Properties.                                                               *)

RowTypes == [status : Statuses, block : Nat, hash : Seq(Blocks) \cup {ZeroHash},
             user : Users \cup {ZeroHash}, rev : Nat]

Databases == [rows : [Rows -> RowTypes],
              posted : SUBSET ({"credit", "reverse"} \X Rows \X Nat),
              cursor : Int \cup {NoCursor}]

\* Type correctness of the state, and of the pass: outside a pass the session
\* holds what is committed; inside one the cursor row exists.
TypeOK ==
    /\ chain \in Seq(Blocks) /\ Len(chain) <= MaxHeight
    /\ reorgs \in 0..MaxReorgs /\ failures \in 0..MaxFailures
    /\ db \in Databases /\ session \in Databases
    /\ pc \in {"idle", "record", "credit", "reorgs"}
    /\ lowest \in Int
    /\ pc = "record" => todo \subseteq Int
    /\ pc \in {"credit", "reorgs"} => todo \subseteq Rows
    /\ IF pc = "idle" THEN session = db /\ todo = {} ELSE session.cursor \in Int

Credits(d) == {<<p[2], p[3]>> : p \in {q \in d.posted : q[1] = "credit"}}
Reversals(d) == {<<p[2], p[3]>> : p \in {q \in d.posted : q[1] = "reverse"}}

Balanced(d) ==
    /\ Reversals(d) \subseteq Credits(d)
    /\ Credits(d) \ Reversals(d) =
            {<<k, d.rows[k].rev>> : k \in {r \in Rows : d.rows[r].status = "credited"}}

\* Exactly the CREDITED rows have a credit in the ledger that is not reversed,
\* and that credit is the one of their current revision: no row is credited
\* twice over a sequence of reorganisations, none is left credited after it was
\* orphaned, and no re-credit is swallowed by the idempotency key of an older one.
LedgerMatchesRows == Balanced(db) /\ Balanced(session)

Book == INSTANCE CreditBook WITH credits <- Credits(db), reversals <- Reversals(db)

\* What passes and simulated deposits commit is a credit book: nothing posted is lost
\* or posted again when a pass fails, and a deposit is never credited again, over any
\* reorganisations, before an earlier transaction has reversed its last credit.
ImplementsCreditBook == Book!Spec

\* A row becomes CREDITED by the watcher only when its block is canonical at
\* that moment and at least Confirmations deep.
CreditedOnlyFinal ==
    [][\A k \in Rows \ Sims :
        session.rows[k].status = "confirmed" /\ session'.rows[k].status = "credited" =>
            /\ session'.rows[k].hash = Hash(session'.rows[k].block)
            /\ session'.rows[k].block + Confirmations <= Len(chain)]_vars

\* With one reorganisation inside the window, a transaction has never more
\* committed credits than the transfers it makes, although the log indexes that
\* key the rows change when it is mined again.
NoDoubleCredit ==
    reorgs <= 1 => \A t \in Txs :
        Cardinality({i \in LogIndexes : db.rows[<<t, i>>].status = "credited"})
            <= Len(Recipients[t])

\* While nothing is reorganised, the committed cursor never passes a transfer
\* that has no row, whatever passes fail and however the blocks arrive.
CursorNeverSkips ==
    \A n \in StartBlock..Len(chain) :
        reorgs = 0 /\ db.cursor # NoCursor /\ n >= 1 /\ n <= db.cursor =>
            \A log \in Logs(chain[n]) : db.rows[log.key].status # "none"

Backed(k) == db.rows[k].status = "credited" => db.rows[k].hash = Hash(db.rows[k].block)

\* Once the chain stops reorganising, every credit that remains is of a block
\* of the canonical chain (for reorganisations inside the window).
EventuallyBacked == <>[](\A k \in Rows \ Sims : Backed(k))

CreditedAt(log, n) ==
    /\ db.rows[log.key].status = "credited"
    /\ db.rows[log.key].hash = Hash(n)

DeepCredited ==
    \A n \in StartBlock..Len(chain) : n >= 1 /\ n + Confirmations <= Len(chain) =>
        \A log \in Logs(chain[n]) : CreditedAt(log, n)

\* On a chain that is never reorganised, every transfer that is deep enough is
\* credited in the end, although passes fail.
DepositCreditedUnlessReorg == <>[](reorgs = 0 => DeepCredited)

\* On such a chain a transfer that is recorded is credited in the end, also when the
\* provider that answers is behind and block_hash has no answer for its block: the row
\* is not given up, it waits for a pass that can verify it.
RecordedIsCredited ==
    <>[](reorgs = 0 => \A k \in Rows \ Sims :
            /\ db.rows[k].status # "none"
            /\ db.rows[k].block + Confirmations + MaxLag <= Len(chain)
            => db.rows[k].status = "credited")

\* A transfer that stays on the chain deep enough is credited in the end, also
\* when a reorganisation moved it there.
DepositEventuallyCredited == <>[]DeepCredited

\* A deposit credited at a canonical block is credited to the user the log at
\* that block pays.
CreditedToRecipient ==
    \A n \in 1..Len(chain) : \A log \in Logs(chain[n]) :
        CreditedAt(log, n) => db.rows[log.key].user = log.user
=============================================================================
