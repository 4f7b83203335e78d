------------------------------ MODULE NftWatcher ------------------------------
(***************************************************************************)
(* The NFT half of the deposit watcher (backend/worker/nft_watcher.py, run *)
(* in the pass of worker/main.py) over a chain that reorganises, with the  *)
(* internal transfers of the API that refer to its holdings.               *)
(*                                                                         *)
(* It has the shape of the fungible half (module DepositWatcher) and one   *)
(* difference that matters: a credit is not an entry that is added to a    *)
(* ledger but the one row of nft_holdings for the token, which a credit    *)
(* overwrites, a reorganisation deletes, and rows of nft_transfers and     *)
(* nft_withdrawal_requests reference.  The pass is one transaction; every  *)
(* RPC call is a step.  The session does not flush by itself, so the       *)
(* statements of a loop reach the database when the loop is over.          *)
(*                                                                         *)
(* Two logs of one token are one transaction mined at another log index,   *)
(* or two transactions of which only one can be on the chain.              *)
(***************************************************************************)
EXTENDS Integers, Sequences, FiniteSets

CONSTANTS
    Logs,           \* ERC-721 Transfer logs to deposit addresses, by (tx_hash, log_index)
    Tokens,         \* (contract, token_id)
    Users,          \* owners of deposit addresses
    TokenOf,        \* TokenOf[l]: the token that l moves
    RecipientOf,    \* RecipientOf[l]: the owner of the address that l pays
    Salts,          \* what tells apart two blocks with the same logs
    NoUser,         \* the token has no row in nft_holdings
    NoCursor,       \* no ChainCursor row yet
    NoHash,         \* block_hash() returned None
    StartBlock,     \* start_block(chain)
    Confirmations,  \* DEPOSIT_CONFIRMATIONS
    Margin,         \* max(REORG_DEPTH, REORG_FINALITY_DEPTH)
    MaxHeight,      \* bound: height of the chain
    MaxReorgs,      \* bound: number of reorganisations
    MaxReorgDepth,  \* bound: blocks replaced by one reorganisation
    MaxLag,         \* bound: blocks the answering provider is behind
    MaxFailures     \* bound: passes that fail for another reason than their statements

ASSUME NftWatcherAssumption ==
    /\ TokenOf \in [Logs -> Tokens] /\ RecipientOf \in [Logs -> Users]
    /\ 0 \in Salts /\ NoUser \notin Users /\ NoCursor \notin Int
    /\ StartBlock \in Nat /\ Confirmations \in Nat /\ Margin \in Nat
    /\ MaxHeight \in Nat /\ MaxReorgs \in Nat /\ MaxReorgDepth \in Nat
    /\ MaxLag \in Nat /\ MaxFailures \in Nat

VARIABLES
    chain,     \* the canonical chain: chain[n] is the block at height n
    reorgs,    \* reorganisations so far
    failures,  \* failed passes so far
    db,        \* committed state: deposit rows, holdings, cursor
    session,   \* what the open session of the watcher sees
    referenced, \* tokens whose holding a row of nft_transfers references
    pc,        \* phase of the pass
    todo,      \* chunks of heights, then rows, the phase still has to visit
    lowest     \* lowest orphaned block of the pass; MaxHeight + 1 for None

vars == <<chain, reorgs, failures, db, session, referenced, pc, todo, lowest>>
passVars == <<pc, todo, lowest>>

-----------------------------------------------------------------------------
(* The chain, as the calls of ChainClient show it.                           *)

Smaller(a, b) == IF a <= b THEN a ELSE b
Larger(a, b) == IF a <= b THEN b ELSE a

\* The hash of a block names the chain up to it.
Hash(n) == SubSeq(chain, 1, n)

LogsUpTo(n) == UNION {chain[h].logs : h \in 1..n}

\* block_number(): the head of whichever provider answers.
Heads == {h \in 0..Len(chain) : h >= Len(chain) - MaxLag}

\* block_hash(n): None when no reachable provider has the block.
BlockHashes(n) ==
    (IF n <= Len(chain) THEN {Hash(n)} ELSE {})
        \cup (IF n > Len(chain) - MaxLag THEN {NoHash} ELSE {})

\* Logs that can be on one chain: a token is deposited once.
Compatible(S) == \A l, m \in S : TokenOf[l] = TokenOf[m] => l = m

Init ==
    /\ chain = <<>>
    /\ reorgs = 0 /\ failures = 0
    /\ db = [rows |-> [l \in Logs |-> [status |-> "none", block |-> 0, hash |-> NoHash,
                                       user |-> NoUser, rev |-> 0]],
             owner |-> [k \in Tokens |-> NoUser], cursor |-> NoCursor]
    /\ session = db
    /\ referenced = {}
    /\ pc = "idle" /\ todo = {} /\ lowest = MaxHeight + 1

TipSalt == IF chain = <<>> THEN 0 ELSE chain[Len(chain)].salt

Mine ==
    /\ Len(chain) < MaxHeight
    /\ \E S \in SUBSET Logs :
        /\ S \cap LogsUpTo(Len(chain)) = {} /\ Compatible(S \cup LogsUpTo(Len(chain)))
        /\ chain' = Append(chain, [salt |-> TipSalt, logs |-> S])
    /\ UNCHANGED <<reorgs, failures, db, session, referenced, passVars>>

\* The blocks above n are replaced; a log is at any of their heights or, with
\* height 0, on none of them.
Reorg ==
    /\ reorgs < MaxReorgs
    /\ \E n \in 0..(Len(chain) - 1), s \in Salts :
        /\ Len(chain) - n <= MaxReorgDepth
        /\ \E height \in [Logs \ LogsUpTo(n) -> {0} \cup (n + 1)..Len(chain)] :
            /\ Compatible(LogsUpTo(n) \cup {l \in DOMAIN height : height[l] # 0})
            /\ chain' = [h \in 1..Len(chain) |->
                            IF h <= n THEN chain[h]
                            ELSE [salt |-> s, logs |-> {l \in DOMAIN height : height[l] = h}]]
        /\ chain' # chain
    /\ reorgs' = reorgs + 1
    /\ UNCHANGED <<failures, db, session, referenced, passVars>>

-----------------------------------------------------------------------------
(* One pass.                                                                 *)

\* Without a cursor the scan starts at the head.
ScanRangeFromHead(head) == (IF db.cursor = NoCursor THEN head ELSE db.cursor + 1)..head

\* The heights that a pass scans.
ScanRange(head) == (IF db.cursor = NoCursor THEN StartBlock ELSE db.cursor + 1)..head

\* head = block_number(); the cursor moves to the head inside the session.
BeginScan ==
    /\ pc = "idle"
    /\ \E head \in Heads :
        /\ session' = [db EXCEPT !.cursor =
                            IF db.cursor = NoCursor THEN head ELSE Larger(db.cursor, head)]
        /\ todo' = ScanRange(head)
    /\ pc' = "record"
    /\ UNCHANGED <<chain, reorgs, failures, db, referenced, lowest>>

\* _insert_if_new: an unknown row is inserted, an orphaned one resurrected with
\* everything the new log says and a revision more, any other left alone.
InsertIfNew(row, n, l) ==
    IF row.status \in {"none", "orphaned"}
    THEN [status |-> "seen", block |-> n, hash |-> Hash(n), user |-> RecipientOf[l],
          rev |-> IF row.status = "none" THEN 0 ELSE row.rev + 1]
    ELSE row

\* record_nft_deposits for the logs of one height.  get_logs is called once for
\* each chunk of the range, so the heights are read at different times, in
\* ascending order, by a provider that has no logs above its own head.
RecordBlock ==
    /\ pc = "record" /\ todo # {}
    /\ \E n \in todo, view \in Heads :
        /\ \A m \in todo : n <= m
        /\ session' = IF n \in 1..view
                      THEN [session EXCEPT !.rows = [l \in Logs |->
                                IF l \in chain[n].logs THEN InsertIfNew(session.rows[l], n, l)
                                ELSE session.rows[l]]]
                      ELSE session
        /\ todo' = todo \ {n}
    /\ UNCHANGED <<chain, reorgs, failures, db, referenced, pc, lowest>>

\* The threshold is off by one.
FinalEarly(row, head) == row.status = "seen" /\ row.block <= head - Confirmations + 1

\* The query of confirm_and_credit_nfts for SEEN rows that are deep enough.
Final(row, head) == row.status = "seen" /\ row.block <= head - Confirmations

\* First half of confirm_and_credit_nfts: rows at the threshold become CONFIRMED,
\* then every CONFIRMED row is selected.
StartCredit ==
    /\ pc = "record" /\ todo = {}
    /\ \E head \in Heads :
        LET confirmed == {l \in Logs : \/ Final(session.rows[l], head)
                                       \/ session.rows[l].status = "confirmed"}
        IN  /\ todo' = confirmed
            /\ session' = [session EXCEPT !.rows = [l \in Logs |->
                    IF l \in confirmed THEN [session.rows[l] EXCEPT !.status = "confirmed"]
                    ELSE session.rows[l]]]
    /\ pc' = "credit"
    /\ UNCHANGED <<chain, reorgs, failures, db, referenced, lowest>>

\* _upsert_holding: the token is HELD by the user of the row, whoever had it.
UpsertHolding(owner, l) == [owner EXCEPT ![TokenOf[l]] = session.rows[l].user]

\* The loop already adds a holding for the token: the second INSERT of its flush
\* violates the unique key of nft_holdings.
AddedTwice(l) ==
    LET k == TokenOf[l] IN db.owner[k] = NoUser /\ session.owner[k] # NoUser

\* The session outlives the pass that fails.
RollbackKeepsSession ==
    /\ pc' = "idle" /\ todo' = {} /\ lowest' = MaxHeight + 1
    /\ UNCHANGED <<db, session>>

\* The transaction is rolled back; the loop starts a new pass.
Rollback ==
    /\ session' = db
    /\ pc' = "idle" /\ todo' = {} /\ lowest' = MaxHeight + 1
    /\ UNCHANGED db

\* Body of the loop of confirm_and_credit_nfts.
CreditRow(l) ==
    /\ pc = "credit" /\ l \in todo
    /\ \E canonical \in BlockHashes(session.rows[l].block) :
        \/ /\ canonical = session.rows[l].hash
           /\ AddedTwice(l)
           /\ Rollback
        \/ /\ session' =
                IF canonical = NoHash THEN session
                ELSE IF canonical # session.rows[l].hash
                THEN [session EXCEPT !.rows[l].status = "orphaned"]
                ELSE [session EXCEPT !.rows[l].status = "credited",
                                     !.owner = UpsertHolding(@, l)]
           /\ canonical = session.rows[l].hash => ~AddedTwice(l)
           /\ todo' = todo \ {l}
           /\ UNCHANGED <<db, pc, lowest>>
    /\ UNCHANGED <<chain, reorgs, failures, referenced>>

\* The margin is left out of the window.
CandidateNoMargin(row, head) ==
    row.status \in {"seen", "confirmed", "credited"} /\ row.block > head - Confirmations

\* The query of handle_reorgs: live rows inside the window.
Candidate(row, head) ==
    /\ row.status \in {"seen", "confirmed", "credited"}
    /\ row.block > head - (Confirmations + Margin)

\* First half of handle_reorgs.
StartReorgs ==
    /\ pc = "credit" /\ todo = {}
    /\ \E head \in Heads :
        todo' = {l \in Logs : Candidate(session.rows[l], head)}
    /\ pc' = "reorgs"
    /\ UNCHANGED <<chain, reorgs, failures, db, session, referenced, lowest>>

\* The holding of an orphaned row stays.
KeepHolding(owner, l) == owner

\* _remove_holding: the holding of the token is deleted, whichever row created it.
RemoveHolding(owner, l) == [owner EXCEPT ![TokenOf[l]] = NoUser]

\* Body of the loop of handle_reorgs.
CheckRow(l) ==
    /\ pc = "reorgs" /\ l \in todo
    /\ LET row == session.rows[l]
       IN  \E canonical \in BlockHashes(row.block) :
            IF canonical \in {NoHash, row.hash}
            THEN UNCHANGED <<session, lowest>>
            ELSE /\ session' = [session EXCEPT
                        !.rows[l].status = "orphaned",
                        !.owner = IF row.status = "credited" THEN RemoveHolding(@, l) ELSE @]
                 /\ lowest' = Smaller(lowest, row.block)
    /\ todo' = todo \ {l}
    /\ UNCHANGED <<chain, reorgs, failures, db, referenced, pc>>

Deleted == {k \in Tokens : db.owner[k] # NoUser /\ session.owner[k] = NoUser}

\* The flush at the end of handle_reorgs: the DELETE of a holding that is
\* referenced violates a foreign key, and the whole pass is lost.
FlushRejected ==
    /\ pc = "reorgs" /\ todo = {}
    /\ Deleted \cap referenced # {}
    /\ Rollback
    /\ UNCHANGED <<chain, reorgs, failures, referenced>>

\* The cursor is rewound below the lowest orphaned block.
Rewound(cursor) == Smaller(cursor, lowest - 1)

\* The flush succeeds, the cursor is rewound and the pass commits.
Commit ==
    /\ pc = "reorgs" /\ todo = {}
    /\ Deleted \cap referenced = {}
    /\ session' = [session EXCEPT !.cursor = Rewound(@)]
    /\ db' = session'
    /\ pc' = "idle" /\ lowest' = MaxHeight + 1
    /\ UNCHANGED <<chain, reorgs, failures, referenced, todo>>

\* A ChainRpcError, a database error or a crash.
Fail ==
    /\ pc # "idle"
    /\ failures < MaxFailures
    /\ failures' = failures + 1
    /\ Rollback
    /\ UNCHANGED <<chain, reorgs, referenced>>

\* transfer_nft, run and committed by the API process: the holding changes hands
\* and a row of nft_transfers references it.  It locks the holding, so it runs
\* before or after a pass that changes the same one.
TransferNft(k, u) ==
    /\ db.owner[k] \notin {NoUser, u}
    /\ session.owner[k] = db.owner[k]
    /\ db' = [db EXCEPT !.owner[k] = u]
    /\ session' = [session EXCEPT !.owner[k] = u]
    /\ referenced' = referenced \cup {k}
    /\ UNCHANGED <<chain, reorgs, failures, passVars>>

Watch ==
    \/ BeginScan \/ RecordBlock \/ StartCredit
    \/ \E l \in Logs : CreditRow(l)
    \/ StartReorgs
    \/ \E l \in Logs : CheckRow(l)
    \/ FlushRejected \/ Commit

Next ==
    \/ Mine \/ Reorg
    \/ Watch \/ Fail
    \/ \E k \in Tokens, u \in Users : TransferNft(k, u)

Spec == Init /\ [][Next]_vars

\* Blocks keep being mined, and the loop of the worker keeps taking its steps.
FairSpec == Spec /\ WF_vars(Mine) /\ WF_vars(Watch)

-----------------------------------------------------------------------------
(* Properties.                                                               *)

Blocks == [salt : Salts, logs : SUBSET Logs]

Rows ==
    [status : {"none", "seen", "confirmed", "credited", "orphaned"}, block : Nat,
     hash : Seq(Blocks) \cup {NoHash}, user : Users \cup {NoUser}, rev : Nat]

Databases ==
    [rows : [Logs -> Rows], owner : [Tokens -> Users \cup {NoUser}],
     cursor : Int \cup {NoCursor}]

\* Type correctness; outside a pass the session holds what is committed.
TypeOK ==
    /\ chain \in Seq(Blocks) /\ Len(chain) <= MaxHeight
    /\ reorgs \in 0..MaxReorgs /\ failures \in 0..MaxFailures
    /\ db \in Databases /\ session \in Databases
    /\ referenced \subseteq Tokens
    /\ pc \in {"idle", "record", "credit", "reorgs"}
    /\ lowest \in Int
    /\ pc = "record" => todo \subseteq Int
    /\ pc \in {"credit", "reorgs"} => todo \subseteq Logs
    /\ IF pc = "idle" THEN session = db /\ todo = {} ELSE session.cursor \in Int

RowsOf(k, status) == {l \in Logs : TokenOf[l] = k /\ db.rows[l].status = status}

\* A deposit of the token is orphaned, or was and is resurrected.
OnceOrphaned(k) ==
    \E l \in Logs : TokenOf[l] = k /\ (db.rows[l].status = "orphaned" \/ db.rows[l].rev > 0)

\* A holding is there because of a CREDITED deposit of its token; until it is
\* transferred it belongs to the user of such a deposit.  And the holding of a
\* CREDITED deposit is there unless a deposit of the same token was orphaned.
HoldingsMatchDeposits ==
    \A k \in Tokens :
        /\ db.owner[k] # NoUser => RowsOf(k, "credited") # {}
        /\ db.owner[k] # NoUser /\ k \notin referenced =>
                \E l \in RowsOf(k, "credited") : db.rows[l].user = db.owner[k]
        /\ RowsOf(k, "credited") # {} /\ ~OnceOrphaned(k) => db.owner[k] # NoUser

\* The watcher gives a token to a user only for a deposit whose block is
\* canonical at that moment, at least Confirmations deep, and pays that user.
HeldOnlyFinal ==
    [][\A l \in Logs :
        session.rows[l].status = "confirmed" /\ session'.rows[l].status = "credited" =>
            /\ session'.rows[l].block + Confirmations <= Len(chain)
            /\ l \in chain[session'.rows[l].block].logs
            /\ session'.owner[TokenOf[l]] = RecipientOf[l]]_vars

BackedRow(l) == db.rows[l].status = "credited" => db.rows[l].hash = Hash(db.rows[l].block)

\* A transferred NFT stays backed too: once the chain stops reorganising, no
\* credit is left whose block is not canonical.
NoPhantomCredit == <>[](\A l \in Logs : BackedRow(l))

\* The same while no holding is referenced.
NoPhantomUnlessReferenced == <>[](referenced = {} => \A l \in Logs : BackedRow(l))

\* The deposits that are deep enough, on the chain as it is.
DeepLogs ==
    UNION {chain[n].logs : n \in {h \in 1..Len(chain) : h >= StartBlock
                                                    /\ h + Confirmations <= Len(chain)}}

HeldFor(l) == LET k == TokenOf[l]
              IN  IF k \in referenced THEN db.owner[k] # NoUser
                  ELSE db.owner[k] = RecipientOf[l]

\* On a chain that is never reorganised every NFT that is deposited deep enough is
\* held in the end, by the owner of the address until it is transferred,
\* although passes fail.
DepositHeldUnlessReorg == <>[](reorgs = 0 => \A l \in DeepLogs : HeldFor(l))

\* A credited deposit whose block is canonical is held: handle_reorgs removes the
\* holding of a deposit only when that deposit's own block is gone.
CanonicalCreditIsHeld ==
    <>[](\A l \in Logs :
            db.rows[l].status = "credited" /\ BackedRow(l) => db.owner[TokenOf[l]] # NoUser)
=============================================================================
