------------------------------ MODULE Withdrawer ------------------------------
(***************************************************************************)
(* The withdrawal outbox of the worker (backend/worker/withdrawer.py, the  *)
(* nonce row of backend/worker/_nonce.py, the loop in worker/main.py) and  *)
(* the account of the hot wallet on the chain.                             *)
(*                                                                         *)
(* A pass has three phases, each a database transaction of its own: sign   *)
(* (fix nonce and raw transaction), broadcast, confirm.  Broadcasts reach  *)
(* the chain at once, before their phase commits.  Every RPC call of the   *)
(* broadcast and confirm phases is a step of its own; between any two of   *)
(* them blocks are mined or replaced, and the worker may fail, which rolls *)
(* the phase back.                                                         *)
(*                                                                         *)
(* The signed transaction of a request is identified by the request and    *)
(* its nonce.  The ledger is the set of the idempotency keys it posted.    *)
(***************************************************************************)
EXTENDS Integers, Sequences, FiniteSets

CONSTANTS
    Requests,       \* withdrawal requests of users
    Unsignable,     \* those whose asset is not withdrawable (ValueError in _sign)
    Foreign,        \* transactions sent from the hot wallet by somebody else
    NoRow,          \* no HotWalletNonce row yet
    NoHash,         \* block_hash() returned None
    Batch,          \* requests claimed by one pass
    Confirmations,  \* DEPOSIT_CONFIRMATIONS
    MaxHeight,      \* bound: height of the chain
    MaxReorgs,      \* bound: number of reorganisations
    MaxReorgDepth,  \* bound: blocks replaced by one reorganisation
    MaxLag,         \* bound: blocks the answering provider is behind
    MaxFailures,    \* bound: failed phases, signatures and broadcasts
    MaxEvictions    \* bound: transactions dropped from the mempool

ASSUME WithdrawerAssumption ==
    /\ Unsignable \subseteq Requests
    /\ Requests \cap Foreign = {}
    /\ IsFiniteSet(Requests) /\ IsFiniteSet(Foreign)
    /\ NoRow \notin Int
    /\ Batch \in Nat \ {0} /\ Confirmations \in Nat
    /\ MaxHeight \in Nat /\ MaxReorgs \in Nat /\ MaxReorgDepth \in Nat
    /\ MaxLag \in Nat /\ MaxFailures \in Nat /\ MaxEvictions \in Nat

VARIABLES
    chain,      \* chain[n] is the block at height n, with its hot-wallet transactions
    mempool,    \* pending transactions of the hot wallet
    reorgs,     \* reorganisations so far
    evictions,  \* evictions so far
    failures,   \* failures so far
    db,         \* committed state: requests, posted ledger keys, nonce row
    session,    \* what the open session of the worker sees
    pc,         \* next step of the pass
    todo,       \* requests the phase still has to visit
    head,       \* head read at the start of the confirm phase
    current     \* request under inspection and its receipt

chainVars == <<chain, mempool, reorgs, evictions>>
workerVars == <<db, session, pc, todo, head, current>>
vars == <<chain, mempool, reorgs, evictions, failures, db, session, pc, todo, head, current>>

NoNonce == -1
NoBlock == -1
Nothing == [req |-> "none", mined |-> FALSE, block |-> 0, hash |-> <<>>, ok |-> FALSE]

-----------------------------------------------------------------------------
(* The account of the hot wallet, as the calls of ChainClient show it.       *)

Larger(a, b) == IF a <= b THEN b ELSE a

Hash(n) == SubSeq(chain, 1, n)

Heads == {h \in 0..Len(chain) : h >= Len(chain) - MaxLag}

BlockHashes(n) ==
    (IF n <= Len(chain) THEN {Hash(n)} ELSE {})
        \cup (IF n > Len(chain) - MaxLag THEN {NoHash} ELSE {})

\* latest_nonce: transactions of the account in the first n blocks.
LatestNonce(n) == Cardinality({h \in 1..n : chain[h].txs # {}})

Account == LatestNonce(Len(chain))

Occupied(n) == \E tx \in mempool : tx.nonce = n

\* The nonces up to one past the run of pending transactions; the last of them
\* is the pending nonce.
Reachable ==
    {n \in Account..(Account + Cardinality(mempool)) : \A m \in Account..(n - 1) : Occupied(m)}

\* pending_nonce: a provider that is behind may know neither the last blocks nor
\* the pending transactions.
PendingNonces ==
    {n \in Reachable : ~Occupied(n)} \cup {LatestNonce(v) : v \in Heads \ {Len(chain)}}

MinedAt(who, n) == \E tx \in chain[n].txs : tx.who = who
Mined(who) == \E n \in 1..Len(chain) : MinedAt(who, n)

\* Only pending transactions count as known.
KnownPending(tx) == tx \in mempool

\* _tx_known: a node has the transaction, pending or mined.
Known(tx) == tx \in mempool \/ Mined(tx.who)

\* A node takes a transaction whose nonce is not used and not taken by another.
Acceptable(tx) == tx.nonce >= Account /\ ~Occupied(tx.nonce)

\* get_receipt by a provider whose head is v.
Receipt(r, v) ==
    IF \E n \in 1..v : MinedAt(r, n)
    THEN LET n == CHOOSE m \in 1..v : MinedAt(r, m)
         IN  [req |-> r, mined |-> TRUE, block |-> n, hash |-> Hash(n),
              ok |-> \E tx \in chain[n].txs : tx.ok]
    ELSE [Nothing EXCEPT !.req = r]

-----------------------------------------------------------------------------
(* Rows of withdrawal_requests and the ledger.                               *)

Statuses == {"none", "requested", "signing", "broadcast", "confirmed", "failed"}

\* "withdrawal-settle:{id}" and "withdrawal-reverse:{id}".
SettleKey(r) == <<"settle", r>>
ReverseKey(r) == <<"reverse", r>>

\* The ledger is posted but the request stays BROADCAST.
SettleKeepsStatus(d, r) == [d EXCEPT !.posted = @ \cup {SettleKey(r)}]

\* _settle and the CONFIRMED status.
Settle(d, r) == [d EXCEPT !.reqs[r].status = "confirmed", !.posted = @ \cup {SettleKey(r)}]

\* _reverse_reservation.
ReverseReservation(d, r) ==
    [d EXCEPT !.reqs[r].status = "failed", !.posted = @ \cup {ReverseKey(r)}]

SignedTx(d, r) == [who |-> r, nonce |-> d.reqs[r].nonce]

Init ==
    /\ chain = <<>>
    /\ mempool = {}
    /\ reorgs = 0 /\ evictions = 0 /\ failures = 0
    /\ db = [reqs |-> [r \in Requests |-> [status |-> "none", nonce |-> NoNonce, since |-> NoBlock]],
             posted |-> {}, next |-> NoRow]
    /\ session = db
    /\ pc = "sign"
    /\ todo = {}
    /\ head = 0
    /\ current = Nothing

-----------------------------------------------------------------------------
(* The chain.                                                                *)

\* A block without, or with the next, transaction of the hot wallet.  The
\* transaction may revert.  Others with its nonce are invalid from then on.
Mine ==
    /\ Len(chain) < MaxHeight
    /\ \/ /\ chain' = Append(chain, [salt |-> reorgs, txs |-> {}])
          /\ UNCHANGED mempool
       \/ \E tx \in mempool, ok \in BOOLEAN :
            /\ tx.nonce = Account
            /\ chain' = Append(chain, [salt |-> reorgs,
                                       txs |-> {[who |-> tx.who, nonce |-> tx.nonce, ok |-> ok]}])
            /\ mempool' = {t \in mempool : t.nonce > tx.nonce}
    /\ UNCHANGED <<reorgs, evictions, failures, workerVars>>

\* The blocks above n are replaced by blocks without transactions of the hot
\* wallet; those of the old blocks are pending again.
Reorg ==
    /\ reorgs < MaxReorgs
    /\ reorgs' = reorgs + 1
    /\ \E n \in 0..(Len(chain) - 1) :
        /\ Len(chain) - n <= MaxReorgDepth
        /\ chain' = [h \in 1..Len(chain) |->
                        IF h <= n THEN chain[h] ELSE [salt |-> reorgs + 1, txs |-> {}]]
        /\ mempool' = mempool \cup
                {[who |-> tx.who, nonce |-> tx.nonce] : tx \in UNION {chain[h].txs : h \in (n + 1)..Len(chain)}}
    /\ UNCHANGED <<evictions, failures, workerVars>>

\* Somebody else sends from the hot wallet, at the next free nonce or in place of
\* a pending transaction (a higher fee).
SendForeign(f) ==
    /\ ~Mined(f) /\ \A tx \in mempool : tx.who # f
    /\ \E n \in Reachable :
        mempool' = {tx \in mempool : tx.nonce # n} \cup {[who |-> f, nonce |-> n]}
    /\ UNCHANGED <<chain, reorgs, evictions, failures, workerVars>>

\* A pending transaction is dropped by the nodes.
Evict ==
    /\ evictions < MaxEvictions
    /\ evictions' = evictions + 1
    /\ \E tx \in mempool : mempool' = mempool \ {tx}
    /\ UNCHANGED <<chain, reorgs, failures, workerVars>>

-----------------------------------------------------------------------------
(* The API and the worker.                                                   *)

\* create_withdrawal, run and committed by the API process.
CreateWithdrawal(r) ==
    /\ db.reqs[r].status = "none"
    /\ db' = [db EXCEPT !.reqs[r].status = "requested"]
    /\ session' = [session EXCEPT !.reqs[r].status = "requested"]
    /\ UNCHANGED <<chainVars, failures, pc, todo, head, current>>

Pendings(d) == {r \in Requests : d.reqs[r].status = "requested"}

\* Nonce, raw transaction and hash are persisted.
Sign(row, n) == [row EXCEPT !.status = "signing", !.nonce = n]

\* The nonce row is ignored.
NextNonceOfChain(chainNonce) == chainNonce

\* nonce_row: the row follows the chain when the chain is ahead.
NextNonce(chainNonce) == IF db.next = NoRow THEN chainNonce ELSE Larger(db.next, chainNonce)

\* The nonce advances for every claimed request, signed or not.
NonceAfterClaimed(base, claimed, signed) == base + Cardinality(claimed)

\* next_nonce after the loop: one step for every signature.
NonceAfter(base, claimed, signed) == base + Cardinality(signed)

\* The loop of sign_pending over the claimed requests, for the ones it manages to
\* sign: they take consecutive nonces from base on, in order of creation, which
\* may be any order.  Another exception than ValueError leaves a request as it is.
SignBatch(claimed, base, signed, nonce) ==
    LET refunded == claimed \cap Unsignable
        skipped == claimed \ (signed \cup Unsignable)
    IN  /\ \A r, q \in signed : nonce[r] = nonce[q] => r = q
        /\ failures' = failures + Cardinality(skipped)
        /\ failures' <= MaxFailures
        /\ session' = [reqs |-> [r \in Requests |->
                            IF r \in signed THEN Sign(db.reqs[r], nonce[r])
                            ELSE IF r \in refunded THEN [db.reqs[r] EXCEPT !.status = "failed"]
                            ELSE db.reqs[r]],
                       posted |-> db.posted \cup {ReverseKey(r) : r \in refunded},
                       next |-> NonceAfter(base, claimed, signed)]

\* _claim_pending: the oldest requests, at most Batch of them.
Claims == {S \in SUBSET Pendings(db) :
                /\ Cardinality(S) <= Batch
                /\ S = Pendings(db) \/ Cardinality(S) = Batch}

\* sign_pending with work to do, and its commit.  The broadcast phase selects
\* the SIGNING requests.
SignPending ==
    /\ pc = "sign" /\ Pendings(db) # {}
    /\ \E claimed \in Claims, chainNonce \in PendingNonces :
       LET base == NextNonce(chainNonce)
       IN  \E signed \in SUBSET (claimed \ Unsignable) :
           \E nonce \in [signed -> base..(base + Cardinality(signed) - 1)] :
                SignBatch(claimed, base, signed, nonce)
    /\ db' = session'
    /\ pc' = "broadcast"
    /\ todo' = {r \in Requests : db'.reqs[r].status = "signing"}
    /\ UNCHANGED <<chainVars, head, current>>

\* sign_pending without work: the nonce row is not read.
SignNothing ==
    /\ pc = "sign" /\ Pendings(db) = {}
    /\ pc' = "broadcast"
    /\ todo' = {r \in Requests : db.reqs[r].status = "signing"}
    /\ UNCHANGED <<chainVars, failures, db, session, head, current>>

\* The transaction is handed to the nodes, and the call returns or raises.
Send(tx) ==
    IF Acceptable(tx) /\ ~Known(tx) THEN mempool' = mempool \cup {tx} ELSE UNCHANGED mempool

\* broadcast_raw returned: a node knows the transaction.  Taken in nonce order.
BroadcastOk(r) ==
    /\ pc = "broadcast" /\ r \in todo
    /\ \A q \in todo : session.reqs[r].nonce <= session.reqs[q].nonce
    /\ LET tx == SignedTx(session, r)
       IN  (Known(tx) \/ Acceptable(tx)) /\ Send(tx)
    /\ session' = [session EXCEPT !.reqs[r].status = "broadcast"]
    /\ todo' = todo \ {r}
    /\ UNCHANGED <<chain, reorgs, evictions, failures, db, pc, head, current>>

\* A failed broadcast is recorded as done.
BroadcastErrorIgnored(r) ==
    /\ pc = "broadcast" /\ r \in todo
    /\ failures < MaxFailures /\ failures' = failures + 1
    /\ session' = [session EXCEPT !.reqs[r].status = "broadcast"]
    /\ todo' = todo \ {r}
    /\ UNCHANGED <<chainVars, db, pc, head, current>>

\* broadcast_raw raised ChainRpcError: the nonce is used or taken by another
\* transaction, or no provider was reachable, before or after one took it.
BroadcastError(r) ==
    /\ pc = "broadcast" /\ r \in todo
    /\ \A q \in todo : session.reqs[r].nonce <= session.reqs[q].nonce
    /\ LET tx == SignedTx(session, r)
       IN  IF Known(tx) \/ Acceptable(tx)
           THEN /\ failures < MaxFailures /\ failures' = failures + 1
                /\ UNCHANGED mempool \/ Send(tx)
           ELSE UNCHANGED <<failures, mempool>>
    /\ todo' = todo \ {r}
    /\ UNCHANGED <<chain, reorgs, evictions, db, session, pc, head, current>>

\* End of the broadcast phase.
CommitBroadcast ==
    /\ pc = "broadcast" /\ todo = {}
    /\ db' = session
    /\ pc' = "head"
    /\ UNCHANGED <<chainVars, failures, session, todo, head, current>>

\* Start of confirm_broadcast: one head for all requests.
ReadHead ==
    /\ pc = "head"
    /\ head' \in Heads
    /\ todo' = {r \in Requests : db.reqs[r].status = "broadcast"}
    /\ pc' = "confirm"
    /\ UNCHANGED <<chainVars, failures, db, session, current>>

\* get_receipt.
ReadReceipt(r) ==
    /\ pc = "confirm" /\ r \in todo
    /\ \E v \in Heads : current' = Receipt(r, v)
    /\ pc' = "decide"
    /\ todo' = todo \ {r}
    /\ UNCHANGED <<chainVars, failures, db, session, head>>

\* Without the grace period.
ReconcileAtOnce(d, r, latest) ==
    IF latest <= d.reqs[r].nonce THEN [d EXCEPT !.reqs[r].since = NoBlock]
    ELSE ReverseReservation(d, r)

\* _reconcile_unmined: the marker is set when the nonce is first found used, and
\* Confirmations blocks after that the request is reversed.
Reconcile(d, r, latest) ==
    IF latest <= d.reqs[r].nonce THEN [d EXCEPT !.reqs[r].since = NoBlock]
    ELSE IF d.reqs[r].since = NoBlock THEN [d EXCEPT !.reqs[r].since = head]
    ELSE IF head - d.reqs[r].since >= Confirmations THEN ReverseReservation(d, r)
    ELSE d

\* confirm_broadcast without a receipt: latest_nonce decides.
ReconcileUnmined ==
    /\ pc = "decide" /\ ~current.mined
    /\ \E v \in Heads : session' = Reconcile(session, current.req, LatestNonce(v))
    /\ pc' = "confirm" /\ current' = Nothing
    /\ UNCHANGED <<chainVars, failures, db, todo, head>>

\* The receipt counts at once.
BuriedAtOnce(receipt) == TRUE

\* The receipt is deep enough, measured from the head read before the loop.
Buried(receipt) == head - receipt.block >= Confirmations

\* The rest of the loop of confirm_broadcast for a receipt: the marker is
\* cleared, then depth and canonical hash decide whether it counts.
ConfirmReceipt ==
    /\ pc = "decide" /\ current.mined
    /\ LET r == current.req
           cleared == [session EXCEPT !.reqs[r].since = NoBlock]
       IN  IF ~Buried(current)
           THEN session' = cleared
           ELSE \E canonical \in BlockHashes(current.block) :
                session' = IF canonical = NoHash \/ canonical # current.hash THEN cleared
                           ELSE IF current.ok THEN Settle(cleared, r)
                           ELSE ReverseReservation(cleared, r)
    /\ pc' = "confirm" /\ current' = Nothing
    /\ UNCHANGED <<chainVars, failures, db, todo, head>>

\* End of the confirm phase and of the pass.
CommitConfirm ==
    /\ pc = "confirm" /\ todo = {}
    /\ db' = session
    /\ pc' = "sign"
    /\ UNCHANGED <<chainVars, failures, session, todo, head, current>>

\* The session survives the exception.
FailKeepsSession ==
    /\ failures < MaxFailures
    /\ pc # "sign"
    /\ failures' = failures + 1
    /\ pc' = "sign"
    /\ todo' = {}
    /\ current' = Nothing
    /\ UNCHANGED <<chainVars, db, session, head>>

\* An exception or a crash: the open phase is rolled back and a new pass starts.
Fail ==
    /\ failures < MaxFailures
    /\ pc # "sign"
    /\ failures' = failures + 1
    /\ session' = db
    /\ pc' = "sign"
    /\ todo' = {}
    /\ current' = Nothing
    /\ UNCHANGED <<chainVars, db, head>>

Work ==
    \/ SignPending \/ SignNothing
    \/ \E r \in Requests : BroadcastOk(r)
    \/ \E r \in Requests : BroadcastError(r)
    \/ CommitBroadcast \/ ReadHead
    \/ \E r \in Requests : ReadReceipt(r)
    \/ ReconcileUnmined \/ ConfirmReceipt \/ CommitConfirm

Next ==
    \/ Mine \/ Reorg \/ Evict
    \/ \E f \in Foreign : SendForeign(f)
    \/ \E r \in Requests : CreateWithdrawal(r)
    \/ Work
    \/ Fail

Spec == Init /\ [][Next]_vars

\* Blocks keep being mined and the loop of the worker keeps taking its steps.
FairSpec == Spec /\ WF_vars(Mine) /\ WF_vars(Work)

-----------------------------------------------------------------------------
(* Properties.                                                               *)

Senders == Requests \cup Foreign

PendingTxs == [who : Senders, nonce : Int]

Blocks == [salt : Nat, txs : SUBSET [who : Senders, nonce : Int, ok : BOOLEAN]]

Rows == [status : Statuses, nonce : Int, since : Int]

Databases == [reqs : [Requests -> Rows],
              posted : SUBSET ({"settle", "reverse"} \X Requests),
              next : Nat \cup {NoRow}]

\* Type correctness; outside the broadcast and confirm phases the session holds
\* what is committed.
TypeOK ==
    /\ chain \in Seq(Blocks) /\ mempool \subseteq PendingTxs
    /\ reorgs \in 0..MaxReorgs /\ evictions \in 0..MaxEvictions
    /\ failures \in 0..MaxFailures
    /\ db \in Databases /\ session \in Databases
    /\ pc \in {"sign", "broadcast", "head", "confirm", "decide"}
    /\ todo \subseteq Requests
    /\ head \in Nat
    /\ pc = "decide" => current.req \in Requests
    /\ pc \in {"sign", "head"} => session = db

Signed(d, r) == d.reqs[r].nonce # NoNonce

\* Two requests are never signed with the same nonce, whatever passes fail and
\* whatever else is sent from the hot wallet.
NonceUnique ==
    \A r, q \in Requests :
        Signed(db, r) /\ db.reqs[r].nonce = db.reqs[q].nonce => r = q

\* Every nonce below the next one is that of a signed request or is used on the
\* chain or in the mempool: no nonce is skipped, so no signed payout waits for
\* a transaction that nobody will send.
GapFree ==
    db.next # NoRow =>
        \A n \in 0..(db.next - 1) :
            (\E r \in Requests : db.reqs[r].nonce = n) \/ n < Account \/ Occupied(n)

Outcome(d) ==
    \A r \in Requests :
        /\ SettleKey(r) \in d.posted <=> d.reqs[r].status = "confirmed"
        /\ ReverseKey(r) \in d.posted <=> d.reqs[r].status = "failed"

\* A reservation is settled exactly when the request is CONFIRMED and released
\* exactly when it is FAILED, so never both, in the committed and in the open
\* transaction.
LedgerMatchesStatus == Outcome(db) /\ Outcome(session)

PaidAt(r, n) == \E tx \in chain[n].txs : tx.who = r /\ tx.ok
Paid(r) == \E n \in 1..Len(chain) : PaidAt(r, n)

\* A settled withdrawal is paid on the canonical chain, for reorganisations of
\* at most Confirmations blocks.
SettledIsPaid == \A r \in Requests : db.reqs[r].status = "confirmed" => Paid(r)

\* A refunded withdrawal is not paid.
RefundedNotPaid == \A r \in Requests : db.reqs[r].status = "failed" => ~Paid(r)

\* Once its transaction is mined deep enough, a request is settled or refunded,
\* also when the worker failed between broadcast and commit.
MinedPayoutResolved ==
    <>[](\A r \in Requests, n \in 1..(MaxHeight - Confirmations) :
            n <= Len(chain) /\ MinedAt(r, n) => db.reqs[r].status \in {"confirmed", "failed"})

\* A signed request is not abandoned: in the end its transaction is pending or
\* mined, or it is a broadcast one whose nonce is used, which is reconciled.
PayoutNotAbandoned ==
    <>[](\A r \in Requests :
            db.reqs[r].status \in {"signing", "broadcast"} =>
                \/ Known(SignedTx(db, r))
                \/ db.reqs[r].status = "broadcast" /\ db.reqs[r].nonce < Account)

Phase(status) ==
    CASE status = "none" -> "none"
      [] status = "requested" -> "open"
      [] status \in {"signing", "broadcast"} -> "signed"
      [] status = "confirmed" -> "paid"
      [] status = "failed" -> "refunded"

Abstract == INSTANCE Outbox WITH
    phase <- [r \in Requests |-> Phase(db.reqs[r].status)],
    nonce <- [r \in Requests |-> db.reqs[r].nonce]

\* The withdrawer is an outbox: what it commits signs a request once, with a nonce
\* of its own, and resolves it once.
ImplementsOutbox == Abstract!Spec
=============================================================================
