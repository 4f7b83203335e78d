------------------------------ MODULE NftOutbox -------------------------------
(***************************************************************************)
(* NFT custody: the minter and the withdrawer of NFTs (worker/nft_minter.py *)
(* and worker/nft_withdrawer.py), two loops of one worker that share the   *)
(* nonce row of the hot wallet (worker/_nonce.py), and the calls of the    *)
(* API that move a holding (services/nft_service.py, services/             *)
(* admin_service.py).                                                      *)
(*                                                                         *)
(* Each phase of a loop is a transaction: what it decides is collected in  *)
(* buffer[l] and takes effect when it commits.  The nonce row is locked    *)
(* from its SELECT ... FOR UPDATE to the commit.  A call of the API locks  *)
(* the holding and commits at once, so it is two steps: the look-up of its *)
(* idempotency key, and all the rest.                                      *)
(*                                                                         *)
(* The token of a mint is named by its request, and a withdrawal request   *)
(* by its idempotency key.  The chain is not reorganised here and no       *)
(* provider is behind: Withdrawer, whose confirm phase is the same, has    *)
(* both.                                                                   *)
(***************************************************************************)
EXTENDS Integers, FiniteSets

CONSTANTS
    Mints,          \* mint requests of the admin, and the tokens they mint
    Deposited,      \* tokens the watcher has credited before, swept or not (see NftSweeper)
    Keys,           \* idempotency keys of NFT withdrawals, naming their requests
    Calls,          \* calls of the endpoints of nfts.py
    CallOf,         \* CallOf[c]: op, user, token, key, and to (a user) of a transfer
    Users,
    UserOf,         \* UserOf[t]: the user t is minted or deposited for
    MayRevert,      \* requests whose transaction may revert although the hot wallet has the token
    ToDeposit,      \* keys of withdrawals to a deposit address of the service
    Depositor,      \* the owner of that address
    NoUser,         \* the token has no row in nft_holdings
    NoRow,          \* no HotWalletNonce row yet
    Confirmations,  \* DEPOSIT_CONFIRMATIONS
    MaxHeight,      \* bound: height of the chain
    MaxFailures     \* bound: failed phases, signatures and broadcasts

ASSUME NftOutboxAssumption ==
    /\ Mints \cap Keys = {} /\ IsFiniteSet(Mints) /\ IsFiniteSet(Keys)
    /\ MayRevert \subseteq Mints \cup Keys /\ ToDeposit \subseteq Keys /\ Depositor \in Users
    /\ Mints \cap Deposited = {} /\ UserOf \in [Mints \cup Deposited -> Users]
    /\ Deposited \cap Keys = {} /\ Mints \cup Deposited # {}
    /\ \A c \in Calls :
        /\ CallOf[c].op \in {"withdraw", "transfer"}
        /\ CallOf[c].token \in Mints \cup Deposited
        /\ CallOf[c].user \in Users /\ CallOf[c].to \in Users
        /\ CallOf[c].op = "withdraw" => CallOf[c].key \in Keys
    \* scoped_idempotency_key: a key has the id of its user in it.
    /\ \A c, d \in Calls : CallOf[c].key = CallOf[d].key => CallOf[c].user = CallOf[d].user
    /\ NoUser \notin Users
    /\ NoRow \notin Int
    /\ Confirmations \in Nat /\ MaxHeight \in Nat /\ MaxFailures \in Nat

VARIABLES
    height,    \* height of the chain
    mined,     \* mined[r]: height at which the transaction of r is mined (0: not) and its status
    mempool,   \* requests whose transaction is pending
    location,  \* location[t]: where token t is on the chain
    failures,  \* failures so far
    reqs,      \* rows of nft_mint_requests and nft_withdrawal_requests
    tokenOf,   \* tokenOf[k]: the token of withdrawal request k
    holdings,  \* rows of nft_holdings, by token
    returned,  \* withdrawn tokens that the watcher has credited again
    transfers, \* idempotency keys in nft_transfers
    next,      \* next_nonce of the hot wallet
    lock,      \* the loop that holds the lock of the nonce row
    pc,        \* pc[l]: next step of loop l
    todo,      \* todo[l]: requests the phase of l still has to visit
    buffer,    \* buffer[l]: rows the phase of l will write
    read,      \* read[l]: what the phase of l read from the chain first
    call       \* call[c]: progress of an API call

chainVars == <<height, mined, mempool, location>>
apiVars == <<transfers, call>>
loopVars == <<pc, todo, buffer, read>>
vars == <<height, mined, mempool, location, failures, reqs, tokenOf, holdings, returned,
          transfers, next, lock, pc, todo, buffer, read, call>>

Loops == {"minter", "withdrawer"}
Requests == Mints \cup Keys
Tokens == Mints \cup Deposited
Queue(l) == IF l = "minter" THEN Mints ELSE Keys

Larger(a, b) == IF a <= b THEN b ELSE a

NoNonce == -1
NoBlock == -1
Free == "free"
NoHolding == [user |-> NoUser, status |-> "none"]

-----------------------------------------------------------------------------
(* The chain, as the calls of ChainClient show it.                           *)

\* latest_nonce.
Account == Cardinality({r \in Requests : mined[r].at # 0})

\* What pending_nonce may answer: one past the run of pending transactions.
PendingNonces ==
    {n \in Account..(Account + Cardinality(mempool)) :
        /\ \A i \in Account..(n - 1) : \E r \in mempool : reqs[r].nonce = i
        /\ ~\E r \in mempool : reqs[r].nonce = n}

Init ==
    /\ height = 0
    /\ mined = [r \in Requests |-> [at |-> 0, ok |-> FALSE]]
    /\ mempool = {}
    /\ location \in [Tokens -> {"nowhere", "deposit", "hot"}]
    /\ \A t \in Tokens : t \in Mints <=> location[t] = "nowhere"
    /\ failures = 0
    /\ reqs = [r \in Requests |-> [status |-> "none", nonce |-> NoNonce, since |-> NoBlock]]
    /\ tokenOf = [k \in Keys |-> CHOOSE t \in Tokens : TRUE]
    /\ holdings = [t \in Tokens |->
                    IF t \in Deposited THEN [user |-> UserOf[t], status |-> "held"] ELSE NoHolding]
    /\ returned = {} /\ transfers = {}
    /\ next = NoRow /\ lock = Free
    /\ pc = [l \in Loops |-> "sign"]
    /\ todo = [l \in Loops |-> {}]
    /\ buffer = [l \in Loops |-> {}]
    /\ read = [l \in Loops |-> 0]
    /\ call = [c \in Calls |-> "new"]

\* Where a successful transaction takes the token.
Destination(r) == IF r \in Mints THEN "hot" ELSE IF r \in ToDeposit THEN "deposit" ELSE "out"

TokenOfRequest(r) == IF r \in Mints THEN r ELSE tokenOf[r]

\* The status of the receipt: safeTransferFrom reverts unless the hot wallet has
\* the token.
Outcomes(r) ==
    IF r \in Keys /\ location[tokenOf[r]] # "hot" THEN {FALSE}
    ELSE IF r \in MayRevert THEN BOOLEAN ELSE {TRUE}

\* A block without, or with the next, transaction of the hot wallet.
Mine ==
    /\ height < MaxHeight
    /\ height' = height + 1
    /\ \/ UNCHANGED <<mined, mempool, location>>
       \/ \E r \in mempool : \E ok \in Outcomes(r) :
            /\ reqs[r].nonce = Account
            /\ mined' = [mined EXCEPT ![r] = [at |-> height + 1, ok |-> ok]]
            /\ mempool' = mempool \ {r}
            /\ location' = IF ok THEN [location EXCEPT ![TokenOfRequest(r)] = Destination(r)]
                           ELSE location
    /\ UNCHANGED <<failures, reqs, tokenOf, holdings, returned, apiVars, next, lock, loopVars>>

-----------------------------------------------------------------------------
(* The API process.                                                          *)

\* mint_nft on the chain.
MintNft(m) ==
    /\ reqs[m].status = "none"
    /\ reqs' = [reqs EXCEPT ![m].status = "requested"]
    /\ UNCHANGED <<chainVars, failures, tokenOf, holdings, returned, apiVars, next, lock, loopVars>>

\* The row of an idempotency key, in the table of its operation.
RowExists(c) ==
    IF CallOf[c].op = "transfer" THEN CallOf[c].key \in transfers
    ELSE reqs[CallOf[c].key].status # "none"

\* The look-up of the key at the start of transfer_nft and request_withdrawal; a
\* known key is answered from its row.  enforce_rate_limit may reject the rest
\* of request_withdrawal.
LookUpKey(c) ==
    /\ call[c] = "new"
    /\ \/ /\ ~RowExists(c)
          /\ call' = [call EXCEPT ![c] = "looked up"]
       \/ /\ RowExists(c) \/ CallOf[c].op = "withdraw"
          /\ call' = [call EXCEPT ![c] = "answered"]
    /\ UNCHANGED <<chainVars, failures, reqs, tokenOf, holdings, returned, transfers, next, lock,
                   loopVars>>

\* The holding is found whatever its status.
SelectHeldAnyStatus(c) == holdings[CallOf[c].token].user = CallOf[c].user

\* SELECT ... FOR UPDATE of the holding of this user that is HELD.
SelectHeld(c) == holdings[CallOf[c].token] = [user |-> CallOf[c].user, status |-> "held"]

\* No HELD holding: the key is looked up again, or the call answers 404.  An
\* INSERT that violates the unique key rolls back and answers from the row.
Refused(c) ==
    /\ call[c] = "looked up"
    /\ ~SelectHeld(c) \/ RowExists(c)
    /\ call' = [call EXCEPT ![c] = "answered"]
    /\ UNCHANGED <<chainVars, failures, reqs, tokenOf, holdings, returned, transfers, next, lock,
                   loopVars>>

\* transfer_nft: the claim changes hands; nothing is sent.
TransferNft(c) ==
    /\ call[c] = "looked up" /\ CallOf[c].op = "transfer"
    /\ SelectHeld(c) /\ ~RowExists(c)
    /\ holdings' = [holdings EXCEPT ![CallOf[c].token].user = CallOf[c].to]
    /\ transfers' = transfers \cup {CallOf[c].key}
    /\ call' = [call EXCEPT ![c] = "answered"]
    /\ UNCHANGED <<chainVars, failures, reqs, tokenOf, returned, next, lock, loopVars>>

\* request_withdrawal: the holding is WITHDRAWING and the request is queued.
RequestWithdrawal(c) ==
    /\ call[c] = "looked up" /\ CallOf[c].op = "withdraw"
    /\ SelectHeld(c) /\ ~RowExists(c)
    /\ holdings' = [holdings EXCEPT ![CallOf[c].token].status = "withdrawing"]
    /\ reqs' = [reqs EXCEPT ![CallOf[c].key].status = "requested"]
    /\ tokenOf' = [tokenOf EXCEPT ![CallOf[c].key] = CallOf[c].token]
    /\ call' = [call EXCEPT ![c] = "answered"]
    /\ UNCHANGED <<chainVars, failures, returned, transfers, next, lock, loopVars>>

\* A withdrawn token has arrived at a deposit address deep enough, and a pass of
\* the watcher credits it: _upsert_holding makes it HELD, whatever it was.
CreditRedeposit(k) ==
    LET t == tokenOf[k]
    IN  /\ k \in ToDeposit /\ mined[k].ok /\ height - mined[k].at >= Confirmations
        /\ t \notin returned
        /\ returned' = returned \cup {t}
        /\ holdings' = [holdings EXCEPT ![t] = [user |-> Depositor, status |-> "held"]]
        /\ UNCHANGED <<chainVars, failures, reqs, tokenOf, apiVars, next, lock, loopVars>>

-----------------------------------------------------------------------------
(* Sign phase of a loop: sign_pending_mints, sign_pending_withdrawals.       *)

\* A request that is signed already is claimed again.
PendingAgain(l) == {r \in Queue(l) : reqs[r].status \in {"requested", "signing"}}

\* The query of _claim_pending.
Pending(l) == {r \in Queue(l) : reqs[r].status = "requested"}

Goto(l, label) == pc' = [pc EXCEPT ![l] = label]

\* Start of a phase that visits the requests S and has read x.
StartPhase(l, label, S, x) ==
    /\ Goto(l, label)
    /\ todo' = [todo EXCEPT ![l] = S]
    /\ buffer' = [buffer EXCEPT ![l] = {}]
    /\ read' = [read EXCEPT ![l] = x]

Signing(l) == {r \in Queue(l) : reqs'[r].status = "signing"}

\* Nothing is claimed: the nonce row is not read.  A pass that finds no request to
\* broadcast or confirm either changes nothing and is left out.
SignNothing(l) ==
    /\ pc[l] = "sign" /\ Pending(l) = {}
    /\ \E r \in Queue(l) : reqs[r].status \in {"signing", "broadcast"}
    /\ UNCHANGED reqs
    /\ StartPhase(l, "broadcast", Signing(l), 0)
    /\ UNCHANGED <<chainVars, failures, tokenOf, holdings, returned, apiVars, next, lock>>

\* _claim_pending and the first SELECT of nonce_row, which waits for the lock and
\* takes it; there is no lock to take when there is no row.
SelectNonceRow(l) ==
    /\ pc[l] = "sign" /\ Pending(l) # {}
    /\ lock = Free
    /\ lock' = IF next = NoRow THEN lock ELSE l
    /\ StartPhase(l, "pending nonce", Pending(l), 0)
    /\ UNCHANGED <<chainVars, failures, reqs, tokenOf, holdings, returned, apiVars, next>>

\* pending_nonce.
ReadPendingNonce(l) ==
    /\ pc[l] = "pending nonce"
    /\ \E n \in PendingNonces : read' = [read EXCEPT ![l] = n]
    /\ Goto(l, "write")
    /\ UNCHANGED <<chainVars, failures, reqs, tokenOf, holdings, returned, apiVars, next, lock,
                   todo, buffer>>

\* The loser of the race to create the row goes on with the nonce it read.
NextNonceLoser(l) == IF lock = l THEN Larger(next, read[l]) ELSE read[l]

\* The rest of nonce_row: the row is created, or, locked since the SELECT or
\* selected again by the loser of the race to create it, follows the chain.
NextNonce(l) == IF next = NoRow THEN read[l] ELSE Larger(next, read[l])

\* The signing loop and its commit, for the requests S that can be signed: they
\* take consecutive nonces; the others stay REQUESTED.
SignAndCommit(l) ==
    /\ pc[l] = "write"
    /\ lock \in {Free, l}
    /\ \E S \in SUBSET todo[l] : \E nonce \in [S -> NextNonce(l)..(NextNonce(l) + Cardinality(S) - 1)] :
        /\ \A r, q \in S : nonce[r] = nonce[q] => r = q
        /\ failures' = failures + Cardinality(todo[l] \ S)
        /\ failures' <= MaxFailures
        /\ reqs' = [r \in Requests |->
                        IF r \in S THEN [reqs[r] EXCEPT !.status = "signing", !.nonce = nonce[r]]
                        ELSE reqs[r]]
        /\ next' = NextNonce(l) + Cardinality(S)
    /\ lock' = Free
    /\ StartPhase(l, "broadcast", Signing(l), 0)
    /\ UNCHANGED <<chainVars, tokenOf, holdings, returned, apiVars>>

-----------------------------------------------------------------------------
(* Broadcast phase: broadcast_signed_mints, broadcast_signed_withdrawals.    *)

\* broadcast_raw for every SIGNING request and the commit of the phase.  For those
\* in Sent the call returns.  For the others it raises, after a node took the
\* transaction (Taken) or before; they stay SIGNING for the next pass, and so
\* does every one when the worker fails before the commit.  The confirm phase
\* starts with one head for all requests.
Broadcast(l) ==
    /\ pc[l] = "broadcast"
    /\ \E Taken \in SUBSET todo[l] : \E Sent \in SUBSET Taken :
        /\ failures' = failures + Cardinality(todo[l] \ Sent)
        /\ failures' <= MaxFailures
        /\ mempool' = mempool \cup {r \in Taken : mined[r].at = 0}
        /\ reqs' = [r \in Requests |->
                        IF r \in Sent THEN [reqs[r] EXCEPT !.status = "broadcast"] ELSE reqs[r]]
    /\ StartPhase(l, "confirm", {r \in Queue(l) : reqs'[r].status = "broadcast"}, height)
    /\ UNCHANGED <<height, mined, location, tokenOf, holdings, returned, apiVars, next, lock>>

-----------------------------------------------------------------------------
(* Confirm phase: confirm_mints, confirm_withdrawals.                        *)

\* The loop with a receipt: its depth, measured from the head read before the
\* loop, the hash of its block, its status and, for a mint, its Transfer log.
Decide(r, head) ==
    IF head - mined[r].at < Confirmations THEN "unmark"
    ELSE IF mined[r].ok THEN "confirmed" ELSE "failed"

\* A request whose receipt was missing and whose nonce is still to be compared.
Unmined(l) == {r \in Requests : <<r, "unmined">> \in buffer[l]}

\* get_receipt for the next request, and the rest of the loop when there is one.
ReadReceipt(l, r) ==
    /\ pc[l] = "confirm" /\ r \in todo[l] /\ Unmined(l) = {}
    /\ buffer' = [buffer EXCEPT ![l] = @ \cup
                    {<<r, IF mined[r].at = 0 THEN "unmined" ELSE Decide(r, read[l])>>}]
    /\ todo' = [todo EXCEPT ![l] = @ \ {r}]
    /\ UNCHANGED <<chainVars, failures, reqs, tokenOf, holdings, returned, apiVars, next, lock,
                   pc, read>>

\* Dropped as soon as the nonce is found used.
ReconcileAtOnce(r, head) == IF Account <= reqs[r].nonce THEN "unmark" ELSE "failed"

\* _reconcile_unmined: what latest_nonce says of a request without a receipt.
Reconcile(r, head) ==
    IF Account <= reqs[r].nonce THEN "unmark"
    ELSE IF reqs[r].since = NoBlock THEN "mark"
    ELSE IF head - reqs[r].since >= Confirmations THEN "failed"
    ELSE "wait"

ReconcileUnmined(l) ==
    /\ pc[l] = "confirm"
    /\ \E r \in Unmined(l) :
        buffer' = [buffer EXCEPT ![l] =
                    (@ \ {<<r, "unmined">>}) \cup {<<r, Reconcile(r, read[l])>>}]
    /\ UNCHANGED <<chainVars, failures, reqs, tokenOf, holdings, returned, apiVars, next, lock,
                   pc, todo, read>>

\* What a decision writes to the row of the request.  The marker of a resolved
\* one is not read again.
Written(r, decided, head) ==
    IF decided \in {"confirmed", "failed"} THEN [reqs[r] EXCEPT !.status = decided]
    ELSE [reqs[r] EXCEPT !.since = IF decided = "unmark" THEN NoBlock
                                   ELSE IF decided = "mark" THEN head ELSE @]

\* _record_holding: the minted token is held by the user of its request.
RecordHolding(t) == [user |-> UserOf[t], status |-> "held"]

\* _mark_withdrawn: whatever status the holding had.
MarkWithdrawn(holding) == [holding EXCEPT !.status = "withdrawn"]

\* _fail_and_release: whatever status the holding had.
FailAndRelease(holding) == [holding EXCEPT !.status = "held"]

\* A withdrawal of token t is decided.
Decided(l, t, decision) == \E k \in Keys : tokenOf[k] = t /\ <<k, decision>> \in buffer[l]

\* What the decisions of a phase make of the holding of a token.
HoldingAfter(holding, t, l) ==
    IF <<t, "confirmed">> \in buffer[l] THEN RecordHolding(t)
    ELSE IF Decided(l, t, "confirmed") THEN MarkWithdrawn(holding)
    ELSE IF Decided(l, t, "failed") THEN FailAndRelease(holding)
    ELSE holding

CommitConfirm(l) ==
    /\ pc[l] = "confirm" /\ todo[l] = {} /\ Unmined(l) = {}
    /\ reqs' = [r \in Requests |->
                    IF \E d \in buffer[l] : d[1] = r
                    THEN Written(r, (CHOOSE d \in buffer[l] : d[1] = r)[2], read[l])
                    ELSE reqs[r]]
    /\ holdings' = [t \in Tokens |-> HoldingAfter(holdings[t], t, l)]
    /\ StartPhase(l, "sign", {}, 0)
    /\ UNCHANGED <<chainVars, failures, tokenOf, returned, apiVars, next, lock>>

\* The lock outlives the phase that fails.
FailKeepsLock(l) ==
    /\ failures < MaxFailures
    /\ pc[l] # "sign"
    /\ failures' = failures + 1
    /\ StartPhase(l, "sign", {}, 0)
    /\ UNCHANGED <<chainVars, reqs, tokenOf, holdings, returned, apiVars, next, lock>>

\* An exception or a crash: the phase is rolled back, its lock released, and a
\* new pass starts.
Fail(l) ==
    /\ failures < MaxFailures
    /\ pc[l] # "sign"
    /\ failures' = failures + 1
    /\ lock' = IF lock = l THEN Free ELSE lock
    /\ StartPhase(l, "sign", {}, 0)
    /\ UNCHANGED <<chainVars, reqs, tokenOf, holdings, returned, apiVars, next>>

Work(l) ==
    \/ SignNothing(l) \/ SelectNonceRow(l) \/ ReadPendingNonce(l) \/ SignAndCommit(l)
    \/ Broadcast(l)
    \/ (\E r \in Requests : ReadReceipt(l, r)) \/ ReconcileUnmined(l)
    \/ CommitConfirm(l)

Api(c) == LookUpKey(c) \/ Refused(c) \/ TransferNft(c) \/ RequestWithdrawal(c)

Next ==
    \/ Mine
    \/ \E m \in Mints : MintNft(m)
    \/ \E c \in Calls : Api(c)
    \/ \E k \in Keys : CreditRedeposit(k)
    \/ \E l \in Loops : Work(l)
    \/ \E l \in Loops : Fail(l)

Spec == Init /\ [][Next]_vars

\* Blocks are mined with the transactions that are pending, and every loop of the
\* worker keeps taking its steps.
FairSpec == Spec /\ WF_vars(Mine) /\ \A l \in Loops : WF_vars(Work(l))

-----------------------------------------------------------------------------
(* Properties.                                                               *)

Decisions == {"unmined", "unmark", "mark", "wait", "confirmed", "failed"}

\* Type correctness; only a loop in its sign phase has the lock.
TypeOK ==
    /\ height \in 0..MaxHeight /\ failures \in 0..MaxFailures
    /\ mined \in [Requests -> [at : 0..MaxHeight, ok : BOOLEAN]]
    /\ mempool \subseteq Requests
    /\ location \in [Tokens -> {"nowhere", "hot", "out", "deposit"}]
    /\ reqs \in [Requests -> [status : {"none", "requested", "signing", "broadcast",
                                        "confirmed", "failed"},
                              nonce : Int, since : Int]]
    /\ tokenOf \in [Keys -> Tokens]
    /\ holdings \in [Tokens -> [user : Users \cup {NoUser},
                               status : {"none", "held", "withdrawing", "withdrawn"}]]
    /\ returned \subseteq Tokens
    /\ next \in Nat \cup {NoRow}
    /\ lock \in Loops \cup {Free}
    /\ \A l \in Loops : lock = l => pc[l] \in {"pending nonce", "write"}
    /\ pc \in [Loops -> {"sign", "pending nonce", "write", "broadcast", "confirm"}]
    /\ todo \in [Loops -> SUBSET Requests]
    /\ buffer \in [Loops -> SUBSET (Requests \X Decisions)]
    /\ read \in [Loops -> Int]
    /\ call \in [Calls -> {"new", "looked up", "answered"}]

Signed == {r \in Requests : reqs[r].nonce # NoNonce}

\* The nonces below the next one are those of the signed requests of both loops,
\* each of one request: no two transactions fight for a nonce and none waits
\* for a nonce that nobody will use, although the loops race to create the row.
NoncesGapFree ==
    /\ \A r, q \in Signed : reqs[r].nonce = reqs[q].nonce => r = q
    /\ {reqs[r].nonce : r \in Signed} = IF next = NoRow THEN {} ELSE 0..(next - 1)

Open(k) == reqs[k].status \in {"requested", "signing", "broadcast"}

\* The user whose call created, or will create, request k.
Requester(k) ==
    CallOf[CHOOSE c \in Calls : CallOf[c].op = "withdraw" /\ CallOf[c].key = k].user

\* A holding is WITHDRAWING exactly while one request for its token is open, and
\* belongs to the user of that request: a token is not withdrawn twice, nor
\* withdrawn and given away, whatever calls overlap and whichever loop fails,
\* unless the token came back to a deposit address.
WithdrawingIsOpen ==
    \A t \in Tokens \ returned :
        LET open == {k \in Keys : Open(k) /\ tokenOf[k] = t}
        IN  /\ Cardinality(open) <= 1
            /\ open # {} <=> holdings[t].status = "withdrawing"
            /\ \A k \in open : holdings[t].user = Requester(k)

\* A HELD token is in custody, a WITHDRAWN one was sent away by its confirmed
\* request, a minted one has a holding exactly when its mint is confirmed, and
\* a FAILED request moved nothing.
CustodyMatchesHoldings ==
    /\ \A t \in Tokens \ returned :
        /\ holdings[t].status = "held" => location[t] \in {"hot", "deposit"}
        /\ holdings[t].status = "withdrawn" =>
                \E k \in Keys : tokenOf[k] = t /\ reqs[k].status = "confirmed" /\ mined[k].ok
        /\ t \in Mints => (holdings[t].status = "none" <=> reqs[t].status # "confirmed")
    /\ \A r \in Requests : reqs[r].status = "failed" => ~mined[r].ok

\* A withdrawn token that comes back to a deposit address of the service and is
\* credited there is held in the end.
RedepositIsHeld == <>[](\A t \in returned : holdings[t].status = "held")

Phase(status) ==
    CASE status = "none" -> "none"
      [] status = "requested" -> "open"
      [] status \in {"signing", "broadcast"} -> "signed"
      [] status = "confirmed" -> "paid"
      [] status = "failed" -> "refunded"

Abstract == INSTANCE Outbox WITH
    phase <- [r \in Requests |-> Phase(reqs[r].status)],
    nonce <- [r \in Requests |-> reqs[r].nonce]

\* The two loops together are one outbox: every mint and every withdrawal is
\* signed once, with its own nonce, and resolved once.
ImplementsOutbox == Abstract!Spec
=============================================================================
