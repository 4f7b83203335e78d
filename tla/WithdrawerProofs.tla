--------------------------- MODULE WithdrawerProofs ---------------------------
(***************************************************************************)
(* Proofs about Withdrawer, for every value of its constants.              *)
(***************************************************************************)
EXTENDS Withdrawer, FiniteSetTheorems, SequenceTheorems, TLAPS

-----------------------------------------------------------------------------
(* What the calls of the chain client return.                                *)

\* A head is a height.
LEMMA HeadsType == ASSUME NEW v \in Heads PROVE v \in Nat
    BY DEF Heads

\* The account nonce at a height is a natural number.
LEMMA LatestNonceType == ASSUME NEW n \in Nat PROVE LatestNonce(n) \in Nat
<1>1. IsFiniteSet(1..n)
    BY FS_Interval
<1>2. {h \in 1..n : chain[h].txs # {}} \in SUBSET (1..n)
    OBVIOUS
<1>3. IsFiniteSet({h \in 1..n : chain[h].txs # {}})
    BY <1>1, <1>2, FS_Subset, Zenon
<1> QED BY <1>3, FS_CardinalityType DEF LatestNonce

\* So is every answer of pending_nonce.
LEMMA PendingNoncesType ==
    ASSUME TypeOK, NEW n \in PendingNonces
    PROVE  n \in Nat
<1>1. Account \in Nat
    BY LatestNonceType, LenProperties DEF Account, TypeOK
<1>2. CASE n \in Reachable
    BY <1>1, <1>2 DEF Reachable
<1>3. CASE \E v \in Heads : n = LatestNonce(v)
    BY <1>3, HeadsType, LatestNonceType
<1> QED BY <1>2, <1>3 DEF PendingNonces

-----------------------------------------------------------------------------
(* Type correctness.                                                         *)

LEMMA TypeInit == Init => TypeOK
<1> SUFFICES ASSUME Init PROVE TypeOK
    OBVIOUS
<1>1. db \in Databases
    BY DEF Init, Databases, Rows, Statuses, NoNonce, NoBlock
<1> QED BY <1>1, WithdrawerAssumption, EmptySeq DEF Init, TypeOK

LEMMA TypeMine == TypeOK /\ Mine => TypeOK'
<1> SUFFICES ASSUME TypeOK, Mine PROVE TypeOK'
    OBVIOUS
<1>1. ASSUME chain' = Append(chain, [salt |-> reorgs, txs |-> {}])
      PROVE  chain' \in Seq(Blocks)
    <2>1. [salt |-> reorgs, txs |-> {}] \in Blocks
        BY DEF TypeOK, Blocks
    <2> QED BY <1>1, <2>1, AppendProperties DEF TypeOK
<1>2. ASSUME \E tx \in mempool, ok \in BOOLEAN :
                chain' = Append(chain, [salt |-> reorgs,
                                        txs |-> {[who |-> tx.who, nonce |-> tx.nonce, ok |-> ok]}])
      PROVE  chain' \in Seq(Blocks)
    <2>1. PICK tx \in mempool, ok \in BOOLEAN :
            chain' = Append(chain, [salt |-> reorgs,
                                    txs |-> {[who |-> tx.who, nonce |-> tx.nonce, ok |-> ok]}])
        BY <1>2
    <2>2. [who |-> tx.who, nonce |-> tx.nonce, ok |-> ok]
            \in [who : Senders, nonce : Int, ok : BOOLEAN]
        BY DEF TypeOK, PendingTxs
    <2>3. [salt |-> reorgs, txs |-> {[who |-> tx.who, nonce |-> tx.nonce, ok |-> ok]}] \in Blocks
        BY <2>2 DEF TypeOK, Blocks
    <2> QED BY <2>1, <2>3, AppendProperties DEF TypeOK
<1>3. mempool' \subseteq PendingTxs
    BY DEF Mine, TypeOK
<1>4. chain' \in Seq(Blocks)
    BY <1>1, <1>2 DEF Mine
<1> QED BY <1>3, <1>4 DEF TypeOK, Mine, workerVars

LEMMA TypeReorg == TypeOK /\ Reorg => TypeOK'
<1> SUFFICES ASSUME TypeOK, Reorg PROVE TypeOK'
    OBVIOUS
<1>1. PICK n \in 0..(Len(chain) - 1) :
        /\ chain' = [h \in 1..Len(chain) |->
                        IF h <= n THEN chain[h] ELSE [salt |-> reorgs + 1, txs |-> {}]]
        /\ mempool' = mempool \cup
                {[who |-> tx.who, nonce |-> tx.nonce] : tx \in UNION {chain[h].txs : h \in (n + 1)..Len(chain)}}
    BY DEF Reorg
<1>2. Len(chain) \in Nat /\ \A h \in 1..Len(chain) : chain[h] \in Blocks
    BY LenProperties, ElementOfSeq DEF TypeOK
<1>3. \A h \in 1..Len(chain) :
        (IF h <= n THEN chain[h] ELSE [salt |-> reorgs + 1, txs |-> {}]) \in Blocks
    BY <1>2 DEF TypeOK, Blocks
<1>4. chain' \in [1..Len(chain) -> Blocks]
    BY <1>1, <1>3
<1>5. chain' \in Seq(Blocks)
    BY <1>2, <1>4
<1>6. mempool' \subseteq PendingTxs
    <2>1. \A tx \in UNION {chain[h].txs : h \in (n + 1)..Len(chain)} :
            [who |-> tx.who, nonce |-> tx.nonce] \in PendingTxs
        BY <1>2 DEF Blocks, PendingTxs
    <2> QED BY <1>1, <2>1 DEF TypeOK
<1>7. reorgs' \in 0..MaxReorgs
    BY WithdrawerAssumption DEF TypeOK, Reorg
<1> QED BY <1>5, <1>6, <1>7 DEF TypeOK, Reorg, workerVars

LEMMA TypeForeign == ASSUME TypeOK, NEW f \in Foreign, SendForeign(f) PROVE TypeOK'
<1>1. Account \in Nat
    BY LatestNonceType, LenProperties DEF Account, TypeOK
<1>2. mempool' \subseteq PendingTxs
    BY <1>1 DEF TypeOK, SendForeign, PendingTxs, Senders, Reachable
<1> QED BY <1>2 DEF TypeOK, SendForeign, workerVars

LEMMA TypeEvict == TypeOK /\ Evict => TypeOK'
    BY WithdrawerAssumption DEF TypeOK, Evict, workerVars

-----------------------------------------------------------------------------
(* The steps of a phase change one request at a time.                        *)

\* e differs from d at most in the status and the marker of r and in the keys.
Touches(d, e, r) ==
    /\ e \in Databases
    /\ e.next = d.next
    /\ \A q \in Requests : e.reqs[q].nonce = d.reqs[q].nonce
    /\ \A q \in Requests \ {r} : e.reqs[q] = d.reqs[q]

\* The marker is set or cleared.
LEMMA MarkTouches ==
    ASSUME NEW d \in Databases, NEW r \in Requests, NEW n \in Int
    PROVE  /\ Touches(d, [d EXCEPT !.reqs[r].since = n], r)
           /\ [d EXCEPT !.reqs[r].since = n].posted = d.posted
           /\ [d EXCEPT !.reqs[r].since = n].reqs[r].status = d.reqs[r].status
<1>1. [d.reqs[r] EXCEPT !.since = n] \in Rows
    BY DEF Databases, Rows
<1> QED BY <1>1 DEF Touches, Databases, Rows

\* The status changes.
LEMMA StatusTouches ==
    ASSUME NEW d \in Databases, NEW r \in Requests, NEW st \in Statuses
    PROVE  /\ Touches(d, [d EXCEPT !.reqs[r].status = st], r)
           /\ [d EXCEPT !.reqs[r].status = st].posted = d.posted
           /\ [d EXCEPT !.reqs[r].status = st].reqs[r].status = st
<1>1. [d.reqs[r] EXCEPT !.status = st] \in Rows
    BY DEF Databases, Rows
<1> QED BY <1>1 DEF Touches, Databases, Rows

\* _settle posts the settlement and nothing else.
LEMMA SettleTouches ==
    ASSUME NEW d \in Databases, NEW r \in Requests
    PROVE  /\ Touches(d, Settle(d, r), r)
           /\ Settle(d, r).posted = d.posted \cup {SettleKey(r)}
           /\ Settle(d, r).reqs[r].status = "confirmed"
<1>1. [d.reqs[r] EXCEPT !.status = "confirmed"] \in Rows
    BY DEF Databases, Rows, Statuses
<1>2. d.posted \cup {SettleKey(r)} \subseteq {"settle", "reverse"} \X Requests
    BY DEF Databases, SettleKey
<1> QED BY <1>1, <1>2 DEF Touches, Databases, Rows, Settle

\* _reverse_reservation posts the reversal and nothing else.
LEMMA ReverseTouches ==
    ASSUME NEW d \in Databases, NEW r \in Requests
    PROVE  /\ Touches(d, ReverseReservation(d, r), r)
           /\ ReverseReservation(d, r).posted = d.posted \cup {ReverseKey(r)}
           /\ ReverseReservation(d, r).reqs[r].status = "failed"
<1>1. [d.reqs[r] EXCEPT !.status = "failed"] \in Rows
    BY DEF Databases, Rows, Statuses
<1>2. d.posted \cup {ReverseKey(r)} \subseteq {"settle", "reverse"} \X Requests
    BY DEF Databases, ReverseKey
<1> QED BY <1>1, <1>2 DEF Touches, Databases, Rows, ReverseReservation

\* What a step of the confirm phase does to a BROADCAST request: it stays
\* BROADCAST without a key, or it is settled or reversed with one.
Resolves(d, e, r) ==
    /\ Touches(d, e, r)
    /\ \/ e.posted = d.posted /\ e.reqs[r].status = d.reqs[r].status
       \/ e.posted = d.posted \cup {SettleKey(r)} /\ e.reqs[r].status = "confirmed"
       \/ e.posted = d.posted \cup {ReverseKey(r)} /\ e.reqs[r].status = "failed"

LEMMA ReconcileResolves ==
    ASSUME NEW d \in Databases, NEW r \in Requests, NEW latest \in Int, head \in Nat
    PROVE  Resolves(d, Reconcile(d, r, latest), r)
<1>1. NoBlock \in Int /\ head \in Int
    BY DEF NoBlock
<1>2. \/ Reconcile(d, r, latest) = [d EXCEPT !.reqs[r].since = NoBlock]
      \/ Reconcile(d, r, latest) = [d EXCEPT !.reqs[r].since = head]
      \/ Reconcile(d, r, latest) = ReverseReservation(d, r)
      \/ Reconcile(d, r, latest) = d
    BY DEF Reconcile
<1>3. Touches(d, d, r)
    BY DEF Touches
<1>4. \A n \in Int : Resolves(d, [d EXCEPT !.reqs[r].since = n], r)
    BY MarkTouches, Zenon DEF Resolves
<1>5. Resolves(d, ReverseReservation(d, r), r) /\ Resolves(d, d, r)
    BY <1>3, ReverseTouches, Zenon DEF Resolves
<1> QED BY <1>1, <1>2, <1>4, <1>5

\* Clearing the marker first changes nothing of that.
LEMMA ClearedResolves ==
    ASSUME NEW d \in Databases, NEW r \in Requests
    PROVE  LET cleared == [d EXCEPT !.reqs[r].since = NoBlock]
           IN  /\ Resolves(d, cleared, r)
               /\ Resolves(d, Settle(cleared, r), r)
               /\ Resolves(d, ReverseReservation(cleared, r), r)
<1> DEFINE cleared == [d EXCEPT !.reqs[r].since = NoBlock]
<1>1. /\ Touches(d, cleared, r) /\ cleared.posted = d.posted
      /\ cleared.reqs[r].status = d.reqs[r].status
    BY MarkTouches DEF NoBlock
<1> HIDE DEF cleared
<1>2. cleared \in Databases
    BY <1>1 DEF Touches
<1>3. \A e : Touches(cleared, e, r) => Touches(d, e, r)
    BY <1>1 DEF Touches
<1>4. Resolves(d, cleared, r)
    BY <1>1 DEF Resolves
<1>5. Resolves(d, Settle(cleared, r), r)
    BY <1>1, <1>2, <1>3, SettleTouches DEF Resolves
<1>6. Resolves(d, ReverseReservation(cleared, r), r)
    BY <1>1, <1>2, <1>3, ReverseTouches DEF Resolves
<1> QED BY <1>4, <1>5, <1>6 DEF cleared

-----------------------------------------------------------------------------
(* The inductive invariant.                                                  *)

\* A nonce that is assigned lies below the next one, and only one request has it.
NonceInv ==
    /\ \A r \in Requests : Signed(db, r) => /\ db.next \in Nat
                                            /\ db.reqs[r].nonce < db.next
    /\ NonceUnique

\* Inside a phase the session assigns no nonce and knows no request the database
\* does not; what the phase still has to visit is SIGNING, or BROADCAST.
PhaseInv ==
    /\ session.next = db.next
    /\ \A r \in Requests : session.reqs[r].nonce = db.reqs[r].nonce
    /\ \A r \in Requests : db.reqs[r].status = "none" => session.reqs[r].status = "none"
    /\ pc = "broadcast" => \A r \in todo : session.reqs[r].status = "signing"
    /\ pc \in {"confirm", "decide"} => \A r \in todo : session.reqs[r].status = "broadcast"
    /\ pc = "decide" => /\ session.reqs[current.req].status = "broadcast"
                        /\ current.req \notin todo

WithdrawerInv == TypeOK /\ Outcome(db) /\ Outcome(session) /\ NonceInv /\ PhaseInv

LEMMA InvInit == Init => WithdrawerInv
<1> SUFFICES ASSUME Init PROVE WithdrawerInv
    OBVIOUS
<1>1. Outcome(db) /\ Outcome(session)
    BY DEF Init, Outcome
<1>2. NonceInv /\ PhaseInv
    BY DEF Init, NonceInv, NonceUnique, PhaseInv, Signed
<1> QED BY <1>1, <1>2, TypeInit DEF WithdrawerInv

\* The chain moves: the worker's part of the state is untouched.
LEMMA InvChain ==
    ASSUME WithdrawerInv, TypeOK', UNCHANGED workerVars
    PROVE  WithdrawerInv'
    BY DEF WithdrawerInv, workerVars, Outcome, NonceInv, NonceUnique, Signed, PhaseInv

LEMMA InvCreate ==
    ASSUME WithdrawerInv, NEW r \in Requests, CreateWithdrawal(r)
    PROVE  WithdrawerInv'
<1>1. /\ db \in Databases /\ session \in Databases /\ "requested" \in Statuses
      /\ db.reqs[r].status = "none" /\ session.reqs[r].status = "none"
    BY DEF WithdrawerInv, TypeOK, PhaseInv, CreateWithdrawal, Statuses
<1>2. /\ Touches(db, db', r) /\ db'.posted = db.posted /\ db'.reqs[r].status = "requested"
      /\ Touches(session, session', r) /\ session'.posted = session.posted
      /\ session'.reqs[r].status = "requested"
    BY <1>1, StatusTouches DEF CreateWithdrawal
<1>3. TypeOK'
    BY <1>2 DEF WithdrawerInv, TypeOK, CreateWithdrawal, chainVars, Touches
<1>4. Outcome(db)' /\ Outcome(session)'
    BY <1>1, <1>2 DEF WithdrawerInv, Outcome, Touches
<1>5. NonceInv'
    BY <1>2 DEF WithdrawerInv, NonceInv, NonceUnique, Signed, Touches
<1>6. PhaseInv'
    <2>1. pc' = pc /\ todo' = todo /\ current' = current
        BY DEF CreateWithdrawal
    <2>2. /\ pc \in {"broadcast", "confirm", "decide"} => r \notin todo
          /\ pc = "decide" => current.req # r /\ current.req \in Requests
        BY <1>1 DEF WithdrawerInv, PhaseInv, TypeOK
    <2> QED BY <1>2, <2>1, <2>2 DEF WithdrawerInv, TypeOK, PhaseInv, Touches
<1> QED BY <1>3, <1>4, <1>5, <1>6 DEF WithdrawerInv

\* sign_pending: every nonce it assigns lies between the old and the new value of
\* the row, and no request had one there.
LEMMA InvSign == WithdrawerInv /\ SignPending => WithdrawerInv'
<1> SUFFICES ASSUME WithdrawerInv, SignPending PROVE WithdrawerInv'
    OBVIOUS
<1>1. PICK claimed \in Claims, chainNonce \in PendingNonces :
       \E signed \in SUBSET (claimed \ Unsignable) :
       \E nonce \in [signed -> NextNonce(chainNonce)..(NextNonce(chainNonce) + Cardinality(signed) - 1)] :
            SignBatch(claimed, NextNonce(chainNonce), signed, nonce)
    BY DEF SignPending
<1>2. PICK signed \in SUBSET (claimed \ Unsignable) :
       \E nonce \in [signed -> NextNonce(chainNonce)..(NextNonce(chainNonce) + Cardinality(signed) - 1)] :
            SignBatch(claimed, NextNonce(chainNonce), signed, nonce)
    BY <1>1
<1> DEFINE base == NextNonce(chainNonce)
           size == Cardinality(signed)
           refunded == claimed \cap Unsignable
<1>3. PICK nonce \in [signed -> base..(base + size - 1)] :
            SignBatch(claimed, base, signed, nonce)
    BY <1>2
<1>4. size \in Nat /\ Cardinality(claimed \ (signed \cup Unsignable)) \in Nat
    <2>1. /\ signed \in SUBSET Requests
          /\ claimed \ (signed \cup Unsignable) \in SUBSET Requests
        BY DEF Pendings, Claims
    <2>2. IsFiniteSet(signed) /\ IsFiniteSet(claimed \ (signed \cup Unsignable))
        BY <2>1, WithdrawerAssumption, FS_Subset, Zenon
    <2> QED BY <2>2, FS_CardinalityType
<1>5. base \in Nat /\ (db.next # NoRow => db.next \in Nat /\ db.next <= base)
    <2>1. chainNonce \in Nat
        BY PendingNoncesType DEF WithdrawerInv
    <2> QED BY <2>1 DEF NextNonce, Larger, WithdrawerInv, TypeOK, Databases
<1> HIDE DEF base, size
<1>6. \A r \in Requests :
        /\ r \in signed => /\ session'.reqs[r] = Sign(db.reqs[r], nonce[r])
                           /\ nonce[r] \in Int /\ base <= nonce[r] /\ nonce[r] < base + size
        /\ r \in refunded => session'.reqs[r] = [db.reqs[r] EXCEPT !.status = "failed"]
        /\ r \notin signed /\ r \notin refunded => session'.reqs[r] = db.reqs[r]
        /\ r \in signed \cup refunded => db.reqs[r].status = "requested" /\ ~(r \in signed /\ r \in refunded)
    BY <1>3, <1>4, <1>5 DEF Pendings, Claims, SignBatch
<1>7. \A r \in Requests :
        /\ session'.reqs[r] \in Rows
        /\ session'.reqs[r].status = IF r \in signed THEN "signing"
                                     ELSE IF r \in refunded THEN "failed" ELSE db.reqs[r].status
        /\ session'.reqs[r].nonce = IF r \in signed THEN nonce[r] ELSE db.reqs[r].nonce
    <2> TAKE r \in Requests
    <2>1. db.reqs[r] \in Rows
        BY DEF WithdrawerInv, TypeOK, Databases
    <2>2. CASE r \in signed
        BY <1>6, <2>1, <2>2 DEF Rows, Statuses, Sign
    <2>3. CASE r \in refunded /\ r \notin signed
        BY <1>6, <2>1, <2>3 DEF Rows, Statuses
    <2>4. CASE r \notin signed /\ r \notin refunded
        BY <1>6, <2>1, <2>4
    <2> QED BY <2>2, <2>3, <2>4
<1>8. /\ session'.posted = db.posted \cup {ReverseKey(r) : r \in refunded}
      /\ session'.next = base + size /\ db' = session' /\ pc' = "broadcast"
      /\ todo' = {r \in Requests : session'.reqs[r].status = "signing"}
    BY <1>3 DEF SignPending, SignBatch, NonceAfter, size
<1>9. session' \in Databases
    <2>1. session'.posted \subseteq {"settle", "reverse"} \X Requests
        BY <1>8 DEF WithdrawerInv, TypeOK, Databases, ReverseKey, Pendings, Claims
    <2>2. base + size \in Nat
        BY <1>4, <1>5
    <2> QED BY <1>3, <1>7, <1>8, <2>1, <2>2 DEF Databases, SignBatch
<1>10. TypeOK'
    BY <1>3, <1>4, <1>8, <1>9 DEF WithdrawerInv, TypeOK, SignPending, SignBatch, chainVars
<1>11. Outcome(session')
    BY <1>6, <1>7, <1>8 DEF WithdrawerInv, Outcome, SettleKey, ReverseKey
<1>12. NonceInv'
    <2>1. \A r \in Requests : Signed(session', r) => session'.reqs[r].nonce < base + size
        <3> TAKE r \in Requests
        <3>1. CASE r \in signed
            BY <3>1, <1>6, <1>7
        <3>2. ASSUME r \notin signed, Signed(session', r)
              PROVE  session'.reqs[r].nonce < base + size
            <4>1. Signed(db, r) /\ session'.reqs[r].nonce = db.reqs[r].nonce
                BY <3>2, <1>7 DEF Signed
            <4>2. db.next \in Nat /\ db.reqs[r].nonce < db.next /\ db.reqs[r].nonce \in Int
                BY <4>1 DEF WithdrawerInv, NonceInv, TypeOK, Databases, Rows
            <4> QED BY <4>1, <4>2, <1>4, <1>5, WithdrawerAssumption
        <3> QED BY <3>1, <3>2
    <2>2. ASSUME NEW r \in Requests, NEW q \in Requests, Signed(session', r),
                 session'.reqs[r].nonce = session'.reqs[q].nonce
          PROVE  r = q
        <3>1. CASE r \in signed /\ q \in signed
            <4>1. \A a, b \in signed : nonce[a] = nonce[b] => a = b
                BY <1>3 DEF SignBatch
            <4>2. session'.reqs[r].nonce = nonce[r] /\ session'.reqs[q].nonce = nonce[q]
                BY <3>1, <1>7
            <4> QED BY <2>2, <3>1, <4>1, <4>2
        <3>2. CASE r \notin signed /\ q \notin signed
            BY <2>2, <3>2, <1>7 DEF WithdrawerInv, NonceInv, NonceUnique, Signed
        <3>3. ASSUME NEW a \in Requests, NEW b \in Requests, a \in signed, b \notin signed,
                     session'.reqs[a].nonce = session'.reqs[b].nonce
              PROVE  FALSE
            <4>1. db.reqs[b].nonce = nonce[a] /\ nonce[a] \in Int /\ base <= nonce[a]
                BY <3>3, <1>6, <1>7
            <4>2. Signed(db, b)
                BY <4>1, <1>5 DEF Signed, NoNonce
            <4>3. db.next \in Nat /\ db.reqs[b].nonce < db.next /\ db.next # NoRow
                BY <4>2, WithdrawerAssumption DEF WithdrawerInv, NonceInv
            <4> QED BY <4>1, <4>3, <1>5
        <3> QED BY <2>2, <3>1, <3>2, <3>3
    <2> QED BY <1>4, <1>5, <1>8, <2>1, <2>2 DEF NonceInv, NonceUnique, Signed
<1>13. PhaseInv'
    BY <1>8 DEF PhaseInv
<1> QED BY <1>8, <1>10, <1>11, <1>12, <1>13 DEF WithdrawerInv

\* sign_pending without work.
LEMMA InvSignNothing == WithdrawerInv /\ SignNothing => WithdrawerInv'
<1> SUFFICES ASSUME WithdrawerInv, SignNothing PROVE WithdrawerInv'
    OBVIOUS
<1>1. /\ session' = session /\ db' = db /\ session = db /\ pc' = "broadcast"
      /\ todo' = {r \in Requests : db.reqs[r].status = "signing"}
    BY DEF SignNothing, WithdrawerInv, TypeOK
<1>2. TypeOK'
    BY <1>1 DEF WithdrawerInv, TypeOK, SignNothing, chainVars
<1>3. PhaseInv'
    BY <1>1 DEF WithdrawerInv, PhaseInv
<1> QED BY <1>1, <1>2, <1>3 DEF WithdrawerInv, Outcome, NonceInv, NonceUnique, Signed

\* A broadcast adds at most the signed transaction to the mempool.
LEMMA SendType ==
    ASSUME TypeOK, NEW r \in Requests, Send(SignedTx(session, r)) \/ UNCHANGED mempool
    PROVE  mempool' \subseteq PendingTxs
<1>1. SignedTx(session, r) \in PendingTxs
    BY DEF TypeOK, Databases, Rows, SignedTx, PendingTxs, Senders
<1> QED BY <1>1 DEF Send, TypeOK

LEMMA InvBroadcastOk ==
    ASSUME WithdrawerInv, NEW r \in Requests, BroadcastOk(r)
    PROVE  WithdrawerInv'
<1>1. /\ session \in Databases /\ "broadcast" \in Statuses
      /\ pc = "broadcast" /\ r \in todo /\ session.reqs[r].status = "signing"
      /\ db' = db /\ pc' = pc /\ todo' = todo \ {r}
    BY DEF WithdrawerInv, TypeOK, PhaseInv, BroadcastOk, Statuses
<1>2. /\ Touches(session, session', r) /\ session'.posted = session.posted
      /\ session'.reqs[r].status = "broadcast"
    BY <1>1, StatusTouches DEF BroadcastOk
<1>3. TypeOK'
    <2>1. mempool' \subseteq PendingTxs
        BY SendType DEF BroadcastOk, WithdrawerInv
    <2> QED BY <1>1, <1>2, <2>1 DEF WithdrawerInv, TypeOK, BroadcastOk, Touches
<1>4. Outcome(session)'
    BY <1>1, <1>2 DEF WithdrawerInv, Outcome, Touches
<1>5. PhaseInv'
    BY <1>1, <1>2 DEF WithdrawerInv, TypeOK, PhaseInv, Touches
<1> QED BY <1>1, <1>3, <1>4, <1>5 DEF WithdrawerInv, Outcome, NonceInv, NonceUnique, Signed

LEMMA InvBroadcastError ==
    ASSUME WithdrawerInv, NEW r \in Requests, BroadcastError(r)
    PROVE  WithdrawerInv'
<1>1. /\ db' = db /\ session' = session /\ pc' = pc /\ todo' = todo \ {r} /\ pc = "broadcast"
      /\ failures' \in 0..MaxFailures
    BY WithdrawerAssumption DEF BroadcastError, WithdrawerInv, TypeOK
<1>2. TypeOK'
    <2>1. mempool' \subseteq PendingTxs
        BY SendType DEF BroadcastError, WithdrawerInv
    <2> QED BY <1>1, <2>1 DEF WithdrawerInv, TypeOK, BroadcastError
<1>3. PhaseInv'
    BY <1>1 DEF WithdrawerInv, PhaseInv
<1> QED BY <1>1, <1>2, <1>3 DEF WithdrawerInv, Outcome, NonceInv, NonceUnique, Signed

\* The commit of a phase publishes the session, which has the same nonces.
LEMMA CommitKeeps ==
    ASSUME WithdrawerInv, db' = session, session' = session
    PROVE  Outcome(db)' /\ Outcome(session)' /\ NonceInv'
    BY DEF WithdrawerInv, Outcome, NonceInv, NonceUnique, Signed, PhaseInv

LEMMA InvCommitBroadcast == WithdrawerInv /\ CommitBroadcast => WithdrawerInv'
<1> SUFFICES ASSUME WithdrawerInv, CommitBroadcast PROVE WithdrawerInv'
    OBVIOUS
<1>1. db' = session /\ session' = session /\ pc' = "head"
    BY DEF CommitBroadcast
<1>2. TypeOK'
    BY DEF WithdrawerInv, TypeOK, CommitBroadcast, chainVars
<1>3. PhaseInv'
    BY <1>1 DEF PhaseInv
<1> QED BY <1>1, <1>2, <1>3, CommitKeeps DEF WithdrawerInv

LEMMA InvReadHead == WithdrawerInv /\ ReadHead => WithdrawerInv'
<1> SUFFICES ASSUME WithdrawerInv, ReadHead PROVE WithdrawerInv'
    OBVIOUS
<1>1. /\ db' = db /\ session' = session /\ session = db /\ pc' = "confirm"
      /\ todo' = {r \in Requests : db.reqs[r].status = "broadcast"}
    BY DEF ReadHead, WithdrawerInv, TypeOK
<1>2. TypeOK'
    BY <1>1, HeadsType DEF WithdrawerInv, TypeOK, ReadHead, chainVars
<1>3. PhaseInv'
    BY <1>1 DEF WithdrawerInv, PhaseInv
<1> QED BY <1>1, <1>2, <1>3 DEF WithdrawerInv, Outcome, NonceInv, NonceUnique, Signed

LEMMA InvReadReceipt ==
    ASSUME WithdrawerInv, NEW r \in Requests, ReadReceipt(r)
    PROVE  WithdrawerInv'
<1>1. /\ db' = db /\ session' = session /\ pc' = "decide" /\ pc = "confirm"
      /\ r \in todo /\ todo' = todo \ {r}
    BY DEF ReadReceipt
<1>2. current'.req = r
    BY DEF ReadReceipt, Receipt, Nothing
<1>3. TypeOK'
    BY <1>1, <1>2 DEF WithdrawerInv, TypeOK, ReadReceipt, chainVars
<1>4. PhaseInv'
    BY <1>1, <1>2 DEF WithdrawerInv, PhaseInv
<1> QED BY <1>1, <1>3, <1>4 DEF WithdrawerInv, Outcome, NonceInv, NonceUnique, Signed

\* A request is decided: it stays BROADCAST, or it is settled or reversed.
LEMMA InvDecide ==
    ASSUME WithdrawerInv, pc = "decide", Resolves(session, session', current.req),
           pc' = "confirm", UNCHANGED <<chainVars, failures, db, todo, head>>
    PROVE  WithdrawerInv'
<1> DEFINE r == current.req
<1>1. /\ r \in Requests /\ r \notin todo /\ session.reqs[r].status = "broadcast"
      /\ session' \in Databases /\ db' = db /\ todo' = todo
    BY DEF WithdrawerInv, TypeOK, PhaseInv, Resolves, Touches
<1>2. Touches(session, session', r)
    BY DEF Resolves
<1>3. \/ session'.posted = session.posted /\ session'.reqs[r].status = "broadcast"
      \/ session'.posted = session.posted \cup {SettleKey(r)} /\ session'.reqs[r].status = "confirmed"
      \/ session'.posted = session.posted \cup {ReverseKey(r)} /\ session'.reqs[r].status = "failed"
    BY <1>1 DEF Resolves
<1> HIDE DEF r
<1>4. TypeOK'
    BY <1>1 DEF WithdrawerInv, TypeOK, chainVars
<1>5. Outcome(session)'
    <2>1. Outcome(session)
        BY DEF WithdrawerInv
    <2>2. ASSUME NEW q \in Requests, q # r
          PROVE  /\ SettleKey(q) \in session'.posted <=> session'.reqs[q].status = "confirmed"
                 /\ ReverseKey(q) \in session'.posted <=> session'.reqs[q].status = "failed"
        <3>1. session'.reqs[q] = session.reqs[q]
            BY <1>2, <2>2 DEF Touches
        <3>2. /\ SettleKey(q) \in session'.posted <=> SettleKey(q) \in session.posted
              /\ ReverseKey(q) \in session'.posted <=> ReverseKey(q) \in session.posted
            BY <1>3, <2>2 DEF SettleKey, ReverseKey
        <3> QED BY <2>1, <3>1, <3>2 DEF Outcome
    <2>3. /\ SettleKey(r) \in session'.posted <=> session'.reqs[r].status = "confirmed"
          /\ ReverseKey(r) \in session'.posted <=> session'.reqs[r].status = "failed"
        <3>1. SettleKey(r) \notin session.posted /\ ReverseKey(r) \notin session.posted
            BY <1>1, <2>1 DEF Outcome
        <3> QED BY <1>3, <3>1 DEF SettleKey, ReverseKey
    <2> QED BY <2>2, <2>3 DEF Outcome
<1>6. PhaseInv'
    <2>1. \A q \in Requests : db.reqs[q].status = "none" => session'.reqs[q].status = "none"
        BY <1>1, <1>2 DEF WithdrawerInv, PhaseInv, Touches
    <2> QED BY <1>1, <1>2, <2>1 DEF WithdrawerInv, TypeOK, PhaseInv, Touches
<1> QED BY <1>1, <1>4, <1>5, <1>6 DEF WithdrawerInv, Outcome, NonceInv, NonceUnique, Signed

LEMMA InvReconcile == WithdrawerInv /\ ReconcileUnmined => WithdrawerInv'
<1> SUFFICES ASSUME WithdrawerInv, ReconcileUnmined PROVE WithdrawerInv'
    OBVIOUS
<1>1. PICK v \in Heads : session' = Reconcile(session, current.req, LatestNonce(v))
    BY DEF ReconcileUnmined
<1>2. LatestNonce(v) \in Int
    BY HeadsType, LatestNonceType
<1>3. session \in Databases /\ current.req \in Requests /\ head \in Nat
    BY DEF ReconcileUnmined, WithdrawerInv, TypeOK
<1>4. Resolves(session, session', current.req)
    BY <1>1, <1>2, <1>3, ReconcileResolves
<1> QED BY <1>4, InvDecide DEF ReconcileUnmined

LEMMA InvConfirmReceipt == WithdrawerInv /\ ConfirmReceipt => WithdrawerInv'
<1> SUFFICES ASSUME WithdrawerInv, ConfirmReceipt PROVE WithdrawerInv'
    OBVIOUS
<1> DEFINE r == current.req
           cleared == [session EXCEPT !.reqs[r].since = NoBlock]
<1>1. session' \in {cleared, Settle(cleared, r), ReverseReservation(cleared, r)}
    BY DEF ConfirmReceipt
<1>2. session \in Databases /\ r \in Requests
    BY DEF ConfirmReceipt, WithdrawerInv, TypeOK
<1>3. Resolves(session, session', r)
    BY <1>1, <1>2, ClearedResolves
<1> QED BY <1>3, InvDecide DEF ConfirmReceipt

LEMMA InvCommitConfirm == WithdrawerInv /\ CommitConfirm => WithdrawerInv'
<1> SUFFICES ASSUME WithdrawerInv, CommitConfirm PROVE WithdrawerInv'
    OBVIOUS
<1>1. db' = session /\ session' = session /\ pc' = "sign"
    BY DEF CommitConfirm
<1>2. TypeOK'
    BY DEF WithdrawerInv, TypeOK, CommitConfirm, chainVars
<1>3. PhaseInv'
    BY <1>1 DEF PhaseInv
<1> QED BY <1>1, <1>2, <1>3, CommitKeeps DEF WithdrawerInv

LEMMA InvFail == WithdrawerInv /\ Fail => WithdrawerInv'
<1> SUFFICES ASSUME WithdrawerInv, Fail PROVE WithdrawerInv'
    OBVIOUS
<1>1. db' = db /\ session' = db /\ pc' = "sign" /\ todo' = {}
    BY DEF Fail
<1>2. TypeOK'
    BY WithdrawerAssumption DEF WithdrawerInv, TypeOK, Fail, chainVars
<1>3. PhaseInv'
    BY <1>1 DEF PhaseInv
<1> QED BY <1>1, <1>2, <1>3 DEF WithdrawerInv, Outcome, NonceInv, NonceUnique, Signed

-----------------------------------------------------------------------------
(* The theorems.                                                             *)

LEMMA InvStep == WithdrawerInv /\ [Next]_vars => WithdrawerInv'
<1> SUFFICES ASSUME WithdrawerInv, [Next]_vars PROVE WithdrawerInv'
    OBVIOUS
<1>1. CASE Mine
    BY <1>1, TypeMine, InvChain DEF WithdrawerInv, Mine
<1>2. CASE Reorg
    BY <1>2, TypeReorg, InvChain DEF WithdrawerInv, Reorg
<1>3. CASE Evict
    BY <1>3, TypeEvict, InvChain DEF WithdrawerInv, Evict
<1>4. CASE \E f \in Foreign : SendForeign(f)
    BY <1>4, TypeForeign, InvChain DEF WithdrawerInv, SendForeign
<1>5. CASE \E r \in Requests : CreateWithdrawal(r)
    BY <1>5, InvCreate
<1>6. CASE Work
    BY <1>6, InvSign, InvSignNothing, InvBroadcastOk, InvBroadcastError, InvCommitBroadcast,
       InvReadHead, InvReadReceipt, InvReconcile, InvConfirmReceipt, InvCommitConfirm DEF Work
<1>7. CASE Fail
    BY <1>7, InvFail
<1>8. CASE UNCHANGED vars
    BY <1>8 DEF vars, WithdrawerInv, TypeOK, Outcome, NonceInv, NonceUnique, Signed, PhaseInv
<1> QED BY <1>1, <1>2, <1>3, <1>4, <1>5, <1>6, <1>7, <1>8 DEF Next

LEMMA InvAlways == Spec => []WithdrawerInv
    BY InvInit, InvStep, PTL DEF Spec

\* The outbox keeps its types; outside the broadcast and confirm phases the
\* session of the worker holds what is committed.
THEOREM WithdrawerTypeCorrect == Spec => []TypeOK
<1>1. WithdrawerInv => TypeOK
    BY DEF WithdrawerInv
<1> QED BY <1>1, InvAlways, PTL

\* sign_pending never gives two requests the same nonce, for any batch, any
\* answers of the providers and any failures of the phases.
THEOREM NoncesNeverShared == Spec => []NonceUnique
<1>1. WithdrawerInv => NonceUnique
    BY DEF WithdrawerInv, NonceInv
<1> QED BY <1>1, InvAlways, PTL

\* The settlement of a request is posted exactly when it is CONFIRMED and the
\* reversal exactly when it is FAILED, in every session.
THEOREM WithdrawalLedgerFollowsStatus == Spec => []LedgerMatchesStatus
<1>1. WithdrawerInv => LedgerMatchesStatus
    BY DEF WithdrawerInv, LedgerMatchesStatus
<1> QED BY <1>1, InvAlways, PTL

-----------------------------------------------------------------------------
(* The withdrawer implements Outbox.                                         *)

\* Inside a phase a request is at most one step ahead of what is committed: the
\* broadcast phase has sent it, or the confirm phase has resolved it.
Ahead(r) ==
    LET old == db.reqs[r].status
        new == session.reqs[r].status
    IN  \/ new = old
        \/ pc = "broadcast" /\ old = "signing" /\ new = "broadcast"
        \/ pc \in {"confirm", "decide"} /\ old = "broadcast" /\ new \in {"confirmed", "failed"}

AheadInv == \A r \in Requests : Ahead(r)

\* The step resolves the request under inspection.
LEMMA AheadDecide ==
    ASSUME WithdrawerInv, AheadInv, pc = "decide", Resolves(session, session', current.req),
           pc' = "confirm", db' = db
    PROVE  AheadInv'
<1>1. PICK r \in Requests : r = current.req /\ session.reqs[r].status = "broadcast"
    BY DEF WithdrawerInv, TypeOK, PhaseInv
<1>2. Touches(session, session', r)
    BY <1>1 DEF Resolves
<1>3. session'.reqs[r].status \in {"broadcast", "confirmed", "failed"}
    BY <1>1 DEF Resolves
<1>4. db.reqs[r].status = "broadcast"
    BY <1>1 DEF AheadInv, Ahead
<1>5. Ahead(r)'
    BY <1>3, <1>4 DEF Ahead
<1>6. ASSUME NEW q \in Requests, q # r PROVE Ahead(q)'
    <2>1. session'.reqs[q] = session.reqs[q]
        BY <1>2, <1>6 DEF Touches
    <2> QED BY <2>1 DEF AheadInv, Ahead
<1> QED BY <1>5, <1>6 DEF AheadInv

LEMMA AheadStep == WithdrawerInv /\ AheadInv /\ [Next]_vars => AheadInv'
<1> SUFFICES ASSUME WithdrawerInv, AheadInv, [Next]_vars PROVE AheadInv'
    OBVIOUS
<1>1. ASSUME db' = db, session' = session, pc' = pc PROVE AheadInv'
    BY <1>1 DEF AheadInv, Ahead
<1>2. ASSUME db' = session' PROVE AheadInv'
    BY <1>2 DEF AheadInv, Ahead
<1>3. CASE Mine \/ Reorg \/ Evict \/ \E f \in Foreign : SendForeign(f)
    BY <1>1, <1>3 DEF Mine, Reorg, Evict, SendForeign, workerVars
<1>4. ASSUME NEW r \in Requests, CreateWithdrawal(r) PROVE AheadInv'
    <2>1. /\ db \in Databases /\ session \in Databases /\ "requested" \in Statuses
        BY DEF WithdrawerInv, TypeOK, Statuses
    <2>2. /\ Touches(db, db', r) /\ db'.reqs[r].status = "requested"
          /\ Touches(session, session', r) /\ session'.reqs[r].status = "requested"
        BY <1>4, <2>1, StatusTouches DEF CreateWithdrawal
    <2>3. pc' = pc
        BY <1>4 DEF CreateWithdrawal
    <2> QED BY <2>2, <2>3 DEF AheadInv, Ahead, Touches
<1>5. CASE SignPending
    BY <1>2, <1>5 DEF SignPending
<1>6. CASE SignNothing
    BY <1>6 DEF SignNothing, WithdrawerInv, TypeOK, AheadInv, Ahead
<1>7. ASSUME NEW r \in Requests, BroadcastOk(r) PROVE AheadInv'
    <2>1. /\ session \in Databases /\ "broadcast" \in Statuses
          /\ pc = "broadcast" /\ session.reqs[r].status = "signing"
          /\ db' = db /\ pc' = pc
        BY <1>7 DEF WithdrawerInv, TypeOK, PhaseInv, BroadcastOk, Statuses
    <2>2. Touches(session, session', r) /\ session'.reqs[r].status = "broadcast"
        BY <1>7, <2>1, StatusTouches DEF BroadcastOk
    <2>3. Ahead(r)'
        BY <2>1, <2>2 DEF AheadInv, Ahead
    <2>4. ASSUME NEW q \in Requests, q # r PROVE Ahead(q)'
        BY <2>1, <2>2, <2>4 DEF AheadInv, Ahead, Touches
    <2> QED BY <2>3, <2>4 DEF AheadInv
<1>8. ASSUME NEW r \in Requests, BroadcastError(r) PROVE AheadInv'
    BY <1>1, <1>8 DEF BroadcastError
<1>9. CASE CommitBroadcast \/ CommitConfirm
    BY <1>2, <1>9 DEF CommitBroadcast, CommitConfirm
<1>10. CASE ReadHead
    BY <1>10 DEF ReadHead, WithdrawerInv, TypeOK, AheadInv, Ahead
<1>11. ASSUME NEW r \in Requests, ReadReceipt(r) PROVE AheadInv'
    BY <1>11 DEF ReadReceipt, AheadInv, Ahead
<1>12. CASE ReconcileUnmined
    <2>1. PICK v \in Heads : session' = Reconcile(session, current.req, LatestNonce(v))
        BY <1>12 DEF ReconcileUnmined
    <2>2. LatestNonce(v) \in Int
        BY HeadsType, LatestNonceType
    <2>3. session \in Databases /\ current.req \in Requests /\ head \in Nat
        BY <1>12 DEF ReconcileUnmined, WithdrawerInv, TypeOK
    <2>4. Resolves(session, session', current.req)
        BY <2>1, <2>2, <2>3, ReconcileResolves
    <2> QED BY <1>12, <2>4, AheadDecide DEF ReconcileUnmined
<1>13. CASE ConfirmReceipt
    <2> DEFINE r == current.req
               cleared == [session EXCEPT !.reqs[r].since = NoBlock]
    <2>1. session' \in {cleared, Settle(cleared, r), ReverseReservation(cleared, r)}
        BY <1>13 DEF ConfirmReceipt
    <2>2. session \in Databases /\ r \in Requests
        BY <1>13 DEF ConfirmReceipt, WithdrawerInv, TypeOK
    <2>3. Resolves(session, session', r)
        BY <2>1, <2>2, ClearedResolves
    <2> QED BY <1>13, <2>3, AheadDecide DEF ConfirmReceipt
<1>14. CASE Fail
    BY <1>14, <1>2 DEF Fail
<1>15. CASE UNCHANGED vars
    BY <1>1, <1>15 DEF vars
<1> QED
    BY <1>3, <1>4, <1>5, <1>6, <1>7, <1>8, <1>9, <1>10, <1>11, <1>12, <1>13, <1>14, <1>15
    DEF Next, Work

\* The phases that the statuses stand for.
LEMMA PhaseOf ==
    /\ Phase("none") = "none" /\ Phase("requested") = "open"
    /\ Phase("signing") = "signed" /\ Phase("broadcast") = "signed"
    /\ Phase("confirmed") = "paid" /\ Phase("failed") = "refunded"
    BY DEF Phase

\* What a commit may do to a request; only a signature assigns a nonce.
Advances(r) ==
    LET old == db.reqs[r]
        new == db'.reqs[r]
    IN  \/ new.status = old.status /\ new.nonce = old.nonce
        \/ old.status = "none" /\ new.status = "requested" /\ new.nonce = old.nonce
        \/ old.status = "requested" /\ new.status = "signing" /\ new.nonce # NoNonce
        \/ old.status = "requested" /\ new.status = "failed" /\ new.nonce = old.nonce
        \/ old.status = "signing" /\ new.status = "broadcast" /\ new.nonce = old.nonce
        \/ old.status = "broadcast" /\ new.status \in {"confirmed", "failed"} /\ new.nonce = old.nonce

\* Every commit advances every request by one step at most.
LEMMA StepAdvances ==
    ASSUME WithdrawerInv, AheadInv, [Next]_vars
    PROVE  \A r \in Requests : Advances(r)
<1>1. ASSUME db' = db PROVE \A r \in Requests : Advances(r)
    BY <1>1 DEF Advances
<1>2. ASSUME NEW r \in Requests, CreateWithdrawal(r) PROVE \A q \in Requests : Advances(q)
    <2>1. /\ db \in Databases /\ "requested" \in Statuses /\ db.reqs[r].status = "none"
        BY <1>2 DEF WithdrawerInv, TypeOK, Statuses, CreateWithdrawal
    <2>2. Touches(db, db', r) /\ db'.reqs[r].status = "requested"
        BY <1>2, <2>1, StatusTouches DEF CreateWithdrawal
    <2> QED BY <2>1, <2>2 DEF Advances, Touches
<1>3. CASE SignPending
    <2> SUFFICES ASSUME NEW r \in Requests PROVE Advances(r)
        OBVIOUS
    <2>1. PICK claimed \in Claims, chainNonce \in PendingNonces :
           \E signed \in SUBSET (claimed \ Unsignable) :
           \E nonce \in [signed -> NextNonce(chainNonce)..(NextNonce(chainNonce) + Cardinality(signed) - 1)] :
                SignBatch(claimed, NextNonce(chainNonce), signed, nonce)
        BY <1>3 DEF SignPending
    <2> DEFINE base == NextNonce(chainNonce)
    <2>2. base \in Nat
        <3>1. chainNonce \in Nat
            BY PendingNoncesType DEF WithdrawerInv
        <3> QED BY <3>1 DEF NextNonce, Larger, WithdrawerInv, TypeOK, Databases
    <2> HIDE DEF base
    <2>3. PICK signed \in SUBSET (claimed \ Unsignable) :
           \E nonce \in [signed -> base..(base + Cardinality(signed) - 1)] :
                SignBatch(claimed, base, signed, nonce)
        BY <2>1 DEF base
    <2>4. PICK nonce \in [signed -> base..(base + Cardinality(signed) - 1)] :
                SignBatch(claimed, base, signed, nonce)
        BY <2>3
    <2>5. Cardinality(signed) \in Int
        <3>1. signed \in SUBSET Requests
            BY DEF Claims, Pendings
        <3> QED BY <3>1, WithdrawerAssumption, FS_Subset, FS_CardinalityType
    <2>6. db' = session' /\ db.reqs[r] \in Rows
        BY <1>3 DEF SignPending, WithdrawerInv, TypeOK, Databases
    <2>7. CASE r \in signed
        <3>1. db'.reqs[r] = Sign(db.reqs[r], nonce[r]) /\ db.reqs[r].status = "requested"
            BY <2>4, <2>6, <2>7 DEF SignBatch, Claims, Pendings
        <3>2. nonce[r] # NoNonce
            BY <2>2, <2>5, <2>7 DEF NoNonce
        <3> QED BY <2>6, <3>1, <3>2 DEF Advances, Sign, Rows
    <2>8. CASE r \notin signed /\ r \in claimed \cap Unsignable
        <3>1. /\ db'.reqs[r] = [db.reqs[r] EXCEPT !.status = "failed"]
              /\ db.reqs[r].status = "requested"
            BY <2>4, <2>6, <2>8 DEF SignBatch, Claims, Pendings
        <3> QED BY <2>6, <3>1 DEF Advances, Rows
    <2>9. CASE r \notin signed /\ r \notin claimed \cap Unsignable
        BY <2>4, <2>6, <2>9 DEF SignBatch, Advances
    <2> QED BY <2>7, <2>8, <2>9
<1>4. CASE CommitBroadcast \/ CommitConfirm
    <2>1. db' = session
        BY <1>4 DEF CommitBroadcast, CommitConfirm
    <2> QED BY <2>1 DEF Advances, AheadInv, Ahead, WithdrawerInv, PhaseInv
<1>5. \/ db' = db \/ SignPending \/ CommitBroadcast \/ CommitConfirm
      \/ \E r \in Requests : CreateWithdrawal(r)
    BY DEF Next, Work, Mine, Reorg, Evict, SendForeign, SignNothing, BroadcastOk, BroadcastError,
           ReadHead, ReadReceipt, ReconcileUnmined, ConfirmReceipt, Fail, vars, workerVars
<1> QED BY <1>1, <1>2, <1>3, <1>4, <1>5

\* A commit is a step of Outbox.
LEMMA StepRefines ==
    ASSUME WithdrawerInv, WithdrawerInv', \A r \in Requests : Advances(r)
    PROVE  Abstract!Next
<1>1. \A r \in Requests : db.reqs[r].status \in Statuses /\ db'.reqs[r].status \in Statuses
    BY DEF WithdrawerInv, TypeOK, Databases, Rows
<1>2. \A r \in Requests : Phase(db'.reqs[r].status) \in Abstract!Phases
    BY <1>1, PhaseOf DEF Statuses, Abstract!Phases
<1>3. ASSUME NEW r \in Requests
      PROVE  /\ \/ Phase(db'.reqs[r].status) = Phase(db.reqs[r].status)
                \/ <<Phase(db.reqs[r].status), Phase(db'.reqs[r].status)>> \in Abstract!Moves
             /\ IF Phase(db.reqs[r].status) = "open" /\ Phase(db'.reqs[r].status) = "signed"
                THEN db'.reqs[r].nonce # NoNonce
                ELSE db'.reqs[r].nonce = db.reqs[r].nonce
    <2>1. Advances(r)
        OBVIOUS
    <2>2. CASE db'.reqs[r].status = db.reqs[r].status /\ db'.reqs[r].nonce = db.reqs[r].nonce
        BY <1>1, <2>2, PhaseOf DEF Statuses
    <2>3. CASE db'.reqs[r].status # db.reqs[r].status
        BY <2>1, <2>3, PhaseOf DEF Advances, Abstract!Moves
    <2> QED BY <2>1, <2>2, <2>3 DEF Advances
<1>4. \A r, q \in Requests :
        db'.reqs[r].nonce = db'.reqs[q].nonce /\ db'.reqs[r].nonce # NoNonce => r = q
    BY DEF WithdrawerInv, NonceInv, NonceUnique, Signed
<1> QED BY <1>2, <1>3, <1>4 DEF Abstract!Next

\* The withdrawer implements the outbox, whatever fails and whatever the chain does:
\* a request is signed at most once, with a nonce of its own, and is paid or
\* refunded at most once.
THEOREM WithdrawerIsOutbox == Spec => ImplementsOutbox
<1>1. Init => Abstract!Init
    BY PhaseOf DEF Init, Abstract!Init
<1>2. Init => AheadInv
    BY DEF Init, AheadInv, Ahead
<1>3. WithdrawerInv /\ WithdrawerInv' /\ AheadInv /\ [Next]_vars => [Abstract!Next]_(Abstract!vars)
    BY StepAdvances, StepRefines
<1> QED BY <1>1, <1>2, <1>3, AheadStep, InvAlways, PTL DEF Spec, ImplementsOutbox, Abstract!Spec

-----------------------------------------------------------------------------
(* The nonces on the chain.                                                  *)

\* LatestNonce, for any chain c.
Count(c, n) == Cardinality({h \in 1..n : c[h].txs # {}})

\* A block has at most one transaction of the hot wallet; it uses the nonce that
\* the blocks below left, and every nonce below the count is used.
Ordered(c) ==
    /\ \A h \in 1..Len(c) : \A tx \in c[h].txs : c[h].txs = {tx} /\ tx.nonce = Count(c, h - 1)
    /\ \A v \in 0..Len(c) : \A k \in 0..(Count(c, v) - 1) :
            \E h \in 1..v : \E tx \in c[h].txs : tx.nonce = k

\* A request that waits has no nonce and no marker.
Waiting(d) ==
    \A r \in Requests :
        d.reqs[r].status \in {"none", "requested"} => ~Signed(d, r) /\ d.reqs[r].since = NoBlock

\* What belongs to a request in the mempool and on the chain carries the nonce
\* with which it was signed.
Carries(tx) ==
    tx.who \in Requests => Signed(db, tx.who) /\ tx.nonce = db.reqs[tx.who].nonce

SentInv ==
    /\ Waiting(db) /\ Waiting(session)
    /\ \A tx \in mempool : Carries(tx)
    /\ \A h \in 1..Len(chain) : \A tx \in chain[h].txs : Carries(tx)

\* The head of the confirm phase is on the chain, which never becomes shorter.  A
\* receipt is that of a transaction of the request in the chain it was read from.
ReceiptInv ==
    /\ head <= Len(chain)
    /\ pc = "decide" /\ current.mined =>
            /\ current.block \in Nat \ {0}
            /\ \E tx \in current.hash[current.block].txs :
                    tx.who = current.req /\ (current.ok <=> tx.ok)

\* The payout is so deep that no reorganisation reaches it.
DeepPaid(r) ==
    \E n \in 1..Len(chain) : n + Confirmations <= Len(chain) /\ PaidAt(r, n)

SettledInv(d) == \A r \in Requests : d.reqs[r].status = "confirmed" => DeepPaid(r)

\* The nonce of a refunded request, and of one that is marked as superseded, is
\* used; a marked request whose receipt was not found is not mined.
RefundInv(d) ==
    \A r \in Requests :
        /\ d.reqs[r].status = "failed" => ~Signed(d, r) \/ (d.reqs[r].nonce < Account /\ ~Paid(r))
        /\ d.reqs[r].since # NoBlock => d.reqs[r].nonce < Account

UnminedInv ==
    pc = "decide" /\ ~current.mined /\ session.reqs[current.req].since # NoBlock =>
        ~Mined(current.req)

PayoutInv ==
    /\ WithdrawerInv
    /\ Ordered(chain) /\ SentInv /\ ReceiptInv
    /\ MaxReorgDepth <= Confirmations => SettledInv(db) /\ SettledInv(session)
    /\ MaxLag = 0 /\ reorgs = 0 => RefundInv(db) /\ RefundInv(session) /\ UnminedInv
    /\ evictions = 0 \/ Foreign = {} => GapFree

LEMMA CountType ==
    ASSUME NEW c, NEW n \in Nat
    PROVE  IsFiniteSet({h \in 1..n : c[h].txs # {}}) /\ Count(c, n) \in Nat
<1>1. IsFiniteSet(1..n)
    BY FS_Interval
<1>2. {h \in 1..n : c[h].txs # {}} \in SUBSET (1..n)
    OBVIOUS
<1>3. IsFiniteSet({h \in 1..n : c[h].txs # {}})
    BY <1>1, <1>2, FS_Subset, Zenon
<1> QED BY <1>3, FS_CardinalityType DEF Count

LEMMA CountMonotone ==
    ASSUME NEW c, NEW m \in Nat, NEW n \in Nat, m <= n
    PROVE  Count(c, m) <= Count(c, n)
<1>1. {h \in 1..m : c[h].txs # {}} \in SUBSET {h \in 1..n : c[h].txs # {}}
    OBVIOUS
<1> QED BY <1>1, CountType, FS_Subset DEF Count

\* Blocks without transactions do not count.
LEMMA CountCut ==
    ASSUME NEW c, NEW d, NEW m \in Nat, NEW n \in Nat, m <= n,
           \A h \in 1..m : d[h] = c[h], \A h \in (m + 1)..n : d[h].txs = {}
    PROVE  Count(d, n) = Count(c, m)
<1>1. {h \in 1..n : d[h].txs # {}} = {h \in 1..m : c[h].txs # {}}
    <2>1. ASSUME NEW h \in 1..n, d[h].txs # {} PROVE h \in 1..m /\ c[h].txs # {}
        BY <2>1
    <2>2. ASSUME NEW h \in 1..m, c[h].txs # {} PROVE h \in 1..n /\ d[h].txs # {}
        BY <2>2
    <2> QED BY <2>1, <2>2
<1> QED BY <1>1 DEF Count

\* A block with transactions counts one.
LEMMA CountNext ==
    ASSUME NEW c, NEW n \in Nat, c[n + 1].txs # {}
    PROVE  Count(c, n + 1) = Count(c, n) + 1
<1> DEFINE S == {h \in 1..n : c[h].txs # {}}
<1>1. {h \in 1..(n + 1) : c[h].txs # {}} = S \cup {n + 1}
    <2>1. 1..(n + 1) = (1..n) \cup {n + 1}
        OBVIOUS
    <2> QED BY <2>1, Zenon
<1>2. IsFiniteSet(S)
    BY CountType, Zenon
<1>3. (n + 1) \notin S
    OBVIOUS
<1> HIDE DEF S
<1>4. Cardinality(S \cup {n + 1}) = Cardinality(S) + 1
    BY <1>2, <1>3, FS_AddElement
<1> QED BY <1>1, <1>4 DEF Count, S

\* The nonce of a mined transaction is a number, and it counts at every height from
\* its own on.
LEMMA UsedNonce ==
    ASSUME NEW c \in Seq(Blocks), Ordered(c), NEW v \in 0..Len(c), NEW h \in 1..v,
           NEW tx \in c[h].txs
    PROVE  tx.nonce \in Nat /\ tx.nonce = Count(c, h - 1) /\ tx.nonce < Count(c, v)
<1>1. Len(c) \in Nat /\ v \in Nat /\ h \in 1..Len(c) /\ h \in Nat /\ h - 1 \in Nat /\ (h - 1) + 1 = h
    BY LenProperties
<1>2. tx.nonce = Count(c, h - 1) /\ Count(c, h - 1) \in Nat /\ Count(c, v) \in Nat
    BY <1>1, CountType DEF Ordered
<1>3. Count(c, h) = Count(c, h - 1) + 1
    BY <1>1, CountNext
<1>4. Count(c, h) <= Count(c, v)
    BY <1>1, CountMonotone
<1> QED BY <1>2, <1>3, <1>4

\* So no nonce is used twice.
LEMMA UsedOnce ==
    ASSUME NEW c \in Seq(Blocks), Ordered(c), NEW h \in 1..Len(c), NEW i \in 1..Len(c),
           NEW tx \in c[h].txs, NEW ux \in c[i].txs, tx.nonce = ux.nonce
    PROVE  h = i /\ tx = ux
<1>1. Len(c) \in Nat
    BY LenProperties
<1>2. ASSUME NEW a \in 1..Len(c), NEW b \in 1..Len(c), NEW x \in c[a].txs, NEW y \in c[b].txs,
             x.nonce = y.nonce
      PROVE  ~(a < b)
    <2>1. SUFFICES ASSUME a < b PROVE FALSE
        OBVIOUS
    <2>2. b - 1 \in 0..Len(c) /\ a \in 1..(b - 1) /\ b \in 0..Len(c) /\ b \in 1..b
        BY <1>1, <2>1
    <2>3. x.nonce < Count(c, b - 1)
        BY <2>2, UsedNonce
    <2>4. y.nonce = Count(c, b - 1) /\ y.nonce \in Nat
        BY <2>2, UsedNonce
    <2> QED BY <1>2, <2>3, <2>4
<1>3. h = i
    BY <1>1, <1>2
<1> QED BY <1>3 DEF Ordered

\* A block at the top: without a transaction, or with one that has the next nonce.
LEMMA OrderedAppend ==
    ASSUME NEW c \in Seq(Blocks), Ordered(c), NEW b \in Blocks,
           \A tx \in b.txs : b.txs = {tx} /\ tx.nonce = Count(c, Len(c))
    PROVE  LET d == Append(c, b)
           IN  /\ Ordered(d) /\ Len(d) = Len(c) + 1
               /\ Count(d, Len(d)) = IF b.txs = {} THEN Count(c, Len(c)) ELSE Count(c, Len(c)) + 1
<1> DEFINE d == Append(c, b)
           n == Len(c)
<1>1. /\ n \in Nat /\ d \in Seq(Blocks) /\ Len(d) = n + 1 /\ d[n + 1] = b
      /\ \A h \in 1..n : d[h] = c[h]
    BY LenProperties, AppendProperties
<1> HIDE DEF d, n
<1>2. ASSUME NEW v \in 0..n PROVE Count(d, v) = Count(c, v)
    <2>1. v \in Nat /\ \A h \in 1..v : d[h] = c[h]
        BY <1>1
    <2> QED BY <2>1, CountCut
<1>3. Count(d, n + 1) = IF b.txs = {} THEN Count(c, n) ELSE Count(c, n) + 1
    <2>1. Count(d, n) = Count(c, n) /\ n + 1 \in Nat
        BY <1>1, <1>2
    <2>2. CASE b.txs = {}
        <3>1. \A h \in (n + 1)..(n + 1) : d[h].txs = {}
            BY <1>1, <2>2
        <3> QED BY <1>1, <2>1, <2>2, <3>1, CountCut
    <2>3. CASE b.txs # {}
        BY <1>1, <2>1, <2>3, CountNext
    <2> QED BY <2>2, <2>3
<1>4. ASSUME NEW h \in 1..(n + 1), NEW tx \in d[h].txs
      PROVE  d[h].txs = {tx} /\ tx.nonce = Count(d, h - 1)
    <2>1. CASE h = n + 1
        <3>1. d[h] = b /\ h - 1 = n /\ n \in 0..n
            BY <1>1, <2>1
        <3> QED BY <1>2, <3>1 DEF n
    <2>2. CASE h \in 1..n
        <3>1. d[h] = c[h] /\ h - 1 \in 0..n
            BY <1>1, <2>2
        <3> QED BY <1>2, <2>2, <3>1 DEF Ordered, n
    <2> QED BY <1>1, <2>1, <2>2
<1>5. ASSUME NEW v \in 0..(n + 1), NEW k \in 0..(Count(d, v) - 1)
      PROVE  \E h \in 1..v : \E tx \in d[h].txs : tx.nonce = k
    <2>1. ASSUME NEW w \in 0..n, k \in 0..(Count(c, w) - 1), w <= v
          PROVE  \E h \in 1..v : \E tx \in d[h].txs : tx.nonce = k
        <3>1. PICK h \in 1..w : \E tx \in c[h].txs : tx.nonce = k
            BY <2>1 DEF Ordered, n
        <3>2. h \in 1..v /\ d[h] = c[h]
            BY <1>1, <2>1
        <3> QED BY <3>1, <3>2
    <2>2. CASE v \in 0..n
        BY <1>2, <2>1, <2>2
    <2>3. CASE v = n + 1 /\ k \in 0..(Count(c, n) - 1)
        BY <1>1, <2>1, <2>3
    <2>4. CASE v = n + 1 /\ k \notin 0..(Count(c, n) - 1)
        <3>1. Count(c, n) \in Nat
            BY <1>1, CountType
        <3>2. b.txs # {} /\ k = Count(c, n)
            BY <1>3, <2>4, <3>1
        <3>3. PICK tx \in b.txs : tx.nonce = k
            BY <3>2 DEF n
        <3>4. n + 1 \in 1..v /\ d[n + 1] = b
            BY <1>1, <2>4
        <3> QED BY <3>3, <3>4
    <2> QED BY <1>1, <2>2, <2>3, <2>4
<1>6. Ordered(d)
    BY <1>1, <1>4, <1>5 DEF Ordered
<1> QED BY <1>1, <1>3, <1>6 DEF d, n

\* The blocks above m are replaced by blocks without transactions.
LEMMA OrderedCut ==
    ASSUME NEW c \in Seq(Blocks), Ordered(c), NEW d \in Seq(Blocks), Len(d) = Len(c),
           NEW m \in 0..Len(c),
           \A h \in 1..m : d[h] = c[h], \A h \in (m + 1)..Len(c) : d[h].txs = {}
    PROVE  Ordered(d) /\ Count(d, Len(d)) = Count(c, m)
<1> DEFINE n == Len(c)
<1>1. n \in Nat /\ m \in Nat /\ m <= n
    BY LenProperties
<1> HIDE DEF n
<1>2. ASSUME NEW v \in 0..m PROVE Count(d, v) = Count(c, v)
    <2>1. v \in Nat /\ \A h \in 1..v : d[h] = c[h]
        BY <1>1
    <2> QED BY <2>1, CountCut
<1>3. ASSUME NEW v \in m..n PROVE Count(d, v) = Count(c, m)
    <2>1. v \in Nat /\ m <= v /\ \A h \in (m + 1)..v : d[h].txs = {}
        BY <1>1 DEF n
    <2> QED BY <1>1, <2>1, CountCut
<1>4. ASSUME NEW h \in 1..n, NEW tx \in d[h].txs
      PROVE  d[h].txs = {tx} /\ tx.nonce = Count(d, h - 1)
    <2>1. h \in 1..m
        BY <1>1 DEF n
    <2>2. d[h] = c[h] /\ h - 1 \in 0..m
        BY <1>1, <2>1
    <2> QED BY <1>2, <2>2 DEF Ordered, n
<1>5. ASSUME NEW v \in 0..n, NEW k \in 0..(Count(d, v) - 1)
      PROVE  \E h \in 1..v : \E tx \in d[h].txs : tx.nonce = k
    <2>1. PICK w \in 0..m : w <= v /\ Count(d, v) = Count(c, w)
        <3>1. CASE v \in 0..m
            BY <1>2, <3>1
        <3>2. CASE v \in m..n
            BY <1>1, <1>3, <3>2
        <3> QED BY <1>1, <3>1, <3>2
    <2>2. w \in 0..n /\ k \in 0..(Count(c, w) - 1)
        BY <1>1, <2>1
    <2>3. PICK h \in 1..w : \E tx \in c[h].txs : tx.nonce = k
        BY <2>2 DEF Ordered, n
    <2>4. h \in 1..v /\ d[h] = c[h]
        BY <1>1, <2>1
    <2> QED BY <2>3, <2>4
<1>6. Ordered(d)
    BY <1>4, <1>5 DEF Ordered, n
<1> QED BY <1>1, <1>3, <1>6 DEF n

LEMMA PayoutInit == Init => PayoutInv
<1> SUFFICES ASSUME Init PROVE PayoutInv
    OBVIOUS
<1>1. WithdrawerInv
    BY InvInit
<1>2. chain = <<>> /\ Len(chain) = 0 /\ mempool = {} /\ head = 0 /\ pc = "sign" /\ db.next = NoRow
    BY DEF Init
<1>3. Count(chain, 0) = 0
    <2>1. {h \in 1..0 : chain[h].txs # {}} = {}
        OBVIOUS
    <2> QED BY <2>1, FS_EmptySet DEF Count
<1>4. Ordered(chain)
    BY <1>2, <1>3 DEF Ordered
<1>5. \A r \in Requests : /\ db.reqs[r].status = "none" /\ ~Signed(db, r) /\ db.reqs[r].since = NoBlock
                          /\ session = db
    BY DEF Init, Signed
<1>6. SentInv /\ ReceiptInv /\ UnminedInv /\ GapFree
    BY <1>2, <1>5 DEF SentInv, Waiting, ReceiptInv, UnminedInv, GapFree
<1>7. SettledInv(db) /\ SettledInv(session) /\ RefundInv(db) /\ RefundInv(session)
    BY <1>5 DEF SettledInv, RefundInv
<1> QED BY <1>1, <1>4, <1>6, <1>7 DEF PayoutInv

\* The chain and its account, as the proofs below use them.
LEMMA ChainType ==
    ASSUME TypeOK
    PROVE  /\ chain \in Seq(Blocks) /\ Len(chain) \in Nat /\ Account \in Nat
           /\ Account = Count(chain, Len(chain))
<1>1. chain \in Seq(Blocks) /\ Len(chain) \in Nat
    BY LenProperties DEF TypeOK
<1> QED BY <1>1, CountType DEF Account, LatestNonce, Count

\* A transaction of a request whose nonce is below the account's is not mined anew.
LEMMA SpentNotMined ==
    ASSUME PayoutInv, NEW tx, Carries(tx), tx.nonce = Account, NEW r \in Requests,
           ~Signed(db, r) \/ db.reqs[r].nonce < Account
    PROVE  tx.who # r
<1>1. Account \in Nat
    BY ChainType DEF PayoutInv, WithdrawerInv
<1>2. db.reqs[r].nonce \in Int
    BY DEF PayoutInv, WithdrawerInv, TypeOK, Databases, Rows
<1> QED BY <1>1, <1>2 DEF Carries

\* A block is mined.
LEMMA MineFacts ==
    ASSUME PayoutInv, Mine
    PROVE  /\ \E b \in Blocks :
                /\ chain' = Append(chain, b)
                /\ \A tx \in b.txs : b.txs = {tx} /\ tx.nonce = Account /\ Carries(tx)
           /\ mempool' \subseteq mempool
           /\ \A tx \in mempool \ mempool' : tx.nonce < Account'
<1>1. TypeOK /\ Account \in Nat /\ chain \in Seq(Blocks) /\ Account = Count(chain, Len(chain))
    BY ChainType DEF PayoutInv, WithdrawerInv
<1>2. CASE chain' = Append(chain, [salt |-> reorgs, txs |-> {}]) /\ UNCHANGED mempool
    <2>1. [salt |-> reorgs, txs |-> {}] \in Blocks
        BY <1>1 DEF TypeOK, Blocks
    <2> QED BY <1>2, <2>1
<1>3. ASSUME NEW tx \in mempool, NEW ok \in BOOLEAN, tx.nonce = Account,
             chain' = Append(chain, [salt |-> reorgs,
                                     txs |-> {[who |-> tx.who, nonce |-> tx.nonce, ok |-> ok]}]),
             mempool' = {t \in mempool : t.nonce > tx.nonce}
      PROVE  /\ \E b \in Blocks :
                /\ chain' = Append(chain, b)
                /\ \A t \in b.txs : b.txs = {t} /\ t.nonce = Account /\ Carries(t)
             /\ mempool' \subseteq mempool
             /\ \A t \in mempool \ mempool' : t.nonce < Account'
    <2> DEFINE m == [who |-> tx.who, nonce |-> tx.nonce, ok |-> ok]
               b == [salt |-> reorgs, txs |-> {m}]
    <2>1. m \in [who : Senders, nonce : Int, ok : BOOLEAN]
        BY <1>1, <1>3 DEF TypeOK, PendingTxs
    <2>2. b \in Blocks
        BY <1>1, <2>1 DEF TypeOK, Blocks
    <2>3. Carries(m) /\ m.nonce = Account
        BY <1>3 DEF PayoutInv, SentInv, Carries
    <2>4. \A t \in b.txs : b.txs = {t} /\ t.nonce = Account /\ Carries(t)
        BY <2>3
    <2>5. Account' = Account + 1
        <3>1. b.txs # {} /\ chain' = Append(chain, b)
            BY <1>3
        <3> HIDE DEF b
        <3>2. Count(chain', Len(chain')) = Count(chain, Len(chain)) + 1
            BY <1>1, <2>2, <2>4, <3>1, OrderedAppend DEF PayoutInv
        <3> QED BY <1>1, <3>2 DEF Account, LatestNonce, Count
    <2>6. \A t \in mempool \ mempool' : t.nonce < Account'
        BY <1>1, <1>3, <2>5 DEF TypeOK, PendingTxs
    <2>7. chain' = Append(chain, b) /\ mempool' \subseteq mempool
        BY <1>3
    <2> QED BY <2>2, <2>4, <2>6, <2>7
<1> QED BY <1>2, <1>3 DEF Mine

LEMMA PayoutMine == PayoutInv /\ WithdrawerInv' /\ Mine => PayoutInv'
<1> SUFFICES ASSUME PayoutInv, WithdrawerInv', Mine PROVE PayoutInv'
    OBVIOUS
<1>1. PICK b \in Blocks :
        /\ chain' = Append(chain, b)
        /\ \A tx \in b.txs : b.txs = {tx} /\ tx.nonce = Account /\ Carries(tx)
    BY MineFacts
<1>2. mempool' \subseteq mempool /\ \A tx \in mempool \ mempool' : tx.nonce < Account'
    BY MineFacts
<1> DEFINE n == Len(chain)
<1>3. /\ TypeOK /\ chain \in Seq(Blocks) /\ n \in Nat /\ Account \in Nat /\ Account = Count(chain, n)
    BY ChainType DEF PayoutInv, WithdrawerInv
<1>4. /\ Len(chain') = n + 1 /\ chain'[n + 1] = b /\ \A h \in 1..n : chain'[h] = chain[h]
    BY <1>1, <1>3, AppendProperties
<1>5. /\ Ordered(chain')
      /\ Count(chain', n + 1) = IF b.txs = {} THEN Account ELSE Account + 1
    <2>1. Ordered(chain) /\ \A tx \in b.txs : b.txs = {tx} /\ tx.nonce = Count(chain, Len(chain))
        BY <1>1, <1>3 DEF PayoutInv
    <2> QED BY <1>1, <1>3, <1>4, <2>1, OrderedAppend
<1>6. Account' \in Nat /\ Account <= Account'
    <2>1. Account' = Count(chain', n + 1)
        BY <1>4 DEF Account, LatestNonce, Count
    <2> QED BY <1>3, <1>5, <2>1
<1> HIDE DEF n
<1>7. UNCHANGED <<reorgs, evictions, db, session, pc, current, head>>
    BY DEF Mine, workerVars
<1>8. ASSUME NEW r \in Requests, ~Signed(db, r) \/ db.reqs[r].nonce < Account
      PROVE  (Mined(r)' => Mined(r)) /\ (Paid(r)' => Paid(r))
    <2>1. \A tx \in b.txs : tx.who # r
        BY <1>1, <1>8, SpentNotMined
    <2>2. ASSUME NEW h \in 1..(n + 1), NEW tx \in chain'[h].txs, tx.who = r
          PROVE  h \in 1..n /\ tx \in chain[h].txs
        <3>1. h # n + 1
            BY <1>4, <2>1, <2>2
        <3>2. h \in 1..n
            BY <1>3, <3>1
        <3> QED BY <1>4, <3>2
    <2>3. Mined(r)' => Mined(r)
        BY <1>4, <2>2 DEF Mined, MinedAt, n
    <2>4. Paid(r)' => Paid(r)
        BY <1>4, <2>2 DEF Paid, PaidAt, n
    <2> QED BY <2>3, <2>4
<1>9. SentInv'
    <2>1. \A tx : Carries(tx) => Carries(tx)'
        BY <1>7 DEF Carries, Signed
    <2>2. ASSUME NEW h \in 1..(n + 1), NEW tx \in chain'[h].txs PROVE Carries(tx)
        <3>1. CASE h = n + 1
            BY <1>1, <1>4, <3>1
        <3>2. CASE h \in 1..n
            BY <1>4, <3>2 DEF PayoutInv, SentInv, n
        <3> QED BY <1>3, <3>1, <3>2
    <2>3. \A tx \in mempool' : Carries(tx)
        BY <1>2 DEF PayoutInv, SentInv
    <2>4. Waiting(db)' /\ Waiting(session)'
        BY <1>7 DEF PayoutInv, SentInv, Waiting, Signed
    <2> QED BY <1>4, <2>1, <2>2, <2>3, <2>4 DEF SentInv
<1>10. ReceiptInv'
    BY <1>3, <1>4, <1>7 DEF PayoutInv, ReceiptInv, TypeOK, n
<1>11. ASSUME NEW r \in Requests, DeepPaid(r) PROVE DeepPaid(r)'
    <2>1. PICK h \in 1..n : h + Confirmations <= n /\ PaidAt(r, h)
        BY <1>11 DEF DeepPaid, n
    <2>2. h \in 1..(n + 1) /\ h + Confirmations <= n + 1 /\ PaidAt(r, h)'
        BY <1>3, <1>4, <2>1, WithdrawerAssumption DEF PaidAt
    <2> QED BY <1>4, <2>2 DEF DeepPaid
<1>12. /\ SettledInv(db) => SettledInv(db)'
       /\ SettledInv(session) => SettledInv(session)'
    BY <1>7, <1>11 DEF SettledInv
<1>13. ASSUME MaxLag = 0, reorgs = 0 PROVE RefundInv(db)' /\ RefundInv(session)' /\ UnminedInv'
    <2>1. RefundInv(db) /\ RefundInv(session) /\ UnminedInv
        BY <1>13 DEF PayoutInv
    <2>2. \A r \in Requests : /\ session.reqs[r].nonce = db.reqs[r].nonce /\ db.reqs[r].nonce \in Int
                              /\ Signed(session, r) <=> Signed(db, r)
        BY DEF PayoutInv, WithdrawerInv, PhaseInv, TypeOK, Databases, Rows, Signed
    <2>3. ASSUME NEW d \in {db, session}, RefundInv(d), NEW r \in Requests
          PROVE  /\ d.reqs[r].status = "failed" =>
                        ~Signed(d, r) \/ (d.reqs[r].nonce < Account' /\ ~Paid(r)')
                 /\ d.reqs[r].since # NoBlock => d.reqs[r].nonce < Account'
        <3>1. d.reqs[r].nonce = db.reqs[r].nonce /\ d.reqs[r].nonce \in Int
            BY <2>2
        <3> QED BY <1>3, <1>6, <1>8, <2>3, <3>1 DEF RefundInv
    <2>4. RefundInv(db)' /\ RefundInv(session)'
        BY <1>7, <2>1, <2>3 DEF RefundInv, Signed
    <2>5. UnminedInv'
        <3>1. SUFFICES ASSUME pc = "decide", ~current.mined, session.reqs[current.req].since # NoBlock
                       PROVE  ~Mined(current.req)'
            BY <1>7 DEF UnminedInv
        <3>2. PICK r \in Requests : r = current.req
            BY <1>3, <3>1 DEF TypeOK
        <3>3. db.reqs[r].nonce < Account /\ ~Mined(r)
            BY <2>1, <2>2, <3>1, <3>2 DEF RefundInv, UnminedInv
        <3>4. ~Mined(r)'
            BY <1>8, <3>3
        <3> QED BY <1>7, <3>2, <3>4
    <2> QED BY <2>4, <2>5
<1>14. GapFree => GapFree'
    <2> SUFFICES ASSUME GapFree, db.next # NoRow, NEW k \in 0..(db.next - 1)
                 PROVE  (\E r \in Requests : db.reqs[r].nonce = k) \/ k < Account' \/ Occupied(k)'
        BY <1>7 DEF GapFree
    <2>1. k \in Int
        OBVIOUS
    <2>2. CASE k < Account
        BY <1>3, <1>6, <2>1, <2>2
    <2>3. CASE Occupied(k)
        BY <1>2, <2>3 DEF Occupied
    <2> QED BY <2>2, <2>3 DEF GapFree
<1> QED BY <1>5, <1>7, <1>9, <1>10, <1>12, <1>13, <1>14 DEF PayoutInv

\* Blocks are replaced: a payout below the replaced blocks stays, and the nonces of
\* the replaced ones are pending again.
LEMMA PayoutReorg == PayoutInv /\ WithdrawerInv' /\ Reorg => PayoutInv'
<1> SUFFICES ASSUME PayoutInv, WithdrawerInv', Reorg PROVE PayoutInv'
    OBVIOUS
<1> DEFINE n == Len(chain)
           back(m) == {[who |-> tx.who, nonce |-> tx.nonce] :
                            tx \in UNION {chain[h].txs : h \in (m + 1)..Len(chain)}}
<1>1. PICK m \in 0..(n - 1) :
        /\ n - m <= MaxReorgDepth
        /\ chain' = [h \in 1..n |->
                        IF h <= m THEN chain[h] ELSE [salt |-> reorgs + 1, txs |-> {}]]
        /\ mempool' = mempool \cup back(m)
    BY DEF Reorg
<1>2. /\ TypeOK /\ chain \in Seq(Blocks) /\ n \in Nat /\ Account \in Nat
      /\ chain' \in Seq(Blocks) /\ Len(chain') \in Nat
      /\ DOMAIN chain' = 1..Len(chain')
    BY ChainType, LenProperties DEF PayoutInv, WithdrawerInv, TypeOK
<1>3. Len(chain') = n
    <2>1. DOMAIN chain' = 1..n
        BY <1>1
    <2> QED BY <1>2, <2>1
<1>4. /\ m \in 0..n /\ \A h \in 1..m : chain'[h] = chain[h]
      /\ \A h \in (m + 1)..n : chain'[h].txs = {}
    BY <1>1, <1>2
<1>5. Ordered(chain') /\ Count(chain', n) = Count(chain, m)
    BY <1>2, <1>3, <1>4, OrderedCut DEF PayoutInv
<1>6. Account' = Count(chain, m)
    BY <1>3, <1>5 DEF Account, LatestNonce, Count
<1>7. UNCHANGED <<evictions, db, session, pc, current, head>> /\ reorgs' = reorgs + 1 /\ reorgs' # 0
    BY <1>2 DEF Reorg, workerVars, TypeOK
<1> HIDE DEF n
<1>8. ASSUME NEW h \in 1..n, NEW tx \in chain'[h].txs PROVE h \in 1..m /\ tx \in chain[h].txs
    BY <1>2, <1>4
<1>9. SentInv'
    <2>1. \A tx : Carries(tx) => Carries(tx)'
        BY <1>7 DEF Carries, Signed
    <2>2. ASSUME NEW h \in 1..n, NEW tx \in chain[h].txs PROVE Carries(tx)
        BY DEF PayoutInv, SentInv, n
    <2>3. ASSUME NEW tx \in back(m) PROVE Carries(tx)
        <3>1. PICK h \in (m + 1)..n : \E ux \in chain[h].txs : tx = [who |-> ux.who, nonce |-> ux.nonce]
            BY <2>3 DEF n
        <3>2. PICK ux \in chain[h].txs : tx = [who |-> ux.who, nonce |-> ux.nonce]
            BY <3>1
        <3>3. Carries(ux)
            BY <1>2, <1>4, <2>2
        <3> QED BY <3>2, <3>3 DEF Carries
    <2>4. \A tx \in mempool' : Carries(tx)
        BY <1>1, <2>3 DEF PayoutInv, SentInv
    <2>5. \A h \in 1..n : \A tx \in chain'[h].txs : Carries(tx)
        BY <1>8, <2>2
    <2>6. Waiting(db)' /\ Waiting(session)'
        BY <1>7 DEF PayoutInv, SentInv, Waiting, Signed
    <2> QED BY <1>3, <2>1, <2>4, <2>5, <2>6 DEF SentInv
<1>10. ReceiptInv'
    BY <1>3, <1>7 DEF PayoutInv, ReceiptInv, n
<1>11. ASSUME MaxReorgDepth <= Confirmations, NEW r \in Requests, DeepPaid(r) PROVE DeepPaid(r)'
    <2>1. PICK h \in 1..n : h + Confirmations <= n /\ PaidAt(r, h)
        BY <1>11 DEF DeepPaid, n
    <2>2. h \in 1..m
        BY <1>1, <1>2, <1>11, <2>1, WithdrawerAssumption
    <2>3. PaidAt(r, h)'
        BY <1>4, <2>1, <2>2 DEF PaidAt
    <2> QED BY <1>3, <2>1, <2>3 DEF DeepPaid
<1>12. MaxReorgDepth <= Confirmations => SettledInv(db)' /\ SettledInv(session)'
    BY <1>7, <1>11 DEF PayoutInv, SettledInv
<1>13. GapFree => GapFree'
    <2> SUFFICES ASSUME GapFree, db.next # NoRow, NEW k \in 0..(db.next - 1)
                 PROVE  (\E r \in Requests : db.reqs[r].nonce = k) \/ k < Account' \/ Occupied(k)'
        BY <1>7 DEF GapFree
    <2>1. k \in Nat
        OBVIOUS
    <2>2. CASE k < Account
        <3>1. k \in 0..(Count(chain, n) - 1) /\ n \in 0..n
            BY <1>2, <2>1, <2>2, ChainType DEF n
        <3>2. PICK h \in 1..n : \E tx \in chain[h].txs : tx.nonce = k
            BY <3>1 DEF PayoutInv, Ordered, n
        <3>3. PICK tx \in chain[h].txs : tx.nonce = k
            BY <3>2
        <3>4. CASE h \in 1..m
            BY <1>2, <1>4, <1>6, <3>3, <3>4, UsedNonce DEF PayoutInv, n
        <3>5. CASE h \in (m + 1)..n
            <4>1. [who |-> tx.who, nonce |-> tx.nonce] \in mempool'
                BY <1>1, <3>5 DEF n
            <4> QED BY <3>3, <4>1 DEF Occupied
        <3> QED BY <1>2, <1>4, <3>4, <3>5
    <2>3. CASE Occupied(k)
        BY <1>1, <2>3 DEF Occupied
    <2> QED BY <2>2, <2>3 DEF GapFree
<1> QED BY <1>5, <1>7, <1>9, <1>10, <1>12, <1>13 DEF PayoutInv

\* Only the mempool changes.
LEMMA PayoutMempool ==
    ASSUME PayoutInv, WithdrawerInv', UNCHANGED <<chain, reorgs, workerVars>>,
           \A tx \in mempool' : Carries(tx),
           evictions' = 0 \/ Foreign = {} => GapFree'
    PROVE  PayoutInv'
<1>1. UNCHANGED <<chain, reorgs, db, session, pc, current, head>>
    BY DEF workerVars
<1>2. SentInv'
    BY <1>1 DEF PayoutInv, SentInv, Waiting, Carries, Signed
<1>3. Ordered(chain)' /\ ReceiptInv'
    BY <1>1 DEF PayoutInv, Ordered, ReceiptInv
<1>4. \A r \in Requests : DeepPaid(r)' = DeepPaid(r) /\ Paid(r)' = Paid(r) /\ Mined(r)' = Mined(r)
    BY <1>1 DEF DeepPaid, Paid, PaidAt, Mined, MinedAt
<1>5. Account' = Account
    BY <1>1 DEF Account, LatestNonce
<1>6. MaxReorgDepth <= Confirmations => SettledInv(db)' /\ SettledInv(session)'
    BY <1>1, <1>4 DEF PayoutInv, SettledInv
<1>7. MaxLag = 0 /\ reorgs' = 0 => RefundInv(db)' /\ RefundInv(session)' /\ UnminedInv'
    <2> SUFFICES ASSUME MaxLag = 0, reorgs = 0 PROVE RefundInv(db)' /\ RefundInv(session)' /\ UnminedInv'
        BY <1>1
    <2>1. RefundInv(db) /\ RefundInv(session) /\ UnminedInv
        BY DEF PayoutInv
    <2>2. RefundInv(db)' /\ RefundInv(session)'
        BY <1>1, <1>4, <1>5, <2>1 DEF RefundInv, Signed
    <2>3. UnminedInv'
        BY <1>1, <2>1 DEF UnminedInv, Mined, MinedAt
    <2> QED BY <2>2, <2>3
<1> QED BY <1>2, <1>3, <1>6, <1>7 DEF PayoutInv

\* A foreign transaction takes a free nonce or the place of a pending one.
LEMMA PayoutForeign ==
    ASSUME PayoutInv, WithdrawerInv', NEW f \in Foreign, SendForeign(f)
    PROVE  PayoutInv'
<1>1. PICK n \in Reachable :
        mempool' = {tx \in mempool : tx.nonce # n} \cup {[who |-> f, nonce |-> n]}
    BY DEF SendForeign
<1>2. \A tx \in mempool' : Carries(tx)
    BY <1>1, WithdrawerAssumption DEF PayoutInv, SentInv, Carries
<1>3. UNCHANGED <<chain, reorgs, evictions, workerVars>> /\ UNCHANGED db
    BY DEF SendForeign, workerVars
<1>4. GapFree => GapFree'
    <2>1. ASSUME NEW k, Occupied(k) PROVE Occupied(k)'
        <3>1. PICK tx \in mempool : tx.nonce = k
            BY <2>1 DEF Occupied
        <3>2. CASE k = n
            <4>1. [who |-> f, nonce |-> n] \in mempool'
                BY <1>1
            <4> QED BY <3>2, <4>1 DEF Occupied
        <3>3. CASE k # n
            <4>1. tx \in mempool'
                BY <1>1, <3>1, <3>3
            <4> QED BY <3>1, <4>1 DEF Occupied
        <3> QED BY <3>2, <3>3
    <2>2. Account' = Account
        BY <1>3 DEF Account, LatestNonce
    <2> QED BY <1>3, <2>1, <2>2 DEF GapFree
<1> QED BY <1>2, <1>3, <1>4, PayoutMempool DEF PayoutInv

\* Without foreign transactions what is evicted is signed.
LEMMA PayoutEvict == PayoutInv /\ WithdrawerInv' /\ Evict => PayoutInv'
<1> SUFFICES ASSUME PayoutInv, WithdrawerInv', Evict PROVE PayoutInv'
    OBVIOUS
<1>1. PICK tx \in mempool : mempool' = mempool \ {tx}
    BY DEF Evict
<1>2. UNCHANGED <<chain, reorgs, workerVars>> /\ UNCHANGED db /\ evictions' # 0
    BY DEF Evict, workerVars, PayoutInv, WithdrawerInv, TypeOK
<1>3. \A t \in mempool' : Carries(t)
    BY <1>1 DEF PayoutInv, SentInv
<1>4. ASSUME Foreign = {} PROVE GapFree'
    <2>1. tx.who \in Requests /\ db.reqs[tx.who].nonce = tx.nonce
        BY <1>4 DEF PayoutInv, SentInv, Carries, WithdrawerInv, TypeOK, PendingTxs, Senders
    <2>2. \A k : Occupied(k) => Occupied(k)' \/ \E r \in Requests : db.reqs[r].nonce = k
        BY <1>1, <2>1 DEF Occupied
    <2>3. Account' = Account
        BY <1>2 DEF Account, LatestNonce
    <2>4. GapFree
        BY <1>4 DEF PayoutInv
    <2> QED BY <1>2, <2>2, <2>3, <2>4 DEF GapFree
<1> QED BY <1>2, <1>3, <1>4, PayoutMempool

\* The worker: what a step leaves in a database e, given what was in d, when it
\* neither resolves nor marks a request that has a nonce.
Calm(d, e) ==
    \A r \in Requests :
        /\ e.reqs[r].status \in {"none", "requested"} =>
                /\ d.reqs[r].status \in {"none", "requested"}
                /\ e.reqs[r].nonce = d.reqs[r].nonce /\ e.reqs[r].since = d.reqs[r].since
        /\ e.reqs[r].status = "confirmed" => d.reqs[r].status = "confirmed"
        /\ e.reqs[r].status = "failed" =>
                ~Signed(e, r) \/ (d.reqs[r].status = "failed" /\ e.reqs[r].nonce = d.reqs[r].nonce)
        /\ e.reqs[r].since # NoBlock =>
                d.reqs[r].since # NoBlock /\ e.reqs[r].nonce = d.reqs[r].nonce

LEMMA CalmKeeps ==
    ASSUME NEW d, NEW e, Calm(d, e)
    PROVE  /\ Waiting(d) => Waiting(e)
           /\ SettledInv(d) => SettledInv(e)
           /\ RefundInv(d) => RefundInv(e)
<1>1. Waiting(d) => Waiting(e)
    BY DEF Calm, Waiting, Signed
<1>2. SettledInv(d) => SettledInv(e)
    BY DEF Calm, SettledInv
<1>3. RefundInv(d) => RefundInv(e)
    <2> SUFFICES ASSUME RefundInv(d), NEW r \in Requests
                 PROVE  /\ e.reqs[r].status = "failed" =>
                                ~Signed(e, r) \/ (e.reqs[r].nonce < Account /\ ~Paid(r))
                        /\ e.reqs[r].since # NoBlock => e.reqs[r].nonce < Account
        BY DEF RefundInv
    <2> QED BY DEF Calm, RefundInv, Signed
<1> QED BY <1>1, <1>2, <1>3

\* The chain stands still: what the databases promise of it they promise after.
LEMMA PayoutWorker ==
    ASSUME PayoutInv, WithdrawerInv', UNCHANGED <<chain, reorgs, evictions>>,
           \A tx \in mempool' : Carries(tx),
           \A r \in Requests : Signed(db, r) => db'.reqs[r].nonce = db.reqs[r].nonce,
           Waiting(db'), Waiting(session'), ReceiptInv',
           MaxReorgDepth <= Confirmations => SettledInv(db') /\ SettledInv(session'),
           MaxLag = 0 /\ reorgs = 0 => RefundInv(db') /\ RefundInv(session') /\ UnminedInv',
           evictions = 0 \/ Foreign = {} => GapFree'
    PROVE  PayoutInv'
<1>1. Ordered(chain)'
    BY DEF PayoutInv, Ordered
<1>2. SentInv'
    <2>1. \A tx : Carries(tx) => Carries(tx)'
        BY DEF Carries, Signed
    <2>2. \A h \in 1..Len(chain) : \A tx \in chain[h].txs : Carries(tx)
        BY DEF PayoutInv, SentInv
    <2>3. Waiting(db)' /\ Waiting(session)'
        BY DEF Waiting, Signed
    <2> QED BY <2>1, <2>2, <2>3 DEF SentInv
<1>3. MaxReorgDepth <= Confirmations => SettledInv(db)' /\ SettledInv(session)'
    BY DEF SettledInv, DeepPaid, PaidAt
<1>4. MaxLag = 0 /\ reorgs' = 0 => RefundInv(db)' /\ RefundInv(session)' /\ UnminedInv'
    <2>1. Account' = Account
        BY DEF Account, LatestNonce
    <2>2. \A r \in Requests : Paid(r)' = Paid(r)
        BY DEF Paid, PaidAt
    <2>3. RefundInv(db') => RefundInv(db)'
        BY <2>1, <2>2 DEF RefundInv, Signed
    <2>4. RefundInv(session') => RefundInv(session)'
        BY <2>1, <2>2 DEF RefundInv, Signed
    <2> QED BY <2>3, <2>4
<1> QED BY <1>1, <1>2, <1>3, <1>4 DEF PayoutInv

LEMMA PayoutCalm ==
    ASSUME PayoutInv, WithdrawerInv', UNCHANGED <<chain, reorgs, evictions>>,
           \A tx \in mempool' : Carries(tx),
           \A r \in Requests : Signed(db, r) => db'.reqs[r].nonce = db.reqs[r].nonce,
           Calm(db, db') \/ Calm(session, db'), Calm(session, session') \/ Calm(db, session'),
           ReceiptInv', MaxLag = 0 /\ reorgs = 0 => UnminedInv',
           evictions = 0 \/ Foreign = {} => GapFree'
    PROVE  PayoutInv'
<1>1. Waiting(db') /\ Waiting(session')
    BY CalmKeeps DEF PayoutInv, SentInv
<1>2. MaxReorgDepth <= Confirmations => SettledInv(db') /\ SettledInv(session')
    BY CalmKeeps DEF PayoutInv
<1>3. MaxLag = 0 /\ reorgs = 0 => RefundInv(db') /\ RefundInv(session') /\ UnminedInv'
    BY CalmKeeps DEF PayoutInv
<1> QED BY <1>1, <1>2, <1>3, PayoutWorker

LEMMA GapKeeps ==
    ASSUME GapFree, UNCHANGED chain, mempool \subseteq mempool', db'.next = db.next,
           \A r \in Requests : db'.reqs[r].nonce = db.reqs[r].nonce
    PROVE  GapFree'
<1>1. Account' = Account /\ \A k : Occupied(k) => Occupied(k)'
    BY DEF Account, LatestNonce, Occupied
<1> QED BY <1>1 DEF GapFree

LEMMA CalmSame == \A d : Calm(d, d)
    BY DEF Calm

\* Steps that change nothing but where the pass is, commit it or give it up.
LEMMA PayoutPass ==
    ASSUME PayoutInv, WithdrawerInv', UNCHANGED chainVars, db' \in {db, session},
           session' \in {db, session}, ReceiptInv', MaxLag = 0 /\ reorgs = 0 => UnminedInv'
    PROVE  PayoutInv'
<1>1. UNCHANGED <<chain, mempool, reorgs, evictions>>
    BY DEF chainVars
<1>2. \A r \in Requests : db'.reqs[r].nonce = db.reqs[r].nonce
    BY DEF PayoutInv, WithdrawerInv, PhaseInv
<1>3. db'.next = db.next
    BY DEF PayoutInv, WithdrawerInv, PhaseInv
<1>4. evictions = 0 \/ Foreign = {} => GapFree'
    BY <1>1, <1>2, <1>3, GapKeeps DEF PayoutInv
<1>5. \A tx \in mempool' : Carries(tx)
    BY <1>1 DEF PayoutInv, SentInv
<1>6. (Calm(db, db') \/ Calm(session, db')) /\ (Calm(session, session') \/ Calm(db, session'))
    BY CalmSame
<1> QED BY <1>1, <1>2, <1>4, <1>5, <1>6, PayoutCalm

LEMMA PayoutBookkeeping ==
    ASSUME PayoutInv, WithdrawerInv',
           SignNothing \/ CommitBroadcast \/ CommitConfirm \/ Fail \/ ReadHead
    PROVE  PayoutInv'
<1>1. /\ UNCHANGED chainVars /\ db' \in {db, session} /\ session' \in {db, session}
      /\ pc' # "decide"
    BY DEF SignNothing, CommitBroadcast, CommitConfirm, Fail, ReadHead
<1>2. head' <= Len(chain)
    <2>1. CASE ReadHead
        BY <2>1 DEF ReadHead, Heads
    <2>2. CASE head' = head
        BY <2>2 DEF PayoutInv, ReceiptInv
    <2> QED BY <2>1, <2>2 DEF SignNothing, CommitBroadcast, CommitConfirm, Fail
<1>3. ReceiptInv' /\ UnminedInv'
    BY <1>1, <1>2 DEF ReceiptInv, UnminedInv, chainVars
<1> QED BY <1>1, <1>3, PayoutPass

\* get_receipt: the answer of one provider about one chain.
LEMMA ReceiptFacts ==
    ASSUME PayoutInv, NEW r \in Requests, NEW v \in Heads
    PROVE  /\ Receipt(r, v).req = r
           /\ Receipt(r, v).mined =>
                /\ Receipt(r, v).block \in Nat \ {0}
                /\ \E tx \in Receipt(r, v).hash[Receipt(r, v).block].txs :
                        tx.who = r /\ (Receipt(r, v).ok <=> tx.ok)
           /\ ~Receipt(r, v).mined => ~\E n \in 1..v : MinedAt(r, n)
<1>1. chain \in Seq(Blocks) /\ Len(chain) \in Nat /\ v \in 0..Len(chain)
    BY ChainType DEF PayoutInv, WithdrawerInv, Heads
<1>2. CASE ~\E n \in 1..v : MinedAt(r, n)
    <2>1. Receipt(r, v) = [Nothing EXCEPT !.req = r]
        BY <1>2 DEF Receipt
    <2> QED BY <1>2, <2>1 DEF Nothing
<1>3. CASE \E n \in 1..v : MinedAt(r, n)
    <2> DEFINE n == CHOOSE m \in 1..v : MinedAt(r, m)
    <2>1. n \in 1..v /\ MinedAt(r, n)
        BY <1>3
    <2>2. Receipt(r, v) = [req |-> r, mined |-> TRUE, block |-> n, hash |-> Hash(n),
                           ok |-> \E tx \in chain[n].txs : tx.ok]
        BY <1>3 DEF Receipt
    <2> HIDE DEF n
    <2>3. n \in Nat \ {0} /\ n \in 1..Len(chain)
        BY <1>1, <2>1
    <2>4. Hash(n)[n] = chain[n]
        <3>1. \A i \in 1..n : chain[i] \in Blocks
            BY <1>1, <2>3, ElementOfSeq
        <3>2. \A i \in 1..n : SubSeq(chain, 1, n)[i] = chain[i]
            BY <2>3, <3>1, SubSeqProperties
        <3> QED BY <2>3, <3>2 DEF Hash
    <2>5. PICK tx \in chain[n].txs : tx.who = r
        BY <2>1 DEF MinedAt
    <2>6. chain[n].txs = {tx}
        BY <2>3 DEF PayoutInv, Ordered
    <2>7. Receipt(r, v).ok <=> tx.ok
        BY <2>2, <2>6
    <2>8. /\ Receipt(r, v).req = r /\ Receipt(r, v).mined /\ Receipt(r, v).block = n
          /\ Receipt(r, v).hash = Hash(n)
        BY <2>2
    <2> QED BY <2>3, <2>4, <2>5, <2>7, <2>8
<1> QED BY <1>2, <1>3

LEMMA PayoutReadReceipt ==
    ASSUME PayoutInv, WithdrawerInv', NEW r \in Requests, ReadReceipt(r)
    PROVE  PayoutInv'
<1>1. PICK v \in Heads : current' = Receipt(r, v)
    BY DEF ReadReceipt
<1>2. UNCHANGED chainVars /\ UNCHANGED <<chain, db, session, head>>
    BY DEF ReadReceipt, chainVars
<1>3. ReceiptInv'
    <2>1. head' <= Len(chain')
        BY <1>2 DEF PayoutInv, ReceiptInv
    <2>2. current'.mined =>
            /\ current'.block \in Nat \ {0}
            /\ \E tx \in current'.hash[current'.block].txs :
                    tx.who = current'.req /\ (current'.ok <=> tx.ok)
        BY <1>1, ReceiptFacts
    <2> QED BY <2>1, <2>2 DEF ReceiptInv
<1>4. ASSUME MaxLag = 0 PROVE UnminedInv'
    <2>1. v = Len(chain)
        BY <1>4, ChainType DEF Heads, PayoutInv, WithdrawerInv
    <2>2. ~current'.mined => ~Mined(r)
        BY <1>1, <2>1, ReceiptFacts DEF Mined
    <2>3. current'.req = r
        BY <1>1, ReceiptFacts
    <2>4. Mined(r)' = Mined(r)
        BY <1>2 DEF Mined, MinedAt
    <2>5. ~current'.mined => ~Mined(current.req)'
        BY <1>2, <2>2, <2>3 DEF Mined, MinedAt
    <2> QED BY <2>5 DEF UnminedInv
<1> QED BY <1>2, <1>3, <1>4, PayoutPass

LEMMA PayoutCreate ==
    ASSUME PayoutInv, WithdrawerInv', NEW r \in Requests, CreateWithdrawal(r)
    PROVE  PayoutInv'
<1>1. /\ db \in Databases /\ session \in Databases /\ "requested" \in Statuses
      /\ db.reqs[r].status = "none" /\ session.reqs[r].status = "none"
    BY DEF PayoutInv, WithdrawerInv, TypeOK, PhaseInv, CreateWithdrawal, Statuses
<1>2. /\ UNCHANGED <<chain, mempool, reorgs, evictions, head, pc, current>>
      /\ db' = [db EXCEPT !.reqs[r].status = "requested"]
      /\ session' = [session EXCEPT !.reqs[r].status = "requested"]
    BY DEF CreateWithdrawal, chainVars
<1>3. ASSUME NEW d \in Databases, d.reqs[r].status = "none"
      PROVE  LET e == [d EXCEPT !.reqs[r].status = "requested"]
             IN  /\ Calm(d, e) /\ e.next = d.next
                 /\ \A q \in Requests : /\ e.reqs[q].nonce = d.reqs[q].nonce
                                        /\ e.reqs[q].since = d.reqs[q].since
    <2> DEFINE e == [d EXCEPT !.reqs[r].status = "requested"]
    <2>1. e.next = d.next /\ e.reqs[r].status = "requested" /\ \A q \in Requests \ {r} : e.reqs[q] = d.reqs[q]
        BY <1>1, <1>3, StatusTouches DEF Touches
    <2>2. \A q \in Requests : e.reqs[q].nonce = d.reqs[q].nonce
        BY <1>1, <1>3, StatusTouches DEF Touches
    <2>3. e.reqs[r].since = d.reqs[r].since
        BY DEF Databases, Rows
    <2> HIDE DEF e
    <2>4. Calm(d, e)
        BY <1>3, <2>1, <2>2, <2>3 DEF Calm
    <2> QED BY <2>1, <2>2, <2>3, <2>4 DEF e
<1>4. /\ Calm(db, db') /\ Calm(session, session') /\ db'.next = db.next
      /\ \A q \in Requests : /\ db'.reqs[q].nonce = db.reqs[q].nonce
                             /\ session'.reqs[q].since = session.reqs[q].since
    BY <1>1, <1>2, <1>3
<1>5. evictions = 0 \/ Foreign = {} => GapFree'
    BY <1>2, <1>4, GapKeeps DEF PayoutInv
<1>6. ReceiptInv'
    BY <1>2 DEF PayoutInv, ReceiptInv
<1>7. MaxLag = 0 /\ reorgs = 0 => UnminedInv'
    <2> SUFFICES ASSUME UnminedInv, pc = "decide", ~current.mined,
                        session'.reqs[current.req].since # NoBlock
                 PROVE  ~Mined(current.req)'
        BY <1>2 DEF PayoutInv, UnminedInv
    <2>1. current.req \in Requests
        BY DEF PayoutInv, WithdrawerInv, TypeOK
    <2>2. ~Mined(current.req)
        BY <1>4, <2>1 DEF UnminedInv
    <2> QED BY <1>2, <2>2 DEF Mined, MinedAt
<1>8. \A tx \in mempool' : Carries(tx)
    BY <1>2 DEF PayoutInv, SentInv
<1> QED BY <1>2, <1>4, <1>5, <1>6, <1>7, <1>8, PayoutCalm

\* A transaction that a node takes has a nonce.
LEMMA SendCarries ==
    ASSUME PayoutInv, NEW r \in Requests, Send(SignedTx(session, r)) \/ UNCHANGED mempool
    PROVE  mempool \subseteq mempool' /\ \A tx \in mempool' : Carries(tx)
<1> DEFINE tx == SignedTx(session, r)
<1>1. \A t \in mempool : Carries(t)
    BY DEF PayoutInv, SentInv
<1>2. tx.who = r /\ tx.nonce = db.reqs[r].nonce
    BY DEF SignedTx, PayoutInv, WithdrawerInv, PhaseInv
<1>3. CASE mempool' = mempool
    BY <1>1, <1>3
<1>4. CASE mempool' = mempool \cup {tx} /\ Acceptable(tx)
    <2>1. Account \in Nat
        BY ChainType DEF PayoutInv, WithdrawerInv
    <2>2. Signed(db, r)
        BY <1>2, <1>4, <2>1 DEF Acceptable, Signed, NoNonce
    <2>3. Carries(tx)
        BY <1>2, <2>2 DEF Carries
    <2> QED BY <1>1, <1>4, <2>3
<1> QED BY <1>3, <1>4 DEF Send

LEMMA PayoutBroadcast ==
    ASSUME PayoutInv, WithdrawerInv', NEW r \in Requests, BroadcastOk(r) \/ BroadcastError(r)
    PROVE  PayoutInv'
<1>1. /\ UNCHANGED <<chain, reorgs, evictions, db, pc, head, current>> /\ pc = "broadcast"
      /\ r \in todo
    BY DEF BroadcastOk, BroadcastError
<1>2. Send(SignedTx(session, r)) \/ UNCHANGED mempool
    BY DEF BroadcastOk, BroadcastError
<1>3. mempool \subseteq mempool' /\ \A tx \in mempool' : Carries(tx)
    BY <1>2, SendCarries
<1>4. Calm(session, session')
    <2>1. CASE session' = session
        BY <2>1, CalmSame
    <2>2. CASE session' = [session EXCEPT !.reqs[r].status = "broadcast"]
        <3>1. session \in Databases /\ "broadcast" \in Statuses
            BY DEF PayoutInv, WithdrawerInv, TypeOK, Statuses
        <3>2. /\ Touches(session, session', r) /\ session'.reqs[r].status = "broadcast"
            BY <2>2, <3>1, StatusTouches
        <3>3. session'.reqs[r].since = session.reqs[r].since
            BY <2>2, <3>1 DEF Databases, Rows
        <3> QED BY <3>2, <3>3 DEF Calm, Touches
    <2> QED BY <2>1, <2>2 DEF BroadcastOk, BroadcastError
<1>5. evictions = 0 \/ Foreign = {} => GapFree'
    BY <1>1, <1>3, GapKeeps DEF PayoutInv
<1>6. ReceiptInv' /\ UnminedInv' /\ Calm(db, db')
    BY <1>1, CalmSame DEF PayoutInv, ReceiptInv, UnminedInv
<1> QED BY <1>1, <1>3, <1>4, <1>5, <1>6, PayoutCalm

\* No answer of pending_nonce jumps over a nonce that nobody uses.
LEMMA PendingNonceCovered ==
    ASSUME PayoutInv, NEW n \in PendingNonces, NEW k \in Nat, k < n
    PROVE  k < Account \/ Occupied(k)
<1>1. chain \in Seq(Blocks) /\ Len(chain) \in Nat /\ Account \in Nat
      /\ Account = Count(chain, Len(chain))
    BY ChainType DEF PayoutInv, WithdrawerInv
<1>2. CASE n \in Reachable
    BY <1>1, <1>2 DEF Reachable
<1>3. ASSUME NEW v \in Heads, n = LatestNonce(v) PROVE k < Account
    <2>1. v \in Nat /\ v <= Len(chain)
        BY <1>1 DEF Heads
    <2>2. n = Count(chain, v) /\ n \in Nat
        BY <1>3, <2>1, CountType DEF LatestNonce, Count
    <2>3. n <= Account
        BY <1>1, <2>1, <2>2, CountMonotone
    <2> QED BY <1>1, <2>2, <2>3
<1> QED BY <1>2, <1>3 DEF PendingNonces

\* Distinct nonces from an interval as large as the batch use up the interval.
LEMMA BatchUsesInterval ==
    ASSUME NEW S, IsFiniteSet(S), NEW n \in Nat,
           NEW nonce \in [S -> n..(n + Cardinality(S) - 1)],
           \A r, q \in S : nonce[r] = nonce[q] => r = q
    PROVE  \A k \in n..(n + Cardinality(S) - 1) : \E r \in S : nonce[r] = k
<1> DEFINE T == n..(n + Cardinality(S) - 1)
<1>1. Cardinality(S) \in Nat
    BY FS_CardinalityType
<1>2. IsFiniteSet(T) /\ Cardinality(T) = Cardinality(S)
    <2>1. n \in Int /\ n + Cardinality(S) - 1 \in Int
        BY <1>1
    <2>2. /\ IsFiniteSet(T)
          /\ Cardinality(T) = IF n > n + Cardinality(S) - 1 THEN 0
                              ELSE (n + Cardinality(S) - 1) - n + 1
        BY <2>1, FS_Interval
    <2> QED BY <1>1, <2>2
<1>3. nonce \in Injection(S, T)
    BY DEF Injection, IsInjective
<1>4. nonce \in Surjection(S, T)
    BY <1>2, <1>3, FS_Injection
<1> QED BY <1>4 DEF Surjection

LEMMA PayoutSign == PayoutInv /\ WithdrawerInv' /\ SignPending => PayoutInv'
<1> SUFFICES ASSUME PayoutInv, WithdrawerInv', SignPending PROVE PayoutInv'
    OBVIOUS
<1>1. PICK claimed \in Claims, chainNonce \in PendingNonces :
       \E signed \in SUBSET (claimed \ Unsignable) :
       \E nonce \in [signed -> NextNonce(chainNonce)..(NextNonce(chainNonce) + Cardinality(signed) - 1)] :
            SignBatch(claimed, NextNonce(chainNonce), signed, nonce)
    BY DEF SignPending
<1>2. PICK signed \in SUBSET (claimed \ Unsignable) :
       \E nonce \in [signed -> NextNonce(chainNonce)..(NextNonce(chainNonce) + Cardinality(signed) - 1)] :
            SignBatch(claimed, NextNonce(chainNonce), signed, nonce)
    BY <1>1
<1> DEFINE base == NextNonce(chainNonce)
           size == Cardinality(signed)
           refunded == claimed \cap Unsignable
<1>3. PICK nonce \in [signed -> base..(base + size - 1)] :
            SignBatch(claimed, base, signed, nonce)
    BY <1>2
<1>4. /\ chainNonce \in Nat /\ base \in Nat
      /\ IF db.next = NoRow THEN base = chainNonce ELSE db.next \in Nat /\ base \in {db.next, chainNonce}
    <2>1. chainNonce \in Nat
        BY PendingNoncesType DEF PayoutInv, WithdrawerInv
    <2> QED BY <2>1 DEF NextNonce, Larger, PayoutInv, WithdrawerInv, TypeOK, Databases
<1>5. IsFiniteSet(signed) /\ size \in Nat
    <2>1. signed \in SUBSET Requests
        BY DEF Pendings, Claims
    <2>2. IsFiniteSet(signed)
        BY <2>1, WithdrawerAssumption, FS_Subset, Zenon
    <2> QED BY <2>2, FS_CardinalityType
<1>6. \A k \in base..(base + size - 1) : \E r \in signed : nonce[r] = k
    <2>1. \A r, q \in signed : nonce[r] = nonce[q] => r = q
        BY <1>3 DEF SignBatch
    <2> QED BY <1>3, <1>4, <1>5, <2>1, BatchUsesInterval
<1> HIDE DEF base, size
<1>7. ASSUME NEW r \in Requests
      PROVE  /\ r \in signed => session'.reqs[r] = Sign(db.reqs[r], nonce[r])
             /\ r \in refunded => session'.reqs[r] = [db.reqs[r] EXCEPT !.status = "failed"]
             /\ r \notin signed /\ r \notin refunded => session'.reqs[r] = db.reqs[r]
             /\ r \in signed \cup refunded =>
                    /\ db.reqs[r].status = "requested" /\ ~(r \in signed /\ r \in refunded)
                    /\ ~Signed(db, r) /\ db.reqs[r].since = NoBlock
    BY <1>3 DEF Pendings, Claims, SignBatch, PayoutInv, SentInv, Waiting
<1>8. ASSUME NEW r \in Requests
      PROVE  /\ r \in signed => /\ session'.reqs[r].status = "signing"
                                /\ session'.reqs[r].nonce = nonce[r]
                                /\ session'.reqs[r].since = NoBlock
             /\ r \in refunded => /\ session'.reqs[r].status = "failed"
                                  /\ session'.reqs[r].nonce = db.reqs[r].nonce
                                  /\ session'.reqs[r].since = NoBlock
    <2>1. db.reqs[r] \in Rows
        BY DEF PayoutInv, WithdrawerInv, TypeOK, Databases
    <2>2. CASE r \in signed
        <3>1. session'.reqs[r] = [db.reqs[r] EXCEPT !.status = "signing", !.nonce = nonce[r]]
            BY <1>7, <2>2 DEF Sign
        <3> QED BY <1>7, <2>1, <2>2, <3>1 DEF Rows
    <2>3. CASE r \in refunded
        <3>1. /\ session'.reqs[r] = [db.reqs[r] EXCEPT !.status = "failed"]
              /\ r \notin signed /\ db.reqs[r].since = NoBlock
            BY <1>7, <2>3
        <3> QED BY <2>1, <3>1 DEF Rows
    <2> QED BY <2>2, <2>3
<1>9. /\ UNCHANGED <<chain, mempool, reorgs, evictions, head>> /\ db' = session' /\ pc' = "broadcast"
      /\ session'.next = base + size
    BY <1>3 DEF SignPending, chainVars, SignBatch, NonceAfter, size
<1>10. Calm(db, session')
    BY <1>7, <1>8 DEF Calm, Signed
<1>11. \A r \in Requests : Signed(db, r) => db'.reqs[r].nonce = db.reqs[r].nonce
    BY <1>7, <1>9
<1>12. ASSUME evictions = 0 \/ Foreign = {} PROVE GapFree'
    <2> SUFFICES ASSUME NEW k \in 0..(db'.next - 1)
                 PROVE  (\E r \in Requests : db'.reqs[r].nonce = k) \/ k < Account' \/ Occupied(k)'
        BY DEF GapFree
    <2>1. k \in Nat /\ k \in 0..(base + size - 1) /\ GapFree
        BY <1>4, <1>5, <1>9, <1>12 DEF PayoutInv
    <2>2. Account' = Account /\ Occupied(k)' = Occupied(k)
        BY <1>9 DEF Account, LatestNonce, Occupied
    <2>3. CASE k < chainNonce
        BY <2>1, <2>2, <2>3, PendingNonceCovered
    <2>4. CASE db.next # NoRow /\ k < db.next
        <3>1. k \in 0..(db.next - 1)
            BY <1>4, <2>1, <2>4
        <3>2. CASE k < Account \/ Occupied(k)
            BY <2>2, <3>2
        <3>3. ASSUME NEW r \in Requests, db.reqs[r].nonce = k
              PROVE  \E q \in Requests : db'.reqs[q].nonce = k
            <4>1. Signed(db, r)
                BY <2>1, <3>3 DEF Signed, NoNonce
            <4> QED BY <1>11, <3>3, <4>1
        <3> QED BY <2>1, <2>4, <3>1, <3>2, <3>3 DEF GapFree
    <2>5. CASE k \in base..(base + size - 1)
        <3>1. PICK r \in signed : nonce[r] = k
            BY <1>6, <2>5
        <3>2. r \in Requests
            BY DEF Pendings, Claims
        <3> QED BY <1>8, <1>9, <3>1, <3>2
    <2> QED BY <1>4, <1>5, <2>1, <2>3, <2>4, <2>5
<1>13. ReceiptInv' /\ UnminedInv'
    BY <1>9 DEF PayoutInv, ReceiptInv, UnminedInv
<1>14. \A tx \in mempool' : Carries(tx)
    BY <1>9 DEF PayoutInv, SentInv
<1> QED BY <1>9, <1>10, <1>11, <1>12, <1>13, <1>14, PayoutCalm

\* The request under inspection changes and nothing else.
LEMMA PayoutDecide ==
    ASSUME PayoutInv, WithdrawerInv', NEW r \in Requests, Touches(session, session', r),
           UNCHANGED chainVars, db' = db, pc' = "confirm", head' = head,
           session'.reqs[r].status \notin {"none", "requested"},
           MaxReorgDepth <= Confirmations =>
                (session'.reqs[r].status = "confirmed" => DeepPaid(r)),
           MaxLag = 0 /\ reorgs = 0 =>
                /\ session'.reqs[r].status = "failed" =>
                        session'.reqs[r].nonce < Account /\ ~Paid(r)
                /\ session'.reqs[r].since # NoBlock => session'.reqs[r].nonce < Account
    PROVE  PayoutInv'
<1>1. UNCHANGED <<chain, mempool, reorgs, evictions>>
    BY DEF chainVars
<1>2. \A q \in Requests \ {r} : session'.reqs[q] = session.reqs[q]
    BY DEF Touches
<1>3. Waiting(session')
    BY <1>2 DEF PayoutInv, SentInv, Waiting, Signed
<1>4. MaxReorgDepth <= Confirmations => SettledInv(db') /\ SettledInv(session')
    BY <1>2 DEF PayoutInv, SettledInv
<1>5. ASSUME MaxLag = 0, reorgs = 0 PROVE RefundInv(db') /\ RefundInv(session') /\ UnminedInv'
    <2>1. RefundInv(session) /\ RefundInv(db)
        BY <1>5 DEF PayoutInv
    <2>2. ASSUME NEW q \in Requests
          PROVE  /\ session'.reqs[q].status = "failed" =>
                        ~Signed(session', q) \/ (session'.reqs[q].nonce < Account /\ ~Paid(q))
                 /\ session'.reqs[q].since # NoBlock => session'.reqs[q].nonce < Account
        <3>1. CASE q = r
            BY <1>5, <3>1
        <3>2. CASE q # r
            BY <1>2, <2>1, <3>2 DEF RefundInv, Signed
        <3> QED BY <3>1, <3>2
    <2>3. RefundInv(session')
        BY <2>2 DEF RefundInv
    <2> QED BY <2>1, <2>3 DEF UnminedInv
<1>6. evictions = 0 \/ Foreign = {} => GapFree'
    BY <1>1, GapKeeps DEF PayoutInv
<1>7. ReceiptInv' /\ Waiting(db') /\ \A tx \in mempool' : Carries(tx)
    BY <1>1 DEF PayoutInv, ReceiptInv, SentInv
<1> QED BY <1>1, <1>3, <1>4, <1>5, <1>6, <1>7, PayoutWorker

\* _reconcile_unmined.
LEMMA PayoutReconcile == PayoutInv /\ WithdrawerInv' /\ ReconcileUnmined => PayoutInv'
<1> SUFFICES ASSUME PayoutInv, WithdrawerInv', ReconcileUnmined PROVE PayoutInv'
    OBVIOUS
<1>1. PICK v \in Heads : session' = Reconcile(session, current.req, LatestNonce(v))
    BY DEF ReconcileUnmined
<1>2. PICK r \in Requests : r = current.req /\ session.reqs[r].status = "broadcast"
    BY DEF ReconcileUnmined, PayoutInv, WithdrawerInv, TypeOK, PhaseInv
<1>3. /\ chain \in Seq(Blocks) /\ Len(chain) \in Nat /\ Account \in Nat
      /\ Account = Count(chain, Len(chain)) /\ session \in Databases /\ head \in Nat
      /\ session.reqs[r].nonce \in Int
    BY ChainType DEF PayoutInv, WithdrawerInv, TypeOK, Databases, Rows
<1>4. LatestNonce(v) \in Nat /\ LatestNonce(v) <= Account
    <2>1. v \in Nat /\ v <= Len(chain)
        BY <1>3 DEF Heads
    <2>2. LatestNonce(v) = Count(chain, v)
        BY DEF LatestNonce, Count
    <2> QED BY <1>3, <2>1, <2>2, CountType, CountMonotone
<1>5. Resolves(session, session', r)
    BY <1>1, <1>2, <1>3, <1>4, ReconcileResolves
<1>6. Touches(session, session', r) /\ session'.reqs[r].nonce = session.reqs[r].nonce
    BY <1>5 DEF Resolves, Touches
<1>7. /\ session'.reqs[r].status \in {"broadcast", "failed"}
      /\ session'.reqs[r].status = "failed" =>
            session.reqs[r].nonce < LatestNonce(v) /\ session.reqs[r].since # NoBlock
      /\ session'.reqs[r].since # NoBlock =>
            session.reqs[r].nonce < LatestNonce(v)
    <2>1. CASE LatestNonce(v) <= session.reqs[r].nonce
        <3>1. session' = [session EXCEPT !.reqs[r].since = NoBlock]
            BY <1>1, <1>2, <2>1 DEF Reconcile
        <3>2. session'.reqs[r].since = NoBlock
            BY <1>3, <3>1 DEF Databases, Rows
        <3>3. session'.reqs[r].status = "broadcast"
            BY <1>2, <1>3, <3>1, MarkTouches DEF NoBlock
        <3> QED BY <3>2, <3>3
    <2>2. CASE session.reqs[r].nonce < LatestNonce(v) /\ session.reqs[r].since = NoBlock
        <3>1. session' = [session EXCEPT !.reqs[r].since = head]
            BY <1>1, <1>2, <1>3, <1>4, <2>2 DEF Reconcile
        <3>2. session'.reqs[r].status = "broadcast"
            BY <1>2, <1>3, <3>1, MarkTouches
        <3> QED BY <2>2, <3>2
    <2>3. CASE session.reqs[r].nonce < LatestNonce(v) /\ session.reqs[r].since # NoBlock
        <3>1. session' \in {session, ReverseReservation(session, r)}
            BY <1>1, <1>2, <1>3, <1>4, <2>3 DEF Reconcile
        <3>2. session'.reqs[r].status \in {"broadcast", "failed"}
            BY <1>2, <1>3, <3>1, ReverseTouches
        <3> QED BY <2>3, <3>2
    <2> QED BY <1>3, <1>4, <2>1, <2>2, <2>3
<1>8. ASSUME MaxLag = 0, reorgs = 0, session'.reqs[r].status = "failed" PROVE ~Paid(r)
    <2>1. UnminedInv /\ pc = "decide" /\ ~current.mined
        BY <1>8 DEF PayoutInv, ReconcileUnmined
    <2>2. ~Mined(r)
        BY <1>2, <1>7, <1>8, <2>1 DEF UnminedInv
    <2> QED BY <2>2 DEF Mined, MinedAt, Paid, PaidAt
<1>9. session.reqs[r].nonce < LatestNonce(v) => session.reqs[r].nonce < Account
    BY <1>3, <1>4
<1>10. UNCHANGED chainVars /\ db' = db /\ pc' = "confirm" /\ head' = head
    BY DEF ReconcileUnmined
<1> QED BY <1>6, <1>7, <1>8, <1>9, <1>10, PayoutDecide

\* confirm_broadcast for a receipt: it counts only while its block is on the chain.
LEMMA PayoutConfirm == PayoutInv /\ WithdrawerInv' /\ ConfirmReceipt => PayoutInv'
<1> SUFFICES ASSUME PayoutInv, WithdrawerInv', ConfirmReceipt PROVE PayoutInv'
    OBVIOUS
<1>1. PICK r \in Requests : r = current.req /\ session.reqs[r].status = "broadcast"
    BY DEF ConfirmReceipt, PayoutInv, WithdrawerInv, TypeOK, PhaseInv
<1> DEFINE cleared == [session EXCEPT !.reqs[r].since = NoBlock]
           n == current.block
<1>2. /\ chain \in Seq(Blocks) /\ Len(chain) \in Nat /\ Account \in Nat
      /\ Account = Count(chain, Len(chain)) /\ session \in Databases /\ head \in Nat
      /\ session.reqs[r].nonce \in Int
    BY ChainType DEF PayoutInv, WithdrawerInv, TypeOK, Databases, Rows
<1>3. /\ cleared \in Databases /\ cleared.reqs[r].status = "broadcast"
      /\ cleared.reqs[r].since = NoBlock
    <2>1. cleared.reqs[r].since = NoBlock
        BY <1>2 DEF Databases, Rows
    <2>2. NoBlock \in Int
        BY DEF NoBlock
    <2>3. Touches(session, cleared, r) /\ cleared.reqs[r].status = session.reqs[r].status
        BY <1>2, <2>2, MarkTouches
    <2> QED BY <1>1, <2>1, <2>3 DEF Touches
<1>4. /\ session' \in {cleared, Settle(cleared, r), ReverseReservation(cleared, r)}
      /\ session' # cleared =>
            /\ Buried(current)
            /\ n <= Len(chain) /\ current.hash = Hash(n)
            /\ session' = IF current.ok THEN Settle(cleared, r) ELSE ReverseReservation(cleared, r)
    BY <1>1 DEF ConfirmReceipt, BlockHashes
<1>5. Resolves(session, session', r)
    BY <1>2, <1>4, ClearedResolves
<1>6. Touches(session, session', r) /\ session'.reqs[r].nonce = session.reqs[r].nonce
    BY <1>5 DEF Resolves, Touches
<1>7. session'.reqs[r].since = NoBlock
    <2>1. Settle(cleared, r).reqs[r].since = cleared.reqs[r].since
        BY <1>3 DEF Settle, Databases, Rows
    <2>2. ReverseReservation(cleared, r).reqs[r].since = cleared.reqs[r].since
        BY <1>3 DEF ReverseReservation, Databases, Rows
    <2> QED BY <1>3, <1>4, <2>1, <2>2
<1>8. /\ session'.reqs[r].status \in {"broadcast", "confirmed", "failed"}
      /\ session'.reqs[r].status = "confirmed" => session' # cleared /\ current.ok
      /\ session'.reqs[r].status = "failed" => session' # cleared /\ ~current.ok
    <2>1. /\ Settle(cleared, r).reqs[r].status = "confirmed"
          /\ ReverseReservation(cleared, r).reqs[r].status = "failed"
        BY <1>3, SettleTouches, ReverseTouches
    <2> QED BY <1>3, <1>4, <2>1
<1> HIDE DEF cleared
<1>9. ASSUME session' # cleared
      PROVE  /\ n \in 1..Len(chain) /\ n + Confirmations <= Len(chain)
             /\ \E tx \in chain[n].txs : tx.who = r /\ (current.ok <=> tx.ok)
    <2>1. /\ n \in Nat \ {0} /\ head <= Len(chain)
          /\ \E tx \in current.hash[n].txs : tx.who = r /\ (current.ok <=> tx.ok)
        BY <1>1 DEF PayoutInv, ReceiptInv, ConfirmReceipt
    <2>2. n <= Len(chain) /\ current.hash = Hash(n) /\ head - n >= Confirmations
        BY <1>4, <1>9 DEF Buried
    <2>3. n \in 1..Len(chain) /\ n + Confirmations <= Len(chain)
        BY <1>2, <2>1, <2>2, WithdrawerAssumption
    <2>4. Hash(n)[n] = chain[n]
        <3>1. \A i \in 1..n : chain[i] \in Blocks
            BY <1>2, <2>3, ElementOfSeq
        <3>2. \A i \in 1..n : SubSeq(chain, 1, n)[i] = chain[i]
            BY <2>1, <3>1, SubSeqProperties
        <3> QED BY <2>1, <3>2 DEF Hash
    <2> QED BY <2>1, <2>2, <2>3, <2>4
<1>10. ASSUME session'.reqs[r].status = "confirmed" PROVE DeepPaid(r)
    BY <1>8, <1>9, <1>10 DEF DeepPaid, PaidAt
<1>11. ASSUME session'.reqs[r].status = "failed"
       PROVE  session.reqs[r].nonce < Account /\ ~Paid(r)
    <2>1. n \in 1..Len(chain)
        BY <1>8, <1>9, <1>11
    <2>2. PICK tx \in chain[n].txs : tx.who = r /\ ~tx.ok
        BY <1>8, <1>9, <1>11
    <2>3. Ordered(chain) /\ \A h \in 1..Len(chain) : \A t \in chain[h].txs : Carries(t)
        BY DEF PayoutInv, SentInv
    <2>4. session.reqs[r].nonce = db.reqs[r].nonce
        BY DEF PayoutInv, WithdrawerInv, PhaseInv
    <2>5. tx.nonce = session.reqs[r].nonce
        BY <2>1, <2>2, <2>3, <2>4 DEF Carries
    <2>6. Len(chain) \in 0..Len(chain)
        BY <1>2
    <2>7. tx.nonce < Account
        BY <1>2, <2>1, <2>3, <2>6, UsedNonce
    <2>8. ASSUME NEW h \in 1..Len(chain), NEW ux \in chain[h].txs, ux.who = r, ux.ok PROVE FALSE
        <3>1. ux.nonce = session.reqs[r].nonce
            BY <2>3, <2>4, <2>8 DEF Carries
        <3>2. ux = tx
            BY <1>2, <2>1, <2>3, <2>5, <3>1, UsedOnce
        <3> QED BY <2>2, <2>8, <3>2
    <2> QED BY <2>5, <2>7, <2>8 DEF Paid, PaidAt
<1>12. UNCHANGED chainVars /\ db' = db /\ pc' = "confirm" /\ head' = head
    BY DEF ConfirmReceipt
<1> QED BY <1>6, <1>7, <1>8, <1>10, <1>11, <1>12, PayoutDecide

LEMMA PayoutStep == PayoutInv /\ [Next]_vars => PayoutInv'
<1> SUFFICES ASSUME PayoutInv, [Next]_vars PROVE PayoutInv'
    OBVIOUS
<1>1. WithdrawerInv'
    BY InvStep DEF PayoutInv
<1>2. CASE Mine \/ Reorg \/ Evict \/ \E f \in Foreign : SendForeign(f)
    BY <1>1, <1>2, PayoutMine, PayoutReorg, PayoutEvict, PayoutForeign
<1>3. CASE \E r \in Requests : CreateWithdrawal(r)
    BY <1>1, <1>3, PayoutCreate
<1>4. CASE Work
    BY <1>1, <1>4, PayoutSign, PayoutBookkeeping, PayoutBroadcast, PayoutReadReceipt,
       PayoutReconcile, PayoutConfirm DEF Work
<1>5. CASE Fail
    BY <1>1, <1>5, PayoutBookkeeping
<1>6. CASE UNCHANGED vars
    <2>1. UNCHANGED <<chain, mempool, reorgs, evictions, db, session, pc, current, head>>
        BY <1>6 DEF vars
    <2>2. UNCHANGED chainVars
        BY <2>1 DEF chainVars
    <2>3. ReceiptInv' /\ (MaxLag = 0 /\ reorgs = 0 => UnminedInv')
        BY <2>1 DEF PayoutInv, ReceiptInv, UnminedInv, Mined, MinedAt
    <2> QED BY <1>1, <2>1, <2>2, <2>3, PayoutPass
<1> QED BY <1>2, <1>3, <1>4, <1>5, <1>6 DEF Next

LEMMA PayoutAlways == Spec => []PayoutInv
    BY PayoutInit, PayoutStep, PTL DEF Spec

\* Where no reorganisation is deeper than Confirmations blocks, a request becomes
\* CONFIRMED only with its payout on the chain, and the payout stays there: for
\* providers that are behind, blocks replaced between the RPC calls of
\* confirm_broadcast, and failures of any phase.
THEOREM SettledWithdrawalsArePaid ==
    Spec => [](MaxReorgDepth <= Confirmations => SettledIsPaid)
<1>1. PayoutInv => (MaxReorgDepth <= Confirmations => SettledIsPaid)
    BY DEF PayoutInv, SettledInv, DeepPaid, SettledIsPaid, Paid
<1> QED BY <1>1, PayoutAlways, PTL

\* While the providers agree on the head and nothing is reorganised, a request that
\* _reverse_reservation refunded is not paid, whatever foreign transactions take
\* its nonce and whenever its own is mined between two calls.
THEOREM RefundedWithdrawalsAreNotPaid ==
    Spec => [](MaxLag = 0 /\ reorgs = 0 => RefundedNotPaid)
<1>1. PayoutInv => (MaxLag = 0 /\ reorgs = 0 => RefundedNotPaid)
    <2> SUFFICES ASSUME PayoutInv, MaxLag = 0, reorgs = 0, NEW r \in Requests,
                        db.reqs[r].status = "failed"
                 PROVE  ~Paid(r)
        BY DEF RefundedNotPaid
    <2>1. CASE Signed(db, r)
        BY <2>1 DEF PayoutInv, RefundInv
    <2>2. CASE ~Signed(db, r)
        <3>1. \A h \in 1..Len(chain) : \A tx \in chain[h].txs : tx.who # r
            BY <2>2 DEF PayoutInv, SentInv, Carries
        <3> QED BY <3>1 DEF Paid, PaidAt
    <2> QED BY <2>1, <2>2
<1> QED BY <1>1, PayoutAlways, PTL

\* Until the nodes drop a transaction, or for good where nobody else sends from the
\* hot wallet, the nonces that sign_pending handed out leave no gap: for any batch,
\* reorganisations of any depth and providers that are behind.
THEOREM WithdrawalNoncesGapFree ==
    Spec => [](evictions = 0 \/ Foreign = {} => GapFree)
<1>1. PayoutInv => (evictions = 0 \/ Foreign = {} => GapFree)
    BY DEF PayoutInv
<1> QED BY <1>1, PayoutAlways, PTL
=============================================================================
