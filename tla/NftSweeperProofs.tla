--------------------------- MODULE NftSweeperProofs ---------------------------
(***************************************************************************)
(* Proofs about NftSweeper, for every value of its constants.              *)
(***************************************************************************)
EXTENDS NftSweeper, FiniteSetTheorems, WellFoundedInduction, TLAPS

-----------------------------------------------------------------------------
(* The inductive invariant.                                                  *)

Statuses == {"none", "pending", "funding", "funded", "sweeping", "swept", "failed"}

\* The sets of transactions are finite, and the head of the confirm phase is on the
\* chain.
ChainInv ==
    /\ IsFiniteSet(hotPool) /\ IsFiniteSet(hotMined)
    /\ IsFiniteSet(pool) /\ IsFiniteSet(mined)
    /\ pc = "confirm" => head <= height

\* The nonces in the database or the session d: those of gas transactions and of
\* payouts are below the next one, and no two are the same.
NoncesInv(d) ==
    /\ \A t \in Tokens :
        /\ d.sweeps[t].nonce \in Nat \cup {NoNonce}
        /\ d.sweeps[t].fund \in Nat \cup {NoNonce}
        /\ d.sweeps[t].status = "funding" => d.sweeps[t].fund # NoNonce
        /\ d.sweeps[t].fund # NoNonce =>
                /\ d.next # NoRow /\ d.sweeps[t].fund < d.next
                /\ \A u \in Tokens \ {t} : d.sweeps[u].fund # d.sweeps[t].fund
                /\ \A p \in Payouts : d.payouts[p] # d.sweeps[t].fund
    /\ \A p \in Payouts :
        /\ d.payouts[p] \in Nat \cup {NoNonce}
        /\ d.payouts[p] # NoNonce => d.next # NoRow /\ d.payouts[p] < d.next

\* A swept row of d has the receipt of a transfer that succeeded, on a chain of h
\* blocks with the transfers M.
MovedInv(d, M, h) ==
    \A t \in Tokens : d.sweeps[t].status = "swept" =>
        \E m \in M : /\ m.token = t /\ m.nonce = d.sweeps[t].nonce
                     /\ m.ok /\ m.at + Confirmations <= h

\* The gas transactions for t, the one that a FUNDING row will send again included.
Gas(row, t, sent) ==
    {tx \in sent : tx.for = t}
        \cup (IF row.status = "funding" THEN {[for |-> t, nonce |-> row.fund]} ELSE {})

\* n gas transactions are paid by the attempts of the row and by f failures.  The
\* second part is what a row that may start again has left; the third, what a row that
\* has not been funded has left although its last attempt is used up.
Paid(n, row, f) ==
    /\ 2 * n <= row.attempts + 1 + 2 * f
    /\ row.status \notin {"funding", "funded"} /\ row.attempts < MaxAttempts =>
            2 * n <= row.attempts + 2 * f
    /\ row.status \in {"none", "pending"} /\ row.attempts = MaxAttempts =>
            2 * n <= row.attempts - 2 + 2 * f

\* A gas transaction of the open fund phase is not paid for by the database yet: the
\* failure of the phase would.
Unpaid(t) == IF pc = "fund" /\ t \notin todo THEN 1 ELSE 0

Broadcast == hotPool \cup hotMined

GasInv ==
    \A t \in Tokens :
        /\ Paid(Cardinality(Gas(session.sweeps[t], t, Broadcast)), session.sweeps[t], failures)
        /\ Paid(Cardinality(Gas(db.sweeps[t], t, Broadcast)), db.sweeps[t], failures + Unpaid(t))

\* What the open phase has left to do, and how far the session is from the database.
PassInv ==
    /\ session.payouts = db.payouts
    /\ IF locked THEN session.next # NoRow ELSE session.next = db.next
    /\ pc = "discover" => session = db
    /\ \A t \in todo :
        /\ pc = "fund" => /\ session.sweeps[t] = db.sweeps[t]
                          /\ session.sweeps[t].status \in {"pending", "funding"}
        /\ pc = "sweep" => session.sweeps[t].status = "funded"
        /\ pc = "confirm" => session.sweeps[t].status = "sweeping"

NftSweeperInv ==
    /\ TypeOK /\ ChainInv
    /\ NoncesInv(db) /\ NoncesInv(session)
    /\ MovedInv(db, mined, height) /\ MovedInv(session, mined, height)
    /\ GasInv /\ PassInv

-----------------------------------------------------------------------------
(* Nonces on the chain.                                                      *)

LEMMA BoundsAreNat ==
    /\ Confirmations \in Nat /\ MaxAttempts \in Nat /\ MaxAttempts > 0 /\ MaxHeight \in Nat
    /\ MaxLag \in Nat /\ MaxGifts \in Nat /\ MaxFailures \in Nat
    BY NftSweeperAssumption

LEMMA LeastNatural ==
    ASSUME NEW S \in SUBSET Nat, S # {}
    PROVE  \E n \in S : \A m \in S : n <= m
<1> DEFINE R == {ss \in Nat \X Nat : ss[1] < ss[2]}
<1>1. IsWellFoundedOn(R, Nat)
    BY NatLessThanWellFounded DEF OpToRel
<1>2. ASSUME NEW m \in Nat, NEW n \in Nat, m < n PROVE <<m, n>> \in R
    <2>1. <<m, n>> \in Nat \X Nat /\ <<m, n>>[1] < <<m, n>>[2]
        BY <1>2
    <2> QED BY <2>1
<1> HIDE DEF R
<1>3. \E n \in S : \A m \in S : ~(<<m, n>> \in R)
    BY <1>1, WFMin
<1>4. PICK n \in S : \A m \in S : ~(<<m, n>> \in R)
    BY <1>3
<1>5. ASSUME NEW m \in S PROVE n <= m
    <2>1. m \in Nat /\ n \in Nat /\ ~(m < n)
        BY <1>2, <1>4
    <2> QED BY <2>1
<1> QED BY <1>5

\* A finite set of pending nonces P has a first free nonce from n on, and every nonce
\* between the two is pending.
LEMMA FirstFreeIsFree ==
    ASSUME NEW n \in Nat, NEW P, IsFiniteSet(P)
    PROVE  /\ FirstFree(n, P) \in Nat /\ FirstFree(n, P) >= n /\ FirstFree(n, P) \notin P
           /\ \A i \in n..(FirstFree(n, P) - 1) : i \in P
<1> DEFINE I == n..(n + Cardinality(P))
           S == {m \in I : m \notin P}
<1>1. Cardinality(P) \in Nat
    BY FS_CardinalityType
<1>2. Cardinality(I) = Cardinality(P) + 1
    <2>1. n \in Int /\ n + Cardinality(P) \in Int /\ ~(n > n + Cardinality(P))
        BY <1>1
    <2> QED BY <1>1, <2>1, FS_Interval
<1>3. S # {}
    <2> SUFFICES ASSUME S = {} PROVE FALSE
        OBVIOUS
    <2>1. I \in SUBSET P
        OBVIOUS
    <2>2. Cardinality(I) <= Cardinality(P)
        BY <2>1, FS_Subset
    <2> QED BY <1>1, <1>2, <2>2
<1>4. S \in SUBSET Nat
    BY <1>1
<1>5. PICK m \in S : \A i \in S : m <= i
    <2> HIDE DEF S
    <2> QED BY <1>3, <1>4, LeastNatural
<1>6. \A i \in n..(m - 1) : i \in P
    <2> SUFFICES ASSUME NEW i \in n..(m - 1), i \notin P PROVE FALSE
        OBVIOUS
    <2>1. m \in Nat /\ m <= n + Cardinality(P) /\ i \in Int /\ n <= i /\ i < m
        BY <1>1, <1>4, <1>5
    <2>2. i \in I
        BY <1>1, <2>1
    <2> QED BY <1>5, <2>1, <2>2
<1>7. m \in I /\ m \notin P
    BY <1>5
<1>8. /\ FirstFree(n, P) \in I /\ FirstFree(n, P) \notin P
      /\ \A i \in n..(FirstFree(n, P) - 1) : i \in P
    BY <1>6, <1>7, Zenon DEF FirstFree
<1> QED BY <1>1, <1>8

LEMMA NoncesFinite ==
    ASSUME NEW S, IsFiniteSet(S)
    PROVE  IsFiniteSet({tx.nonce : tx \in S})
<1> DEFINE f == [tx \in S |-> tx.nonce]
           T == {tx.nonce : tx \in S}
<1>1. f \in Surjection(S, T)
    BY DEF Surjection
<1> HIDE DEF f
<1> QED BY <1>1, FS_Surjection

\* What the node answers to nonce_row and to sweep_funded.
LEMMA PendingIsNat ==
    ASSUME ChainInv
    PROVE  Account \in Nat /\ HotPending \in Nat /\ \A a : AddressPending(a) \in Nat
<1>1. Account \in Nat
    BY FS_CardinalityType DEF ChainInv, Account
<1>2. HotPending \in Nat
    <2>1. IsFiniteSet({tx.nonce : tx \in hotPool})
        BY NoncesFinite DEF ChainInv
    <2> QED BY <1>1, <2>1, FirstFreeIsFree DEF HotPending
<1>3. ASSUME NEW a PROVE AddressPending(a) \in Nat
    <2>1. IsFiniteSet(Of(mined, a)) /\ IsFiniteSet(Of(pool, a))
        BY FS_Subset DEF ChainInv, Of
    <2>2. Cardinality(Of(mined, a)) \in Nat /\ IsFiniteSet({tx.nonce : tx \in Of(pool, a)})
        BY <2>1, FS_CardinalityType, NoncesFinite
    <2> QED BY <2>2, FirstFreeIsFree DEF AddressPending
<1> QED BY <1>1, <1>2, <1>3

\* The nonce that a payout or the first gas transaction of a phase gets is not below
\* the row.
LEMMA NextNonceIsNat ==
    ASSUME ChainInv, NEW row \in Nat \cup {NoRow}
    PROVE  NextNonce(row) \in Nat /\ (row # NoRow => NextNonce(row) >= row)
    BY PendingIsNat DEF NextNonce, Larger

-----------------------------------------------------------------------------
(* One row of the session is replaced.                                       *)

WithRow(d, t, row, n) == [d EXCEPT !.sweeps[t] = row, !.next = n]

LEMMA WithRowType ==
    ASSUME NEW d \in Databases, NEW t \in Tokens, NEW row \in Sweeps, NEW n \in Nat \cup {NoRow}
    PROVE  LET e == WithRow(d, t, row, n)
           IN  /\ e \in Databases /\ e.next = n /\ e.payouts = d.payouts
               /\ e.sweeps[t] = row /\ \A u \in Tokens \ {t} : e.sweeps[u] = d.sweeps[u]
    BY DEF WithRow, Databases

\* The nonce of the gas transaction stays, is forgotten, or is a new one.
LEMMA WithRowNonces ==
    ASSUME NEW d \in Databases, NEW t \in Tokens, NEW row \in Sweeps, NEW n \in Nat \cup {NoRow},
           NoncesInv(d),
           d.next # NoRow => n # NoRow /\ n >= d.next,
           row.nonce \in Nat \cup {NoNonce},
           row.status = "funding" => row.fund # NoNonce,
           \/ row.fund = NoNonce
           \/ row.fund = d.sweeps[t].fund
           \/ /\ row.fund \in Nat /\ n # NoRow /\ row.fund < n
              /\ d.next # NoRow => row.fund >= d.next
    PROVE  NoncesInv(WithRow(d, t, row, n))
<1> DEFINE e == WithRow(d, t, row, n)
<1>1. /\ e \in Databases /\ e.next = n /\ e.payouts = d.payouts
      /\ e.sweeps[t] = row /\ \A u \in Tokens \ {t} : e.sweeps[u] = d.sweeps[u]
    BY WithRowType
<1> HIDE DEF e
<1>2. d.next \in Nat \cup {NoRow} /\ NoRow \notin Int
    BY NftSweeperAssumption DEF Databases
<1>3. ASSUME NEW p \in Payouts
      PROVE  /\ e.payouts[p] \in Nat \cup {NoNonce}
             /\ e.payouts[p] # NoNonce => e.next # NoRow /\ e.payouts[p] < e.next
    BY <1>1, <1>2 DEF NoncesInv
<1>4. ASSUME NEW u \in Tokens \ {t}
      PROVE  /\ e.sweeps[u].nonce \in Nat \cup {NoNonce}
             /\ e.sweeps[u].fund \in Nat \cup {NoNonce}
             /\ e.sweeps[u].status = "funding" => e.sweeps[u].fund # NoNonce
             /\ e.sweeps[u].fund # NoNonce =>
                    /\ e.next # NoRow /\ e.sweeps[u].fund < e.next
                    /\ \A v \in Tokens \ {u, t} : e.sweeps[v].fund # e.sweeps[u].fund
                    /\ \A p \in Payouts : e.payouts[p] # e.sweeps[u].fund
                    /\ d.next # NoRow /\ d.sweeps[u].fund < d.next
    BY <1>1, <1>2 DEF NoncesInv
<1>5. ASSUME NEW u \in Tokens \ {t}, row.fund # NoNonce PROVE e.sweeps[u].fund # row.fund
    <2>1. CASE row.fund = d.sweeps[t].fund
        BY <1>1, <1>5, <2>1 DEF NoncesInv
    <2>2. CASE row.fund \in Nat /\ (d.next # NoRow => row.fund >= d.next)
        BY <1>1, <1>2, <1>4, <2>2 DEF NoncesInv, NoNonce
    <2> QED BY <1>5, <2>1, <2>2
<1>6. ASSUME row.fund # NoNonce
      PROVE  /\ row.fund \in Nat /\ e.next # NoRow /\ row.fund < e.next
             /\ \A p \in Payouts : e.payouts[p] # row.fund
    <2>1. CASE row.fund = d.sweeps[t].fund
        BY <1>1, <1>2, <1>6, <2>1 DEF NoncesInv
    <2>2. CASE /\ row.fund \in Nat /\ n # NoRow /\ row.fund < n
               /\ d.next # NoRow => row.fund >= d.next
        BY <1>1, <1>2, <2>2 DEF NoncesInv, NoNonce
    <2> QED BY <1>6, <2>1, <2>2
<1>7. ASSUME NEW u \in Tokens, e.sweeps[u].fund # NoNonce
      PROVE  \A v \in Tokens \ {u} : e.sweeps[v].fund # e.sweeps[u].fund
    BY <1>1, <1>4, <1>5, <1>7
<1> QED BY <1>1, <1>3, <1>4, <1>6, <1>7 DEF e, NoncesInv

-----------------------------------------------------------------------------
(* What a row has left for gas.                                              *)

LEMMA AttemptedType ==
    ASSUME NEW row \in Sweeps
    PROVE  /\ Attempted(row) \in Sweeps
           /\ Attempted(row).attempts = Smaller(row.attempts + 1, MaxAttempts)
           /\ Attempted(row).status = row.status /\ Attempted(row).fund = row.fund
           /\ Attempted(row).nonce = row.nonce /\ Attempted(row).since = row.since
<1>1. row.attempts \in 0..MaxAttempts /\ MaxAttempts \in Nat
    BY BoundsAreNat DEF Sweeps
<1>2. Smaller(row.attempts + 1, MaxAttempts) \in 0..MaxAttempts
    BY <1>1 DEF Smaller
<1> QED BY <1>2 DEF Attempted, Sweeps

LEMMA FundingRow ==
    ASSUME NEW old \in Sweeps, NEW n \in Int
    PROVE  LET row == [old EXCEPT !.status = "funding", !.fund = n]
           IN  /\ row \in Sweeps /\ row.status = "funding" /\ row.fund = n
               /\ row.nonce = old.nonce /\ row.attempts = old.attempts
<1> DEFINE row == [old EXCEPT !.status = "funding", !.fund = n]
<1>1. row \in Sweeps
    BY DEF Sweeps
<1>2. row.status = "funding" /\ row.fund = n
    BY DEF Sweeps
<1>3. row.nonce = old.nonce /\ row.attempts = old.attempts
    BY DEF Sweeps
<1> QED BY <1>1, <1>2, <1>3

\* Fewer gas transactions are paid for, and more failures pay for more.
LEMMA PaidMonotone ==
    ASSUME NEW row \in Sweeps, NEW n \in Nat, NEW m \in Nat, NEW f \in Nat, NEW g \in Nat,
           Paid(n, row, f), m <= n, f <= g
    PROVE  Paid(m, row, g)
<1>1. row.attempts \in Nat /\ MaxAttempts \in Nat
    BY BoundsAreNat DEF Sweeps
<1> QED BY <1>1 DEF Paid

LEMMA PaidOneMore ==
    ASSUME NEW row \in Sweeps, NEW n \in Nat, NEW f \in Nat, Paid(n, row, f)
    PROVE  Paid(n + 1, row, f + 1)
<1>1. row.attempts \in Nat /\ MaxAttempts \in Nat
    BY BoundsAreNat DEF Sweeps
<1> QED BY <1>1 DEF Paid

\* A PENDING row becomes FUNDING: its attempt pays for one more gas transaction.
LEMMA PaidFund ==
    ASSUME NEW row \in Sweeps, NEW new \in Sweeps, NEW n \in Nat, NEW f \in Nat,
           Paid(n, row, f), row.status = "pending", new.status = "funding",
           new.attempts = Smaller(row.attempts + 1, MaxAttempts)
    PROVE  Paid(n + 1, new, f)
<1>1. row.attempts \in 0..MaxAttempts /\ MaxAttempts \in Nat
    BY BoundsAreNat DEF Sweeps
<1>2. CASE row.attempts < MaxAttempts
    <2>1. 2 * n <= row.attempts + 2 * f /\ new.attempts = row.attempts + 1
        BY <1>1, <1>2 DEF Paid, Smaller
    <2> QED BY <1>1, <2>1 DEF Paid
<1>3. CASE row.attempts = MaxAttempts
    <2>1. 2 * n <= row.attempts - 2 + 2 * f /\ new.attempts = MaxAttempts
        BY <1>1, <1>3 DEF Paid, Smaller
    <2> QED BY <1>1, <1>3, <2>1 DEF Paid
<1> QED BY <1>1, <1>2, <1>3

\* The signature of the gas transaction fails.
LEMMA PaidUnsigned ==
    ASSUME NEW row \in Sweeps, NEW new \in Sweeps, NEW n \in Nat, NEW f \in Nat,
           Paid(n, row, f), row.status = "pending", new.status = "pending",
           new.attempts = Smaller(row.attempts + 1, MaxAttempts)
    PROVE  Paid(n, new, f + 1)
<1>1. row.attempts \in 0..MaxAttempts /\ MaxAttempts \in Nat
    BY BoundsAreNat DEF Sweeps
<1>2. CASE row.attempts < MaxAttempts
    <2>1. 2 * n <= row.attempts + 2 * f /\ new.attempts = row.attempts + 1
        BY <1>1, <1>2 DEF Paid, Smaller
    <2> QED BY <1>1, <2>1 DEF Paid
<1>3. CASE row.attempts = MaxAttempts
    <2>1. 2 * n <= row.attempts - 2 + 2 * f /\ new.attempts = MaxAttempts
        BY <1>1, <1>3 DEF Paid, Smaller
    <2> QED BY <1>1, <1>3, <2>1 DEF Paid
<1> QED BY <1>1, <1>2, <1>3

\* The address has gas, whoever paid it.
LEMMA PaidFunded ==
    ASSUME NEW row \in Sweeps, NEW new \in Sweeps, NEW n \in Nat, NEW f \in Nat,
           Paid(n, row, f), new.status = "funded", new.attempts = row.attempts
    PROVE  Paid(n, new, f)
    BY DEF Paid

\* The attempt of the transfer.
LEMMA PaidSweep ==
    ASSUME NEW row \in Sweeps, NEW new \in Sweeps, NEW n \in Nat, NEW f \in Nat,
           Paid(n, row, f), row.status = "funded", new.status \in {"funded", "sweeping"},
           new.attempts = Smaller(row.attempts + 1, MaxAttempts)
    PROVE  Paid(n, new, f)
<1>1. row.attempts \in 0..MaxAttempts /\ MaxAttempts \in Nat
    BY BoundsAreNat DEF Sweeps
<1>2. 2 * n <= row.attempts + 1 + 2 * f
    BY DEF Paid
<1>3. \/ new.attempts = row.attempts + 1
      \/ new.attempts = row.attempts /\ row.attempts = MaxAttempts
    BY <1>1 DEF Smaller
<1> QED BY <1>1, <1>2, <1>3 DEF Paid

\* The transfer is confirmed, has failed, or is still open.
LEMMA PaidConfirm ==
    ASSUME NEW row \in Sweeps, NEW new \in Sweeps, NEW n \in Nat, NEW f \in Nat,
           Paid(n, row, f), row.status = "sweeping",
           new.status \in {"sweeping", "swept", "failed"}, new.attempts = row.attempts
    PROVE  Paid(n, new, f)
    BY DEF Paid

\* discover_sweeps starts a row, or starts it again.
LEMMA PaidDiscover ==
    ASSUME NEW row \in Sweeps, NEW new \in Sweeps, NEW n \in Nat, NEW f \in Nat,
           Paid(n, row, f), row.status = "none" \/ Rearmed(row),
           new.status = "pending", new.attempts = row.attempts
    PROVE  Paid(n, new, f)
<1>1. row.attempts \in 0..MaxAttempts /\ MaxAttempts \in Nat
    BY BoundsAreNat DEF Sweeps
<1> QED BY <1>1 DEF Paid, Rearmed

LEMMA GasFinite ==
    ASSUME NEW row, NEW t, NEW sent, IsFiniteSet(sent)
    PROVE  IsFiniteSet(Gas(row, t, sent)) /\ Cardinality(Gas(row, t, sent)) \in Nat
<1> DEFINE A == {tx \in sent : tx.for = t}
           B == IF row.status = "funding" THEN {[for |-> t, nonce |-> row.fund]} ELSE {}
<1>1. IsFiniteSet(A)
    <2>1. A \in SUBSET sent
        OBVIOUS
    <2> QED BY <2>1, FS_Subset
<1>2. IsFiniteSet(B)
    BY FS_EmptySet, FS_Singleton
<1>3. Gas(row, t, sent) = A \cup B
    BY DEF Gas
<1> HIDE DEF A, B
<1>4. IsFiniteSet(A \cup B)
    BY <1>1, <1>2, FS_Union
<1> QED BY <1>3, <1>4, FS_CardinalityType

\* The gas transactions H are among the ones that are paid for.
LEMMA PaidSubset ==
    ASSUME NEW row \in Sweeps, NEW G, NEW H, IsFiniteSet(G), H \subseteq G,
           NEW f \in Nat, NEW g \in Nat, f <= g, Paid(Cardinality(G), row, f)
    PROVE  Paid(Cardinality(H), row, g)
<1>1. /\ Cardinality(G) \in Nat /\ Cardinality(H) \in Nat
      /\ Cardinality(H) <= Cardinality(G)
    BY FS_Subset, FS_CardinalityType
<1> QED BY <1>1, PaidMonotone

\* One more gas transaction.
LEMMA OneMoreGas ==
    ASSUME NEW G, NEW H, NEW x, IsFiniteSet(G), H \subseteq G \cup {x}
    PROVE  /\ Cardinality(G) \in Nat /\ Cardinality(H) \in Nat
           /\ Cardinality(H) <= Cardinality(G) + 1
<1>1. IsFiniteSet(G \cup {x}) /\ Cardinality(G \cup {x}) <= Cardinality(G) + 1
    <2>1. Cardinality(G) \in Nat
        BY FS_CardinalityType
    <2> QED BY <2>1, FS_AddElement
<1>2. IsFiniteSet(H) /\ Cardinality(H) <= Cardinality(G \cup {x})
    BY <1>1, FS_Subset
<1> QED BY <1>1, <1>2, FS_CardinalityType

-----------------------------------------------------------------------------
(* The invariant, step by step.                                              *)

LEMMA RowsType ==
    ASSUME TypeOK, NEW t \in Tokens
    PROVE  db.sweeps[t] \in Sweeps /\ session.sweeps[t] \in Sweeps
    BY DEF TypeOK, Databases

LEMMA BroadcastFinite == ChainInv => IsFiniteSet(Broadcast)
    BY FS_Union DEF ChainInv, Broadcast

LEMMA FailuresNat ==
    ASSUME TypeOK, NEW t PROVE failures \in Nat /\ Unpaid(t) \in 0..1 /\ failures + Unpaid(t) \in Nat
<1>1. failures \in Nat
    BY BoundsAreNat DEF TypeOK
<1> QED BY <1>1 DEF Unpaid

LEMMA InitInv == Init => NftSweeperInv
<1> SUFFICES ASSUME Init PROVE NftSweeperInv
    OBVIOUS
<1> DEFINE row == [status |-> "none", attempts |-> 0, fund |-> NoNonce, nonce |-> NoNonce,
                   since |-> NoBlock]
<1>1. row \in Sweeps
    BY BoundsAreNat DEF Sweeps, NoNonce, NoBlock
<1>2. /\ db.sweeps = [t \in Tokens |-> row] /\ db.next = NoRow
      /\ db.payouts = [p \in Payouts |-> NoNonce] /\ db \in Databases /\ session = db
    BY <1>1 DEF Init, Databases, NoNonce
<1>3. TypeOK
    <2>1. height \in 0..MaxHeight /\ gifts \in 0..MaxGifts /\ failures \in 0..MaxFailures
          /\ head \in 0..MaxHeight
        BY BoundsAreNat DEF Init
    <2> QED BY <1>2, <2>1 DEF Init, TypeOK
<1>4. ChainInv
    BY FS_EmptySet DEF Init, ChainInv
<1>5. NoncesInv(db)
    BY <1>2 DEF NoncesInv
<1>6. MovedInv(db, mined, height)
    BY <1>2 DEF MovedInv
<1>7. GasInv
    <2> SUFFICES ASSUME NEW t \in Tokens
                 PROVE  /\ Paid(Cardinality(Gas(session.sweeps[t], t, Broadcast)),
                                session.sweeps[t], failures)
                        /\ Paid(Cardinality(Gas(db.sweeps[t], t, Broadcast)),
                                db.sweeps[t], failures + Unpaid(t))
        BY DEF GasInv
    <2>1. db.sweeps[t] = row /\ session.sweeps[t] = row
        BY <1>2
    <2>2. Gas(row, t, Broadcast) = {}
        BY DEF Gas, Broadcast, Init
    <2>3. failures = 0 /\ Unpaid(t) = 0
        BY DEF Init, Unpaid
    <2>4. Paid(0, row, 0)
        BY BoundsAreNat DEF Paid
    <2> QED BY <2>1, <2>2, <2>3, <2>4, FS_EmptySet
<1>8. PassInv
    BY <1>2 DEF PassInv, Init
<1> QED BY <1>2, <1>3, <1>4, <1>5, <1>6, <1>7, <1>8 DEF NftSweeperInv

\* A step of the chain or of somebody else: the database is as it was, and the hot
\* wallet has sent what it had.
LEMMA WorldStepInv ==
    ASSUME NftSweeperInv, TypeOK', UNCHANGED <<db, session, locked, pc, todo, head, failures>>,
           IsFiniteSet(hotPool'), IsFiniteSet(hotMined'), IsFiniteSet(pool'), IsFiniteSet(mined'),
           Broadcast' = Broadcast, mined \subseteq mined', height' >= height
    PROVE  NftSweeperInv'
<1>1. height \in Int /\ height' \in Int /\ head \in Int
    BY DEF NftSweeperInv, TypeOK
<1>2. ChainInv'
    BY <1>1 DEF NftSweeperInv, ChainInv
<1>3. ASSUME NEW d, MovedInv(d, mined, height) PROVE MovedInv(d, mined', height')
    <2> SUFFICES ASSUME NEW t \in Tokens, d.sweeps[t].status = "swept"
                 PROVE  \E m \in mined' : /\ m.token = t /\ m.nonce = d.sweeps[t].nonce
                                          /\ m.ok /\ m.at + Confirmations <= height'
        BY DEF MovedInv
    <2>1. PICK m \in mined : /\ m.token = t /\ m.nonce = d.sweeps[t].nonce
                             /\ m.ok /\ m.at + Confirmations <= height
        BY <1>3 DEF MovedInv
    <2>2. m.at \in Int /\ Confirmations \in Int
        BY BoundsAreNat DEF NftSweeperInv, TypeOK
    <2>3. m.at + Confirmations <= height'
        BY <1>1, <2>1, <2>2
    <2> QED BY <2>1, <2>3
<1>4. MovedInv(db, mined', height') /\ MovedInv(session, mined', height')
    BY <1>3 DEF NftSweeperInv
<1>5. GasInv'
    BY DEF NftSweeperInv, GasInv, Unpaid
<1>6. PassInv'
    BY DEF NftSweeperInv, PassInv
<1> QED BY <1>2, <1>4, <1>5, <1>6 DEF NftSweeperInv

\* A phase commits.
LEMMA CommitStepInv ==
    ASSUME NftSweeperInv, UNCHANGED <<chainVars, worldVars, failures, session>>,
           db' = session, ~locked', pc' \in {"discover", "sweep", "confirm"},
           head' \in 0..MaxHeight, pc' = "confirm" => head' <= height, todo' \subseteq Tokens,
           pc' = "discover" => todo' = {},
           pc' = "sweep" => \A t \in todo' : session.sweeps[t].status = "funded",
           pc' = "confirm" => \A t \in todo' : session.sweeps[t].status = "sweeping"
    PROVE  NftSweeperInv'
<1>1. UNCHANGED <<height, hotPool, hotMined, balance, pool, mined, owner, gifts, returned>>
    BY DEF chainVars, worldVars
<1>2. TypeOK'
    BY <1>1 DEF NftSweeperInv, TypeOK
<1>3. ChainInv'
    BY <1>1 DEF NftSweeperInv, ChainInv
<1>4. GasInv'
    <2>1. Broadcast' = Broadcast /\ failures' = failures /\ failures \in Nat
        BY <1>1, FailuresNat DEF Broadcast, NftSweeperInv
    <2>2. ASSUME NEW t \in Tokens
          PROVE  /\ Paid(Cardinality(Gas(session.sweeps[t], t, Broadcast)), session.sweeps[t], failures)
                 /\ failures' + Unpaid(t)' = failures
        BY <2>1 DEF NftSweeperInv, GasInv, Unpaid
    <2> QED BY <2>1, <2>2 DEF GasInv
<1>5. PassInv'
    BY DEF PassInv
<1>6. MovedInv(session, mined', height')
    BY <1>1 DEF NftSweeperInv
<1> QED BY <1>2, <1>3, <1>4, <1>5, <1>6 DEF NftSweeperInv

\* The visit of row t of a phase replaces it by row, and the next nonce by n.
RowVisit(t, row, n) ==
    /\ pc \in {"fund", "sweep", "confirm"}
    /\ UNCHANGED <<height, hotMined, balance, mined, owner, gifts, returned, db, pc, head>>
    /\ session' = WithRow(session, t, row, n) /\ todo' = todo \ {t}
    /\ failures' \in 0..MaxFailures /\ failures' >= failures
    /\ hotPool' \subseteq [for : Tokens \cup Payouts, nonce : Nat] /\ IsFiniteSet(hotPool')
    /\ \A tx \in hotPool' : tx.for # t => tx \in hotPool
    /\ pool' \subseteq [token : Tokens, nonce : Nat] /\ IsFiniteSet(pool')
    /\ IF locked' THEN pc = "fund" /\ n # NoRow ELSE ~locked /\ n = session.next

RowNonces(t, row, n) ==
    /\ session.next # NoRow => n # NoRow /\ n >= session.next
    /\ row.nonce \in Nat \cup {NoNonce}
    /\ row.status = "funding" => row.fund # NoNonce
    /\ \/ row.fund = NoNonce
       \/ row.fund = session.sweeps[t].fund
       \/ /\ row.fund \in Nat /\ n # NoRow /\ row.fund < n
          /\ session.next # NoRow => row.fund >= session.next

RowMoved(t, row) ==
    row.status = "swept" =>
        \E m \in mined : /\ m.token = t /\ m.nonce = row.nonce
                         /\ m.ok /\ m.at + Confirmations <= height

RowPaid(t, row) ==
    /\ Paid(Cardinality(Gas(row, t, Broadcast')), row, failures')
    /\ Paid(Cardinality(Gas(db.sweeps[t], t, Broadcast')), db.sweeps[t],
            failures' + (IF pc = "fund" THEN 1 ELSE 0))

LEMMA RowStepInv ==
    ASSUME NftSweeperInv, NEW t \in todo, NEW row \in Sweeps, NEW n \in Nat \cup {NoRow},
           RowVisit(t, row, n), RowNonces(t, row, n), RowMoved(t, row), RowPaid(t, row)
    PROVE  NftSweeperInv'
<1>1. /\ t \in Tokens /\ session \in Databases /\ db \in Databases
      /\ NoncesInv(session) /\ MovedInv(session, mined, height)
      /\ IsFiniteSet(Broadcast)
    <2>1. TypeOK /\ ChainInv
        BY DEF NftSweeperInv
    <2>2. t \in Tokens /\ session \in Databases /\ db \in Databases
        BY <2>1 DEF TypeOK
    <2> QED BY <2>1, <2>2, BroadcastFinite DEF NftSweeperInv
<1>2. /\ session' \in Databases /\ session'.next = n /\ session'.payouts = session.payouts
      /\ session'.sweeps[t] = row
      /\ \A u \in Tokens \ {t} : session'.sweeps[u] = session.sweeps[u]
    <2>1. session' = WithRow(session, t, row, n)
        BY DEF RowVisit
    <2> QED BY <1>1, <2>1, WithRowType
<1>3. NoncesInv(session')
    <2>1. session' = WithRow(session, t, row, n)
        BY DEF RowVisit
    <2> QED BY <1>1, <2>1, WithRowNonces DEF RowNonces
<1>4. TypeOK'
    <2>1. TypeOK
        BY DEF NftSweeperInv
    <2>2. /\ hotPool' \cup hotMined' \subseteq [for : Tokens \cup Payouts, nonce : Nat]
          /\ todo' \subseteq Tokens /\ locked' => pc = "fund"
        BY <2>1 DEF TypeOK, RowVisit
    <2> QED BY <1>2, <2>1, <2>2 DEF TypeOK, RowVisit
<1>5. ChainInv'
    BY DEF NftSweeperInv, ChainInv, RowVisit
<1>6. MovedInv(session', mined', height')
    BY <1>1, <1>2 DEF MovedInv, RowMoved, RowVisit
<1>7. PassInv'
    <2>1. PassInv /\ TypeOK
        BY DEF NftSweeperInv
    <2>2. \A u \in todo' : u \in Tokens \ {t} /\ u \in todo
        BY <2>1 DEF RowVisit, TypeOK
    <2>3. /\ session'.payouts = db'.payouts
          /\ IF locked' THEN session'.next # NoRow ELSE session'.next = db'.next
          /\ pc' # "discover"
        BY <1>2, <2>1 DEF RowVisit, PassInv
    <2> QED BY <1>2, <2>1, <2>2, <2>3 DEF RowVisit, PassInv
<1>8. GasInv'
    <2> SUFFICES ASSUME NEW u \in Tokens
                 PROVE  /\ Paid(Cardinality(Gas(session'.sweeps[u], u, Broadcast')),
                                session'.sweeps[u], failures')
                        /\ Paid(Cardinality(Gas(db.sweeps[u], u, Broadcast')),
                                db.sweeps[u], failures' + Unpaid(u)')
        BY DEF GasInv, RowVisit
    <2>1. CASE u = t
        <3>1. Unpaid(u)' = IF pc = "fund" THEN 1 ELSE 0
            BY <2>1 DEF Unpaid, RowVisit
        <3> QED BY <1>2, <2>1, <3>1 DEF RowPaid
    <2>2. CASE u # t
        <3>1. /\ Gas(session.sweeps[u], u, Broadcast') \subseteq Gas(session.sweeps[u], u, Broadcast)
              /\ Gas(db.sweeps[u], u, Broadcast') \subseteq Gas(db.sweeps[u], u, Broadcast)
            BY <2>2 DEF Gas, Broadcast, RowVisit
        <3>2. /\ IsFiniteSet(Gas(session.sweeps[u], u, Broadcast))
              /\ IsFiniteSet(Gas(db.sweeps[u], u, Broadcast))
            BY <1>1, GasFinite
        <3>3. /\ failures \in Nat /\ failures' \in Nat /\ Unpaid(u)' = Unpaid(u)
              /\ Unpaid(u) \in Nat
            BY <2>2, FailuresNat, BoundsAreNat DEF NftSweeperInv, Unpaid, RowVisit
        <3>4. /\ failures + Unpaid(u) \in Nat /\ failures' + Unpaid(u) \in Nat
              /\ failures + Unpaid(u) <= failures' + Unpaid(u)
            BY <3>3 DEF RowVisit
        <3>5. /\ Paid(Cardinality(Gas(session.sweeps[u], u, Broadcast)), session.sweeps[u], failures)
              /\ Paid(Cardinality(Gas(db.sweeps[u], u, Broadcast)), db.sweeps[u],
                      failures + Unpaid(u))
            BY DEF NftSweeperInv, GasInv
        <3>6. session.sweeps[u] \in Sweeps /\ db.sweeps[u] \in Sweeps
            BY RowsType DEF NftSweeperInv
        <3>7. Paid(Cardinality(Gas(session.sweeps[u], u, Broadcast')), session.sweeps[u], failures')
            BY <3>1, <3>2, <3>3, <3>5, <3>6, PaidSubset DEF RowVisit
        <3>8. Paid(Cardinality(Gas(db.sweeps[u], u, Broadcast')), db.sweeps[u],
                   failures' + Unpaid(u))
            BY <3>1, <3>2, <3>4, <3>5, <3>6, PaidSubset
        <3> QED BY <1>2, <2>2, <3>3, <3>7, <3>8
    <2> QED BY <2>1, <2>2
<1> QED BY <1>3, <1>4, <1>5, <1>6, <1>7, <1>8 DEF NftSweeperInv, RowVisit

-----------------------------------------------------------------------------
(* The chain and the others.                                                 *)

LEMMA MineEmptyInv == NftSweeperInv /\ MineEmpty => NftSweeperInv'
<1> SUFFICES ASSUME NftSweeperInv, MineEmpty PROVE NftSweeperInv'
    OBVIOUS
<1>1. /\ UNCHANGED <<hotPool, hotMined, balance, pool, mined, owner, gifts, returned, failures,
                     db, session, locked, pc, todo, head>>
      /\ height' \in 0..MaxHeight /\ height' >= height
    <2>1. height \in 0..MaxHeight /\ height < MaxHeight /\ height' = height + 1
        BY DEF NftSweeperInv, TypeOK, MineEmpty
    <2> QED BY <2>1, BoundsAreNat DEF MineEmpty, worldVars, workerVars
<1>2. TypeOK'
    BY <1>1 DEF NftSweeperInv, TypeOK
<1>3. Broadcast' = Broadcast
    BY <1>1 DEF Broadcast
<1> QED BY <1>1, <1>2, <1>3, WorldStepInv DEF NftSweeperInv, ChainInv

LEMMA MineHotInv == NftSweeperInv /\ MineHot => NftSweeperInv'
<1> SUFFICES ASSUME NftSweeperInv, MineHot PROVE NftSweeperInv'
    OBVIOUS
<1>1. /\ UNCHANGED <<pool, mined, owner, gifts, returned, failures,
                     db, session, locked, pc, todo, head>>
      /\ height' \in 0..MaxHeight /\ height' >= height
    <2>1. height \in 0..MaxHeight /\ height < MaxHeight /\ height' = height + 1
        BY DEF NftSweeperInv, TypeOK, MineHot
    <2> QED BY <2>1, BoundsAreNat DEF MineHot, worldVars, workerVars
<1>2. PICK tx \in hotPool :
        /\ hotPool' = hotPool \ {tx} /\ hotMined' = hotMined \cup {tx}
        /\ balance' = IF tx.for \in Tokens
                      THEN [balance EXCEPT ![AddressOf[tx.for]] = @ + 1] ELSE balance
    BY DEF MineHot
<1>3. balance' \in [Addresses -> Nat]
    <2>1. balance \in [Addresses -> Nat]
        BY DEF NftSweeperInv, TypeOK
    <2>2. tx.for \in Tokens => AddressOf[tx.for] \in Addresses
        BY DEF Addresses
    <2> QED BY <1>2, <2>1, <2>2
<1>4. Broadcast' = Broadcast
    BY <1>2 DEF Broadcast
<1>5. TypeOK'
    BY <1>1, <1>3, <1>4 DEF NftSweeperInv, TypeOK, Broadcast
<1>6. IsFiniteSet(hotPool') /\ IsFiniteSet(hotMined')
    BY <1>2, FS_RemoveElement, FS_AddElement DEF NftSweeperInv, ChainInv
<1> QED BY <1>1, <1>4, <1>5, <1>6, WorldStepInv DEF NftSweeperInv, ChainInv

LEMMA MineSweepInv == NftSweeperInv /\ MineSweep => NftSweeperInv'
<1> SUFFICES ASSUME NftSweeperInv, MineSweep PROVE NftSweeperInv'
    OBVIOUS
<1>1. /\ UNCHANGED <<hotPool, hotMined, gifts, returned, failures,
                     db, session, locked, pc, todo, head>>
      /\ height' \in 0..MaxHeight /\ height' >= height /\ height + 1 \in 1..MaxHeight
    <2>1. height \in 0..MaxHeight /\ height < MaxHeight /\ height' = height + 1
        BY DEF NftSweeperInv, TypeOK, MineSweep
    <2> QED BY <2>1, BoundsAreNat DEF MineSweep, worldVars, workerVars
<1>2. PICK tx \in pool, ok \in BOOLEAN :
        /\ balance[AddressOf[tx.token]] > 0
        /\ pool' = pool \ {tx}
        /\ mined' = mined \cup {[token |-> tx.token, nonce |-> tx.nonce,
                                 at |-> height + 1, ok |-> ok]}
        /\ owner' = IF ok THEN [owner EXCEPT ![tx.token] = "hot"] ELSE owner
        /\ balance' = [balance EXCEPT ![AddressOf[tx.token]] = @ - 1]
    BY DEF MineSweep
<1>3. tx.token \in Tokens /\ tx.nonce \in Nat /\ AddressOf[tx.token] \in Addresses
    BY DEF NftSweeperInv, TypeOK, Addresses
<1>4. balance' \in [Addresses -> Nat]
    <2>1. balance \in [Addresses -> Nat]
        BY DEF NftSweeperInv, TypeOK
    <2> QED BY <1>2, <1>3, <2>1
<1>5. owner' \in [Tokens -> {"deposit", "hot", "out"}]
    BY <1>2, <1>3 DEF NftSweeperInv, TypeOK
<1>6. mined' \subseteq [token : Tokens, nonce : Nat, at : 1..MaxHeight, ok : BOOLEAN]
    BY <1>1, <1>2, <1>3 DEF NftSweeperInv, TypeOK
<1>7. TypeOK'
    BY <1>1, <1>2, <1>4, <1>5, <1>6 DEF NftSweeperInv, TypeOK
<1>8. IsFiniteSet(pool') /\ IsFiniteSet(mined') /\ mined \subseteq mined'
    BY <1>2, FS_RemoveElement, FS_AddElement DEF NftSweeperInv, ChainInv
<1>9. Broadcast' = Broadcast
    BY <1>1 DEF Broadcast
<1> QED BY <1>1, <1>7, <1>8, <1>9, WorldStepInv DEF NftSweeperInv, ChainInv

LEMMA GiftInv ==
    ASSUME NftSweeperInv, NEW a \in Addresses, Gift(a)
    PROVE  NftSweeperInv'
<1>1. UNCHANGED <<height, hotPool, hotMined, pool, mined, owner, returned, failures,
                  db, session, locked, pc, todo, head>>
    BY DEF Gift, workerVars
<1>2. gifts' \in 0..MaxGifts
    <2>1. gifts \in 0..MaxGifts /\ gifts < MaxGifts /\ gifts' = gifts + 1
        BY DEF NftSweeperInv, TypeOK, Gift
    <2> QED BY <2>1, BoundsAreNat
<1>3. balance' \in [Addresses -> Nat]
    BY DEF NftSweeperInv, TypeOK, Gift
<1>4. TypeOK'
    BY <1>1, <1>2, <1>3 DEF NftSweeperInv, TypeOK
<1>5. Broadcast' = Broadcast /\ height' >= height
    <2>1. height \in Int
        BY DEF NftSweeperInv, TypeOK
    <2> QED BY <1>1, <2>1 DEF Broadcast
<1> QED BY <1>1, <1>4, <1>5, WorldStepInv DEF NftSweeperInv, ChainInv

LEMMA OwnerStepInv ==
    ASSUME NftSweeperInv, NEW t \in Tokens, Withdrawn(t) \/ Redeposit(t)
    PROVE  NftSweeperInv'
<1>1. UNCHANGED <<height, hotPool, hotMined, balance, pool, mined, gifts, failures,
                  db, session, locked, pc, todo, head>>
    BY DEF Withdrawn, Redeposit, worldVars, workerVars
<1>2. owner' \in [Tokens -> {"deposit", "hot", "out"}] /\ returned' \subseteq Tokens
    BY DEF NftSweeperInv, TypeOK, Withdrawn, Redeposit, worldVars
<1>3. TypeOK'
    BY <1>1, <1>2 DEF NftSweeperInv, TypeOK
<1>4. Broadcast' = Broadcast /\ height' >= height
    <2>1. height \in Int
        BY DEF NftSweeperInv, TypeOK
    <2> QED BY <1>1, <2>1 DEF Broadcast
<1> QED BY <1>1, <1>3, <1>4, WorldStepInv DEF NftSweeperInv, ChainInv

\* The nonce row and the payout p of d.
WithPayout(d, p, n, next) == [d EXCEPT !.payouts[p] = n, !.next = next]

LEMMA PayoutFields ==
    ASSUME NEW d \in Databases, NEW p \in Payouts, NEW n \in Int, NEW next \in Nat \cup {NoRow}
    PROVE  LET e == WithPayout(d, p, n, next)
           IN  /\ e \in Databases /\ e.sweeps = d.sweeps /\ e.next = next
               /\ e.payouts = [d.payouts EXCEPT ![p] = n]
    BY DEF WithPayout, Databases

\* A payout with a nonce from the row on is new.
LEMMA WithPayoutNonces ==
    ASSUME NEW d \in Databases, NEW p \in Payouts, NEW n \in Nat, NoncesInv(d),
           d.next # NoRow => n >= d.next
    PROVE  LET e == WithPayout(d, p, n, n + 1)
           IN  /\ e \in Databases /\ NoncesInv(e) /\ e.sweeps = d.sweeps /\ e.next = n + 1
               /\ e.payouts = [d.payouts EXCEPT ![p] = n]
<1> DEFINE e == WithPayout(d, p, n, n + 1)
<1>1. /\ e \in Databases /\ e.sweeps = d.sweeps /\ e.next = n + 1
      /\ e.payouts = [d.payouts EXCEPT ![p] = n]
    <2>1. n \in Int /\ n + 1 \in Nat \cup {NoRow}
        OBVIOUS
    <2> QED BY <2>1, PayoutFields
<1>2. e.payouts[p] = n /\ \A q \in Payouts \ {p} : e.payouts[q] = d.payouts[q]
    BY <1>1 DEF Databases
<1>3. d.next \in Nat \cup {NoRow} /\ NoRow \notin Int /\ n + 1 # NoRow
    BY NftSweeperAssumption DEF Databases
<1> HIDE DEF e
<1>4. ASSUME NEW q \in Payouts
      PROVE  /\ e.payouts[q] \in Nat \cup {NoNonce}
             /\ e.payouts[q] # NoNonce => e.next # NoRow /\ e.payouts[q] < e.next
    <2>1. CASE q = p
        BY <1>1, <1>2, <1>3, <2>1
    <2>2. CASE q # p
        BY <1>1, <1>2, <1>3, <2>2 DEF NoncesInv
    <2> QED BY <2>1, <2>2
<1>5. ASSUME NEW t \in Tokens, d.sweeps[t].fund # NoNonce
      PROVE  /\ e.next # NoRow /\ d.sweeps[t].fund < e.next
             /\ \A q \in Payouts : e.payouts[q] # d.sweeps[t].fund
    <2>1. /\ d.sweeps[t].fund \in Nat /\ d.next # NoRow /\ d.sweeps[t].fund < d.next
          /\ \A q \in Payouts : d.payouts[q] # d.sweeps[t].fund
        BY <1>5 DEF NoncesInv
    <2> QED BY <1>1, <1>2, <1>3, <2>1
<1>6. NoncesInv(e)
    BY <1>1, <1>4, <1>5 DEF NoncesInv
<1> QED BY <1>1, <1>6 DEF e

LEMMA PayInv ==
    ASSUME NftSweeperInv, NEW p \in Payouts, Pay(p)
    PROVE  NftSweeperInv'
<1> DEFINE n == NextNonce(db.next)
           tx == [for |-> p, nonce |-> n]
<1>1. /\ TypeOK /\ ChainInv /\ NoncesInv(db) /\ NoncesInv(session) /\ PassInv /\ GasInv
      /\ MovedInv(db, mined, height) /\ MovedInv(session, mined, height)
    BY DEF NftSweeperInv
<1>2. /\ db' = WithPayout(db, p, n, n + 1) /\ session' = WithPayout(session, p, n, n + 1)
      /\ hotPool' \subseteq hotPool \cup {tx} /\ hotPool \subseteq hotPool' /\ ~locked
      /\ UNCHANGED <<height, hotMined, balance, pool, mined, owner, gifts, returned, failures,
                     locked, pc, todo, head>>
    BY DEF Pay, LockFree, WithPayout, worldVars
<1>3. db \in Databases /\ session \in Databases /\ session.next = db.next
    BY <1>1, <1>2 DEF TypeOK, PassInv
<1>4. n \in Nat /\ (db.next # NoRow => n >= db.next)
    <2>1. db.next \in Nat \cup {NoRow}
        BY <1>3 DEF Databases
    <2> QED BY <1>1, <2>1, NextNonceIsNat
<1> HIDE DEF n
<1>5. /\ db' \in Databases /\ NoncesInv(db') /\ db'.sweeps = db.sweeps /\ db'.next = n + 1
      /\ db'.payouts = [db.payouts EXCEPT ![p] = n]
    BY <1>1, <1>2, <1>3, <1>4, WithPayoutNonces
<1>6. /\ session' \in Databases /\ NoncesInv(session') /\ session'.sweeps = session.sweeps
      /\ session'.next = n + 1 /\ session'.payouts = [session.payouts EXCEPT ![p] = n]
    BY <1>1, <1>2, <1>3, <1>4, WithPayoutNonces
<1>7. TypeOK'
    <2>1. tx \in [for : Tokens \cup Payouts, nonce : Nat]
        BY <1>4
    <2>2. hotPool' \cup hotMined' \subseteq [for : Tokens \cup Payouts, nonce : Nat]
        BY <1>1, <1>2, <2>1 DEF TypeOK
    <2> QED BY <1>1, <1>2, <1>5, <1>6, <2>2 DEF TypeOK
<1>8. ChainInv'
    <2>1. IsFiniteSet(hotPool \cup {tx})
        BY <1>1, FS_AddElement DEF ChainInv
    <2>2. IsFiniteSet(hotPool')
        BY <1>2, <2>1, FS_Subset
    <2> QED BY <1>1, <1>2, <2>2 DEF ChainInv
<1>9. PassInv'
    BY <1>1, <1>2, <1>3, <1>5, <1>6 DEF PassInv
<1>10. MovedInv(db', mined', height') /\ MovedInv(session', mined', height')
    BY <1>1, <1>2, <1>5, <1>6 DEF MovedInv
<1>11. GasInv'
    <2> SUFFICES ASSUME NEW t \in Tokens
                 PROVE  /\ Gas(session.sweeps[t], t, Broadcast') = Gas(session.sweeps[t], t, Broadcast)
                        /\ Gas(db.sweeps[t], t, Broadcast') = Gas(db.sweeps[t], t, Broadcast)
        BY <1>1, <1>2, <1>5, <1>6 DEF GasInv, Unpaid
    <2>1. tx.for # t
        BY NftSweeperAssumption
    <2>2. {x \in Broadcast' : x.for = t} = {x \in Broadcast : x.for = t}
        BY <1>2, <2>1 DEF Broadcast
    <2> QED BY <2>2 DEF Gas
<1> QED BY <1>5, <1>6, <1>7, <1>8, <1>9, <1>10, <1>11 DEF NftSweeperInv

-----------------------------------------------------------------------------
(* The phases of the sweeper.                                                *)

\* What discover_sweeps makes of a row.
Discovered(row) ==
    IF row.status = "none" THEN [row EXCEPT !.status = "pending"]
    ELSE IF Rearmed(row)
    THEN [status |-> "pending", attempts |-> row.attempts, fund |-> NoNonce,
          nonce |-> NoNonce, since |-> NoBlock]
    ELSE row

LEMMA DiscoveredRow ==
    ASSUME NEW row \in Sweeps
    PROVE  /\ Discovered(row) \in Sweeps
           /\ Discovered(row).fund \in {row.fund, NoNonce}
           /\ Discovered(row).nonce \in {row.nonce, NoNonce}
           /\ \/ Discovered(row) = row
              \/ /\ Discovered(row).status = "pending" /\ Discovered(row).attempts = row.attempts
                 /\ row.status = "none" \/ Rearmed(row)
    BY DEF Discovered, Sweeps, NoNonce, NoBlock

LEMMA DiscoverInv == NftSweeperInv /\ Discover => NftSweeperInv'
<1> SUFFICES ASSUME NftSweeperInv, Discover PROVE NftSweeperInv'
    OBVIOUS
<1>1. /\ TypeOK /\ ChainInv /\ NoncesInv(db) /\ PassInv /\ GasInv
      /\ MovedInv(db, mined, height) /\ db \in Databases
    BY DEF NftSweeperInv, TypeOK
<1>2. /\ session' = [db EXCEPT !.sweeps = [t \in Tokens |-> Discovered(db.sweeps[t])]]
      /\ db' = session' /\ pc = "discover" /\ pc' = "fund" /\ ~locked
      /\ todo' = {t \in Tokens : db'.sweeps[t].status \in {"pending", "funding"}}
      /\ UNCHANGED <<height, hotPool, hotMined, balance, pool, mined, owner, gifts, returned,
                     failures, locked, head>>
    BY <1>1 DEF Discover, Discovered, InStatus, chainVars, worldVars, TypeOK
<1>3. \A t \in Tokens : db.sweeps[t] \in Sweeps
    BY <1>1 DEF Databases
<1>4. /\ db' \in Databases /\ db'.next = db.next /\ db'.payouts = db.payouts
      /\ \A t \in Tokens : db'.sweeps[t] = Discovered(db.sweeps[t])
    BY <1>1, <1>2, <1>3, DiscoveredRow DEF Databases
<1>5. NoncesInv(db')
    <2>1. \A t \in Tokens : /\ db'.sweeps[t].fund \in {db.sweeps[t].fund, NoNonce}
                            /\ db'.sweeps[t].nonce \in {db.sweeps[t].nonce, NoNonce}
                            /\ db'.sweeps[t].status = "funding" => db'.sweeps[t] = db.sweeps[t]
        BY <1>3, <1>4, DiscoveredRow
    <2> QED BY <1>1, <1>4, <2>1 DEF NoncesInv
<1>6. MovedInv(db', mined', height')
    <2>1. \A t \in Tokens : db'.sweeps[t].status = "swept" => db'.sweeps[t] = db.sweeps[t]
        BY <1>3, <1>4, DiscoveredRow
    <2> QED BY <1>1, <1>2, <2>1 DEF MovedInv
<1>7. TypeOK'
    BY <1>1, <1>2, <1>4 DEF TypeOK
<1>8. ChainInv'
    BY <1>1, <1>2 DEF ChainInv
<1>9. PassInv'
    BY <1>1, <1>2 DEF PassInv
<1>10. GasInv'
    <2> SUFFICES ASSUME NEW t \in Tokens
                 PROVE  /\ Paid(Cardinality(Gas(db'.sweeps[t], t, Broadcast')), db'.sweeps[t], failures)
                        /\ Paid(Cardinality(Gas(db'.sweeps[t], t, Broadcast')), db'.sweeps[t],
                                failures + Unpaid(t)')
        BY <1>2 DEF GasInv
    <2> DEFINE G == Gas(db.sweeps[t], t, Broadcast)
               H == Gas(db'.sweeps[t], t, Broadcast')
    <2>1. IsFiniteSet(G) /\ Cardinality(G) \in Nat
        BY <1>1, BroadcastFinite, GasFinite
    <2>2. failures \in Nat /\ Unpaid(t)' \in {0, 1} /\ failures + Unpaid(t)' \in Nat
          /\ failures <= failures + Unpaid(t)' /\ failures <= failures
        <3>1. failures \in Nat
            BY <1>1, FailuresNat
        <3>2. Unpaid(t)' \in {0, 1}
            BY DEF Unpaid
        <3> QED BY <3>1, <3>2
    <2>3. Paid(Cardinality(G), db.sweeps[t], failures)
        <3>1. failures + Unpaid(t) = failures
            BY <1>2, <2>2 DEF Unpaid
        <3> QED BY <1>1, <3>1 DEF GasInv
    <2>4. db'.sweeps[t] \in Sweeps /\ Paid(Cardinality(G), db'.sweeps[t], failures)
        <3>1. CASE Discovered(db.sweeps[t]) = db.sweeps[t]
            BY <1>3, <1>4, <2>3, <3>1
        <3>2. CASE Discovered(db.sweeps[t]) # db.sweeps[t]
            BY <1>3, <1>4, <2>1, <2>2, <2>3, <3>2, DiscoveredRow, PaidDiscover
        <3> QED BY <3>1, <3>2
    <2>5. H \subseteq G
        <3>1. Broadcast' = Broadcast
            BY <1>2 DEF Broadcast
        <3>2. db'.sweeps[t].status = "funding" => db'.sweeps[t] = db.sweeps[t]
            BY <1>3, <1>4, DiscoveredRow
        <3> QED BY <3>1, <3>2 DEF Gas
    <2> HIDE DEF G, H
    <2>6. Paid(Cardinality(H), db'.sweeps[t], failures)
        BY <2>1, <2>2, <2>4, <2>5, PaidSubset
    <2>7. Paid(Cardinality(H), db'.sweeps[t], failures + Unpaid(t)')
        BY <2>1, <2>2, <2>4, <2>5, PaidSubset
    <2> QED BY <2>6, <2>7 DEF H
<1> QED BY <1>2, <1>5, <1>6, <1>7, <1>8, <1>9, <1>10 DEF NftSweeperInv

LEMMA CommitInv == NftSweeperInv /\ (CommitFund \/ CommitSweep \/ CommitConfirm) => NftSweeperInv'
<1> SUFFICES ASSUME NftSweeperInv, CommitFund \/ CommitSweep \/ CommitConfirm PROVE NftSweeperInv'
    OBVIOUS
<1>1. head \in 0..MaxHeight /\ height \in 0..MaxHeight /\ MaxHeight \in Nat
    BY BoundsAreNat DEF NftSweeperInv, TypeOK
<1>2. locked => pc = "fund"
    BY DEF NftSweeperInv, TypeOK
<1>3. CASE CommitFund
    <2>1. /\ UNCHANGED <<chainVars, worldVars, failures, session>> /\ db' = session /\ ~locked'
          /\ pc' = "sweep" /\ head' \in 0..MaxHeight /\ todo' \subseteq Tokens
          /\ \A t \in todo' : session.sweeps[t].status = "funded"
        BY <1>1, <1>3 DEF CommitFund, InStatus
    <2> QED BY <2>1, CommitStepInv
<1>4. CASE CommitSweep
    <2>1. head' \in 0..MaxHeight /\ head' <= height
        BY <1>1, <1>4 DEF CommitSweep
    <2>2. /\ UNCHANGED <<chainVars, worldVars, failures, session>> /\ db' = session /\ ~locked'
          /\ pc' = "confirm" /\ todo' \subseteq Tokens
          /\ \A t \in todo' : session.sweeps[t].status = "sweeping"
        BY <1>2, <1>4 DEF CommitSweep, InStatus
    <2> QED BY <2>1, <2>2, CommitStepInv
<1>5. CASE CommitConfirm
    <2>1. /\ UNCHANGED <<chainVars, worldVars, failures, session>> /\ db' = session /\ ~locked'
          /\ pc' = "discover" /\ head' \in 0..MaxHeight /\ todo' = {}
        BY <1>1, <1>2, <1>5 DEF CommitConfirm
    <2> QED BY <2>1, CommitStepInv
<1> QED BY <1>3, <1>4, <1>5

LEMMA FailInv == NftSweeperInv /\ Fail => NftSweeperInv'
<1> SUFFICES ASSUME NftSweeperInv, Fail PROVE NftSweeperInv'
    OBVIOUS
<1>1. /\ TypeOK /\ ChainInv /\ NoncesInv(db) /\ PassInv /\ GasInv
      /\ MovedInv(db, mined, height) /\ db \in Databases
    BY DEF NftSweeperInv, TypeOK
<1>2. /\ session' = db /\ db' = db /\ ~locked' /\ pc' = "discover" /\ todo' = {}
      /\ head' = 0
      /\ UNCHANGED <<height, hotPool, hotMined, balance, pool, mined, owner, gifts, returned>>
    BY DEF Fail, chainVars, worldVars
<1>3. failures' = failures + 1 /\ failures' \in 0..MaxFailures /\ failures \in Nat
    <2>1. failures \in 0..MaxFailures /\ failures < MaxFailures /\ failures' = failures + 1
        BY <1>1 DEF TypeOK, Fail
    <2> QED BY <2>1, BoundsAreNat
<1>4. TypeOK'
    <2>1. head' \in 0..MaxHeight
        BY <1>2, BoundsAreNat
    <2> QED BY <1>1, <1>2, <1>3, <2>1 DEF TypeOK
<1>5. ChainInv'
    BY <1>1, <1>2 DEF ChainInv
<1>6. PassInv'
    BY <1>2 DEF PassInv
<1>7. GasInv'
    <2>1. Broadcast' = Broadcast
        BY <1>2 DEF Broadcast
    <2>2. ASSUME NEW t \in Tokens
          PROVE  /\ Paid(Cardinality(Gas(db.sweeps[t], t, Broadcast)), db.sweeps[t], failures')
                 /\ failures' + Unpaid(t)' = failures'
        <3>1. /\ failures + Unpaid(t) \in Nat /\ failures' \in Nat
              /\ failures + Unpaid(t) <= failures' /\ Unpaid(t)' = 0
            BY <1>2, <1>3 DEF Unpaid
        <3>2. Cardinality(Gas(db.sweeps[t], t, Broadcast)) \in Nat
            BY <1>1, BroadcastFinite, GasFinite
        <3>3. /\ Paid(Cardinality(Gas(db.sweeps[t], t, Broadcast)), db.sweeps[t],
                      failures + Unpaid(t))
              /\ db.sweeps[t] \in Sweeps
            BY <1>1, RowsType DEF GasInv
        <3>4. Paid(Cardinality(Gas(db.sweeps[t], t, Broadcast)), db.sweeps[t], failures')
            <4> DEFINE c == Cardinality(Gas(db.sweeps[t], t, Broadcast))
            <4>1. c <= c
                BY <3>2
            <4> HIDE DEF c
            <4> QED BY <3>1, <3>2, <3>3, <4>1, PaidMonotone DEF c
        <3>5. failures' + Unpaid(t)' = failures'
            BY <1>2, <1>3 DEF Unpaid
        <3> QED BY <3>1, <3>4, <3>5
    <2> QED BY <1>2, <2>1, <2>2 DEF GasInv
<1> QED BY <1>1, <1>2, <1>4, <1>5, <1>6, <1>7 DEF NftSweeperInv

-----------------------------------------------------------------------------
(* The loops of the phases.                                                  *)

\* What a visit finds: the row of a token, of which the database pays the gas.
LEMMA Visited ==
    ASSUME NftSweeperInv, NEW t \in todo
    PROVE  /\ t \in Tokens /\ session \in Databases /\ db \in Databases
           /\ session.sweeps[t] \in Sweeps /\ db.sweeps[t] \in Sweeps
           /\ session.sweeps[t].nonce \in Nat \cup {NoNonce}
           /\ session.next \in Nat \cup {NoRow} /\ NoRow \notin Int /\ failures \in Nat
           /\ IsFiniteSet(Gas(session.sweeps[t], t, Broadcast))
           /\ IsFiniteSet(Gas(db.sweeps[t], t, Broadcast))
           /\ Paid(Cardinality(Gas(session.sweeps[t], t, Broadcast)), session.sweeps[t], failures)
           /\ Paid(Cardinality(Gas(db.sweeps[t], t, Broadcast)), db.sweeps[t], failures)
<1>1. TypeOK /\ ChainInv /\ GasInv /\ NoncesInv(session)
    BY DEF NftSweeperInv
<1>2. t \in Tokens /\ session \in Databases /\ db \in Databases
    BY <1>1 DEF TypeOK
<1>3. /\ session.sweeps[t] \in Sweeps /\ db.sweeps[t] \in Sweeps
      /\ session.next \in Nat \cup {NoRow} /\ NoRow \notin Int
    BY <1>2, NftSweeperAssumption DEF Databases
<1>4. /\ IsFiniteSet(Gas(session.sweeps[t], t, Broadcast))
      /\ IsFiniteSet(Gas(db.sweeps[t], t, Broadcast))
    BY <1>1, BroadcastFinite, GasFinite
<1>5. failures \in Nat /\ failures + Unpaid(t) = failures
    <2>1. failures \in Nat
        BY <1>1, FailuresNat
    <2> QED BY <2>1 DEF Unpaid
<1> QED BY <1>1, <1>2, <1>3, <1>4, <1>5 DEF GasInv, NoncesInv

LEMMA FailuresGrow ==
    ASSUME NEW f \in Nat, NEW g \in Nat, g >= f
    PROVE  /\ g + 1 \in Nat /\ f <= g + 1 /\ f + 1 <= g + 1
           /\ \A b : LET h == g + (IF b THEN 1 ELSE 0) IN h \in Nat /\ f <= h
    OBVIOUS

\* A visit that sends no gas.
LEMMA QuietVisit ==
    ASSUME NftSweeperInv, NEW t \in todo, NEW row \in Sweeps, UNCHANGED <<hotPool, hotMined>>,
           failures' \in Nat, failures' >= failures, row.status # "funding",
           Paid(Cardinality(Gas(session.sweeps[t], t, Broadcast)), row, failures')
    PROVE  RowPaid(t, row)
<1>1. Broadcast' = Broadcast
    BY DEF Broadcast
<1>2. Paid(Cardinality(Gas(row, t, Broadcast')), row, failures')
    <2>1. Gas(row, t, Broadcast') \subseteq Gas(session.sweeps[t], t, Broadcast)
        BY <1>1 DEF Gas
    <2>2. failures' <= failures'
        OBVIOUS
    <2> QED BY <2>1, <2>2, Visited, PaidSubset
<1>3. Paid(Cardinality(Gas(db.sweeps[t], t, Broadcast')), db.sweeps[t],
           failures' + (IF pc = "fund" THEN 1 ELSE 0))
    <2> DEFINE g == failures' + (IF pc = "fund" THEN 1 ELSE 0)
    <2>1. failures \in Nat
        BY Visited
    <2>2. g \in Nat /\ failures <= g
        BY <2>1, FailuresGrow
    <2> HIDE DEF g
    <2>3. Paid(Cardinality(Gas(db.sweeps[t], t, Broadcast)), db.sweeps[t], g)
        BY <2>2, Visited, PaidSubset
    <2> QED BY <1>1, <2>3 DEF g
<1> QED BY <1>2, <1>3 DEF RowPaid

\* What broadcast_raw may do to the hot wallet.
LEMMA BroadcastGasStep ==
    ASSUME TypeOK, NEW tx, BroadcastGas(tx)
    PROVE  /\ hotPool' \subseteq hotPool \cup {tx}
           /\ failures' \in 0..MaxFailures /\ failures' >= failures
<1>1. failures \in 0..MaxFailures
    BY DEF TypeOK
<1>2. hotPool' \subseteq hotPool \cup {tx}
    BY DEF BroadcastGas
<1>3. failures' = failures \/ (failures < MaxFailures /\ failures' = failures + 1)
    BY DEF BroadcastGas
<1> QED BY <1>1, <1>2, <1>3, BoundsAreNat

LEMMA SameRow ==
    ASSUME NEW d \in Databases, NEW t \in Tokens
    PROVE  WithRow(d, t, d.sweeps[t], d.next) = d
<1>1. d.sweeps \in [Tokens -> Sweeps]
    BY DEF Databases
<1>2. [d.sweeps EXCEPT ![t] = d.sweeps[t]] = d.sweeps
    BY <1>1
<1> QED BY <1>2 DEF WithRow, Databases

\* A visit that changes neither the nonce row nor the transactions.
LEMMA QuietStep ==
    ASSUME NftSweeperInv, NEW t \in todo, NEW row, pc \in {"fund", "sweep", "confirm"},
           UNCHANGED <<height, hotPool, hotMined, balance, pool, mined, owner, gifts, returned,
                       db, locked, pc, head>>,
           failures' \in 0..MaxFailures, failures' >= failures,
           session' = WithRow(session, t, row, session.next), todo' = todo \ {t}
    PROVE  RowVisit(t, row, session.next)
<1>1. /\ hotPool \subseteq [for : Tokens \cup Payouts, nonce : Nat] /\ IsFiniteSet(hotPool)
      /\ pool \subseteq [token : Tokens, nonce : Nat] /\ IsFiniteSet(pool)
    BY DEF NftSweeperInv, TypeOK, ChainInv
<1>2. locked => pc = "fund" /\ session.next # NoRow
    BY DEF NftSweeperInv, TypeOK, PassInv
<1> QED BY <1>1, <1>2 DEF RowVisit

LEMMA QuietNonces ==
    ASSUME NftSweeperInv, NEW t \in todo, NEW row,
           row.fund = session.sweeps[t].fund, row.nonce \in Nat \cup {NoNonce},
           row.status # "funding"
    PROVE  RowNonces(t, row, session.next)
<1>1. session.next \in Nat \cup {NoRow}
    BY Visited
<1> QED BY <1>1 DEF RowNonces

LEMMA FundSkipInv ==
    ASSUME NftSweeperInv, NEW t \in Tokens, FundSkip(t)
    PROVE  NftSweeperInv'
<1> DEFINE row == [session.sweeps[t] EXCEPT !.status = "funded"]
<1>1. t \in todo /\ pc = "fund" /\ todo' = todo \ {t} /\ failures' = failures
      /\ UNCHANGED <<height, hotPool, hotMined, balance, pool, mined, owner, gifts, returned,
                     failures, db, locked, pc, head>>
    BY DEF FundSkip, chainVars, worldVars
<1>2. /\ row \in Sweeps /\ row.status = "funded" /\ row.attempts = session.sweeps[t].attempts
      /\ row.fund = session.sweeps[t].fund /\ row.nonce = session.sweeps[t].nonce
    <2>1. session.sweeps[t] \in Sweeps
        BY <1>1, Visited
    <2> QED BY <2>1 DEF Sweeps
<1>3. session' = WithRow(session, t, row, session.next)
    <2>1. session \in Databases
        BY <1>1, Visited
    <2> QED BY <2>1 DEF FundSkip, WithRow, Databases
<1> HIDE DEF row
<1>4. RowVisit(t, row, session.next)
    <2>1. failures' \in 0..MaxFailures /\ failures' >= failures
        BY <1>1 DEF NftSweeperInv, TypeOK
    <2> QED BY <1>1, <1>3, <2>1, QuietStep
<1>5. RowNonces(t, row, session.next)
    BY <1>1, <1>2, Visited, QuietNonces
<1>6. RowMoved(t, row)
    BY <1>2 DEF RowMoved
<1>7. RowPaid(t, row)
    <2>1. Paid(Cardinality(Gas(session.sweeps[t], t, Broadcast)), row, failures)
        <3>1. /\ Cardinality(Gas(session.sweeps[t], t, Broadcast)) \in Nat
            BY <1>1, Visited, FS_CardinalityType
        <3> QED BY <1>1, <1>2, <3>1, Visited, PaidFunded
    <2>2. failures' \in Nat /\ failures' >= failures
        BY <1>1, Visited
    <2> QED BY <1>1, <1>2, <2>1, <2>2, QuietVisit
<1> QED BY <1>1, <1>2, <1>4, <1>5, <1>6, <1>7, Visited, RowStepInv

LEMMA FundAgainInv ==
    ASSUME NftSweeperInv, NEW t \in Tokens, FundAgain(t)
    PROVE  NftSweeperInv'
<1> DEFINE row == session.sweeps[t]
           tx == [for |-> t, nonce |-> row.fund]
<1>1. t \in todo /\ pc = "fund" /\ todo' = todo \ {t} /\ row.status = "funding"
      /\ UNCHANGED <<height, hotMined, balance, pool, mined, owner, gifts, returned,
                     db, session, locked, pc, head>>
    BY DEF FundAgain, worldVars
<1>2. row \in Sweeps /\ session \in Databases /\ session.next \in Nat \cup {NoRow}
    BY <1>1, Visited
<1>3. row.fund \in Nat /\ tx.for = t /\ session.sweeps[t] = db.sweeps[t]
    BY <1>1 DEF NftSweeperInv, NoncesInv, PassInv
<1>4. /\ hotPool' \subseteq hotPool \cup {tx}
      /\ failures' \in 0..MaxFailures /\ failures' >= failures
    <2>1. TypeOK /\ BroadcastGas(tx)
        BY DEF NftSweeperInv, FundAgain
    <2> HIDE DEF tx
    <2> QED BY <2>1, BroadcastGasStep
<1>5. RowVisit(t, row, session.next)
    <2>1. session' = WithRow(session, t, row, session.next)
        BY <1>1, <1>2, SameRow
    <2>2. /\ hotPool' \subseteq [for : Tokens \cup Payouts, nonce : Nat]
          /\ pool \subseteq [token : Tokens, nonce : Nat]
        BY <1>3, <1>4 DEF NftSweeperInv, TypeOK
    <2>3. IsFiniteSet(hotPool') /\ IsFiniteSet(pool)
        <3>1. IsFiniteSet(hotPool) /\ IsFiniteSet(pool)
            BY DEF NftSweeperInv, ChainInv
        <3> QED BY <1>4, <3>1, FS_AddElement, FS_Subset
    <2>4. \A x \in hotPool' : x.for # t => x \in hotPool
        BY <1>3, <1>4
    <2>5. locked => session.next # NoRow
        BY DEF NftSweeperInv, PassInv
    <2> HIDE DEF tx, row
    <2> QED BY <1>1, <1>4, <2>1, <2>2, <2>3, <2>4, <2>5 DEF RowVisit
<1>6. RowNonces(t, row, session.next)
    <2>1. row.nonce \in Nat \cup {NoNonce} /\ row.fund # NoNonce
        BY <1>1, <1>3, Visited DEF NoNonce
    <2> QED BY <1>2, <2>1 DEF RowNonces
<1>7. RowMoved(t, row)
    BY <1>1 DEF RowMoved
<1>8. RowPaid(t, row)
    <2>1. Gas(row, t, Broadcast') \subseteq Gas(row, t, Broadcast)
        BY <1>1, <1>3, <1>4 DEF Gas, Broadcast
    <2>2. failures \in Nat /\ failures' \in Nat
        BY <1>1, <1>4, Visited
    <2>3. /\ IsFiniteSet(Gas(row, t, Broadcast))
          /\ Paid(Cardinality(Gas(row, t, Broadcast)), row, failures)
        BY <1>1, Visited
    <2> HIDE DEF tx, row
    <2>4. Paid(Cardinality(Gas(row, t, Broadcast')), row, failures')
        BY <1>2, <1>4, <2>1, <2>2, <2>3, PaidSubset
    <2>5. Paid(Cardinality(Gas(row, t, Broadcast')), row, failures' + 1)
        <3>1. failures' + 1 \in Nat /\ failures <= failures' + 1
            BY <1>4, <2>2, FailuresGrow
        <3> QED BY <1>2, <2>1, <2>2, <2>3, <3>1, PaidSubset
    <2>6. row = db.sweeps[t]
        BY <1>3 DEF row
    <2> QED BY <1>1, <2>4, <2>5, <2>6 DEF RowPaid
<1> HIDE DEF row, tx
<1> QED BY <1>1, <1>2, <1>5, <1>6, <1>7, <1>8, RowStepInv

\* The nonce that the fund phase takes from the row.
LEMMA SessionNonceIsNat ==
    ASSUME NftSweeperInv
    PROVE  /\ SessionNonce \in Nat /\ session.next \in Nat \cup {NoRow}
           /\ session.next # NoRow => SessionNonce >= session.next
<1>1. session.next \in Nat \cup {NoRow} /\ ChainInv
    BY DEF NftSweeperInv, TypeOK, Databases
<1>2. locked => session.next # NoRow
    BY DEF NftSweeperInv, PassInv
<1>3. CASE locked
    BY <1>1, <1>2, <1>3 DEF SessionNonce
<1>4. CASE ~locked
    <2>1. SessionNonce = NextNonce(session.next)
        BY <1>4 DEF SessionNonce
    <2> QED BY <1>1, <2>1, NextNonceIsNat
<1> QED BY <1>3, <1>4

\* One more gas transaction is sent, of which an attempt of the row pays: until the
\* phase is committed the database needs a failure for it.
LEMMA FundPaid ==
    ASSUME NftSweeperInv, NEW t \in todo, NEW row \in Sweeps, NEW tx, pc = "fund",
           session.sweeps[t].status = "pending", row.status = "funding",
           row.attempts = Smaller(session.sweeps[t].attempts + 1, MaxAttempts),
           tx = [for |-> t, nonce |-> row.fund],
           Broadcast' \subseteq Broadcast \cup {tx}, failures' \in Nat, failures' >= failures
    PROVE  RowPaid(t, row)
<1> DEFINE old == session.sweeps[t]
           G == Gas(old, t, Broadcast)
           D == Gas(db.sweeps[t], t, Broadcast)
<1>1. /\ old \in Sweeps /\ db.sweeps[t] \in Sweeps /\ failures \in Nat
      /\ IsFiniteSet(G) /\ IsFiniteSet(D)
      /\ Paid(Cardinality(G), old, failures) /\ Paid(Cardinality(D), db.sweeps[t], failures)
    BY Visited
<1>2. /\ Gas(row, t, Broadcast') \subseteq G \cup {tx}
      /\ Gas(db.sweeps[t], t, Broadcast') \subseteq D \cup {tx}
    BY DEF Gas
<1>3. old.status = "pending" /\ row.attempts = Smaller(old.attempts + 1, MaxAttempts)
    OBVIOUS
<1> HIDE DEF old, G, D
<1>4. /\ Cardinality(G) \in Nat /\ Cardinality(Gas(row, t, Broadcast')) \in Nat
      /\ Cardinality(Gas(row, t, Broadcast')) <= Cardinality(G) + 1
    BY <1>1, <1>2, OneMoreGas
<1>5. /\ Cardinality(D) \in Nat /\ Cardinality(Gas(db.sweeps[t], t, Broadcast')) \in Nat
      /\ Cardinality(Gas(db.sweeps[t], t, Broadcast')) <= Cardinality(D) + 1
    BY <1>1, <1>2, OneMoreGas
<1>6. Paid(Cardinality(Gas(row, t, Broadcast')), row, failures')
    <2>1. Paid(Cardinality(G) + 1, row, failures)
        BY <1>1, <1>3, <1>4, PaidFund
    <2>2. Cardinality(G) + 1 \in Nat /\ failures <= failures'
        BY <1>1, <1>4
    <2> QED BY <1>1, <1>4, <2>1, <2>2, PaidMonotone
<1>7. Paid(Cardinality(Gas(db.sweeps[t], t, Broadcast')), db.sweeps[t], failures' + 1)
    <2>1. Paid(Cardinality(D) + 1, db.sweeps[t], failures + 1)
        BY <1>1, <1>5, PaidOneMore
    <2>2. Cardinality(D) + 1 \in Nat /\ failures + 1 \in Nat
        BY <1>1, <1>5
    <2>3. failures' + 1 \in Nat /\ failures + 1 <= failures' + 1
        BY <1>1, FailuresGrow
    <2> QED BY <1>1, <1>5, <2>1, <2>2, <2>3, PaidMonotone
<1> QED BY <1>6, <1>7 DEF RowPaid

LEMMA FundInv ==
    ASSUME NftSweeperInv, NEW t \in Tokens, Fund(t)
    PROVE  NftSweeperInv'
<1> DEFINE old == session.sweeps[t]
           n == SessionNonce
           next == n + 1
           row == [Attempted(old) EXCEPT !.status = "funding", !.fund = n]
           tx == [for |-> t, nonce |-> n]
<1>1. /\ t \in todo /\ pc = "fund" /\ todo' = todo \ {t} /\ old.status = "pending" /\ locked'
      /\ UNCHANGED <<height, hotMined, balance, pool, mined, owner, gifts, returned, db, pc, head>>
    BY DEF Fund, worldVars
<1>2. old \in Sweeps /\ session \in Databases
    BY <1>1, Visited
<1>3. /\ n \in Nat /\ session.next \in Nat \cup {NoRow}
      /\ session.next # NoRow => n >= session.next
    BY SessionNonceIsNat
<1>4. next \in Nat /\ n < next /\ next # NoRow /\ (session.next # NoRow => next >= session.next)
    BY <1>3, NftSweeperAssumption
<1>5. tx.for = t /\ tx.nonce = n /\ tx \in [for : Tokens \cup Payouts, nonce : Nat]
    BY <1>3
<1>6. /\ row \in Sweeps /\ row.status = "funding" /\ row.fund = n
      /\ row.nonce = old.nonce /\ row.attempts = Smaller(old.attempts + 1, MaxAttempts)
    <2>1. /\ Attempted(old) \in Sweeps /\ Attempted(old).nonce = old.nonce
          /\ Attempted(old).attempts = Smaller(old.attempts + 1, MaxAttempts)
        BY <1>2, AttemptedType
    <2>2. n \in Int
        BY <1>3
    <2> DEFINE mid == Attempted(old)
    <2>3. mid \in Sweeps
        BY <2>1
    <2>4. row = [mid EXCEPT !.status = "funding", !.fund = n]
        OBVIOUS
    <2> HIDE DEF mid, n, row
    <2>5. /\ row \in Sweeps /\ row.status = "funding" /\ row.fund = n
          /\ row.nonce = mid.nonce /\ row.attempts = mid.attempts
        BY <2>2, <2>3, <2>4, FundingRow
    <2> QED BY <2>1, <2>5 DEF mid
<1>7. session' = WithRow(session, t, row, next)
    BY DEF Fund, Funded, WithRow
<1>8. BroadcastGas(tx)
    BY DEF Fund
<1>9. row.nonce \in Nat \cup {NoNonce}
    BY <1>1, <1>6, Visited
<1> HIDE DEF row, n, next, tx
<1>10. /\ hotPool' \subseteq hotPool \cup {tx}
       /\ failures' \in 0..MaxFailures /\ failures' >= failures
    BY <1>8, BroadcastGasStep DEF NftSweeperInv
<1>11. RowVisit(t, row, next)
    <2>1. /\ hotPool \subseteq [for : Tokens \cup Payouts, nonce : Nat]
          /\ pool \subseteq [token : Tokens, nonce : Nat]
        BY DEF NftSweeperInv, TypeOK
    <2>2. IsFiniteSet(hotPool') /\ IsFiniteSet(pool)
        <3>1. IsFiniteSet(hotPool) /\ IsFiniteSet(pool)
            BY DEF NftSweeperInv, ChainInv
        <3> QED BY <1>10, <3>1, FS_AddElement, FS_Subset
    <2>3. /\ \A x \in hotPool' : x.for # t => x \in hotPool
          /\ hotPool' \subseteq [for : Tokens \cup Payouts, nonce : Nat]
        BY <1>5, <1>10, <2>1
    <2> QED BY <1>1, <1>4, <1>7, <1>10, <2>1, <2>2, <2>3 DEF RowVisit
<1>12. RowNonces(t, row, next)
    <2>1. row.fund # NoNonce
        BY <1>3, <1>6 DEF NoNonce
    <2> QED BY <1>3, <1>4, <1>6, <1>9, <2>1 DEF RowNonces
<1>13. RowMoved(t, row)
    BY <1>6 DEF RowMoved
<1>14. RowPaid(t, row)
    <2>1. Broadcast' \subseteq Broadcast \cup {tx}
        BY <1>1, <1>10 DEF Broadcast
    <2>2. tx = [for |-> t, nonce |-> row.fund]
        BY <1>6 DEF tx
    <2>3. failures' \in Nat
        BY <1>10
    <2> QED BY <1>1, <1>6, <1>10, <2>1, <2>2, <2>3, FundPaid
<1> QED BY <1>1, <1>4, <1>6, <1>11, <1>12, <1>13, <1>14, RowStepInv

LEMMA FundUnsignedInv ==
    ASSUME NftSweeperInv, NEW t \in Tokens, FundUnsigned(t)
    PROVE  NftSweeperInv'
<1> DEFINE old == session.sweeps[t]
           n == SessionNonce
           row == Attempted(old)
           c == Cardinality(Gas(old, t, Broadcast))
<1>1. /\ t \in todo /\ pc = "fund" /\ todo' = todo \ {t} /\ old.status = "pending" /\ locked'
      /\ UNCHANGED <<height, hotPool, hotMined, balance, pool, mined, owner, gifts, returned,
                     db, pc, head>>
      /\ failures < MaxFailures /\ failures' = failures + 1
    BY DEF FundUnsigned, chainVars, worldVars
<1>2. /\ old \in Sweeps /\ session \in Databases /\ old.nonce \in Nat \cup {NoNonce}
      /\ failures \in Nat /\ c \in Nat /\ Paid(c, old, failures)
    BY <1>1, Visited, FS_CardinalityType
<1>3. /\ n \in Nat /\ session.next \in Nat \cup {NoRow} /\ n # NoRow
      /\ session.next # NoRow => n >= session.next
    BY SessionNonceIsNat, NftSweeperAssumption
<1>4. /\ row \in Sweeps /\ row.status = "pending" /\ row.fund = old.fund
      /\ row.nonce = old.nonce /\ row.attempts = Smaller(old.attempts + 1, MaxAttempts)
    BY <1>1, <1>2, AttemptedType
<1>5. session' = WithRow(session, t, row, n)
    BY <1>2 DEF FundUnsigned, WithRow
<1>6. /\ failures' \in 0..MaxFailures /\ failures' \in Nat /\ failures' >= failures
    BY <1>1, <1>2, BoundsAreNat
<1> HIDE DEF row, n, c
<1>7. RowVisit(t, row, n)
    <2>1. /\ hotPool \subseteq [for : Tokens \cup Payouts, nonce : Nat] /\ IsFiniteSet(hotPool)
          /\ pool \subseteq [token : Tokens, nonce : Nat] /\ IsFiniteSet(pool)
        BY DEF NftSweeperInv, TypeOK, ChainInv
    <2> QED BY <1>1, <1>3, <1>5, <1>6, <2>1 DEF RowVisit
<1>8. RowNonces(t, row, n)
    BY <1>2, <1>3, <1>4 DEF RowNonces
<1>9. RowMoved(t, row)
    BY <1>4 DEF RowMoved
<1>10. RowPaid(t, row)
    <2>1. Paid(c, row, failures')
        BY <1>1, <1>2, <1>4, PaidUnsigned
    <2> QED BY <1>1, <1>4, <1>6, <2>1, QuietVisit DEF c
<1> QED BY <1>1, <1>3, <1>4, <1>7, <1>8, <1>9, <1>10, RowStepInv

LEMMA SameNext ==
    ASSUME NEW d \in Databases, NEW t \in Tokens, NEW row
    PROVE  [d EXCEPT !.sweeps[t] = row] = WithRow(d, t, row, d.next)
    BY DEF WithRow, Databases

\* A row of the sweep phase after its visit.
LEMMA SweepStepInv ==
    ASSUME NftSweeperInv, NEW t \in todo, NEW row \in Sweeps, pc = "sweep",
           UNCHANGED <<height, hotPool, hotMined, balance, mined, owner, gifts, returned,
                       db, locked, pc, head>>,
           todo' = todo \ {t}, session' = [session EXCEPT !.sweeps[t] = row],
           failures' \in 0..MaxFailures, failures' >= failures,
           pool' \subseteq [token : Tokens, nonce : Nat], IsFiniteSet(pool'),
           row.status \in {"funded", "sweeping"}, row.fund = session.sweeps[t].fund,
           row.nonce \in Nat \cup {NoNonce},
           row.attempts = Smaller(session.sweeps[t].attempts + 1, MaxAttempts)
    PROVE  NftSweeperInv'
<1> DEFINE old == session.sweeps[t]
           c == Cardinality(Gas(old, t, Broadcast))
<1>1. /\ old \in Sweeps /\ session \in Databases /\ session.next \in Nat \cup {NoRow}
      /\ t \in Tokens /\ failures \in Nat /\ c \in Nat /\ Paid(c, old, failures)
    BY Visited, FS_CardinalityType
<1>2. old.status = "funded"
    BY DEF NftSweeperInv, PassInv
<1>3. session' = WithRow(session, t, row, session.next)
    BY <1>1, SameNext
<1>4. ~locked
    BY DEF NftSweeperInv, TypeOK
<1>5. RowVisit(t, row, session.next)
    <2>1. hotPool \subseteq [for : Tokens \cup Payouts, nonce : Nat] /\ IsFiniteSet(hotPool)
        BY DEF NftSweeperInv, TypeOK, ChainInv
    <2> QED BY <1>3, <1>4, <2>1 DEF RowVisit
<1>6. RowNonces(t, row, session.next)
    BY QuietNonces
<1>7. RowMoved(t, row)
    BY DEF RowMoved
<1>8. RowPaid(t, row)
    <2>1. failures' \in Nat /\ failures <= failures'
        BY <1>1
    <2>2. row.attempts = Smaller(old.attempts + 1, MaxAttempts)
        OBVIOUS
    <2> HIDE DEF c, old
    <2>3. Paid(c, row, failures)
        BY <1>1, <1>2, <2>2, PaidSweep
    <2>4. c <= c
        BY <1>1
    <2>5. Paid(c, row, failures')
        BY <1>1, <2>1, <2>3, <2>4, PaidMonotone
    <2> QED BY <2>1, <2>5, QuietVisit DEF c, old
<1> HIDE DEF c, old
<1> QED BY <1>1, <1>5, <1>6, <1>7, <1>8, RowStepInv

LEMMA SweepUnsignedInv ==
    ASSUME NftSweeperInv, NEW t \in Tokens, SweepUnsigned(t)
    PROVE  NftSweeperInv'
<1> DEFINE old == session.sweeps[t]
           row == Attempted(old)
<1>1. /\ t \in todo /\ pc = "sweep" /\ todo' = todo \ {t}
      /\ UNCHANGED <<height, hotPool, hotMined, balance, pool, mined, owner, gifts, returned,
                     db, locked, pc, head>>
      /\ failures < MaxFailures /\ failures' = failures + 1
      /\ session' = [session EXCEPT !.sweeps[t] = row]
    BY DEF SweepUnsigned, chainVars, worldVars
<1>2. /\ old \in Sweeps /\ old.nonce \in Nat \cup {NoNonce} /\ failures \in Nat
    BY <1>1, Visited
<1>3. old.status = "funded"
    BY <1>1 DEF NftSweeperInv, PassInv
<1>4. /\ row \in Sweeps /\ row.status = "funded" /\ row.fund = old.fund
      /\ row.nonce = old.nonce /\ row.attempts = Smaller(old.attempts + 1, MaxAttempts)
    BY <1>2, <1>3, AttemptedType
<1>5. failures' \in 0..MaxFailures /\ failures' >= failures
    BY <1>1, <1>2, BoundsAreNat
<1>6. pool \subseteq [token : Tokens, nonce : Nat] /\ IsFiniteSet(pool)
    BY DEF NftSweeperInv, TypeOK, ChainInv
<1>7. UNCHANGED <<height, hotPool, hotMined, balance, mined, owner, gifts, returned,
                  db, locked, pc, head>> /\ pool' = pool
    BY <1>1
<1> HIDE DEF row
<1> QED BY <1>1, <1>2, <1>4, <1>5, <1>6, <1>7, SweepStepInv

\* The row of a transfer that is signed with nonce n.
LEMMA SignedRow ==
    ASSUME NEW old \in Sweeps, NEW n \in Nat, old.status = "funded"
    PROVE  LET row == [Attempted(old) EXCEPT !.nonce = n]
           IN  /\ row \in Sweeps /\ row.status = "funded" /\ row.fund = old.fund /\ row.nonce = n
               /\ row.attempts = Smaller(old.attempts + 1, MaxAttempts)
               /\ [row EXCEPT !.status = "sweeping"] \in Sweeps
               /\ [row EXCEPT !.status = "sweeping"].status = "sweeping"
               /\ [row EXCEPT !.status = "sweeping"].fund = row.fund
               /\ [row EXCEPT !.status = "sweeping"].nonce = row.nonce
               /\ [row EXCEPT !.status = "sweeping"].attempts = row.attempts
<1> DEFINE mid == Attempted(old)
           row == [mid EXCEPT !.nonce = n]
<1>1. /\ mid \in Sweeps /\ mid.status = "funded" /\ mid.fund = old.fund
      /\ mid.attempts = Smaller(old.attempts + 1, MaxAttempts) /\ n \in Int
    BY AttemptedType
<1> HIDE DEF mid
<1>2. /\ row \in Sweeps /\ row.status = "funded" /\ row.fund = mid.fund /\ row.nonce = n
      /\ row.attempts = mid.attempts
    BY <1>1 DEF Sweeps
<1>3. row = [Attempted(old) EXCEPT !.nonce = n]
    BY DEF mid
<1> HIDE DEF row
<1>4. LET new == [row EXCEPT !.status = "sweeping"]
      IN  /\ new \in Sweeps /\ new.status = "sweeping" /\ new.fund = row.fund
          /\ new.nonce = row.nonce /\ new.attempts = row.attempts
    BY <1>2 DEF Sweeps
<1> QED BY <1>1, <1>2, <1>3, <1>4

LEMMA SweepFundedInv ==
    ASSUME NftSweeperInv, NEW t \in Tokens, SweepFunded(t)
    PROVE  NftSweeperInv'
<1> DEFINE old == session.sweeps[t]
           n == SweepNonce(t)
           tx == [token |-> t, nonce |-> n]
           row == [Attempted(old) EXCEPT !.nonce = n]
           new == [row EXCEPT !.status = "sweeping"]
<1>1. /\ t \in todo /\ pc = "sweep" /\ todo' = todo \ {t}
      /\ UNCHANGED <<height, hotPool, hotMined, balance, mined, owner, gifts, returned,
                     db, locked, pc, head>>
    BY DEF SweepFunded, worldVars
<1>2. /\ session' = [session EXCEPT !.sweeps[t] = row] \/ session' = [session EXCEPT !.sweeps[t] = new]
      /\ pool' = pool \/ pool' = Sent(tx)
      /\ failures' = failures \/ (failures < MaxFailures /\ failures' = failures + 1)
    BY DEF SweepFunded
<1>3. /\ old \in Sweeps /\ old.nonce \in Nat \cup {NoNonce}
    BY <1>1, Visited
<1>4. old.status = "funded"
    BY <1>1 DEF NftSweeperInv, PassInv
<1>5. n \in Nat
    BY <1>3, PendingIsNat DEF NftSweeperInv, SweepNonce
<1>6. /\ row \in Sweeps /\ row.status = "funded" /\ row.fund = old.fund /\ row.nonce = n
      /\ row.attempts = Smaller(old.attempts + 1, MaxAttempts)
      /\ new \in Sweeps /\ new.status = "sweeping" /\ new.fund = old.fund /\ new.nonce = n
      /\ new.attempts = Smaller(old.attempts + 1, MaxAttempts)
    <2> HIDE DEF n, old
    <2>1. LET r == [Attempted(old) EXCEPT !.nonce = n]
          IN  /\ r \in Sweeps /\ r.status = "funded" /\ r.fund = old.fund /\ r.nonce = n
              /\ r.attempts = Smaller(old.attempts + 1, MaxAttempts)
              /\ [r EXCEPT !.status = "sweeping"] \in Sweeps
              /\ [r EXCEPT !.status = "sweeping"].status = "sweeping"
              /\ [r EXCEPT !.status = "sweeping"].fund = r.fund
              /\ [r EXCEPT !.status = "sweeping"].nonce = r.nonce
              /\ [r EXCEPT !.status = "sweeping"].attempts = r.attempts
        BY <1>3, <1>4, <1>5, SignedRow, Zenon
    <2> QED BY <2>1, Zenon
<1>7. failures' \in 0..MaxFailures /\ failures' >= failures
    <2>1. failures \in 0..MaxFailures
        BY DEF NftSweeperInv, TypeOK
    <2> QED BY <1>2, <2>1, BoundsAreNat
<1>8. pool' \subseteq [token : Tokens, nonce : Nat] /\ IsFiniteSet(pool')
    <2>1. pool \subseteq [token : Tokens, nonce : Nat] /\ IsFiniteSet(pool)
        BY DEF NftSweeperInv, TypeOK, ChainInv
    <2>2. tx \in [token : Tokens, nonce : Nat]
        BY <1>5
    <2> HIDE DEF tx
    <2>3. pool' = pool \/ pool' = pool \cup {tx}
        BY <1>2 DEF Sent
    <2> QED BY <2>1, <2>2, <2>3, FS_AddElement
<1> HIDE DEF row, new, n, tx
<1>9. CASE session' = [session EXCEPT !.sweeps[t] = row]
    BY <1>1, <1>5, <1>6, <1>7, <1>8, <1>9, SweepStepInv
<1>10. CASE session' = [session EXCEPT !.sweeps[t] = new]
    BY <1>1, <1>5, <1>6, <1>7, <1>8, <1>10, SweepStepInv
<1> QED BY <1>2, <1>9, <1>10

\* The rows that confirm_sweeps writes.
LEMMA ReconcileRow ==
    ASSUME NEW row \in Sweeps, NEW t, row.status = "sweeping", head \in Int
    PROVE  LET new == Reconcile(row, t)
           IN  /\ new \in Sweeps /\ new.status \in {"sweeping", "failed"}
               /\ new.fund = row.fund /\ new.nonce = row.nonce /\ new.attempts = row.attempts
<1>1. LET new == [row EXCEPT !.since = NoBlock]
      IN  /\ new \in Sweeps /\ new.status = row.status
          /\ new.fund = row.fund /\ new.nonce = row.nonce /\ new.attempts = row.attempts
    BY DEF Sweeps, NoBlock
<1>2. LET new == [row EXCEPT !.since = head]
      IN  /\ new \in Sweeps /\ new.status = row.status
          /\ new.fund = row.fund /\ new.nonce = row.nonce /\ new.attempts = row.attempts
    BY DEF Sweeps
<1>3. LET new == [row EXCEPT !.status = "failed"]
      IN  /\ new \in Sweeps /\ new.status = "failed"
          /\ new.fund = row.fund /\ new.nonce = row.nonce /\ new.attempts = row.attempts
    BY DEF Sweeps
<1>4. \/ Reconcile(row, t) = [row EXCEPT !.since = NoBlock]
      \/ Reconcile(row, t) = [row EXCEPT !.since = head]
      \/ Reconcile(row, t) = [row EXCEPT !.status = "failed"]
      \/ Reconcile(row, t) = row
    BY DEF Reconcile
<1> QED BY <1>1, <1>2, <1>3, <1>4

LEMMA ConfirmedRow ==
    ASSUME NEW row \in Sweeps, NEW t, NEW m, row.status = "sweeping"
    PROVE  LET new == Confirmed(row, t, m)
           IN  /\ new \in Sweeps /\ new.status \in {"sweeping", "failed", "swept"}
               /\ new.fund = row.fund /\ new.nonce = row.nonce /\ new.attempts = row.attempts
               /\ new.status = "swept" => m.ok /\ ~(head - m.at < Confirmations)
<1> DEFINE s == IF head - m.at < Confirmations THEN row.status
                ELSE IF ~m.ok THEN "failed"
                ELSE IF owner[t] = "hot" THEN "swept" ELSE row.status
<1>1. /\ s \in {"sweeping", "failed", "swept"}
      /\ s = "swept" => m.ok /\ ~(head - m.at < Confirmations)
    OBVIOUS
<1>2. Confirmed(row, t, m) = [row EXCEPT !.since = NoBlock, !.status = s]
    BY DEF Confirmed, Sweeps
<1> HIDE DEF s
<1>3. LET new == [row EXCEPT !.since = NoBlock, !.status = s]
      IN  /\ new.status = s /\ new.fund = row.fund /\ new.nonce = row.nonce
          /\ new.attempts = row.attempts
    BY DEF Sweeps
<1>4. [row EXCEPT !.since = NoBlock, !.status = s] \in Sweeps
    <2>1. s \in Statuses /\ NoBlock \in Int
        BY <1>1 DEF Statuses, NoBlock
    <2> QED BY <2>1 DEF Sweeps, Statuses
<1> QED BY <1>1, <1>2, <1>3, <1>4

LEMMA ConfirmStepInv ==
    ASSUME NftSweeperInv, NEW t \in todo, NEW row \in Sweeps, pc = "confirm",
           UNCHANGED <<chainVars, worldVars, failures, db, locked, pc, head>>,
           todo' = todo \ {t}, session' = [session EXCEPT !.sweeps[t] = row],
           row.status \in {"sweeping", "failed", "swept"}, row.fund = session.sweeps[t].fund,
           row.nonce = session.sweeps[t].nonce, row.attempts = session.sweeps[t].attempts,
           RowMoved(t, row)
    PROVE  NftSweeperInv'
<1> DEFINE old == session.sweeps[t]
           c == Cardinality(Gas(old, t, Broadcast))
<1>1. /\ old \in Sweeps /\ session \in Databases /\ session.next \in Nat \cup {NoRow}
      /\ t \in Tokens /\ failures \in Nat /\ c \in Nat /\ Paid(c, old, failures)
      /\ row.nonce \in Nat \cup {NoNonce}
    BY Visited, FS_CardinalityType
<1>2. old.status = "sweeping"
    BY DEF NftSweeperInv, PassInv
<1>3. session' = WithRow(session, t, row, session.next)
    BY <1>1, SameNext
<1>4. /\ UNCHANGED <<height, hotPool, hotMined, balance, pool, mined, owner, gifts, returned,
                     db, locked, pc, head>>
      /\ failures' = failures
    BY DEF chainVars, worldVars
<1>5. failures' \in 0..MaxFailures /\ failures' >= failures /\ failures' \in Nat
    <2>1. failures \in 0..MaxFailures
        BY DEF NftSweeperInv, TypeOK
    <2> QED BY <1>1, <1>4, <2>1
<1>6. RowVisit(t, row, session.next)
    BY <1>3, <1>4, <1>5, QuietStep
<1>7. RowNonces(t, row, session.next)
    BY <1>1, QuietNonces
<1>8. RowPaid(t, row)
    <2>1. row.attempts = old.attempts
        OBVIOUS
    <2> HIDE DEF c, old
    <2>2. Paid(c, row, failures)
        BY <1>1, <1>2, <2>1, PaidConfirm
    <2> QED BY <1>4, <1>5, <2>2, QuietVisit DEF c, old
<1> HIDE DEF c, old
<1> QED BY <1>1, <1>6, <1>7, <1>8, RowStepInv

LEMMA ConfirmSweepInv ==
    ASSUME NftSweeperInv, NEW t \in Tokens, ConfirmSweep(t)
    PROVE  NftSweeperInv'
<1> DEFINE old == session.sweeps[t]
<1>1. /\ t \in todo /\ pc = "confirm" /\ todo' = todo \ {t}
      /\ UNCHANGED <<chainVars, worldVars, failures, db, locked, pc, head>>
    BY DEF ConfirmSweep
<1>2. old \in Sweeps
    BY <1>1, Visited
<1>3. old.status = "sweeping"
    BY <1>1 DEF NftSweeperInv, PassInv
<1>4. head \in Int /\ height \in Int /\ head <= height
    BY <1>1 DEF NftSweeperInv, TypeOK, ChainInv
<1>5. CASE session' = [session EXCEPT !.sweeps[t] = Reconcile(old, t)]
    <2> DEFINE row == Reconcile(old, t)
    <2>1. /\ row \in Sweeps /\ row.status \in {"sweeping", "failed"}
          /\ row.fund = old.fund /\ row.nonce = old.nonce /\ row.attempts = old.attempts
        BY <1>2, <1>3, <1>4, ReconcileRow
    <2> HIDE DEF row
    <2>2. RowMoved(t, row)
        BY <2>1 DEF RowMoved
    <2>3. session' = [session EXCEPT !.sweeps[t] = row]
        BY <1>5 DEF row
    <2> QED BY <1>1, <2>1, <2>2, <2>3, ConfirmStepInv
<1>6. ASSUME NEW m \in Receipts(old, t),
             session' = [session EXCEPT !.sweeps[t] = Confirmed(old, t, m)]
      PROVE  NftSweeperInv'
    <2> DEFINE row == Confirmed(old, t, m)
    <2>1. /\ row \in Sweeps /\ row.status \in {"sweeping", "failed", "swept"}
          /\ row.fund = old.fund /\ row.nonce = old.nonce /\ row.attempts = old.attempts
          /\ row.status = "swept" => m.ok /\ ~(head - m.at < Confirmations)
        BY <1>2, <1>3, ConfirmedRow
    <2> HIDE DEF row
    <2>2. RowMoved(t, row)
        <3> SUFFICES ASSUME row.status = "swept"
                     PROVE  \E x \in mined : /\ x.token = t /\ x.nonce = row.nonce
                                             /\ x.ok /\ x.at + Confirmations <= height
            BY DEF RowMoved
        <3>1. m \in mined /\ m.token = t /\ m.nonce = row.nonce /\ m.ok
            BY <1>6, <2>1 DEF Receipts
        <3>2. m.at \in Int /\ Confirmations \in Int
            BY <3>1, BoundsAreNat DEF NftSweeperInv, TypeOK
        <3>3. m.at + Confirmations <= height
            BY <1>4, <2>1, <3>2
        <3> QED BY <3>1, <3>3
    <2>3. session' = [session EXCEPT !.sweeps[t] = row]
        BY <1>6 DEF row
    <2> QED BY <1>1, <2>1, <2>2, <2>3, ConfirmStepInv
<1> QED BY <1>5, <1>6 DEF ConfirmSweep

-----------------------------------------------------------------------------
(* The theorems.                                                             *)

LEMMA StutterInv == NftSweeperInv /\ UNCHANGED vars => NftSweeperInv'
<1> SUFFICES ASSUME NftSweeperInv, UNCHANGED vars PROVE NftSweeperInv'
    OBVIOUS
<1>1. UNCHANGED <<height, hotPool, hotMined, balance, pool, mined, owner, gifts, returned, failures,
                  db, session, locked, pc, todo, head>>
    BY DEF vars
<1>2. TypeOK' /\ ChainInv'
    BY <1>1 DEF NftSweeperInv, TypeOK, ChainInv
<1>3. GasInv' /\ PassInv'
    BY <1>1 DEF NftSweeperInv, GasInv, PassInv, Unpaid, Broadcast
<1> QED BY <1>1, <1>2, <1>3 DEF NftSweeperInv

LEMMA NftSweeperInductive == NftSweeperInv /\ [Next]_vars => NftSweeperInv'
<1> SUFFICES ASSUME NftSweeperInv, [Next]_vars PROVE NftSweeperInv'
    OBVIOUS
<1>1. CASE UNCHANGED vars
    BY <1>1, StutterInv
<1>2. CASE Mine
    BY <1>2, MineEmptyInv, MineHotInv, MineSweepInv DEF Mine
<1>3. CASE \E a \in Addresses : Gift(a)
    BY <1>3, GiftInv
<1>4. CASE \E t \in Tokens : Withdrawn(t) \/ Redeposit(t)
    BY <1>4, OwnerStepInv
<1>5. CASE \E p \in Payouts : Pay(p)
    BY <1>5, PayInv
<1>6. CASE Fail
    BY <1>6, FailInv
<1>7. CASE Discover \/ CommitFund \/ CommitSweep \/ CommitConfirm
    BY <1>7, DiscoverInv, CommitInv
<1>8. CASE \E t \in Tokens : FundSkip(t) \/ FundAgain(t) \/ Fund(t) \/ FundUnsigned(t)
    BY <1>8, FundSkipInv, FundAgainInv, FundInv, FundUnsignedInv
<1>9. CASE \E t \in Tokens : SweepFunded(t) \/ SweepUnsigned(t)
    BY <1>9, SweepFundedInv, SweepUnsignedInv
<1>10. CASE \E t \in Tokens : ConfirmSweep(t)
    BY <1>10, ConfirmSweepInv
<1> QED BY <1>1, <1>2, <1>3, <1>4, <1>5, <1>6, <1>7, <1>8, <1>9, <1>10 DEF Next, Work

LEMMA NftSweeperSafe == Spec => []NftSweeperInv
    BY InitInv, NftSweeperInductive, PTL DEF Spec

\* Type correctness of the chain, of the two copies of the tables and of the pass;
\* the sweeper holds the lock of the nonce row in its fund phase only, and a deposit
\* address never pays more gas than it has.
THEOREM NftSweeperTypeCorrect == Spec => []TypeOK
<1>1. NftSweeperInv => TypeOK
    BY DEF NftSweeperInv
<1> QED BY <1>1, NftSweeperSafe, PTL

\* fund_pending broadcasts a gas transaction before its nonce is committed, and sends
\* it again on later passes: however phases fail and payouts interleave, the nonce of
\* a FUNDING sweep is that of no payout and of no other sweep.
THEOREM FundNoncesAreOwned == Spec => []FundNonceOwned
<1>1. NftSweeperInv => FundNonceOwned
    <2> SUFFICES ASSUME NftSweeperInv, NEW t \in InStatus(db, {"funding"})
                 PROVE  /\ \A p \in Payouts : db.payouts[p] # db.sweeps[t].fund
                        /\ \A u \in InStatus(db, {"funding"}) :
                                db.sweeps[u].fund = db.sweeps[t].fund => t = u
        BY DEF FundNonceOwned
    <2>1. t \in Tokens /\ db.sweeps[t].status = "funding" /\ NoncesInv(db)
        BY DEF InStatus, NftSweeperInv
    <2>2. \A u \in InStatus(db, {"funding"}) : u \in Tokens
        BY DEF InStatus
    <2> QED BY <2>1, <2>2 DEF NoncesInv
<1> QED BY <1>1, NftSweeperSafe, PTL

\* confirm_sweeps records SWEPT only for a transfer of the row itself that succeeded,
\* Confirmations blocks ago or more, whatever the provider and the retries showed.
THEOREM SweptTokensMoved == Spec => []SweptIsMoved
<1>1. NftSweeperInv => SweptIsMoved
    <2> SUFFICES ASSUME NftSweeperInv, NEW t \in InStatus(db, {"swept"})
                 PROVE  \E m \in Receipts(db.sweeps[t], t) :
                            m.ok /\ m.at + Confirmations <= height
        BY DEF SweptIsMoved
    <2>1. t \in Tokens /\ db.sweeps[t].status = "swept" /\ MovedInv(db, mined, height)
        BY DEF InStatus, NftSweeperInv
    <2>2. PICK m \in mined : /\ m.token = t /\ m.nonce = db.sweeps[t].nonce
                             /\ m.ok /\ m.at + Confirmations <= height
        BY <2>1 DEF MovedInv
    <2> QED BY <2>2 DEF Receipts
<1> QED BY <1>1, NftSweeperSafe, PTL

LEMMA HalfTheAttempts ==
    ASSUME NEW n \in Nat, NEW a \in Nat, NEW m \in Nat, NEW f \in Nat,
           a <= m, 2 * n <= a + 1 + 2 * f
    PROVE  n <= (m + 1) \div 2 + f
    OBVIOUS

\* The gas that the hot wallet pays for a token whose transfer keeps reverting is
\* bounded by half the attempts, rounded up, and one more for every failure: every
\* gas transaction is paid for by an attempt, or by the failure that lost it.
THEOREM GasIsBounded == Spec => []GasBounded
<1>1. NftSweeperInv => GasBounded
    <2> SUFFICES ASSUME NftSweeperInv, NEW t \in Tokens
                 PROVE  Cardinality({tx \in hotPool \cup hotMined : tx.for = t})
                            <= (MaxAttempts + 1) \div 2 + failures
        BY DEF GasBounded
    <2> DEFINE row == session.sweeps[t]
               sent == {tx \in hotPool \cup hotMined : tx.for = t}
               G == Gas(row, t, Broadcast)
    <2>1. TypeOK /\ ChainInv /\ GasInv
        BY DEF NftSweeperInv
    <2>2. row \in Sweeps /\ failures \in Nat /\ IsFiniteSet(G) /\ Paid(Cardinality(G), row, failures)
        BY <2>1, RowsType, FailuresNat, BroadcastFinite, GasFinite DEF GasInv
    <2>3. sent \subseteq G
        BY DEF Gas, Broadcast
    <2> HIDE DEF row, sent, G
    <2>4. Cardinality(sent) \in Nat /\ Cardinality(G) \in Nat /\ Cardinality(sent) <= Cardinality(G)
        BY <2>2, <2>3, FS_Subset, FS_CardinalityType
    <2>5. row.attempts \in Nat /\ MaxAttempts \in Nat /\ row.attempts <= MaxAttempts
        BY <2>2, BoundsAreNat DEF Sweeps
    <2>6. 2 * Cardinality(G) <= row.attempts + 1 + 2 * failures
        BY <2>2 DEF Paid
    <2>7. 2 * Cardinality(sent) <= row.attempts + 1 + 2 * failures
        BY <2>2, <2>4, <2>5, <2>6
    <2>8. Cardinality(sent) <= (MaxAttempts + 1) \div 2 + failures
        BY <2>2, <2>4, <2>5, <2>7, HalfTheAttempts
    <2> QED BY <2>8 DEF sent
<1> QED BY <1>1, NftSweeperSafe, PTL

-----------------------------------------------------------------------------
(* The one cause of a gap in the nonces of the hot wallet.                   *)

\* Nonce n is used up on a chain with account nonce a, or pending in P.
Used(n, P, a) == n < a \/ \E tx \in P : tx.nonce = n

\* GapFree for the tables d: of the database, or of the open session.
Covered(d, P, a) ==
    d.next # NoRow =>
        \A n \in 0..(d.next - 1) :
            \/ Used(n, P, a)
            \/ \E t \in Tokens : d.sweeps[t].status = "funding" /\ d.sweeps[t].fund = n

GapInv ==
    /\ \A tx \in hotMined : tx.nonce < Account
    /\ Covered(db, hotPool, Account) /\ Covered(session, hotPool, Account)

\* fund_pending finds the gas of a FUNDING sweep at its address only when the gas
\* transaction of the sweep was sent, and not when somebody else paid in the meantime.
SkipsOwnGas ==
    \A t \in Tokens : FundSkip(t) /\ session.sweeps[t].status = "funding" =>
        Used(session.sweeps[t].fund, hotPool, Account)

\* No nonce below the row is lost when the FUNDING rows of d stay, or have their nonce
\* used.
LEMMA CoveredStep ==
    ASSUME NEW d \in Databases, NEW e, NEW P, NEW Q, NEW a, NEW b, Covered(d, P, a),
           \A n \in Nat : Used(n, P, a) => Used(n, Q, b),
           e.next # NoRow => e.next \in Nat,
           e.next # NoRow => \A n \in 0..(e.next - 1) :
                (d.next # NoRow /\ n < d.next) \/ Used(n, Q, b)
                    \/ \E t \in Tokens : e.sweeps[t].status = "funding" /\ e.sweeps[t].fund = n,
           \A t \in Tokens : d.sweeps[t].status = "funding" =>
                \/ e.sweeps[t].status = "funding" /\ e.sweeps[t].fund = d.sweeps[t].fund
                \/ Used(d.sweeps[t].fund, Q, b)
    PROVE  Covered(e, Q, b)
<1> SUFFICES ASSUME e.next # NoRow, NEW n \in 0..(e.next - 1)
             PROVE  \/ Used(n, Q, b)
                    \/ \E t \in Tokens : e.sweeps[t].status = "funding" /\ e.sweeps[t].fund = n
    BY DEF Covered
<1>1. n \in Nat
    OBVIOUS
<1>2. CASE d.next # NoRow /\ n < d.next
    <2>1. d.next \in Nat
        BY <1>2 DEF Databases
    <2>2. n \in 0..(d.next - 1)
        BY <1>1, <1>2, <2>1
    <2>3. \/ Used(n, P, a)
          \/ \E t \in Tokens : d.sweeps[t].status = "funding" /\ d.sweeps[t].fund = n
        BY <1>2, <2>2 DEF Covered
    <2> QED BY <1>1, <2>3
<1> QED BY <1>2

\* Every nonce between the row and the next one is pending or used up: the row follows
\* the chain.
LEMMA NextNonceCovers ==
    ASSUME ChainInv, NEW row \in Nat \cup {NoRow}, NEW m \in Nat, m < NextNonce(row)
    PROVE  (row # NoRow /\ m < row) \/ Used(m, hotPool, Account)
<1> DEFINE P == {tx.nonce : tx \in hotPool}
<1>1. Account \in Nat /\ HotPending \in Nat /\ IsFiniteSet(P)
    BY PendingIsNat, NoncesFinite DEF ChainInv
<1>2. HotPending = FirstFree(Account, P)
    BY DEF HotPending
<1>3. \A i \in Account..(HotPending - 1) : i \in P
    BY <1>1, <1>2, FirstFreeIsFree
<1>4. CASE row # NoRow /\ m < row
    BY <1>4
<1>5. CASE m < HotPending
    <2>1. CASE m < Account
        BY <2>1 DEF Used
    <2>2. CASE ~(m < Account)
        <3>1. m \in Account..(HotPending - 1)
            BY <1>1, <1>5, <2>2
        <3> QED BY <1>3, <3>1 DEF Used
    <2> QED BY <2>1, <2>2
<1> QED BY <1>4, <1>5 DEF NextNonce, Larger

\* A node that refuses a transaction of the hot wallet has one with its nonce.
LEMMA SentIsUsed ==
    ASSUME ChainInv, NEW tx, tx.nonce \in Nat
    PROVE  Used(tx.nonce, IF HotAccepts(tx) THEN hotPool \cup {tx} ELSE hotPool, Account)
<1>1. Account \in Nat
    BY PendingIsNat
<1> QED BY <1>1 DEF Used, HotAccepts

LEMMA GapInit == Init => GapInv
<1> SUFFICES ASSUME Init PROVE GapInv
    OBVIOUS
<1>1. db.next = NoRow /\ session = db /\ hotMined = {}
    BY DEF Init
<1> QED BY <1>1 DEF GapInv, Covered

\* Neither the hot wallet nor the tables change.
LEMMA GapQuiet ==
    ASSUME GapInv, UNCHANGED <<hotPool, hotMined, db, session>>
    PROVE  GapInv'
    BY DEF GapInv, Account

LEMMA GapMineHot == NftSweeperInv /\ GapInv /\ MineHot => GapInv'
<1> SUFFICES ASSUME NftSweeperInv, GapInv, MineHot PROVE GapInv'
    OBVIOUS
<1>1. /\ db \in Databases /\ session \in Databases /\ IsFiniteSet(hotMined)
      /\ hotPool \subseteq [for : Tokens \cup Payouts, nonce : Nat]
      /\ hotMined \subseteq [for : Tokens \cup Payouts, nonce : Nat]
    BY DEF NftSweeperInv, TypeOK, ChainInv
<1>2. UNCHANGED <<db, session>>
    BY DEF MineHot, workerVars
<1>3. PICK tx \in hotPool : /\ tx.nonce = Account
                            /\ hotPool' = hotPool \ {tx} /\ hotMined' = hotMined \cup {tx}
    BY DEF MineHot
<1>4. Account \in Nat
    BY PendingIsNat DEF NftSweeperInv
<1>5. tx \notin hotMined
    BY <1>3, <1>4 DEF GapInv
<1>6. Account' = Account + 1
    BY <1>1, <1>3, <1>5, FS_AddElement DEF Account
<1>7. ASSUME NEW n \in Nat, Used(n, hotPool, Account)
      PROVE  Used(n, hotPool', Account')
    <2>1. CASE n < Account
        BY <1>4, <1>6, <2>1 DEF Used
    <2>2. ASSUME NEW other \in hotPool, other.nonce = n
          PROVE  Used(n, hotPool', Account')
        BY <1>3, <1>4, <1>6, <2>2 DEF Used
    <2> QED BY <1>7, <2>1, <2>2 DEF Used
<1>8. ASSUME NEW d \in Databases, Covered(d, hotPool, Account)
      PROVE  Covered(d, hotPool', Account')
    <2>1. d.next # NoRow => d.next \in Nat
        BY DEF Databases
    <2>2. d.next # NoRow => \A n \in 0..(d.next - 1) : n < d.next
        BY <2>1
    <2> QED BY <1>7, <1>8, <2>1, <2>2, CoveredStep
<1>9. \A x \in hotMined' : x.nonce < Account'
    BY <1>1, <1>3, <1>4, <1>6 DEF GapInv
<1> QED BY <1>1, <1>2, <1>8, <1>9 DEF GapInv

\* The pool of the hot wallet grows, the account nonce stays, and the session becomes e.
LEMMA GapSession ==
    ASSUME NftSweeperInv, GapInv, NEW e, session' = e, UNCHANGED <<hotMined, db>>,
           hotPool \subseteq hotPool',
           e.next # NoRow => e.next \in Nat,
           e.next # NoRow => \A n \in 0..(e.next - 1) :
                (session.next # NoRow /\ n < session.next) \/ Used(n, hotPool', Account)
                    \/ \E t \in Tokens : e.sweeps[t].status = "funding" /\ e.sweeps[t].fund = n,
           \A t \in Tokens : session.sweeps[t].status = "funding" =>
                \/ e.sweeps[t].status = "funding" /\ e.sweeps[t].fund = session.sweeps[t].fund
                \/ Used(session.sweeps[t].fund, hotPool', Account)
    PROVE  GapInv'
<1>1. db \in Databases /\ session \in Databases /\ Account' = Account
    BY DEF NftSweeperInv, TypeOK, Account
<1>2. \A n \in Nat : Used(n, hotPool, Account) => Used(n, hotPool', Account)
    BY DEF Used
<1>3. Covered(e, hotPool', Account)
    BY <1>1, <1>2, CoveredStep DEF GapInv
<1>4. db.next # NoRow => db.next \in Nat
    BY <1>1 DEF Databases
<1>5. db.next # NoRow => \A n \in 0..(db.next - 1) : n < db.next
    BY <1>4
<1>6. Covered(db, hotPool', Account)
    BY <1>1, <1>2, <1>4, <1>5, CoveredStep DEF GapInv
<1> QED BY <1>1, <1>3, <1>6 DEF GapInv

\* A row that is not FUNDING gets another status or attempt.
LEMMA GapRow ==
    ASSUME NftSweeperInv, GapInv, NEW t \in Tokens, NEW row \in Sweeps,
           session' = [session EXCEPT !.sweeps[t] = row], UNCHANGED <<hotPool, hotMined, db>>,
           session.sweeps[t].status = "funding" =>
                Used(session.sweeps[t].fund, hotPool, Account)
    PROVE  GapInv'
<1> DEFINE e == WithRow(session, t, row, session.next)
<1>1. session \in Databases
    BY DEF NftSweeperInv, TypeOK
<1>2. session.next \in Nat \cup {NoRow}
    BY <1>1 DEF Databases
<1>3. session' = e
    BY <1>1, SameNext
<1>4. /\ e.next = session.next
      /\ e.sweeps[t] = row /\ \A u \in Tokens \ {t} : e.sweeps[u] = session.sweeps[u]
    BY <1>1, <1>2, WithRowType
<1> HIDE DEF e
<1>6. e.next # NoRow => \A n \in 0..(e.next - 1) : n < session.next
    BY <1>2, <1>4
<1>7. \A u \in Tokens : session.sweeps[u].status = "funding" =>
            \/ e.sweeps[u].status = "funding" /\ e.sweeps[u].fund = session.sweeps[u].fund
            \/ Used(session.sweeps[u].fund, hotPool', Account)
    BY <1>4
<1> QED BY <1>2, <1>3, <1>4, <1>6, <1>7, GapSession

LEMMA GapPay ==
    ASSUME NftSweeperInv, GapInv, NEW p \in Payouts, Pay(p)
    PROVE  GapInv'
<1> DEFINE n == NextNonce(db.next)
           tx == [for |-> p, nonce |-> n]
<1>1. /\ db \in Databases /\ session \in Databases /\ db.next \in Nat \cup {NoRow} /\ ChainInv
      /\ ~locked /\ session.next = db.next
    BY DEF Pay, LockFree, NftSweeperInv, TypeOK, Databases, PassInv
<1>2. /\ hotPool' = IF HotAccepts(tx) THEN hotPool \cup {tx} ELSE hotPool
      /\ db' = WithPayout(db, p, n, n + 1) /\ session' = WithPayout(session, p, n, n + 1)
      /\ hotMined' = hotMined
    BY DEF Pay, WithPayout
<1>3. n \in Nat /\ n + 1 \in Nat /\ n + 1 # NoRow
    <2>1. n \in Nat
        BY <1>1, NextNonceIsNat
    <2> HIDE DEF n
    <2> QED BY <2>1, NftSweeperAssumption
<1>4. Account' = Account
    BY <1>2 DEF Account
<1>5. Used(n, hotPool', Account)
    <2> HIDE DEF n
    <2>1. tx.nonce = n
        OBVIOUS
    <2> HIDE DEF tx
    <2> QED BY <1>1, <1>2, <1>3, <2>1, SentIsUsed
<1>6. \A m \in Nat : Used(m, hotPool, Account) => Used(m, hotPool', Account)
    BY <1>2 DEF Used
<1>7. \A m \in 0..(n + 1 - 1) : (db.next # NoRow /\ m < db.next) \/ Used(m, hotPool', Account)
    <2> SUFFICES ASSUME NEW m \in 0..(n + 1 - 1)
                 PROVE  (db.next # NoRow /\ m < db.next) \/ Used(m, hotPool', Account)
        OBVIOUS
    <2>1. m \in Nat /\ (m = n \/ m < n)
        BY <1>3
    <2> QED BY <1>1, <1>5, <1>6, <2>1, NextNonceCovers
<1> HIDE DEF n, tx
<1>8. ASSUME NEW d \in Databases, d.next = db.next, Covered(d, hotPool, Account)
      PROVE  Covered(WithPayout(d, p, n, n + 1), hotPool', Account)
    <2> DEFINE e == WithPayout(d, p, n, n + 1)
    <2>1. e.sweeps = d.sweeps /\ e.next = n + 1
        BY DEF WithPayout, Databases
    <2> HIDE DEF e
    <2>2. Covered(e, hotPool', Account)
        BY <1>3, <1>6, <1>7, <1>8, <2>1, CoveredStep
    <2> QED BY <2>2 DEF e
<1> QED BY <1>1, <1>2, <1>4, <1>8 DEF GapInv

LEMMA GapDiscover == NftSweeperInv /\ GapInv /\ Discover => GapInv'
<1> SUFFICES ASSUME NftSweeperInv, GapInv, Discover PROVE GapInv'
    OBVIOUS
<1>1. /\ db \in Databases /\ db.next \in Nat \cup {NoRow}
    BY DEF NftSweeperInv, TypeOK, Databases
<1>2. /\ session' = [db EXCEPT !.sweeps = [t \in Tokens |-> Discovered(db.sweeps[t])]]
      /\ db' = session' /\ UNCHANGED <<hotPool, hotMined>>
    BY DEF Discover, Discovered, chainVars
<1>3. \A t \in Tokens : db.sweeps[t] \in Sweeps
    BY <1>1 DEF Databases
<1>4. db'.next = db.next /\ \A t \in Tokens : db'.sweeps[t] = Discovered(db.sweeps[t])
    BY <1>1, <1>2 DEF Databases
<1>5. \A t \in Tokens : db.sweeps[t].status = "funding" => db'.sweeps[t] = db.sweeps[t]
    BY <1>4 DEF Discovered, Rearmed
<1>6. db'.next # NoRow => \A n \in 0..(db'.next - 1) : n < db.next
    BY <1>1, <1>4
<1>7. Covered(db', hotPool, Account)
    BY <1>1, <1>4, <1>5, <1>6, CoveredStep DEF GapInv
<1> QED BY <1>2, <1>7 DEF GapInv, Account

LEMMA GapCommit ==
    ASSUME GapInv, CommitFund \/ CommitSweep \/ CommitConfirm \/ Fail
    PROVE  GapInv'
<1>1. UNCHANGED <<hotPool, hotMined>>
    BY DEF CommitFund, CommitSweep, CommitConfirm, Fail, chainVars
<1>2. (db' = session /\ session' = session) \/ (db' = db /\ session' = db)
    BY DEF CommitFund, CommitSweep, CommitConfirm, Fail
<1> QED BY <1>1, <1>2 DEF GapInv, Account

\* The gas transaction of a sweep that is FUNDING, or becomes it, covers its nonce
\* although it may not have been sent.
LEMMA GapFund ==
    ASSUME NftSweeperInv, GapInv, NEW t \in Tokens, FundAgain(t) \/ Fund(t) \/ FundUnsigned(t)
    PROVE  GapInv'
<1> DEFINE n == SessionNonce
           old == session.sweeps[t]
<1>1. /\ session \in Databases /\ session.next \in Nat \cup {NoRow} /\ ChainInv
      /\ n \in Nat /\ old \in Sweeps /\ NoRow \notin Int
      /\ IF locked THEN session.next # NoRow ELSE session.next = db.next
    BY SessionNonceIsNat, NftSweeperAssumption DEF NftSweeperInv, TypeOK, Databases, PassInv
<1>2. UNCHANGED <<hotMined, db>> /\ hotPool \subseteq hotPool'
    BY DEF FundAgain, Fund, FundUnsigned, BroadcastGas, chainVars
<1>3. \A m \in Nat : m < n =>
            (session.next # NoRow /\ m < session.next) \/ Used(m, hotPool', Account)
    <2> SUFFICES ASSUME NEW m \in Nat, m < n
                 PROVE  (session.next # NoRow /\ m < session.next) \/ Used(m, hotPool', Account)
        OBVIOUS
    <2>1. CASE locked
        BY <1>1, <2>1 DEF SessionNonce
    <2>2. CASE ~locked
        <3>1. (session.next # NoRow /\ m < session.next) \/ Used(m, hotPool, Account)
            BY <1>1, <2>2, NextNonceCovers DEF SessionNonce
        <3> QED BY <1>2, <3>1 DEF Used
    <2> QED BY <2>1, <2>2
<1>4. CASE FundAgain(t)
    <2>1. session' = session
        BY <1>4 DEF FundAgain
    <2>2. session.next # NoRow => \A m \in 0..(session.next - 1) : m < session.next
        BY <1>1
    <2> QED BY <1>1, <1>2, <2>1, <2>2, GapSession
<1>5. CASE Fund(t)
    <2> DEFINE row == [Attempted(old) EXCEPT !.status = "funding", !.fund = n]
               e == WithRow(session, t, row, n + 1)
    <2>1. session' = e /\ old.status = "pending"
        BY <1>5 DEF Fund, Funded, WithRow
    <2>2. row \in Sweeps /\ row.status = "funding" /\ row.fund = n
        <3>1. Attempted(old) \in Sweeps /\ n \in Int
            BY <1>1, AttemptedType
        <3> HIDE DEF n, old
        <3> QED BY <3>1, FundingRow
    <2>3. n + 1 \in Nat \cup {NoRow} /\ n + 1 # NoRow
        BY <1>1
    <2> HIDE DEF row
    <2>4. /\ e.next = n + 1 /\ e.sweeps[t] = row
          /\ \A u \in Tokens \ {t} : e.sweeps[u] = session.sweeps[u]
        BY <1>1, <2>2, <2>3, WithRowType
    <2> HIDE DEF e, n
    <2>5. ASSUME NEW m \in 0..(e.next - 1)
          PROVE  \/ (session.next # NoRow /\ m < session.next) \/ Used(m, hotPool', Account)
                 \/ \E u \in Tokens : e.sweeps[u].status = "funding" /\ e.sweeps[u].fund = m
        <3>1. m \in Nat /\ (m < n \/ m = n)
            BY <1>1, <2>4
        <3> QED BY <1>3, <2>2, <2>4, <3>1
    <2>6. \A u \in Tokens : session.sweeps[u].status = "funding" => e.sweeps[u] = session.sweeps[u]
        BY <2>1, <2>4
    <2> QED BY <1>1, <1>2, <2>1, <2>3, <2>4, <2>5, <2>6, GapSession
<1>6. CASE FundUnsigned(t)
    <2> DEFINE row == Attempted(old)
               e == WithRow(session, t, row, n)
    <2>1. session' = e /\ old.status = "pending"
        BY <1>6 DEF FundUnsigned, WithRow
    <2>2. row \in Sweeps
        BY <1>1, AttemptedType
    <2> HIDE DEF row
    <2>3. /\ e.next = n /\ n # NoRow
          /\ \A u \in Tokens \ {t} : e.sweeps[u] = session.sweeps[u]
        BY <1>1, <2>2, WithRowType
    <2> HIDE DEF e, n
    <2>4. \A m \in 0..(e.next - 1) : m \in Nat /\ m < n
        BY <1>1, <2>3
    <2>5. \A u \in Tokens : session.sweeps[u].status = "funding" => e.sweeps[u] = session.sweeps[u]
        BY <2>1, <2>3
    <2> QED BY <1>1, <1>2, <1>3, <2>1, <2>3, <2>4, <2>5, GapSession
<1> QED BY <1>4, <1>5, <1>6

\* The rows that the sweep and the confirm phase visit are not FUNDING; those that
\* FundSkip visits have their nonce used, by the hypothesis.
LEMMA GapVisit ==
    ASSUME NftSweeperInv, GapInv, SkipsOwnGas, NEW t \in Tokens,
           FundSkip(t) \/ SweepFunded(t) \/ SweepUnsigned(t) \/ ConfirmSweep(t)
    PROVE  GapInv'
<1>1. t \in todo /\ UNCHANGED <<hotPool, hotMined, db>>
    BY DEF FundSkip, SweepFunded, SweepUnsigned, ConfirmSweep, chainVars
<1>2. session.sweeps[t].status = "funding" => Used(session.sweeps[t].fund, hotPool, Account)
    <2>1. CASE FundSkip(t)
        BY <2>1 DEF SkipsOwnGas
    <2>2. CASE pc \in {"sweep", "confirm"}
        BY <1>1, <2>2 DEF NftSweeperInv, PassInv
    <2> QED BY <2>1, <2>2 DEF SweepFunded, SweepUnsigned, ConfirmSweep
<1>3. session \in Databases /\ session' \in Databases
    <2>1. NftSweeperInv'
        BY FundSkipInv, SweepFundedInv, SweepUnsignedInv, ConfirmSweepInv
    <2> QED BY <2>1 DEF NftSweeperInv, TypeOK
<1>4. PICK row : session' = [session EXCEPT !.sweeps[t] = row]
    <2>1. CASE FundSkip(t)
        BY <2>1 DEF FundSkip
    <2>2. CASE SweepFunded(t)
        BY <2>2 DEF SweepFunded
    <2>3. CASE SweepUnsigned(t)
        BY <2>3 DEF SweepUnsigned
    <2>4. CASE ConfirmSweep(t)
        BY <2>4 DEF ConfirmSweep
    <2> QED BY <2>1, <2>2, <2>3, <2>4
<1>5. row \in Sweeps
    <2>1. session'.sweeps[t] = row
        BY <1>3, <1>4 DEF Databases
    <2> QED BY <1>3, <2>1 DEF Databases
<1> QED BY <1>1, <1>2, <1>4, <1>5, GapRow

LEMMA GapStep == NftSweeperInv /\ GapInv /\ [Next]_vars /\ [SkipsOwnGas]_vars => GapInv'
<1> SUFFICES ASSUME NftSweeperInv, GapInv, [Next]_vars, [SkipsOwnGas]_vars PROVE GapInv'
    OBVIOUS
<1>1. CASE UNCHANGED vars
    BY <1>1, GapQuiet DEF vars
<1>2. CASE Next /\ SkipsOwnGas
    <2>1. CASE MineEmpty \/ MineSweep \/ (\E a \in Addresses : Gift(a))
                \/ (\E t \in Tokens : Withdrawn(t) \/ Redeposit(t))
        BY <2>1, GapQuiet DEF MineEmpty, MineSweep, Gift, Withdrawn, Redeposit, workerVars
    <2>2. CASE MineHot
        BY <2>2, GapMineHot
    <2>3. CASE \E p \in Payouts : Pay(p)
        BY <2>3, GapPay
    <2>4. CASE Discover
        BY <2>4, GapDiscover
    <2>5. CASE CommitFund \/ CommitSweep \/ CommitConfirm \/ Fail
        BY <2>5, GapCommit
    <2>6. CASE \E t \in Tokens : FundAgain(t) \/ Fund(t) \/ FundUnsigned(t)
        BY <2>6, GapFund
    <2>7. CASE \E t \in Tokens : FundSkip(t) \/ SweepFunded(t) \/ SweepUnsigned(t) \/ ConfirmSweep(t)
        BY <1>2, <2>7, GapVisit
    <2> QED BY <1>2, <2>1, <2>2, <2>3, <2>4, <2>5, <2>6, <2>7 DEF Next, Mine, Work
<1> QED BY <1>1, <1>2

\* Run sweeper_gap shows that the nonces of the hot wallet can have a gap.  It has one
\* cause: a FUNDING sweep whose gas transaction was never sent is found with gas that
\* somebody else paid, and nobody sends its nonce any more.  Whatever fails and
\* whatever else interleaves, there is no gap as long as that does not happen.
THEOREM GapHasOneCause == Spec /\ [][SkipsOwnGas]_vars => []GapFree
<1>1. GapInv => GapFree
    BY DEF GapInv, GapFree, Covered, Used, InStatus
<1>2. Spec /\ [][SkipsOwnGas]_vars => []GapInv
    BY GapInit, GapStep, NftSweeperSafe, PTL DEF Spec
<1> QED BY <1>1, <1>2, PTL
=============================================================================
