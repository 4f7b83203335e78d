--------------------------- MODULE NftWatcherProofs ---------------------------
(***************************************************************************)
(* Proofs about NftWatcher, for every value of its constants.              *)
(***************************************************************************)
EXTENDS NftWatcher, SequenceTheorems, TLAPS

-----------------------------------------------------------------------------
(* The inductive invariant.                                                  *)

Statuses == {"none", "seen", "confirmed", "credited", "orphaned"}

\* What the row of log l in nft_deposits says on a chain of n blocks, whatever the
\* chain has become: its user is the one that the log pays, the log is in the block
\* that the row names, and a CONFIRMED row is deep enough.
RowInv(row, l, n) ==
    /\ row.status = "none" => row.rev = 0
    /\ row.status # "none" =>
            /\ row.user = RecipientOf[l] /\ row.block >= 1
            /\ row.hash # NoHash => l \in row.hash[row.block].logs
    /\ row.status = "confirmed" => row.block + Confirmations <= n

Orphaned(row) == row.status = "orphaned" \/ row.rev > 0

\* HoldingsMatchDeposits for token k in the database or in the session d, when the
\* holdings of the tokens ref are referenced.
Match(d, k, ref) ==
    /\ d.owner[k] # NoUser =>
            \E l \in Logs : /\ TokenOf[l] = k /\ d.rows[l].status = "credited"
                            /\ k \notin ref => d.rows[l].user = d.owner[k]
    /\ (\E l \in Logs : TokenOf[l] = k /\ d.rows[l].status = "credited") =>
            d.owner[k] # NoUser \/ \E l \in Logs : TokenOf[l] = k /\ Orphaned(d.rows[l])

RowsInv(d, n) == \A l \in Logs : RowInv(d.rows[l], l, n)
Matches(d, ref) == \A k \in Tokens : Match(d, k, ref)

\* How far the open pass is from the database: it does not lose a credit before it
\* compares the blocks, credits only rows that it has confirmed, and compares the blocks
\* of rows that are there.
PassInv ==
    /\ \A l \in Logs : db.rows[l].status = "credited" =>
            \/ session.rows[l].status = "credited"
            \/ session.rows[l].status = "orphaned" /\ pc = "reorgs"
    /\ pc = "credit" => \A l \in todo : session.rows[l].status = "confirmed"
    /\ pc = "reorgs" => \A l \in todo : session.rows[l].status # "none"

NftWatcherInv ==
    /\ TypeOK
    /\ RowsInv(db, Len(chain)) /\ RowsInv(session, Len(chain))
    /\ Matches(db, referenced) /\ Matches(session, referenced)
    /\ PassInv

-----------------------------------------------------------------------------
(* What the operators on the chain and on a row return.                      *)

\* The hash of a height of the chain is a sequence of blocks that has the block of
\* that height.
LEMMA HashType ==
    ASSUME chain \in Seq(Blocks), NEW n \in 1..Len(chain)
    PROVE  Hash(n) \in Seq(Blocks) /\ Hash(n)[n] = chain[n]
<1>1. \A i \in 1..n : chain[i] \in Blocks
    BY ElementOfSeq, LenProperties
<1>2. Hash(n) \in Seq(Blocks)
    BY <1>1, SubSeqProperties, LenProperties DEF Hash
<1>3. Hash(n)[n] = chain[1 + n - 1]
    BY SubSeqProperties, LenProperties DEF Hash
<1> QED BY <1>2, <1>3, LenProperties

LEMMA HeadsType == ASSUME chain \in Seq(Blocks), NEW h \in Heads
                   PROVE  h \in Nat /\ h <= Len(chain) /\ Len(chain) \in Nat
    BY LenProperties DEF Heads

\* What a step may do to the row of log l before it is credited: the row stays as
\* RowInv says, is credited no sooner, and its revision is not forgotten.
SafeRow(old, new, l, n) ==
    /\ new \in Rows /\ RowInv(new, l, n)
    /\ new.status = "credited" <=> old.status = "credited"
    /\ old.status = "credited" => new = old
    /\ Orphaned(old) => Orphaned(new)

\* _insert_if_new at a height of the chain: a row of the user that the log pays, in
\* the block that has the log.  A credited row is left alone.
LEMMA InsertIfNewIsSafe ==
    ASSUME chain \in Seq(Blocks), NEW n \in 1..Len(chain), NEW l \in Logs, l \in chain[n].logs,
           NEW row \in Rows, RowInv(row, l, Len(chain))
    PROVE  SafeRow(row, InsertIfNew(row, n, l), l, Len(chain))
<1>1. n \in Nat /\ n >= 1 /\ Hash(n) \in Seq(Blocks) /\ Hash(n)[n] = chain[n]
    BY HashType, LenProperties
<1>2. RecipientOf[l] \in Users /\ row.rev \in Nat /\ row.rev + 1 > 0
    BY NftWatcherAssumption DEF Rows
<1> DEFINE new == [status |-> "seen", block |-> n, hash |-> Hash(n), user |-> RecipientOf[l],
                   rev |-> IF row.status = "none" THEN 0 ELSE row.rev + 1]
<1>3. CASE row.status \in {"none", "orphaned"}
    <2>1. InsertIfNew(row, n, l) = new
        BY <1>3 DEF InsertIfNew
    <2>2. new \in Rows
        BY <1>1, <1>2 DEF Rows
    <2>3. RowInv(new, l, Len(chain))
        BY <1>1 DEF RowInv
    <2>4. Orphaned(row) => Orphaned(new)
        BY <1>2, <1>3 DEF Orphaned, RowInv
    <2> QED BY <1>3, <2>1, <2>2, <2>3, <2>4 DEF SafeRow
<1>4. CASE row.status \notin {"none", "orphaned"}
    BY <1>4 DEF InsertIfNew, SafeRow
<1> QED BY <1>3, <1>4

\* An uncredited row is orphaned.
LEMMA OrphanIsSafe ==
    ASSUME NEW n, NEW l \in Logs, NEW row \in Rows, RowInv(row, l, n),
           row.status \notin {"none", "credited"}
    PROVE  SafeRow(row, [row EXCEPT !.status = "orphaned"], l, n)
<1> DEFINE new == [row EXCEPT !.status = "orphaned"]
<1>1. new \in Rows /\ new.status = "orphaned"
    BY DEF Rows
<1>2. /\ new.block = row.block /\ new.hash = row.hash
      /\ new.user = row.user /\ new.rev = row.rev
    BY DEF Rows
<1>3. RowInv(new, l, n)
    BY <1>1, <1>2 DEF RowInv
<1> QED BY <1>1, <1>3 DEF SafeRow, Orphaned

\* A row that the query selects is confirmed.
LEMMA ConfirmIsSafe ==
    ASSUME NEW n \in Nat, NEW head \in Nat, head <= n,
           NEW l \in Logs, NEW row \in Rows, RowInv(row, l, n),
           Final(row, head) \/ row.status = "confirmed"
    PROVE  SafeRow(row, [row EXCEPT !.status = "confirmed"], l, n)
<1> DEFINE new == [row EXCEPT !.status = "confirmed"]
<1>1. new \in Rows /\ new.status = "confirmed"
    BY DEF Rows
<1>2. /\ new.block = row.block /\ new.hash = row.hash
      /\ new.user = row.user /\ new.rev = row.rev
    BY DEF Rows
<1>3. row.status \in {"seen", "confirmed"}
    BY DEF Final
<1>4. row.block + Confirmations <= n
    <2>1. row.block \in Nat /\ Confirmations \in Nat
        BY NftWatcherAssumption DEF Rows
    <2> QED BY <2>1 DEF Final, RowInv
<1>5. RowInv(new, l, n)
    BY <1>1, <1>2, <1>3, <1>4 DEF RowInv
<1> QED BY <1>1, <1>2, <1>3, <1>5 DEF SafeRow, Orphaned

\* Nothing happens to the row.
LEMMA SameRowIsSafe ==
    ASSUME NEW n, NEW l, NEW row \in Rows, RowInv(row, l, n)
    PROVE  SafeRow(row, row, l, n)
    BY DEF SafeRow

\* A row is deep enough on a longer chain too.
LEMMA RowInvGrows ==
    ASSUME NEW m \in Nat, NEW n \in Nat, m <= n, NEW l \in Logs, NEW row \in Rows,
           RowInv(row, l, m)
    PROVE  RowInv(row, l, n)
<1>1. row.block \in Nat /\ Confirmations \in Nat
    BY NftWatcherAssumption DEF Rows
<1> QED BY <1>1 DEF RowInv

-----------------------------------------------------------------------------
(* What a change of the rows or of one holding keeps.                        *)

\* Match speaks of the credited rows of a token, of its holding and of whether one
\* of its rows was orphaned, and allows more references.
LEMMA MatchFrame ==
    ASSUME NEW d, NEW e, NEW k, NEW ref, NEW ref2, ref \subseteq ref2,
           e.owner[k] = d.owner[k],
           \A l \in Logs :
                /\ e.rows[l].status = "credited" <=> d.rows[l].status = "credited"
                /\ d.rows[l].status = "credited" => e.rows[l].user = d.rows[l].user
                /\ Orphaned(d.rows[l]) => Orphaned(e.rows[l]),
           Match(d, k, ref)
    PROVE  Match(e, k, ref2)
    BY Zenon DEF Match

\* All rows are replaced by rows that are safe.
LEMMA SafeRowsMatch ==
    ASSUME NEW d \in Databases, NEW n, NEW ref, Matches(d, ref), NEW r, r = [l \in Logs |-> r[l]],
           \A l \in Logs : SafeRow(d.rows[l], r[l], l, n)
    PROVE  LET e == [d EXCEPT !.rows = r]
           IN  /\ e \in Databases /\ e.rows = r /\ e.owner = d.owner /\ e.cursor = d.cursor
               /\ RowsInv(e, n) /\ Matches(e, ref)
<1> DEFINE e == [d EXCEPT !.rows = r]
<1>1. r \in [Logs -> Rows]
    BY DEF SafeRow
<1>2. e \in Databases /\ e.rows = r /\ e.owner = d.owner /\ e.cursor = d.cursor
    BY <1>1 DEF Databases
<1>3. RowsInv(e, n)
    BY <1>2 DEF RowsInv, SafeRow
<1>4. \A l \in Logs :
                /\ e.rows[l].status = "credited" <=> d.rows[l].status = "credited"
                /\ d.rows[l].status = "credited" => e.rows[l].user = d.rows[l].user
                /\ Orphaned(d.rows[l]) => Orphaned(e.rows[l])
    BY <1>2 DEF SafeRow
<1> HIDE DEF e
<1>5. ASSUME NEW k \in Tokens PROVE Match(e, k, ref)
    <2>1. Match(d, k, ref) /\ e.owner[k] = d.owner[k]
        BY <1>2 DEF Matches
    <2> QED BY <1>4, <2>1, MatchFrame
<1> QED BY <1>2, <1>3, <1>5 DEF e, Matches

-----------------------------------------------------------------------------
(* The invariant, step by step.                                              *)

LEMMA InitInv == Init => NftWatcherInv
<1> SUFFICES ASSUME Init PROVE NftWatcherInv
    OBVIOUS
<1> DEFINE row == [status |-> "none", block |-> 0, hash |-> NoHash, user |-> NoUser, rev |-> 0]
<1>1. row \in Rows
    BY DEF Rows
<1>2. /\ db.rows = [l \in Logs |-> row] /\ db.owner = [k \in Tokens |-> NoUser]
      /\ db \in Databases /\ session = db
    BY <1>1 DEF Init, Databases
<1>3. RowsInv(db, Len(chain))
    BY <1>2 DEF RowsInv, RowInv
<1>4. Matches(db, referenced)
    BY <1>2 DEF Matches, Match
<1>5. chain \in Seq(Blocks) /\ Len(chain) = 0
    BY EmptySeq DEF Init
<1>6. TypeOK
    <2>1. MaxHeight \in Nat /\ MaxReorgs \in Nat /\ MaxFailures \in Nat
        BY NftWatcherAssumption
    <2>2. lowest \in Int /\ reorgs \in 0..MaxReorgs /\ failures \in 0..MaxFailures
        BY <2>1 DEF Init
    <2>3. Len(chain) <= MaxHeight
        BY <1>5, <2>1
    <2> QED BY <1>2, <1>5, <2>2, <2>3 DEF Init, TypeOK
<1>7. PassInv
    BY <1>2 DEF PassInv, Init
<1> QED BY <1>2, <1>3, <1>4, <1>6, <1>7 DEF NftWatcherInv

\* The chain keeps its blocks or replaces them by as many, or grows.
LEMMA ChainStepInv ==
    ASSUME NftWatcherInv, chain' \in Seq(Blocks), Len(chain') >= Len(chain),
           Len(chain') <= MaxHeight, reorgs' \in 0..MaxReorgs,
           UNCHANGED <<failures, db, session, referenced, passVars>>
    PROVE  NftWatcherInv'
<1>1. Len(chain) \in Nat /\ Len(chain') \in Nat
    BY LenProperties DEF NftWatcherInv, TypeOK
<1>2. \A l \in Logs : db.rows[l] \in Rows /\ session.rows[l] \in Rows
    BY DEF NftWatcherInv, TypeOK, Databases
<1>3. RowsInv(db, Len(chain')) /\ RowsInv(session, Len(chain'))
    BY <1>1, <1>2, RowInvGrows DEF NftWatcherInv, RowsInv
<1>4. TypeOK'
    BY DEF NftWatcherInv, TypeOK, passVars
<1>5. PassInv'
    BY DEF NftWatcherInv, PassInv, passVars
<1> QED BY <1>3, <1>4, <1>5 DEF NftWatcherInv

LEMMA MineInv == NftWatcherInv /\ Mine => NftWatcherInv'
<1> SUFFICES ASSUME NftWatcherInv, Mine PROVE NftWatcherInv'
    OBVIOUS
<1>1. chain \in Seq(Blocks) /\ reorgs \in 0..MaxReorgs
    BY DEF NftWatcherInv, TypeOK
<1>2. TipSalt \in Salts
    <2>1. CASE chain = <<>>
        BY <2>1, NftWatcherAssumption DEF TipSalt
    <2>2. CASE chain # <<>>
        <3>1. Len(chain) \in 1..Len(chain)
            BY <1>1, <2>2, LenProperties, EmptySeq
        <3>2. chain[Len(chain)] \in Blocks
            BY <1>1, <3>1, ElementOfSeq
        <3> QED BY <2>2, <3>2 DEF TipSalt, Blocks
    <2> QED BY <2>1, <2>2
<1>3. PICK S \in SUBSET Logs : chain' = Append(chain, [salt |-> TipSalt, logs |-> S])
    BY DEF Mine
<1>4. [salt |-> TipSalt, logs |-> S] \in Blocks
    BY <1>2 DEF Blocks
<1>5. chain' \in Seq(Blocks) /\ Len(chain') = Len(chain) + 1
    BY <1>1, <1>3, <1>4, AppendProperties
<1>6. Len(chain') >= Len(chain) /\ Len(chain') <= MaxHeight
    <2>1. Len(chain) \in Nat /\ MaxHeight \in Nat /\ Len(chain) < MaxHeight
        BY <1>1, LenProperties, NftWatcherAssumption DEF Mine
    <2> QED BY <1>5, <2>1
<1>7. reorgs' \in 0..MaxReorgs /\ UNCHANGED <<failures, db, session, referenced, passVars>>
    BY <1>1 DEF Mine
<1> QED BY <1>5, <1>6, <1>7, ChainStepInv

LEMMA ReorgInv == NftWatcherInv /\ Reorg => NftWatcherInv'
<1> SUFFICES ASSUME NftWatcherInv, Reorg PROVE NftWatcherInv'
    OBVIOUS
<1>1. chain \in Seq(Blocks) /\ reorgs \in 0..MaxReorgs /\ Len(chain) <= MaxHeight
    BY DEF NftWatcherInv, TypeOK
<1>2. PICK n \in 0..(Len(chain) - 1), s \in Salts :
        \E height \in [Logs \ LogsUpTo(n) -> {0} \cup (n + 1)..Len(chain)] :
            chain' = [h \in 1..Len(chain) |->
                            IF h <= n THEN chain[h]
                            ELSE [salt |-> s, logs |-> {l \in DOMAIN height : height[l] = h}]]
    BY DEF Reorg
<1>3. PICK height \in [Logs \ LogsUpTo(n) -> {0} \cup (n + 1)..Len(chain)] :
            chain' = [h \in 1..Len(chain) |->
                            IF h <= n THEN chain[h]
                            ELSE [salt |-> s, logs |-> {l \in DOMAIN height : height[l] = h}]]
    BY <1>2
<1>4. ASSUME NEW h \in 1..Len(chain) PROVE chain'[h] \in Blocks
    <2>1. chain[h] \in Blocks
        BY <1>1, ElementOfSeq
    <2>2. [salt |-> s, logs |-> {l \in DOMAIN height : height[l] = h}] \in Blocks
        BY DEF Blocks
    <2> QED BY <1>3, <2>1, <2>2
<1>5. chain' \in [1..Len(chain) -> Blocks] /\ Len(chain) \in Nat
    BY <1>1, <1>3, <1>4, LenProperties
<1>6. chain' \in Seq(Blocks) /\ Len(chain') = Len(chain)
    BY <1>5
<1>7. reorgs' \in 0..MaxReorgs /\ UNCHANGED <<failures, db, session, referenced, passVars>>
    <2>1. reorgs < MaxReorgs /\ MaxReorgs \in Nat /\ reorgs' = reorgs + 1
        BY NftWatcherAssumption DEF Reorg
    <2>2. reorgs' \in 0..MaxReorgs
        BY <1>1, <2>1
    <2> QED BY <2>2 DEF Reorg
<1> QED BY <1>1, <1>5, <1>6, <1>7, ChainStepInv

\* A step of the pass that leaves the database alone.
LEMMA PassStepInv ==
    ASSUME NftWatcherInv, UNCHANGED <<chain, reorgs, failures, db, referenced>>,
           session' \in Databases, RowsInv(session', Len(chain)), Matches(session', referenced),
           pc' \in {"record", "credit", "reorgs"}, lowest' \in Int,
           pc' = "record" => todo' \subseteq Int,
           pc' \in {"credit", "reorgs"} => todo' \subseteq Logs,
           session'.cursor \in Int,
           PassInv'
    PROVE  NftWatcherInv'
<1>1. TypeOK'
    BY DEF NftWatcherInv, TypeOK
<1> QED BY <1>1 DEF NftWatcherInv

LEMMA BeginScanInv == NftWatcherInv /\ BeginScan => NftWatcherInv'
<1> SUFFICES ASSUME NftWatcherInv, BeginScan PROVE NftWatcherInv'
    OBVIOUS
<1>1. /\ db \in Databases /\ session = db /\ chain \in Seq(Blocks) /\ lowest \in Int
      /\ db.cursor \in Int \cup {NoCursor}
    BY DEF NftWatcherInv, TypeOK, Databases, BeginScan
<1>2. PICK head \in Heads :
        /\ session' = [db EXCEPT !.cursor =
                            IF db.cursor = NoCursor THEN head ELSE Larger(db.cursor, head)]
        /\ todo' = ScanRange(head)
    BY DEF BeginScan
<1>3. head \in Nat
    BY <1>1, HeadsType
<1>4. (IF db.cursor = NoCursor THEN head ELSE Larger(db.cursor, head)) \in Int
    BY <1>1, <1>3 DEF Larger
<1>5. todo' \subseteq Int
    BY <1>2 DEF ScanRange
<1>6. /\ session' \in Databases /\ session'.cursor \in Int
      /\ session'.rows = db.rows /\ session'.owner = db.owner
    BY <1>1, <1>2, <1>4 DEF Databases
<1>7. RowsInv(session', Len(chain))
    BY <1>6 DEF NftWatcherInv, RowsInv
<1>8. Matches(session', referenced)
    BY <1>6 DEF NftWatcherInv, Matches, Match
<1>9. pc' = "record" /\ UNCHANGED <<chain, reorgs, failures, db, referenced, lowest>>
    BY DEF BeginScan
<1>10. PassInv'
    BY <1>6, <1>9 DEF PassInv
<1> QED BY <1>1, <1>5, <1>6, <1>7, <1>8, <1>9, <1>10, PassStepInv

LEMMA RecordBlockInv == NftWatcherInv /\ RecordBlock => NftWatcherInv'
<1> SUFFICES ASSUME NftWatcherInv, RecordBlock PROVE NftWatcherInv'
    OBVIOUS
<1>1. /\ session \in Databases /\ chain \in Seq(Blocks) /\ lowest \in Int /\ todo \subseteq Int
      /\ session.cursor \in Int /\ pc = "record"
      /\ \A l \in Logs : session.rows[l] \in Rows /\ RowInv(session.rows[l], l, Len(chain))
    BY DEF NftWatcherInv, TypeOK, Databases, RecordBlock, RowsInv
<1>2. PICK n \in todo, view \in Heads :
        /\ session' = IF n \in 1..view
                      THEN [session EXCEPT !.rows = [l \in Logs |->
                                IF l \in chain[n].logs THEN InsertIfNew(session.rows[l], n, l)
                                ELSE session.rows[l]]]
                      ELSE session
        /\ todo' = todo \ {n}
    BY DEF RecordBlock
<1>3. /\ session' \in Databases /\ RowsInv(session', Len(chain))
      /\ Matches(session', referenced) /\ session'.cursor \in Int
      /\ \A l \in Logs : session.rows[l].status = "credited" => session'.rows[l].status = "credited"
    <2>1. CASE n \in 1..view
        <3> DEFINE r == [l \in Logs |->
                            IF l \in chain[n].logs THEN InsertIfNew(session.rows[l], n, l)
                            ELSE session.rows[l]]
        <3>1. n \in 1..Len(chain)
            BY <1>1, <2>1, HeadsType
        <3>2. \A l \in Logs : SafeRow(session.rows[l], r[l], l, Len(chain))
            BY <1>1, <3>1, InsertIfNewIsSafe, SameRowIsSafe
        <3>3. session' = [session EXCEPT !.rows = r] /\ r = [l \in Logs |-> r[l]]
            BY <1>2, <2>1
        <3>4. Matches(session, referenced)
            BY DEF NftWatcherInv
        <3> HIDE DEF r
        <3>5. /\ session' \in Databases /\ session'.rows = r
              /\ session'.cursor = session.cursor
              /\ RowsInv(session', Len(chain)) /\ Matches(session', referenced)
            BY <1>1, <3>2, <3>3, <3>4, SafeRowsMatch
        <3> QED BY <1>1, <3>2, <3>5 DEF SafeRow
    <2>2. CASE ~(n \in 1..view)
        BY <1>1, <1>2, <2>2 DEF NftWatcherInv
    <2> QED BY <2>1, <2>2
<1>4. pc' = "record" /\ UNCHANGED <<chain, reorgs, failures, db, referenced, lowest>>
    BY <1>1 DEF RecordBlock
<1>5. PassInv'
    BY <1>1, <1>3, <1>4 DEF PassInv, NftWatcherInv
<1> QED BY <1>1, <1>2, <1>3, <1>4, <1>5, PassStepInv

LEMMA StartCreditInv == NftWatcherInv /\ StartCredit => NftWatcherInv'
<1> SUFFICES ASSUME NftWatcherInv, StartCredit PROVE NftWatcherInv'
    OBVIOUS
<1>1. /\ session \in Databases /\ chain \in Seq(Blocks) /\ lowest \in Int
      /\ session.cursor \in Int /\ pc = "record"
      /\ \A l \in Logs : session.rows[l] \in Rows /\ RowInv(session.rows[l], l, Len(chain))
    BY DEF NftWatcherInv, TypeOK, Databases, StartCredit, RowsInv
<1> DEFINE confirmed(head) == {l \in Logs : \/ Final(session.rows[l], head)
                                            \/ session.rows[l].status = "confirmed"}
           r(head) == [l \in Logs |->
                          IF l \in confirmed(head)
                          THEN [session.rows[l] EXCEPT !.status = "confirmed"]
                          ELSE session.rows[l]]
<1>2. PICK head \in Heads :
        todo' = confirmed(head) /\ session' = [session EXCEPT !.rows = r(head)]
    BY DEF StartCredit
<1>3. head \in Nat /\ head <= Len(chain) /\ Len(chain) \in Nat
    BY <1>1, HeadsType
<1>4. \A l \in Logs : SafeRow(session.rows[l], r(head)[l], l, Len(chain))
    BY <1>1, <1>3, ConfirmIsSafe, SameRowIsSafe
<1>5. /\ Matches(session, referenced) /\ r(head) = [l \in Logs |-> r(head)[l]]
      /\ todo' \subseteq Logs
    BY <1>2 DEF NftWatcherInv
<1>6. \A l \in todo' : r(head)[l].status = "confirmed"
    BY <1>1, <1>2 DEF Rows
<1> HIDE DEF r
<1>7. /\ session' \in Databases /\ session'.rows = r(head)
      /\ session'.cursor = session.cursor
      /\ RowsInv(session', Len(chain)) /\ Matches(session', referenced)
    BY <1>1, <1>2, <1>4, <1>5, SafeRowsMatch
<1>8. pc' = "credit" /\ UNCHANGED <<chain, reorgs, failures, db, referenced, lowest>>
    BY DEF StartCredit
<1>9. PassInv'
    BY <1>1, <1>4, <1>6, <1>7, <1>8 DEF PassInv, NftWatcherInv, SafeRow
<1> QED BY <1>1, <1>5, <1>7, <1>8, <1>9, PassStepInv

\* The pass is rolled back.
LEMMA RollbackInv ==
    ASSUME NftWatcherInv, Rollback, failures' \in 0..MaxFailures,
           UNCHANGED <<chain, reorgs, referenced>>
    PROVE  NftWatcherInv'
<1>1. /\ db' = db /\ session' = db /\ pc' = "idle" /\ todo' = {}
      /\ lowest' = MaxHeight + 1 /\ MaxHeight \in Nat
    BY NftWatcherAssumption DEF Rollback
<1>2. TypeOK'
    BY <1>1 DEF NftWatcherInv, TypeOK
<1>3. PassInv'
    BY <1>1 DEF PassInv
<1> QED BY <1>1, <1>2, <1>3 DEF NftWatcherInv

\* What the steps of the loops make of the session d.
Credit(d, l) == [d EXCEPT !.rows[l].status = "credited", !.owner[TokenOf[l]] = d.rows[l].user]
Uncredit(d, l) == [d EXCEPT !.rows[l].status = "orphaned", !.owner[TokenOf[l]] = NoUser]
Orphan(d, l) == [d EXCEPT !.rows[l].status = "orphaned"]
Transfer(d, k, u) == [d EXCEPT !.owner[k] = u]

\* A row is credited and the token belongs to the user of the row.
LEMMA CreditMatches ==
    ASSUME NEW d \in Databases, NEW n, NEW ref, NEW l \in Logs, RowsInv(d, n), Matches(d, ref),
           d.rows[l].status = "confirmed"
    PROVE  LET e == Credit(d, l)
           IN  /\ e \in Databases /\ RowsInv(e, n) /\ Matches(e, ref) /\ e.cursor = d.cursor
               /\ e.rows[l].status = "credited"
               /\ e.rows[l].block = d.rows[l].block /\ e.rows[l].hash = d.rows[l].hash
               /\ e.owner[TokenOf[l]] = RecipientOf[l]
               /\ \A m \in Logs \ {l} : e.rows[m] = d.rows[m]
<1> DEFINE e == Credit(d, l)
<1>1. /\ d.rows \in [Logs -> Rows] /\ d.rows[l] \in Rows /\ d.owner \in [Tokens -> Users \cup {NoUser}]
      /\ RowInv(d.rows[l], l, n)
    BY DEF Databases, RowsInv
<1>2. /\ TokenOf[l] \in Tokens /\ RecipientOf[l] \in Users /\ RecipientOf[l] # NoUser
      /\ d.rows[l].user = RecipientOf[l]
    BY <1>1, NftWatcherAssumption DEF RowInv
<1> DEFINE new == [d.rows[l] EXCEPT !.status = "credited"]
           k == TokenOf[l]
<1>3. /\ new \in Rows /\ new.status = "credited" /\ new.block = d.rows[l].block
      /\ new.hash = d.rows[l].hash /\ new.user = d.rows[l].user /\ new.rev = d.rows[l].rev
    BY <1>1 DEF Rows
<1>4. /\ e.rows = [d.rows EXCEPT ![l] = new] /\ e.owner = [d.owner EXCEPT ![k] = d.rows[l].user]
      /\ e.cursor = d.cursor
    BY DEF Databases, Credit
<1> HIDE DEF new
<1>5. e \in Databases
    BY <1>1, <1>2, <1>3 DEF Databases, Credit, new
<1>6. e.rows[l] = new /\ e.owner[k] = RecipientOf[l] /\ \A m \in Logs \ {l} : e.rows[m] = d.rows[m]
    BY <1>1, <1>2, <1>4
<1>7. RowInv(new, l, n)
    BY <1>1, <1>3 DEF RowInv
<1>8. RowsInv(e, n)
    BY <1>6, <1>7 DEF RowsInv
<1>9. ASSUME NEW t \in Tokens PROVE Match(e, t, ref)
    <2>1. Match(d, t, ref)
        BY DEF Matches
    <2>2. CASE t = k
        <3>1. e.owner[t] # NoUser /\ e.rows[l].status = "credited" /\ e.rows[l].user = e.owner[t]
            BY <1>2, <1>3, <1>6, <2>2
        <3> QED BY <2>2, <3>1 DEF Match
    <2>3. CASE t # k
        <3>1. e.owner[t] = d.owner[t]
            BY <1>1, <1>4, <2>3
        <3>2. \A m \in Logs : TokenOf[m] = t => e.rows[m] = d.rows[m]
            BY <1>6, <2>3
        <3> QED BY <2>1, <3>1, <3>2 DEF Match
    <2> QED BY <2>2, <2>3
<1> QED BY <1>3, <1>4, <1>5, <1>6, <1>8, <1>9 DEF Matches

\* A credited row is orphaned and the holding of its token deleted.
LEMMA UncreditMatches ==
    ASSUME NEW d \in Databases, NEW n, NEW ref, NEW l \in Logs, RowsInv(d, n), Matches(d, ref),
           d.rows[l].status = "credited"
    PROVE  LET e == Uncredit(d, l)
           IN  /\ e \in Databases /\ RowsInv(e, n) /\ Matches(e, ref) /\ e.cursor = d.cursor
               /\ e.rows[l].status = "orphaned"
               /\ \A m \in Logs \ {l} : e.rows[m] = d.rows[m]
<1> DEFINE e == Uncredit(d, l)
<1>1. /\ d.rows \in [Logs -> Rows] /\ d.rows[l] \in Rows /\ d.owner \in [Tokens -> Users \cup {NoUser}]
      /\ RowInv(d.rows[l], l, n)
    BY DEF Databases, RowsInv
<1>2. TokenOf[l] \in Tokens
    BY NftWatcherAssumption
<1> DEFINE new == [d.rows[l] EXCEPT !.status = "orphaned"]
           k == TokenOf[l]
<1>3. /\ new \in Rows /\ new.status = "orphaned" /\ new.block = d.rows[l].block
      /\ new.hash = d.rows[l].hash /\ new.user = d.rows[l].user /\ new.rev = d.rows[l].rev
    BY <1>1 DEF Rows
<1>4. /\ e.rows = [d.rows EXCEPT ![l] = new] /\ e.owner = [d.owner EXCEPT ![k] = NoUser]
      /\ e.cursor = d.cursor
    BY DEF Databases, Uncredit
<1> HIDE DEF new
<1>5. e \in Databases
    BY <1>1, <1>2, <1>3 DEF Databases, Uncredit, new
<1>6. e.rows[l] = new /\ e.owner[k] = NoUser /\ \A m \in Logs \ {l} : e.rows[m] = d.rows[m]
    BY <1>1, <1>2, <1>4
<1>7. RowInv(new, l, n)
    BY <1>1, <1>3 DEF RowInv
<1>8. RowsInv(e, n)
    BY <1>6, <1>7 DEF RowsInv
<1>9. ASSUME NEW t \in Tokens PROVE Match(e, t, ref)
    <2>1. Match(d, t, ref)
        BY DEF Matches
    <2>2. CASE t = k
        BY <1>3, <1>6, <2>2 DEF Match, Orphaned
    <2>3. CASE t # k
        <3>1. e.owner[t] = d.owner[t]
            BY <1>1, <1>4, <2>3
        <3>2. \A m \in Logs : TokenOf[m] = t => e.rows[m] = d.rows[m]
            BY <1>6, <2>3
        <3> QED BY <2>1, <3>1, <3>2 DEF Match
    <2> QED BY <2>2, <2>3
<1> QED BY <1>3, <1>4, <1>5, <1>6, <1>8, <1>9 DEF Matches

\* An uncredited row is orphaned.
LEMMA OrphanMatches ==
    ASSUME NEW d \in Databases, NEW n, NEW ref, NEW l \in Logs, RowsInv(d, n), Matches(d, ref),
           d.rows[l].status \notin {"none", "credited"}
    PROVE  LET e == Orphan(d, l)
           IN  /\ e \in Databases /\ RowsInv(e, n) /\ Matches(e, ref) /\ e.cursor = d.cursor
               /\ e.rows[l].status = "orphaned"
               /\ \A m \in Logs \ {l} : e.rows[m] = d.rows[m]
<1> DEFINE e == Orphan(d, l)
<1>1. d.rows \in [Logs -> Rows] /\ \A m \in Logs : d.rows[m] \in Rows /\ RowInv(d.rows[m], m, n)
    BY DEF Databases, RowsInv
<1> DEFINE r == [d.rows EXCEPT ![l] = [d.rows[l] EXCEPT !.status = "orphaned"]]
<1>2. e = [d EXCEPT !.rows = r]
    BY DEF Databases, Orphan
<1>3. ASSUME NEW m \in Logs PROVE SafeRow(d.rows[m], r[m], m, n)
    <2>1. CASE m = l
        <3>1. r[m] = [d.rows[m] EXCEPT !.status = "orphaned"]
            BY <1>1, <2>1
        <3> QED BY <1>1, <2>1, <3>1, OrphanIsSafe
    <2>2. CASE m # l
        <3>1. r[m] = d.rows[m]
            BY <1>1, <2>2
        <3> QED BY <1>1, <3>1, SameRowIsSafe
    <2> QED BY <2>1, <2>2
<1>4. /\ r = [m \in Logs |-> r[m]] /\ r[l].status = "orphaned"
      /\ \A m \in Logs \ {l} : r[m] = d.rows[m]
    BY <1>1 DEF Rows
<1> HIDE DEF r
<1>5. /\ e \in Databases /\ e.rows = r /\ e.cursor = d.cursor
      /\ RowsInv(e, n) /\ Matches(e, ref)
    BY <1>2, <1>3, <1>4, SafeRowsMatch
<1> QED BY <1>4, <1>5

\* The row stays as it is, is orphaned, or is credited, and then its block is the
\* canonical one at its height.
LEMMA CreditRowCases ==
    ASSUME NftWatcherInv, NEW l \in Logs, CreditRow(l)
    PROVE  /\ session.rows[l].status = "confirmed"
           /\ \/ Rollback
              \/ /\ UNCHANGED <<db, pc, lowest>> /\ todo' = todo \ {l}
                 /\ \/ session' = session
                    \/ session' = Orphan(session, l)
                    \/ /\ session.rows[l].block <= Len(chain) /\ session.rows[l].hash # NoHash
                       /\ session.rows[l].hash = Hash(session.rows[l].block)
                       /\ session' = Credit(session, l)
<1>1. session.rows[l].status = "confirmed"
    BY DEF NftWatcherInv, PassInv, CreditRow
<1>2. PICK canonical \in BlockHashes(session.rows[l].block) :
        \/ Rollback
        \/ /\ session' =
                IF canonical = NoHash THEN session
                ELSE IF canonical # session.rows[l].hash
                THEN [session EXCEPT !.rows[l].status = "orphaned"]
                ELSE [session EXCEPT !.rows[l].status = "credited",
                                     !.owner = UpsertHolding(@, l)]
           /\ todo' = todo \ {l}
           /\ UNCHANGED <<db, pc, lowest>>
    BY DEF CreditRow
<1>3. CASE Rollback
    BY <1>1, <1>3
<1>4. CASE ~Rollback
    <2>1. CASE canonical = NoHash \/ canonical # session.rows[l].hash
        BY <1>1, <1>2, <1>4, <2>1 DEF Orphan
    <2>2. CASE canonical # NoHash /\ canonical = session.rows[l].hash
        <3>1. session' = Credit(session, l)
            <4>1. session \in Databases
                BY DEF NftWatcherInv, TypeOK
            <4> QED BY <1>2, <1>4, <2>2, <4>1 DEF UpsertHolding, Databases, Credit
        <3>2. /\ session.rows[l].block <= Len(chain)
              /\ session.rows[l].hash = Hash(session.rows[l].block)
            <4>1. (IF session.rows[l].block <= Len(chain) THEN {Hash(session.rows[l].block)} ELSE {}) # {}
                BY <2>2 DEF BlockHashes
            <4> QED BY <2>2, <4>1 DEF BlockHashes
        <3> QED BY <1>1, <1>2, <1>4, <2>2, <3>1, <3>2
    <2> QED BY <2>1, <2>2
<1> QED BY <1>3, <1>4

LEMMA CreditRowInv ==
    ASSUME NftWatcherInv, NEW l \in Logs, CreditRow(l)
    PROVE  NftWatcherInv'
<1>1. /\ session \in Databases /\ RowsInv(session, Len(chain)) /\ Matches(session, referenced)
      /\ pc = "credit" /\ session.cursor \in Int /\ todo \subseteq Logs /\ lowest \in Int
      /\ session.rows[l].status = "confirmed" /\ failures \in 0..MaxFailures
    BY CreditRowCases DEF NftWatcherInv, TypeOK, CreditRow
<1>2. UNCHANGED <<chain, reorgs, failures, referenced>>
    BY DEF CreditRow
<1>3. CASE Rollback
    BY <1>1, <1>2, <1>3, RollbackInv
<1>4. CASE ~Rollback
    <2>1. UNCHANGED <<db, pc, lowest>> /\ todo' = todo \ {l}
        BY <1>4, CreditRowCases
    <2>2. /\ session' \in Databases /\ RowsInv(session', Len(chain))
          /\ Matches(session', referenced) /\ session'.cursor = session.cursor
          /\ \A m \in Logs \ {l} : session'.rows[m] = session.rows[m]
        <3>1. CASE session' = session
            BY <1>1, <3>1
        <3>2. CASE session' = Orphan(session, l)
            <4>1. session.rows[l].status \notin {"none", "credited"}
                BY <1>1
            <4> QED BY <1>1, <3>2, <4>1, OrphanMatches
        <3>3. CASE session' = Credit(session, l)
            BY <1>1, <3>3, CreditMatches
        <3> QED BY <1>4, <3>1, <3>2, <3>3, CreditRowCases
    <2>3. PassInv'
        <3>1. db.rows[l].status # "credited"
            BY <1>1 DEF NftWatcherInv, PassInv
        <3> QED BY <1>1, <2>1, <2>2, <3>1 DEF NftWatcherInv, PassInv
    <2>4. todo' \subseteq Logs
        BY <1>1, <2>1
    <2> QED BY <1>1, <1>2, <2>1, <2>2, <2>3, <2>4, PassStepInv
<1> QED BY <1>3, <1>4

LEMMA StartReorgsInv == NftWatcherInv /\ StartReorgs => NftWatcherInv'
<1> SUFFICES ASSUME NftWatcherInv, StartReorgs PROVE NftWatcherInv'
    OBVIOUS
<1>1. /\ pc = "credit" /\ pc' = "reorgs" /\ todo' \subseteq Logs
      /\ UNCHANGED <<chain, reorgs, failures, db, session, referenced, lowest>>
    BY DEF StartReorgs
<1>2. TypeOK'
    BY <1>1 DEF NftWatcherInv, TypeOK
<1>3. PassInv'
    <2>1. \A l \in todo' : session.rows[l].status # "none"
        BY DEF StartReorgs, Candidate
    <2> QED BY <1>1, <2>1 DEF NftWatcherInv, PassInv
<1> QED BY <1>1, <1>2, <1>3 DEF NftWatcherInv

LEMMA CheckRowInv ==
    ASSUME NftWatcherInv, NEW l \in Logs, CheckRow(l)
    PROVE  NftWatcherInv'
<1>1. /\ session \in Databases /\ RowsInv(session, Len(chain)) /\ Matches(session, referenced)
      /\ pc = "reorgs" /\ session.cursor \in Int /\ todo \subseteq Logs /\ lowest \in Int
      /\ session.rows[l].block \in Nat /\ session.rows[l].status # "none"
    BY DEF NftWatcherInv, TypeOK, PassInv, CheckRow, Databases, Rows
<1>2. /\ UNCHANGED <<chain, reorgs, failures, db, referenced, pc>>
      /\ todo' = todo \ {l} /\ todo' \subseteq Logs
    BY <1>1 DEF CheckRow
<1>3. /\ \/ UNCHANGED <<session, lowest>>
         \/ /\ session.rows[l].status = "credited"
            /\ session' = Uncredit(session, l)
            /\ lowest' = Smaller(lowest, session.rows[l].block)
         \/ /\ session.rows[l].status # "credited"
            /\ session' = Orphan(session, l)
            /\ lowest' = Smaller(lowest, session.rows[l].block)
    BY <1>1 DEF CheckRow, RemoveHolding, Databases, Orphan, Uncredit
<1>4. lowest' \in Int
    BY <1>1, <1>3 DEF Smaller
<1>5. /\ session' \in Databases /\ RowsInv(session', Len(chain))
      /\ Matches(session', referenced) /\ session'.cursor = session.cursor
      /\ session'.rows[l].status \in {"orphaned", session.rows[l].status}
      /\ \A m \in Logs \ {l} : session'.rows[m] = session.rows[m]
    <2>1. CASE session' = session
        BY <1>1, <2>1
    <2>2. CASE /\ session.rows[l].status = "credited"
               /\ session' = Uncredit(session, l)
        BY <1>1, <2>2, UncreditMatches
    <2>3. CASE /\ session.rows[l].status # "credited"
               /\ session' = Orphan(session, l)
        <3>1. session.rows[l].status \notin {"none", "credited"}
            BY <1>1, <2>3
        <3> QED BY <1>1, <2>3, <3>1, OrphanMatches
    <2> QED BY <1>3, <2>1, <2>2, <2>3
<1>6. PassInv'
    BY <1>1, <1>2, <1>5 DEF NftWatcherInv, PassInv
<1> QED BY <1>1, <1>2, <1>4, <1>5, <1>6, PassStepInv

LEMMA CommitInv == NftWatcherInv /\ Commit => NftWatcherInv'
<1> SUFFICES ASSUME NftWatcherInv, Commit PROVE NftWatcherInv'
    OBVIOUS
<1>1. /\ session \in Databases /\ session.cursor \in Int /\ lowest \in Int
      /\ pc = "reorgs" /\ todo = {} /\ MaxHeight + 1 \in Int
    BY NftWatcherAssumption DEF NftWatcherInv, TypeOK, Commit
<1>2. Rewound(session.cursor) \in Int
    BY <1>1 DEF Rewound, Smaller
<1>3. /\ session' = [session EXCEPT !.cursor = Rewound(session.cursor)] /\ db' = session'
      /\ pc' = "idle" /\ lowest' = MaxHeight + 1
      /\ UNCHANGED <<chain, reorgs, failures, referenced, todo>>
    BY DEF Commit
<1>4. /\ session' \in Databases
      /\ session'.rows = session.rows /\ session'.owner = session.owner
    BY <1>1, <1>2, <1>3 DEF Databases
<1>5. RowsInv(session', Len(chain))
    BY <1>4 DEF NftWatcherInv, RowsInv
<1>6. Matches(session', referenced)
    BY <1>4 DEF NftWatcherInv, Matches, Match
<1>7. TypeOK'
    BY <1>1, <1>3, <1>4 DEF NftWatcherInv, TypeOK
<1>8. PassInv'
    BY <1>3 DEF PassInv
<1> QED BY <1>3, <1>5, <1>6, <1>7, <1>8 DEF NftWatcherInv

LEMMA FailInv == NftWatcherInv /\ Fail => NftWatcherInv'
<1> SUFFICES ASSUME NftWatcherInv, Fail PROVE NftWatcherInv'
    OBVIOUS
<1>1. /\ failures \in 0..MaxFailures /\ failures < MaxFailures /\ failures' = failures + 1
      /\ MaxFailures \in Nat
    BY NftWatcherAssumption DEF NftWatcherInv, TypeOK, Fail
<1>2. failures' \in 0..MaxFailures
    BY <1>1
<1> QED BY <1>2, RollbackInv DEF Fail

\* The holding of token k changes hands and is referenced.
LEMMA TransferMatches ==
    ASSUME NEW d \in Databases, NEW n, NEW ref, NEW k \in Tokens, NEW u \in Users,
           RowsInv(d, n), Matches(d, ref), d.owner[k] # NoUser,
           NEW ref2, ref \subseteq ref2, k \in ref2
    PROVE  LET e == Transfer(d, k, u)
           IN  /\ e \in Databases /\ RowsInv(e, n) /\ Matches(e, ref2)
               /\ e.cursor = d.cursor /\ e.rows = d.rows
<1> DEFINE e == Transfer(d, k, u)
<1>1. /\ e \in Databases /\ e.cursor = d.cursor /\ e.rows = d.rows
      /\ e.owner[k] = u /\ \A t \in Tokens \ {k} : e.owner[t] = d.owner[t]
    BY DEF Databases, Transfer
<1>2. RowsInv(e, n)
    BY <1>1 DEF RowsInv
<1>3. ASSUME NEW t \in Tokens PROVE Match(e, t, ref2)
    <2>1. Match(d, t, ref) /\ NoUser \notin Users
        BY NftWatcherAssumption DEF Matches
    <2>2. CASE t = k
        BY <1>1, <2>1, <2>2 DEF Match
    <2>3. CASE t # k
        BY <1>1, <2>1, <2>3 DEF Match
    <2> QED BY <2>2, <2>3
<1> QED BY <1>1, <1>2, <1>3 DEF Matches

LEMMA TransferNftInv ==
    ASSUME NftWatcherInv, NEW k \in Tokens, NEW u \in Users, TransferNft(k, u)
    PROVE  NftWatcherInv'
<1>1. /\ db \in Databases /\ session \in Databases /\ referenced \subseteq Tokens
      /\ db.owner[k] # NoUser /\ session.owner[k] # NoUser
      /\ db' = Transfer(db, k, u) /\ session' = Transfer(session, k, u)
      /\ referenced' = referenced \cup {k}
      /\ UNCHANGED <<chain, reorgs, failures, pc, todo, lowest>>
    BY DEF NftWatcherInv, TypeOK, TransferNft, passVars, Transfer
<1>2. /\ RowsInv(db, Len(chain)) /\ Matches(db, referenced)
      /\ RowsInv(session, Len(chain)) /\ Matches(session, referenced)
    BY DEF NftWatcherInv
<1>3. /\ db' \in Databases /\ RowsInv(db', Len(chain)) /\ Matches(db', referenced')
      /\ db'.rows = db.rows
    <2>1. /\ Transfer(db, k, u) \in Databases /\ RowsInv(Transfer(db, k, u), Len(chain))
          /\ Matches(Transfer(db, k, u), referenced')
          /\ Transfer(db, k, u).rows = db.rows
        <3>1. /\ db \in Databases /\ db.owner[k] # NoUser
              /\ referenced \subseteq referenced' /\ k \in referenced'
            BY <1>1
        <3> QED BY <1>2, <3>1, TransferMatches
    <2> QED BY <1>1, <2>1
<1>4. /\ session' \in Databases /\ RowsInv(session', Len(chain))
      /\ Matches(session', referenced') /\ session'.cursor = session.cursor
      /\ session'.rows = session.rows
    <2>1. /\ Transfer(session, k, u) \in Databases /\ RowsInv(Transfer(session, k, u), Len(chain))
          /\ Matches(Transfer(session, k, u), referenced')
          /\ Transfer(session, k, u).cursor = session.cursor
          /\ Transfer(session, k, u).rows = session.rows
        <3>1. /\ session \in Databases /\ session.owner[k] # NoUser
              /\ referenced \subseteq referenced' /\ k \in referenced'
            BY <1>1
        <3> QED BY <1>2, <3>1, TransferMatches
    <2> QED BY <1>1, <2>1
<1>5. TypeOK'
    BY <1>1, <1>3, <1>4 DEF NftWatcherInv, TypeOK
<1>6. PassInv'
    BY <1>1, <1>3, <1>4 DEF NftWatcherInv, PassInv
<1> QED BY <1>1, <1>3, <1>4, <1>5, <1>6 DEF NftWatcherInv

\* Every step of the chain, of the watcher and of the API keeps the invariant.
LEMMA NftWatcherInductive == NftWatcherInv /\ [Next]_vars => NftWatcherInv'
<1> SUFFICES ASSUME NftWatcherInv, [Next]_vars PROVE NftWatcherInv'
    OBVIOUS
<1>1. CASE UNCHANGED vars
    <2>1. UNCHANGED <<chain, reorgs, failures, db, session, referenced, pc, todo, lowest>>
        BY <1>1 DEF vars
    <2>2. TypeOK'
        BY <2>1 DEF NftWatcherInv, TypeOK
    <2>3. PassInv'
        BY <2>1 DEF NftWatcherInv, PassInv
    <2> QED BY <2>1, <2>2, <2>3 DEF NftWatcherInv
<1>2. CASE Mine
    BY <1>2, MineInv
<1>3. CASE Reorg
    BY <1>3, ReorgInv
<1>4. CASE BeginScan
    BY <1>4, BeginScanInv
<1>5. CASE RecordBlock
    BY <1>5, RecordBlockInv
<1>6. CASE StartCredit
    BY <1>6, StartCreditInv
<1>7. ASSUME NEW l \in Logs, CreditRow(l) PROVE NftWatcherInv'
    BY <1>7, CreditRowInv
<1>8. CASE StartReorgs
    BY <1>8, StartReorgsInv
<1>9. ASSUME NEW l \in Logs, CheckRow(l) PROVE NftWatcherInv'
    BY <1>9, CheckRowInv
<1>10. CASE FlushRejected
    <2>1. failures' \in 0..MaxFailures
        BY <1>10 DEF NftWatcherInv, TypeOK, FlushRejected
    <2> QED BY <1>10, <2>1, RollbackInv DEF FlushRejected
<1>11. CASE Commit
    BY <1>11, CommitInv
<1>12. CASE Fail
    BY <1>12, FailInv
<1>13. ASSUME NEW k \in Tokens, NEW u \in Users, TransferNft(k, u) PROVE NftWatcherInv'
    BY <1>13, TransferNftInv
<1> QED
    BY <1>1, <1>2, <1>3, <1>4, <1>5, <1>6, <1>7, <1>8, <1>9, <1>10, <1>11, <1>12, <1>13
    DEF Next, Watch

LEMMA NftWatcherSafe == Spec => []NftWatcherInv
    BY InitInv, NftWatcherInductive, PTL DEF Spec

\* Type correctness of the chain, of the two copies of the NFT tables and of the
\* pass; outside a pass the session of the watcher holds what is committed.
THEOREM NftWatcherTypeCorrect == Spec => []TypeOK
<1>1. NftWatcherInv => TypeOK
    BY DEF NftWatcherInv
<1> QED BY <1>1, NftWatcherSafe, PTL

-----------------------------------------------------------------------------
(* The holdings and the deposits.                                            *)

\* Whatever the reorganisations, the failed passes and the transfers of the API, a
\* row of nft_holdings is there because of a CREDITED deposit of its token and, until
\* it is transferred, belongs to the user of such a deposit; and a CREDITED deposit
\* has its holding unless a deposit of its token was orphaned.
THEOREM HoldingsFollowDeposits == Spec => []HoldingsMatchDeposits
<1>1. NftWatcherInv => HoldingsMatchDeposits
    <2> SUFFICES ASSUME NftWatcherInv, NEW k \in Tokens
                 PROVE  /\ db.owner[k] # NoUser => RowsOf(k, "credited") # {}
                        /\ db.owner[k] # NoUser /\ k \notin referenced =>
                                \E l \in RowsOf(k, "credited") : db.rows[l].user = db.owner[k]
                        /\ RowsOf(k, "credited") # {} /\ ~OnceOrphaned(k) => db.owner[k] # NoUser
        BY DEF HoldingsMatchDeposits
    <2>1. Match(db, k, referenced)
        BY DEF NftWatcherInv, Matches
    <2> QED BY <2>1 DEF Match, RowsOf, OnceOrphaned, Orphaned
<1> QED BY <1>1, NftWatcherSafe, PTL

\* A CONFIRMED row becomes CREDITED in one step only, and at that moment its block is
\* on the chain, deep enough, has the log, and the log pays the new holder.
LEMMA CreditIsFinal ==
    ASSUME NftWatcherInv, NEW l \in Logs, CreditRow(l), session'.rows[l].status = "credited"
    PROVE  /\ session'.rows[l].block + Confirmations <= Len(chain)
           /\ l \in chain[session'.rows[l].block].logs
           /\ session'.owner[TokenOf[l]] = RecipientOf[l]
<1>1. /\ session \in Databases /\ RowsInv(session, Len(chain)) /\ Matches(session, referenced)
      /\ chain \in Seq(Blocks) /\ session.rows[l].status = "confirmed"
    BY CreditRowCases DEF NftWatcherInv, TypeOK
<1>2. /\ session.rows[l].block \in Nat /\ session.rows[l].block >= 1
      /\ session.rows[l].hash # NoHash =>
                l \in session.rows[l].hash[session.rows[l].block].logs
      /\ session.rows[l].block + Confirmations <= Len(chain)
    BY <1>1 DEF RowsInv, RowInv, Databases, Rows
<1>3. ~Rollback
    BY <1>1 DEF NftWatcherInv, PassInv, Rollback, CreditRow
<1>4. session' # Orphan(session, l)
    <2>1. session.rows[l].status \notin {"none", "credited"}
        BY <1>1
    <2>2. Orphan(session, l).rows[l].status = "orphaned"
        BY <1>1, <2>1, OrphanMatches
    <2> QED BY <2>2
<1>5. /\ session.rows[l].block <= Len(chain) /\ session.rows[l].hash # NoHash
      /\ session.rows[l].hash = Hash(session.rows[l].block) /\ session' = Credit(session, l)
    BY <1>1, <1>3, <1>4, CreditRowCases
<1>6. session.rows[l].block \in 1..Len(chain)
    BY <1>1, <1>2, <1>5, LenProperties
<1>7. l \in chain[session.rows[l].block].logs
    BY <1>1, <1>2, <1>5, <1>6, HashType
<1>8. /\ session'.rows[l].block = session.rows[l].block
      /\ session'.owner[TokenOf[l]] = RecipientOf[l]
    BY <1>1, <1>5, CreditMatches
<1> QED BY <1>2, <1>7, <1>8

\* confirm_and_credit_nfts gives a token to a user only for a deposit whose block is
\* canonical when it is compared, at least Confirmations deep, and pays that user;
\* no other step, a rollback included, makes a CONFIRMED row CREDITED.
THEOREM OnlyFinalDepositsAreHeld == Spec => HeldOnlyFinal
<1> DEFINE Step == \A l \in Logs :
            session.rows[l].status = "confirmed" /\ session'.rows[l].status = "credited" =>
                /\ session'.rows[l].block + Confirmations <= Len(chain)
                /\ l \in chain[session'.rows[l].block].logs
                /\ session'.owner[TokenOf[l]] = RecipientOf[l]
<1>1. NftWatcherInv /\ [Next]_vars => [Step]_vars
    <2> SUFFICES ASSUME NftWatcherInv, Next, NEW l \in Logs,
                        session.rows[l].status = "confirmed",
                        session'.rows[l].status = "credited"
                 PROVE  /\ session'.rows[l].block + Confirmations <= Len(chain)
                        /\ l \in chain[session'.rows[l].block].logs
                        /\ session'.owner[TokenOf[l]] = RecipientOf[l]
        OBVIOUS
    <2>1. /\ session \in Databases /\ db \in Databases /\ chain \in Seq(Blocks)
          /\ \A m \in Logs : session.rows[m] \in Rows /\ RowInv(session.rows[m], m, Len(chain))
        BY DEF NftWatcherInv, TypeOK, Databases, RowsInv
    <2>2. db.rows[l].status # "credited" /\ session' # session
        BY DEF NftWatcherInv, PassInv
    <2>3. ~Rollback
        BY <2>2 DEF Rollback
    <2>4. ~(Mine \/ Reorg \/ StartReorgs \/ FlushRejected \/ Fail)
        BY <2>2, <2>3 DEF Mine, Reorg, StartReorgs, FlushRejected, Fail
    <2>5. ~(BeginScan \/ Commit)
        <3>1. ASSUME BeginScan PROVE session'.rows = db.rows
            BY <2>1, <3>1 DEF BeginScan, Databases
        <3>2. ASSUME Commit PROVE session'.rows = session.rows
            BY <2>1, <3>2 DEF Commit, Databases
        <3> QED BY <2>2, <3>1, <3>2
    <2>6. ~(\E k \in Tokens, u \in Users : TransferNft(k, u))
        <3> SUFFICES ASSUME NEW k \in Tokens, NEW u \in Users, TransferNft(k, u)
                     PROVE  session'.rows = session.rows
            OBVIOUS
        <3> QED BY <2>1 DEF TransferNft, Databases
    <2>7. ~RecordBlock
        <3> SUFFICES ASSUME RecordBlock PROVE session'.rows[l].status # "credited"
            OBVIOUS
        <3>1. CASE session' = session
            BY <3>1
        <3>2. CASE session' # session
            <4>1. PICK n \in todo, view \in Heads :
                    /\ n \in 1..view
                    /\ session' = [session EXCEPT !.rows = [m \in Logs |->
                            IF m \in chain[n].logs THEN InsertIfNew(session.rows[m], n, m)
                            ELSE session.rows[m]]]
                BY <3>2 DEF RecordBlock
            <4>2. n \in 1..Len(chain)
                BY <2>1, <4>1, HeadsType
            <4>3. session'.rows[l] \in {session.rows[l], InsertIfNew(session.rows[l], n, l)}
                BY <2>1, <4>1 DEF Databases
            <4> QED BY <4>3 DEF InsertIfNew
        <3> QED BY <3>1, <3>2
    <2>8. ~StartCredit
        <3> SUFFICES ASSUME StartCredit PROVE session'.rows[l].status # "credited"
            OBVIOUS
        <3>1. session'.rows[l] \in {session.rows[l],
                                    [session.rows[l] EXCEPT !.status = "confirmed"]}
            BY <2>1 DEF StartCredit, Databases
        <3> QED BY <2>1, <3>1 DEF Rows
    <2>9. \A m \in Logs : ~CheckRow(m)
        <3> SUFFICES ASSUME NEW m \in Logs, CheckRow(m)
                     PROVE  session'.rows[l].status # "credited"
            OBVIOUS
        <3>1. \/ session' = session
              \/ \E owner : session' = [session EXCEPT !.rows[m].status = "orphaned",
                                                      !.owner = owner]
            BY DEF CheckRow
        <3>2. session'.rows[l].status = "orphaned" \/ session'.rows[l] = session.rows[l]
            <4>1. CASE session' = session
                BY <4>1
            <4>2. CASE session' # session
                <5>1. PICK owner : session' = [session EXCEPT !.rows[m].status = "orphaned",
                                                              !.owner = owner]
                    BY <3>1, <4>2
                <5>2. session'.rows =
                        [session.rows EXCEPT ![m] = [session.rows[m] EXCEPT !.status = "orphaned"]]
                    BY <2>1, <5>1 DEF Databases
                <5>3. session.rows \in [Logs -> Rows]
                    BY <2>1 DEF Databases
                <5> QED BY <5>2, <5>3 DEF Rows
            <4> QED BY <4>1, <4>2
        <3> QED BY <3>2
    <2>10. PICK m \in Logs : CreditRow(m)
        BY <2>4, <2>5, <2>6, <2>7, <2>8, <2>9 DEF Next, Watch
    <2>11. CASE m = l
        BY <2>10, <2>11, CreditIsFinal
    <2>12. CASE m # l
        <3>1. session.rows[m].status = "confirmed" /\ RowsInv(session, Len(chain))
              /\ Matches(session, referenced)
            BY <2>10, CreditRowCases DEF NftWatcherInv
        <3>2. l \in Logs \ {m}
            BY <2>12
        <3>3. session' = Orphan(session, m) \/ session' = Credit(session, m)
            BY <2>2, <2>3, <2>10, CreditRowCases
        <3>4. session'.rows[l] = session.rows[l]
            <4>1. session.rows[m].status \notin {"none", "credited"}
                BY <3>1
            <4>2. Orphan(session, m).rows[l] = session.rows[l]
                BY <2>1, <3>1, <3>2, <4>1, OrphanMatches
            <4>3. Credit(session, m).rows[l] = session.rows[l]
                BY <2>1, <3>1, <3>2, CreditMatches
            <4> QED BY <3>3, <4>2, <4>3
        <3> QED BY <3>4
    <2> QED BY <2>11, <2>12
<1> QED BY <1>1, NftWatcherSafe, PTL DEF Spec, HeldOnlyFinal
=============================================================================
