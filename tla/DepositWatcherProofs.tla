------------------------ MODULE DepositWatcherProofs ------------------------
(***************************************************************************)
(* Proofs about DepositWatcher, for every value of its constants.          *)
(***************************************************************************)
EXTENDS DepositWatcher, SequenceTheorems, TLAPS

-----------------------------------------------------------------------------
(* What the operators on the chain and on a row return.                      *)

\* The hash of a height of the chain is a sequence of blocks.
LEMMA HashType ==
    ASSUME chain \in Seq(Blocks), NEW n \in 0..Len(chain)
    PROVE  Hash(n) \in Seq(Blocks)
<1>1. \A i \in 1..n : chain[i] \in Blocks
    BY ElementOfSeq, LenProperties
<1> QED BY <1>1, SubSeqProperties, LenProperties DEF Hash

\* A log of a block is keyed by a transaction and a log index, and pays a user.
LEMMA LogsType ==
    ASSUME NEW block \in Blocks, NEW log \in Logs(block)
    PROVE  log.key \in Txs \X LogIndexes /\ log.user \in Users
<1>1. PICK p \in block.txs :
            log \in {[key |-> <<p[1], p[2] + i - 1>>, user |-> Recipients[p[1]][i]] :
                        i \in DOMAIN Recipients[p[1]]}
    BY DEF Logs
<1>2. PICK i \in DOMAIN Recipients[p[1]] :
            log = [key |-> <<p[1], p[2] + i - 1>>, user |-> Recipients[p[1]][i]]
    BY <1>1
<1>3. p[1] \in Txs /\ p[2] \in Bases
    BY DEF Blocks
<1>4. Recipients[p[1]] \in Seq(Users)
    BY <1>3, WatcherAssumption
<1>5. Recipients[p[1]][i] \in Users
    BY <1>4, ElementOfSeq, LenProperties
<1>6. p[2] + i - 1 \in LogIndexes
    BY <1>3, WatcherAssumption
<1> QED BY <1>2, <1>3, <1>5, <1>6

\* _insert_if_new returns a row, and a known row keeps its revision or, when it
\* was orphaned, takes the next one.
LEMMA InsertIfNewType ==
    ASSUME NEW row \in RowTypes, NEW n \in Nat, NEW hash \in Seq(Blocks), NEW user \in Users
    PROVE  /\ InsertIfNew(row, n, hash, user) \in RowTypes
           /\ row.status = "none" =>
                /\ InsertIfNew(row, n, hash, user).status = "seen"
                /\ InsertIfNew(row, n, hash, user).rev = 0
           /\ row.status = "orphaned" =>
                /\ InsertIfNew(row, n, hash, user).status = "seen"
                /\ InsertIfNew(row, n, hash, user).rev = row.rev + 1
           /\ row.status \notin {"none", "orphaned"} => InsertIfNew(row, n, hash, user) = row
<1>1. CASE row.status = "none"
    BY <1>1 DEF InsertIfNew, NewRow, RowTypes, Statuses
<1>2. CASE row.status = "orphaned"
    BY <1>2 DEF InsertIfNew, RowTypes, Statuses
<1>3. CASE row.status \notin {"none", "orphaned"}
    BY <1>3 DEF InsertIfNew, RowTypes, Statuses
<1> QED BY <1>1, <1>2, <1>3

\* Recording the logs of a block changes a row as _insert_if_new does or not at
\* all, and never touches the row of a simulated deposit.
LEMMA RecordLogsType ==
    ASSUME chain \in Seq(Blocks), NEW n \in 1..Len(chain), NEW rows \in [Rows -> RowTypes]
    PROVE  /\ RecordLogs(rows, n) \in [Rows -> RowTypes]
           /\ \A s \in Sims : RecordLogs(rows, n)[s] = rows[s]
           /\ \A k \in Rows :
                \/ RecordLogs(rows, n)[k] = rows[k]
                \/ \E user \in Users :
                        RecordLogs(rows, n)[k] = InsertIfNew(rows[k], n, Hash(n), user)
<1>1. chain[n] \in Blocks /\ n \in Nat /\ Hash(n) \in Seq(Blocks)
    BY ElementOfSeq, LenProperties, HashType
<1>2. \A k \in Rows : (\E log \in Logs(chain[n]) : log.key = k) =>
            /\ k \in Txs \X LogIndexes
            /\ (CHOOSE log \in Logs(chain[n]) : log.key = k).user \in Users
    <2> SUFFICES ASSUME NEW k \in Rows, NEW l \in Logs(chain[n]), l.key = k
                 PROVE  /\ k \in Txs \X LogIndexes
                        /\ (CHOOSE log \in Logs(chain[n]) : log.key = k).user \in Users
        OBVIOUS
    <2>1. (CHOOSE log \in Logs(chain[n]) : log.key = k) \in Logs(chain[n])
        OBVIOUS
    <2> QED BY <1>1, <2>1, LogsType
<1>3. \A k \in Rows :
        \/ RecordLogs(rows, n)[k] = rows[k]
        \/ \E user \in Users :
                RecordLogs(rows, n)[k] = InsertIfNew(rows[k], n, Hash(n), user)
    BY <1>2 DEF RecordLogs
<1>4. \A k \in Rows : RecordLogs(rows, n)[k] \in RowTypes
    BY <1>1, <1>3, InsertIfNewType
<1>5. RecordLogs(rows, n) \in [Rows -> RowTypes]
    BY <1>4 DEF RecordLogs
<1>6. \A s \in Sims : RecordLogs(rows, n)[s] = rows[s]
    BY <1>2, NullAssumption DEF RecordLogs, Rows
<1> QED BY <1>3, <1>5, <1>6

-----------------------------------------------------------------------------
(* Type correctness.                                                         *)

LEMMA TypeInit == Init => TypeOK
<1> SUFFICES ASSUME Init PROVE TypeOK
    OBVIOUS
<1>1. NoRow \in RowTypes
    BY DEF NoRow, RowTypes, Statuses
<1>2. db \in Databases
    BY <1>1 DEF Init, Databases
<1> QED BY <1>2, WatcherAssumption, EmptySeq DEF Init, TypeOK

LEMMA TypeMine == TypeOK /\ Mine => TypeOK'
<1> SUFFICES ASSUME TypeOK, Mine PROVE TypeOK'
    OBVIOUS
<1>1. PICK S \in Placements(Txs \ MinedIn(chain, Len(chain))) :
            chain' = Append(chain, [salt |-> TipSalt, txs |-> S])
    BY DEF Mine
<1>2. TipSalt \in Salts
    <2>1. CASE chain = <<>>
        BY <2>1, WatcherAssumption DEF TipSalt
    <2>2. CASE chain # <<>>
        <3>1. Len(chain) \in 1..Len(chain)
            BY <2>2, EmptySeq, LenProperties DEF TypeOK
        <3>2. chain[Len(chain)] \in Blocks
            BY <3>1, ElementOfSeq DEF TypeOK
        <3> QED BY <2>2, <3>2 DEF TipSalt, Blocks
    <2> QED BY <2>1, <2>2
<1>3. [salt |-> TipSalt, txs |-> S] \in Blocks
    BY <1>2 DEF Blocks, Placements
<1>4. chain' \in Seq(Blocks) /\ Len(chain') = Len(chain) + 1
    BY <1>1, <1>3, AppendProperties DEF TypeOK
<1> QED BY <1>4, LenProperties, WatcherAssumption DEF TypeOK, Mine, watcherVars

LEMMA TypeReorg == TypeOK /\ Reorg => TypeOK'
<1> SUFFICES ASSUME TypeOK, Reorg PROVE TypeOK'
    OBVIOUS
<1>1. PICK n \in 0..(Len(chain) - 1), s \in Salts :
        \E height \in [Txs \ MinedIn(chain, n) -> {0} \cup (n + 1)..Len(chain)],
           base \in [Txs \ MinedIn(chain, n) -> Bases] :
                chain' = Replaced(n, s, height, base)
    BY DEF Reorg
<1>2. PICK height \in [Txs \ MinedIn(chain, n) -> {0} \cup (n + 1)..Len(chain)],
           base \in [Txs \ MinedIn(chain, n) -> Bases] :
                chain' = Replaced(n, s, height, base)
    BY <1>1
<1>3. Len(chain) \in Nat /\ \A h \in 1..Len(chain) : chain[h] \in Blocks
    BY LenProperties, ElementOfSeq DEF TypeOK
<1>4. \A h \in 1..Len(chain) : Replaced(n, s, height, base)[h] \in Blocks
    BY <1>3 DEF Blocks, Replaced
<1>5. chain' \in [1..Len(chain) -> Blocks]
    BY <1>2, <1>4 DEF Replaced
<1>6. chain' \in Seq(Blocks) /\ Len(chain') = Len(chain)
    BY <1>3, <1>5
<1>7. reorgs' \in 0..MaxReorgs
    BY WatcherAssumption DEF TypeOK, Reorg
<1> QED BY <1>6, <1>7 DEF TypeOK, Reorg, watcherVars

LEMMA TypeScan == TypeOK /\ BeginScan => TypeOK'
<1> SUFFICES ASSUME TypeOK, BeginScan PROVE TypeOK'
    OBVIOUS
<1>1. PICK head \in Heads :
        /\ session' = [db EXCEPT !.cursor =
                            IF db.cursor = NoCursor THEN head ELSE Larger(db.cursor, head)]
        /\ todo' = FromBlock(db.cursor)..head
    BY DEF BeginScan
<1>2. head \in Int
    BY <1>1 DEF Heads
<1>3. session' \in Databases /\ session'.cursor \in Int
    BY <1>1, <1>2 DEF TypeOK, Databases, Larger
<1>4. todo' \subseteq Int
    BY <1>1
<1> QED BY <1>3, <1>4 DEF TypeOK, BeginScan

LEMMA TypeRecord == TypeOK /\ RecordBlock => TypeOK'
<1> SUFFICES ASSUME TypeOK, RecordBlock PROVE TypeOK'
    OBVIOUS
<1>1. PICK n \in todo, view \in Heads :
        /\ session' = IF n \in 1..view
                      THEN [session EXCEPT !.rows = RecordLogs(session.rows, n)]
                      ELSE session
        /\ todo' = todo \ {n}
    BY DEF RecordBlock
<1>2. n \in 1..view => RecordLogs(session.rows, n) \in [Rows -> RowTypes]
    BY RecordLogsType, LenProperties DEF TypeOK, Heads, Databases
<1>3. session' \in Databases /\ session'.cursor = session.cursor
    BY <1>1, <1>2 DEF TypeOK, Databases
<1> QED BY <1>1, <1>3 DEF TypeOK, RecordBlock

LEMMA TypeStartCredit == TypeOK /\ StartCredit => TypeOK'
<1> SUFFICES ASSUME TypeOK, StartCredit PROVE TypeOK'
    OBVIOUS
<1>1. PICK head \in Heads :
        session' = [session EXCEPT !.rows = [k \in Rows |->
            IF Final(session.rows[k], head)
            THEN [session.rows[k] EXCEPT !.status = "confirmed"]
            ELSE session.rows[k]]]
    BY DEF StartCredit
<1>2. \A row \in RowTypes : [row EXCEPT !.status = "confirmed"] \in RowTypes
    BY DEF RowTypes, Statuses
<1>3. session' \in Databases /\ session'.cursor = session.cursor
    BY <1>1, <1>2 DEF TypeOK, Databases
<1>4. todo' \subseteq Rows /\ pc' = "credit"
    BY DEF StartCredit
<1> QED BY <1>3, <1>4 DEF TypeOK, StartCredit

\* A change of status and an additional key leave a database well typed.
LEMMA StatusType ==
    ASSUME NEW d \in Databases, NEW k \in Rows, NEW st \in Statuses,
           NEW keys \in SUBSET ({"credit", "reverse"} \X Rows \X Nat)
    PROVE  /\ [d EXCEPT !.rows[k].status = st, !.posted = @ \cup keys] \in Databases
           /\ [d EXCEPT !.rows[k].status = st] \in Databases
<1>1. [d.rows[k] EXCEPT !.status = st] \in RowTypes
    BY DEF Databases, RowTypes
<1>2. [d.rows EXCEPT ![k].status = st] \in [Rows -> RowTypes]
    BY <1>1 DEF Databases
<1>3. d.posted \cup keys \in SUBSET ({"credit", "reverse"} \X Rows \X Nat)
    BY DEF Databases
<1> QED BY <1>2, <1>3 DEF Databases

LEMMA KeyType ==
    ASSUME NEW d \in Databases, NEW k \in Rows
    PROVE  /\ d.rows[k].rev \in Nat
           /\ {CreditKey(k, d.rows[k].rev)} \in SUBSET ({"credit", "reverse"} \X Rows \X Nat)
           /\ {ReverseKey(k, d.rows[k].rev)} \in SUBSET ({"credit", "reverse"} \X Rows \X Nat)
    BY DEF Databases, RowTypes, CreditKey, ReverseKey

LEMMA TypeCredit == ASSUME TypeOK, NEW k \in Rows, CreditRow(k) PROVE TypeOK'
<1>1. \/ session' = session
      \/ session' = [session EXCEPT !.rows[k].status = "credited",
                                    !.posted = @ \cup {CreditKey(k, session.rows[k].rev)}]
      \/ session' = [session EXCEPT !.rows[k].status = "orphaned"]
    BY DEF CreditRow
<1>2. session' \in Databases
    <2>1. session \in Databases /\ "credited" \in Statuses /\ "orphaned" \in Statuses
        BY DEF TypeOK, Statuses
    <2>2. {CreditKey(k, session.rows[k].rev)} \in SUBSET ({"credit", "reverse"} \X Rows \X Nat)
        BY <2>1, KeyType
    <2>3. /\ [session EXCEPT !.rows[k].status = "orphaned"] \in Databases
          /\ [session EXCEPT !.rows[k].status = "credited",
                             !.posted = @ \cup {CreditKey(k, session.rows[k].rev)}] \in Databases
        BY <2>1, <2>2, StatusType, Zenon
    <2> QED BY <1>1, <2>1, <2>3
<1>3. session'.cursor = session.cursor
    BY <1>1 DEF TypeOK, Databases
<1> QED BY <1>2, <1>3 DEF TypeOK, CreditRow

LEMMA TypeStartReorgs == TypeOK /\ StartReorgs => TypeOK'
    BY DEF TypeOK, StartReorgs

LEMMA TypeCheck == ASSUME TypeOK, NEW k \in Rows, CheckRow(k) PROVE TypeOK'
<1>1. \/ session' = session
      \/ session' = [session EXCEPT !.rows[k].status = "orphaned",
                                    !.posted = @ \cup {ReverseKey(k, session.rows[k].rev)}]
      \/ session' = [session EXCEPT !.rows[k].status = "orphaned"]
    BY DEF CheckRow, TypeOK, Databases
<1>2. session' \in Databases
    <2>1. session \in Databases /\ "orphaned" \in Statuses
        BY DEF TypeOK, Statuses
    <2>2. {ReverseKey(k, session.rows[k].rev)} \in SUBSET ({"credit", "reverse"} \X Rows \X Nat)
        BY <2>1, KeyType
    <2>3. /\ [session EXCEPT !.rows[k].status = "orphaned"] \in Databases
          /\ [session EXCEPT !.rows[k].status = "orphaned",
                             !.posted = @ \cup {ReverseKey(k, session.rows[k].rev)}] \in Databases
        BY <2>1, <2>2, StatusType, Zenon
    <2> QED BY <1>1, <2>1, <2>3
<1>3. session'.cursor = session.cursor
    BY <1>1 DEF TypeOK, Databases
<1>4. lowest' \in Int
    BY DEF CheckRow, Smaller, TypeOK, Databases, RowTypes
<1> QED BY <1>2, <1>3, <1>4 DEF TypeOK, CheckRow

LEMMA TypeCommit == TypeOK /\ Commit => TypeOK'
<1> SUFFICES ASSUME TypeOK, Commit PROVE TypeOK'
    OBVIOUS
<1>1. session' \in Databases
    BY DEF TypeOK, Commit, Databases, Smaller
<1> QED BY <1>1, WatcherAssumption DEF TypeOK, Commit

LEMMA TypeFail == TypeOK /\ Fail => TypeOK'
    BY WatcherAssumption DEF TypeOK, Fail

\* The session and the database after a simulated deposit was added.
LEMMA AddType ==
    ASSUME NEW d \in Databases, NEW s \in Sims, NEW u \in Users
    PROVE  [d EXCEPT !.rows[s] = NewRow("credited", 0, ZeroHash, u),
                     !.posted = @ \cup {CreditKey(s, 0)}] \in Databases
<1>1. NewRow("credited", 0, ZeroHash, u) \in RowTypes
    BY DEF NewRow, RowTypes, Statuses
<1>2. s \in Rows /\ CreditKey(s, 0) \in {"credit", "reverse"} \X Rows \X Nat
    BY DEF Rows, CreditKey
<1>3. [d.rows EXCEPT ![s] = NewRow("credited", 0, ZeroHash, u)] \in [Rows -> RowTypes]
    BY <1>1, <1>2 DEF Databases
<1>4. d.posted \cup {CreditKey(s, 0)} \in SUBSET ({"credit", "reverse"} \X Rows \X Nat)
    BY <1>2 DEF Databases
<1> QED BY <1>3, <1>4 DEF Databases

LEMMA TypeFaucet ==
    ASSUME TypeOK, NEW s \in Sims, NEW u \in Users, FaucetSimulate(s, u)
    PROVE  TypeOK'
<1>1. db' \in Databases /\ session' \in Databases
    BY AddType DEF TypeOK, FaucetSimulate
<1>2. session'.cursor = session.cursor
    BY DEF TypeOK, FaucetSimulate, Databases
<1>3. session = db => session' = db'
    BY DEF FaucetSimulate
<1> QED BY <1>1, <1>2, <1>3 DEF TypeOK, FaucetSimulate

LEMMA TypeStep == TypeOK /\ [Next]_vars => TypeOK'
<1> SUFFICES ASSUME TypeOK, [Next]_vars PROVE TypeOK'
    OBVIOUS
<1>1. CASE UNCHANGED vars
    BY <1>1 DEF vars, TypeOK
<1>2. CASE Watch
    BY <1>2, TypeScan, TypeRecord, TypeStartCredit, TypeCredit, TypeStartReorgs, TypeCheck,
       TypeCommit DEF Watch
<1>3. CASE \E s \in Sims, u \in Users : FaucetSimulate(s, u)
    BY <1>3, TypeFaucet
<1> QED BY <1>1, <1>2, <1>3, TypeMine, TypeReorg, TypeFail DEF Next

\* The state of the watcher is well typed in every reachable state: rows, ledger
\* keys and cursor of the committed and of the open transaction, and a session
\* that agrees with the database whenever no pass is under way.
THEOREM WatcherTypeCorrect == Spec => []TypeOK
    BY TypeInit, TypeStep, PTL DEF Spec

-----------------------------------------------------------------------------
(* The ledger follows the rows.                                              *)

\* LedgerMatchesRows is not inductive: that a credit about to be posted is new
\* depends on the revisions.  Entry states, for one row and one revision of a
\* database, what is posted: nothing above the current revision, nothing under
\* it before the row is credited, and a credit that is outstanding exactly while
\* the row is CREDITED at that revision.
Entry(d, k, v) ==
    LET row == d.rows[k]
        credit == CreditKey(k, v) \in d.posted
        reversal == ReverseKey(k, v) \in d.posted
    IN  /\ reversal => credit
        /\ credit => v <= row.rev
        /\ (credit /\ ~reversal) <=> (row.status = "credited" /\ row.rev = v)
        /\ row.status \in {"none", "seen", "confirmed"} /\ v = row.rev => ~credit
        /\ row.status = "none" => row.rev = 0

LedgerInv(d) == \A k \in Rows, v \in Nat : Entry(d, k, v)

\* What the rows a phase still has to visit have in common, and that the
\* session knows no simulated deposit the database does not.
PhaseInv ==
    /\ pc = "credit" => \A k \in todo : session.rows[k].status = "confirmed"
    /\ pc = "reorgs" => \A k \in todo : session.rows[k].status \in {"seen", "confirmed", "credited"}
    /\ \A s \in Sims : db.rows[s].status = "none" => session.rows[s].status = "none"

WatcherInv == TypeOK /\ LedgerInv(db) /\ LedgerInv(session) /\ PhaseInv

\* A credit or a reversal of the ledger is a posted key.
LEMMA LedgerPairs ==
    ASSUME NEW d \in Databases
    PROVE  /\ \A k, v : <<k, v>> \in Credits(d) <=> CreditKey(k, v) \in d.posted
           /\ \A k, v : <<k, v>> \in Reversals(d) <=> ReverseKey(k, v) \in d.posted
           /\ Credits(d) \subseteq Rows \X Nat /\ Reversals(d) \subseteq Rows \X Nat
<1>1. \A p \in d.posted : p = <<p[1], p[2], p[3]>>
    BY DEF Databases
<1>2. \A k, v : <<k, v>> \in Credits(d) <=> CreditKey(k, v) \in d.posted
    <2> SUFFICES ASSUME NEW k, NEW v
                 PROVE  <<k, v>> \in Credits(d) <=> CreditKey(k, v) \in d.posted
        OBVIOUS
    <2> QED BY <1>1 DEF Credits, CreditKey
<1>3. \A k, v : <<k, v>> \in Reversals(d) <=> ReverseKey(k, v) \in d.posted
    <2> SUFFICES ASSUME NEW k, NEW v
                 PROVE  <<k, v>> \in Reversals(d) <=> ReverseKey(k, v) \in d.posted
        OBVIOUS
    <2> QED BY <1>1 DEF Reversals, ReverseKey
<1>4. Credits(d) \subseteq Rows \X Nat /\ Reversals(d) \subseteq Rows \X Nat
    BY DEF Credits, Reversals, Databases
<1> QED BY <1>2, <1>3, <1>4

\* The invariant of every row and revision says what Balanced says of the set of
\* all of them.
LEMMA LedgerInvBalanced ==
    ASSUME NEW d \in Databases, LedgerInv(d)
    PROVE  Balanced(d)
<1>1. \A k, v : <<k, v>> \in Credits(d) <=> CreditKey(k, v) \in d.posted
    BY LedgerPairs
<1>2. \A k, v : <<k, v>> \in Reversals(d) <=> ReverseKey(k, v) \in d.posted
    BY LedgerPairs
<1>3. Credits(d) \subseteq Rows \X Nat /\ Reversals(d) \subseteq Rows \X Nat
    BY LedgerPairs
<1>4. Reversals(d) \subseteq Credits(d)
    BY <1>1, <1>2, <1>3 DEF LedgerInv, Entry
<1>5. Credits(d) \ Reversals(d) =
            {<<k, d.rows[k].rev>> : k \in {r \in Rows : d.rows[r].status = "credited"}}
    <2>1. ASSUME NEW e \in Credits(d) \ Reversals(d)
          PROVE  e \in {<<k, d.rows[k].rev>> : k \in {r \in Rows : d.rows[r].status = "credited"}}
        <3>1. PICK k \in Rows, v \in Nat : e = <<k, v>>
            BY <2>1, <1>3
        <3>2. d.rows[k].status = "credited" /\ d.rows[k].rev = v
            BY <2>1, <3>1, <1>1, <1>2 DEF LedgerInv, Entry
        <3> QED BY <3>1, <3>2
    <2>2. ASSUME NEW k \in Rows, d.rows[k].status = "credited"
          PROVE  <<k, d.rows[k].rev>> \in Credits(d) \ Reversals(d)
        <3>1. d.rows[k].rev \in Nat
            BY KeyType
        <3> QED BY <2>2, <3>1, <1>1, <1>2 DEF LedgerInv, Entry
    <2> QED BY <2>1, <2>2
<1> QED BY <1>4, <1>5 DEF Balanced

LEMMA WatcherInvInit == Init => WatcherInv
<1> SUFFICES ASSUME Init PROVE WatcherInv
    OBVIOUS
<1>1. LedgerInv(db) /\ LedgerInv(session)
    BY DEF Init, LedgerInv, Entry, NoRow, CreditKey, ReverseKey
<1>2. PhaseInv
    BY DEF Init, PhaseInv
<1> QED BY <1>1, <1>2, TypeInit DEF WatcherInv

\* A row with an unchanged status and revision, in a database with the same
\* keys for it, keeps its entries.
LEMMA EntryFrame ==
    ASSUME NEW d, NEW e, NEW k \in Rows, NEW v \in Nat, Entry(d, k, v),
           e.rows[k].status = d.rows[k].status, e.rows[k].rev = d.rows[k].rev,
           CreditKey(k, v) \in e.posted <=> CreditKey(k, v) \in d.posted,
           ReverseKey(k, v) \in e.posted <=> ReverseKey(k, v) \in d.posted
    PROVE  Entry(e, k, v)
    BY DEF Entry

\* confirm_and_credit on a CONFIRMED row: the credit is a new key.
LEMMA CreditLedger ==
    ASSUME NEW d \in Databases, LedgerInv(d), NEW k \in Rows, d.rows[k].status = "confirmed"
    PROVE  LedgerInv([d EXCEPT !.rows[k].status = "credited",
                               !.posted = @ \cup {CreditKey(k, d.rows[k].rev)}])
<1> DEFINE e == [d EXCEPT !.rows[k].status = "credited",
                          !.posted = @ \cup {CreditKey(k, d.rows[k].rev)}]
<1>1. /\ e.posted = d.posted \cup {CreditKey(k, d.rows[k].rev)}
      /\ \A r \in Rows \ {k} : e.rows[r] = d.rows[r]
      /\ e.rows[k].status = "credited" /\ e.rows[k].rev = d.rows[k].rev
    BY DEF Databases, RowTypes
<1>2. d.rows[k].rev \in Nat
    BY KeyType
<1> HIDE DEF e
<1> SUFFICES ASSUME NEW r \in Rows, NEW v \in Nat PROVE Entry(e, r, v)
    BY DEF e, LedgerInv
<1>3. Entry(d, r, v)
    BY DEF LedgerInv
<1>4. CASE r # k
    BY <1>1, <1>3, <1>4, EntryFrame DEF CreditKey, ReverseKey
<1>5. CASE r = k
    BY <1>1, <1>2, <1>3, <1>5 DEF Entry, CreditKey, ReverseKey
<1> QED BY <1>4, <1>5

\* A row that is not CREDITED is orphaned and posts nothing.
LEMMA OrphanLedger ==
    ASSUME NEW d \in Databases, LedgerInv(d), NEW k \in Rows,
           d.rows[k].status \in {"seen", "confirmed"}
    PROVE  LedgerInv([d EXCEPT !.rows[k].status = "orphaned"])
<1> DEFINE e == [d EXCEPT !.rows[k].status = "orphaned"]
<1>1. /\ e.posted = d.posted
      /\ \A r \in Rows \ {k} : e.rows[r] = d.rows[r]
      /\ e.rows[k].status = "orphaned" /\ e.rows[k].rev = d.rows[k].rev
    BY DEF Databases, RowTypes
<1> HIDE DEF e
<1> SUFFICES ASSUME NEW r \in Rows, NEW v \in Nat PROVE Entry(e, r, v)
    BY DEF e, LedgerInv
<1>2. Entry(d, r, v)
    BY DEF LedgerInv
<1>3. CASE r # k
    BY <1>1, <1>2, <1>3, EntryFrame
<1>4. CASE r = k
    BY <1>1, <1>2, <1>4 DEF Entry
<1> QED BY <1>3, <1>4

\* A CREDITED row is orphaned and its credit reversed.
LEMMA ReverseLedger ==
    ASSUME NEW d \in Databases, LedgerInv(d), NEW k \in Rows, d.rows[k].status = "credited"
    PROVE  LedgerInv([d EXCEPT !.rows[k].status = "orphaned",
                               !.posted = @ \cup {ReverseKey(k, d.rows[k].rev)}])
<1> DEFINE e == [d EXCEPT !.rows[k].status = "orphaned",
                          !.posted = @ \cup {ReverseKey(k, d.rows[k].rev)}]
<1>1. /\ e.posted = d.posted \cup {ReverseKey(k, d.rows[k].rev)}
      /\ \A r \in Rows \ {k} : e.rows[r] = d.rows[r]
      /\ e.rows[k].status = "orphaned" /\ e.rows[k].rev = d.rows[k].rev
    BY DEF Databases, RowTypes
<1>2. d.rows[k].rev \in Nat
    BY KeyType
<1> HIDE DEF e
<1> SUFFICES ASSUME NEW r \in Rows, NEW v \in Nat PROVE Entry(e, r, v)
    BY DEF e, LedgerInv
<1>3. Entry(d, r, v)
    BY DEF LedgerInv
<1>4. CASE r # k
    BY <1>1, <1>3, <1>4, EntryFrame DEF CreditKey, ReverseKey
<1>5. CASE r = k
    BY <1>1, <1>2, <1>3, <1>5 DEF Entry, CreditKey, ReverseKey
<1> QED BY <1>4, <1>5

\* A simulated deposit is added CREDITED, with its credit.
LEMMA FaucetLedger ==
    ASSUME NEW d \in Databases, LedgerInv(d), NEW s \in Sims, NEW u,
           d.rows[s].status = "none"
    PROVE  LedgerInv([d EXCEPT !.rows[s] = NewRow("credited", 0, ZeroHash, u),
                               !.posted = @ \cup {CreditKey(s, 0)}])
<1> DEFINE e == [d EXCEPT !.rows[s] = NewRow("credited", 0, ZeroHash, u),
                          !.posted = @ \cup {CreditKey(s, 0)}]
<1>1. /\ s \in Rows
      /\ e.posted = d.posted \cup {CreditKey(s, 0)}
      /\ \A r \in Rows \ {s} : e.rows[r] = d.rows[r]
      /\ e.rows[s].status = "credited" /\ e.rows[s].rev = 0
    BY DEF Databases, NewRow, Rows
<1> HIDE DEF e
<1> SUFFICES ASSUME NEW r \in Rows, NEW v \in Nat PROVE Entry(e, r, v)
    BY DEF e, LedgerInv
<1>2. Entry(d, r, v)
    BY DEF LedgerInv
<1>3. CASE r # s
    BY <1>1, <1>2, <1>3, EntryFrame DEF CreditKey, ReverseKey
<1>4. CASE r = s
    BY <1>1, <1>2, <1>4 DEF Entry, CreditKey, ReverseKey
<1> QED BY <1>3, <1>4

LEMMA WatcherInvScan == WatcherInv /\ BeginScan => LedgerInv(session)' /\ PhaseInv'
<1> SUFFICES ASSUME WatcherInv, BeginScan PROVE LedgerInv(session)' /\ PhaseInv'
    OBVIOUS
<1>1. session'.rows = db.rows /\ session'.posted = db.posted /\ pc' = "record" /\ db' = db
    BY DEF BeginScan, WatcherInv, TypeOK, Databases
<1>2. LedgerInv(session')
    BY <1>1, EntryFrame DEF WatcherInv, LedgerInv
<1> QED BY <1>1, <1>2 DEF PhaseInv

LEMMA WatcherInvRecord == WatcherInv /\ RecordBlock => LedgerInv(session)' /\ PhaseInv'
<1> SUFFICES ASSUME WatcherInv, RecordBlock PROVE LedgerInv(session)' /\ PhaseInv'
    OBVIOUS
<1>1. PICK n \in todo, view \in Heads :
        session' = IF n \in 1..view
                   THEN [session EXCEPT !.rows = RecordLogs(session.rows, n)]
                   ELSE session
    BY DEF RecordBlock
<1>2. CASE n \notin 1..view
    BY <1>1, <1>2 DEF WatcherInv, PhaseInv, RecordBlock
<1>3. CASE n \in 1..view
    <2>1. n \in 1..Len(chain) /\ n \in Nat /\ chain \in Seq(Blocks) /\ Hash(n) \in Seq(Blocks)
        BY <1>3, LenProperties, HashType DEF Heads, WatcherInv, TypeOK
    <2>2. session.rows \in [Rows -> RowTypes]
        BY DEF WatcherInv, TypeOK, Databases
    <2>3. session'.rows = RecordLogs(session.rows, n) /\ session'.posted = session.posted
        BY <1>1, <1>3 DEF WatcherInv, TypeOK, Databases
    <2>4. \A s \in Sims : session'.rows[s] = session.rows[s]
        BY <2>1, <2>2, <2>3, RecordLogsType
    <2>5. PhaseInv'
        BY <2>4 DEF PhaseInv, WatcherInv, RecordBlock
    <2>6. ASSUME NEW k \in Rows, NEW v \in Nat PROVE Entry(session', k, v)
        <3>1. Entry(session, k, v) /\ session.rows[k].rev \in Nat
            BY <2>2 DEF WatcherInv, LedgerInv, RowTypes
        <3>2. CASE session'.rows[k] = session.rows[k]
            BY <2>3, <3>1, <3>2, EntryFrame
        <3>3. CASE \E user \in Users :
                        session'.rows[k] = InsertIfNew(session.rows[k], n, Hash(n), user)
            <4>1. \/ /\ session.rows[k].status = "none"
                     /\ session'.rows[k].status = "seen" /\ session'.rows[k].rev = 0
                  \/ /\ session.rows[k].status = "orphaned"
                     /\ session'.rows[k].status = "seen"
                     /\ session'.rows[k].rev = session.rows[k].rev + 1
                  \/ session'.rows[k] = session.rows[k]
                BY <3>3, <2>1, <2>2, InsertIfNewType
            <4> QED BY <4>1, <3>1, <2>3, EntryFrame DEF Entry
        <3> QED BY <2>1, <2>2, <2>3, <3>2, <3>3, RecordLogsType
    <2> QED BY <2>5, <2>6 DEF LedgerInv
<1> QED BY <1>2, <1>3

LEMMA WatcherInvStartCredit == WatcherInv /\ StartCredit => LedgerInv(session)' /\ PhaseInv'
<1> SUFFICES ASSUME WatcherInv, StartCredit PROVE LedgerInv(session)' /\ PhaseInv'
    OBVIOUS
<1>1. PICK head \in Heads :
        /\ session' = [session EXCEPT !.rows = [k \in Rows |->
                IF Final(session.rows[k], head) THEN [session.rows[k] EXCEPT !.status = "confirmed"]
                ELSE session.rows[k]]]
        /\ todo' = {k \in Rows : Final(session.rows[k], head) \/ session.rows[k].status = "confirmed"}
    BY DEF StartCredit
<1>2. session'.posted = session.posted
    BY <1>1 DEF WatcherInv, TypeOK, Databases
<1>3. \A k \in Rows :
        IF Final(session.rows[k], head)
        THEN session'.rows[k].status = "confirmed" /\ session'.rows[k].rev = session.rows[k].rev
        ELSE session'.rows[k] = session.rows[k]
    BY <1>1 DEF WatcherInv, TypeOK, Databases, RowTypes
<1>4. ASSUME NEW k \in Rows, NEW v \in Nat PROVE Entry(session', k, v)
    <2>1. Entry(session, k, v)
        BY DEF WatcherInv, LedgerInv
    <2> QED BY <1>2, <1>3, <2>1 DEF Entry, Final
<1>5. PhaseInv'
    BY <1>1, <1>3 DEF PhaseInv, WatcherInv, StartCredit, Rows, Final
<1> QED BY <1>4, <1>5 DEF LedgerInv

LEMMA WatcherInvCredit ==
    ASSUME WatcherInv, NEW k \in Rows, CreditRow(k)
    PROVE  LedgerInv(session)' /\ PhaseInv'
<1>1. session \in Databases /\ session.rows[k].status = "confirmed" /\ LedgerInv(session)
    BY DEF WatcherInv, TypeOK, PhaseInv, CreditRow
<1>2. \/ session' = session
      \/ session' = [session EXCEPT !.rows[k].status = "credited",
                                    !.posted = @ \cup {CreditKey(k, session.rows[k].rev)}]
      \/ session' = [session EXCEPT !.rows[k].status = "orphaned"]
    BY DEF CreditRow
<1>3. LedgerInv(session')
    BY <1>1, <1>2, CreditLedger, OrphanLedger
<1>4. \A r \in Rows \ {k} : session'.rows[r] = session.rows[r]
    BY <1>1, <1>2 DEF Databases
<1>5. PhaseInv'
    <2>1. \A r \in todo' : session'.rows[r].status = "confirmed"
        BY <1>4 DEF CreditRow, WatcherInv, TypeOK, PhaseInv
    <2>2. \A s \in Sims : db'.rows[s].status = "none" => session'.rows[s].status = "none"
        BY <1>1, <1>4 DEF CreditRow, WatcherInv, PhaseInv, Rows
    <2> QED BY <2>1, <2>2 DEF PhaseInv, CreditRow
<1> QED BY <1>3, <1>5

LEMMA WatcherInvStartReorgs == WatcherInv /\ StartReorgs => LedgerInv(session)' /\ PhaseInv'
    BY DEF WatcherInv, StartReorgs, PhaseInv

LEMMA WatcherInvCheck ==
    ASSUME WatcherInv, NEW k \in Rows, CheckRow(k)
    PROVE  LedgerInv(session)' /\ PhaseInv'
<1>1. /\ session \in Databases /\ LedgerInv(session)
      /\ session.rows[k].status \in {"seen", "confirmed", "credited"}
    BY DEF WatcherInv, TypeOK, PhaseInv, CheckRow
<1>2. \/ session' = session
      \/ /\ session.rows[k].status = "credited"
         /\ session' = [session EXCEPT !.rows[k].status = "orphaned",
                                       !.posted = @ \cup {ReverseKey(k, session.rows[k].rev)}]
      \/ /\ session.rows[k].status # "credited"
         /\ session' = [session EXCEPT !.rows[k].status = "orphaned"]
    BY DEF CheckRow, WatcherInv, TypeOK, Databases
<1>3. LedgerInv(session')
    BY <1>1, <1>2, ReverseLedger, OrphanLedger
<1>4. \A r \in Rows \ {k} : session'.rows[r] = session.rows[r]
    BY <1>1, <1>2 DEF Databases
<1>5. PhaseInv'
    <2>1. \A r \in todo' : session'.rows[r].status \in {"seen", "confirmed", "credited"}
        BY <1>4 DEF CheckRow, WatcherInv, TypeOK, PhaseInv
    <2>2. \A s \in Sims : db'.rows[s].status = "none" => session'.rows[s].status = "none"
        BY <1>1, <1>4 DEF CheckRow, WatcherInv, PhaseInv, Rows
    <2> QED BY <2>1, <2>2 DEF PhaseInv, CheckRow
<1> QED BY <1>3, <1>5

LEMMA WatcherInvCommit ==
    WatcherInv /\ Commit => LedgerInv(db)' /\ LedgerInv(session)' /\ PhaseInv'
<1> SUFFICES ASSUME WatcherInv, Commit
             PROVE  LedgerInv(db)' /\ LedgerInv(session)' /\ PhaseInv'
    OBVIOUS
<1>1. /\ session'.rows = session.rows /\ session'.posted = session.posted
      /\ db' = session' /\ pc' = "idle"
    BY DEF Commit, WatcherInv, TypeOK, Databases
<1>2. LedgerInv(session')
    BY <1>1, EntryFrame DEF WatcherInv, LedgerInv
<1> QED BY <1>1, <1>2 DEF PhaseInv

LEMMA WatcherInvFail ==
    WatcherInv /\ Fail => LedgerInv(db)' /\ LedgerInv(session)' /\ PhaseInv'
    BY DEF WatcherInv, Fail, PhaseInv

LEMMA WatcherInvFaucet ==
    ASSUME WatcherInv, NEW s \in Sims, NEW u \in Users, FaucetSimulate(s, u)
    PROVE  LedgerInv(db)' /\ LedgerInv(session)' /\ PhaseInv'
<1>1. /\ db \in Databases /\ session \in Databases
      /\ db.rows[s].status = "none" /\ session.rows[s].status = "none"
      /\ LedgerInv(db) /\ LedgerInv(session)
    BY DEF WatcherInv, TypeOK, PhaseInv, FaucetSimulate
<1>2. /\ db' = [db EXCEPT !.rows[s] = NewRow("credited", 0, ZeroHash, u),
                          !.posted = @ \cup {CreditKey(s, 0)}]
      /\ session' = [session EXCEPT !.rows[s] = NewRow("credited", 0, ZeroHash, u),
                                    !.posted = @ \cup {CreditKey(s, 0)}]
    BY DEF FaucetSimulate
<1>3. LedgerInv(db') /\ LedgerInv(session')
    BY <1>1, <1>2, FaucetLedger
<1>4. /\ \A r \in Rows \ {s} : db'.rows[r] = db.rows[r] /\ session'.rows[r] = session.rows[r]
      /\ db'.rows[s].status = "credited"
    BY <1>1, <1>2 DEF Databases, NewRow, Rows
<1>5. s \notin todo \/ pc \notin {"credit", "reorgs"}
    BY <1>1 DEF WatcherInv, PhaseInv
<1>6. PhaseInv'
    BY <1>4, <1>5 DEF WatcherInv, TypeOK, PhaseInv, FaucetSimulate, Rows
<1> QED BY <1>3, <1>6

LEMMA WatcherInvStep == WatcherInv /\ [Next]_vars => WatcherInv'
<1> SUFFICES ASSUME WatcherInv, [Next]_vars PROVE WatcherInv'
    OBVIOUS
<1>1. TypeOK'
    BY TypeStep DEF WatcherInv
<1>2. CASE Mine \/ Reorg \/ UNCHANGED vars
    BY <1>1, <1>2 DEF Mine, Reorg, watcherVars, vars, WatcherInv, PhaseInv
<1>3. CASE BeginScan \/ RecordBlock \/ StartCredit \/ StartReorgs
    <2>1. db' = db
        BY <1>3 DEF BeginScan, RecordBlock, StartCredit, StartReorgs
    <2> QED BY <1>1, <1>3, <2>1, WatcherInvScan, WatcherInvRecord, WatcherInvStartCredit,
               WatcherInvStartReorgs DEF WatcherInv
<1>4. CASE \E k \in Rows : CreditRow(k) \/ CheckRow(k)
    <2>1. db' = db
        BY <1>4 DEF CreditRow, CheckRow
    <2> QED BY <1>1, <1>4, <2>1, WatcherInvCredit, WatcherInvCheck DEF WatcherInv
<1>5. CASE Commit \/ Fail
    BY <1>1, <1>5, WatcherInvCommit, WatcherInvFail DEF WatcherInv
<1>6. CASE \E s \in Sims, u \in Users : FaucetSimulate(s, u)
    BY <1>1, <1>6, WatcherInvFaucet DEF WatcherInv
<1> QED BY <1>2, <1>3, <1>4, <1>5, <1>6 DEF Next, Watch

\* Over any sequence of blocks, reorganisations, failed passes and simulated
\* deposits, exactly the CREDITED rows have an outstanding credit, the one of
\* their current revision, in the committed and in the open transaction.
THEOREM LedgerFollowsRows == Spec => []LedgerMatchesRows
<1>1. WatcherInv => LedgerMatchesRows
    BY LedgerInvBalanced DEF WatcherInv, TypeOK, LedgerMatchesRows
<1> QED BY <1>1, WatcherInvInit, WatcherInvStep, PTL DEF Spec

-----------------------------------------------------------------------------
(* The watcher keeps a credit book.                                          *)

\* What the open pass has posted beyond the committed ledger: nothing while it
\* records; then at most one credit of a row, of the current revision of the row,
\* and only of a row whose committed status is not CREDITED.  That holds because
\* a committed CREDITED row stays so in the session until the loop of
\* handle_reorgs, which credits nothing.
Ahead(k, v) ==
    CreditKey(k, v) \in session.posted \ db.posted =>
        v = session.rows[k].rev /\ db.rows[k].status # "credited"

BookInv ==
    /\ db.posted \subseteq session.posted
    /\ pc \in {"idle", "record"} => session.posted = db.posted
    /\ pc # "reorgs" => \A k \in Rows :
            db.rows[k].status = "credited" => session.rows[k].status = "credited"
    /\ \A k \in Rows, v \in Nat : Ahead(k, v)

LEMMA BookInvInit == Init => BookInv
    BY DEF Init, BookInv, Ahead

LEMMA BookInvScan == WatcherInv /\ BeginScan => BookInv'
<1> SUFFICES ASSUME WatcherInv, BeginScan PROVE BookInv'
    OBVIOUS
<1>1. session'.rows = db.rows /\ session'.posted = db.posted /\ pc' = "record" /\ db' = db
    BY DEF BeginScan, WatcherInv, TypeOK, Databases
<1> QED BY <1>1 DEF BookInv, Ahead

\* A CREDITED row is not touched by record_deposits.
LEMMA BookInvRecord == WatcherInv /\ BookInv /\ RecordBlock => BookInv'
<1> SUFFICES ASSUME WatcherInv, BookInv, RecordBlock PROVE BookInv'
    OBVIOUS
<1>1. PICK n \in todo, view \in Heads :
        session' = IF n \in 1..view
                   THEN [session EXCEPT !.rows = RecordLogs(session.rows, n)]
                   ELSE session
    BY DEF RecordBlock
<1>2. session'.posted = session.posted /\ db' = db /\ pc = "record" /\ pc' = "record"
    BY <1>1 DEF RecordBlock, WatcherInv, TypeOK, Databases
<1>3. \A k \in Rows : session.rows[k].status = "credited" => session'.rows[k].status = "credited"
    <2>1. CASE n \notin 1..view
        BY <1>1, <2>1
    <2>2. CASE n \in 1..view
        <3>1. n \in 1..Len(chain) /\ n \in Nat /\ chain \in Seq(Blocks) /\ Hash(n) \in Seq(Blocks)
            BY <2>2, LenProperties, HashType DEF Heads, WatcherInv, TypeOK
        <3>2. session.rows \in [Rows -> RowTypes] /\ session'.rows = RecordLogs(session.rows, n)
            BY <1>1, <2>2 DEF WatcherInv, TypeOK, Databases
        <3> QED BY <3>1, <3>2, RecordLogsType, InsertIfNewType
    <2> QED BY <2>1, <2>2
<1> QED BY <1>2, <1>3 DEF BookInv, Ahead

LEMMA BookInvStartCredit == WatcherInv /\ BookInv /\ StartCredit => BookInv'
<1> SUFFICES ASSUME WatcherInv, BookInv, StartCredit PROVE BookInv'
    OBVIOUS
<1>1. PICK head \in Heads :
        session' = [session EXCEPT !.rows = [k \in Rows |->
                IF Final(session.rows[k], head) THEN [session.rows[k] EXCEPT !.status = "confirmed"]
                ELSE session.rows[k]]]
    BY DEF StartCredit
<1>2. session'.posted = session.posted /\ db' = db /\ pc = "record" /\ pc' = "credit"
    BY <1>1 DEF StartCredit, WatcherInv, TypeOK, Databases
<1>3. \A k \in Rows : session.rows[k].status = "credited" => session'.rows[k].status = "credited"
    BY <1>1 DEF WatcherInv, TypeOK, Databases, RowTypes, Final
<1> QED BY <1>2, <1>3 DEF BookInv, Ahead

\* A credit is of a CONFIRMED row, so the committed row is not CREDITED.
LEMMA BookInvCredit ==
    ASSUME WatcherInv, BookInv, NEW k \in Rows, CreditRow(k)
    PROVE  BookInv'
<1>1. /\ session \in Databases /\ session.rows[k].status = "confirmed"
      /\ db' = db /\ pc = "credit" /\ pc' = pc
    BY DEF WatcherInv, TypeOK, PhaseInv, CreditRow
<1>2. db.rows[k].status # "credited"
    BY <1>1 DEF BookInv
<1>3. \/ session' = session
      \/ session' = [session EXCEPT !.rows[k].status = "credited",
                                    !.posted = @ \cup {CreditKey(k, session.rows[k].rev)}]
      \/ session' = [session EXCEPT !.rows[k].status = "orphaned"]
    BY DEF CreditRow
<1>4. /\ session'.posted \in {session.posted, session.posted \cup {CreditKey(k, session.rows[k].rev)}}
      /\ \A r \in Rows \ {k} : session'.rows[r] = session.rows[r]
      /\ session'.rows[k].rev = session.rows[k].rev
    <2>1. CASE session' = session
        BY <2>1
    <2>2. CASE session' = [session EXCEPT !.rows[k].status = "credited",
                                          !.posted = @ \cup {CreditKey(k, session.rows[k].rev)}]
        BY <1>1, <2>2 DEF Databases, RowTypes
    <2>3. CASE session' = [session EXCEPT !.rows[k].status = "orphaned"]
        BY <1>1, <2>3 DEF Databases, RowTypes
    <2> QED BY <1>3, <2>1, <2>2, <2>3
<1>5. ASSUME NEW r \in Rows, NEW v \in Nat PROVE Ahead(r, v)'
    <2>1. Ahead(r, v)
        BY DEF BookInv
    <2>2. session'.rows[r].rev = session.rows[r].rev
        BY <1>4
    <2> QED BY <1>1, <1>2, <1>4, <2>1, <2>2 DEF Ahead, CreditKey
<1>6. \A r \in Rows : db.rows[r].status = "credited" => session'.rows[r].status = "credited"
    BY <1>1, <1>2, <1>4 DEF BookInv
<1> QED BY <1>1, <1>4, <1>5, <1>6 DEF BookInv

LEMMA BookInvStartReorgs == BookInv /\ StartReorgs => BookInv'
    BY DEF BookInv, Ahead, StartReorgs

\* handle_reorgs posts reversals only.
LEMMA BookInvCheck ==
    ASSUME WatcherInv, BookInv, NEW k \in Rows, CheckRow(k)
    PROVE  BookInv'
<1>1. session \in Databases /\ db' = db /\ pc = "reorgs" /\ pc' = pc
    BY DEF WatcherInv, TypeOK, CheckRow
<1>2. \/ session' = session
      \/ session' = [session EXCEPT !.rows[k].status = "orphaned",
                                    !.posted = @ \cup {ReverseKey(k, session.rows[k].rev)}]
      \/ session' = [session EXCEPT !.rows[k].status = "orphaned"]
    BY DEF CheckRow, WatcherInv, TypeOK, Databases
<1>3. /\ session'.posted \in {session.posted, session.posted \cup {ReverseKey(k, session.rows[k].rev)}}
      /\ \A r \in Rows \ {k} : session'.rows[r] = session.rows[r]
      /\ session'.rows[k].rev = session.rows[k].rev
    BY <1>1, <1>2 DEF Databases, RowTypes
<1>4. ASSUME NEW r \in Rows, NEW v \in Nat PROVE Ahead(r, v)'
    <2>1. Ahead(r, v)
        BY DEF BookInv
    <2>2. session'.rows[r].rev = session.rows[r].rev
        BY <1>3
    <2> QED BY <1>1, <1>3, <2>1, <2>2 DEF Ahead, CreditKey, ReverseKey
<1> QED BY <1>1, <1>3, <1>4 DEF BookInv

\* Between passes the session holds what is committed.
LEMMA BookInvReset == TypeOK' /\ pc' = "idle" => BookInv'
    BY DEF TypeOK, BookInv, Ahead

\* A simulated deposit is committed for both; the open pass has posted nothing
\* for its row.
LEMMA BookInvFaucet ==
    ASSUME WatcherInv, BookInv, NEW s \in Sims, NEW u \in Users, FaucetSimulate(s, u)
    PROVE  BookInv'
<1>1. /\ db \in Databases /\ session \in Databases /\ s \in Rows
      /\ session.rows[s].status = "none" /\ LedgerInv(session)
    BY DEF WatcherInv, TypeOK, PhaseInv, FaucetSimulate, Rows
<1>2. /\ db' = [db EXCEPT !.rows[s] = NewRow("credited", 0, ZeroHash, u),
                          !.posted = @ \cup {CreditKey(s, 0)}]
      /\ session' = [session EXCEPT !.rows[s] = NewRow("credited", 0, ZeroHash, u),
                                    !.posted = @ \cup {CreditKey(s, 0)}]
      /\ pc' = pc
    BY DEF FaucetSimulate
<1>3. /\ db'.posted = db.posted \cup {CreditKey(s, 0)}
      /\ session'.posted = session.posted \cup {CreditKey(s, 0)}
      /\ \A r \in Rows \ {s} : db'.rows[r] = db.rows[r] /\ session'.rows[r] = session.rows[r]
      /\ session'.rows[s].status = "credited"
    BY <1>1, <1>2 DEF Databases, NewRow
<1>4. \A v \in Nat : CreditKey(s, v) \notin session.posted
    <2> SUFFICES ASSUME NEW v \in Nat PROVE CreditKey(s, v) \notin session.posted
        OBVIOUS
    <2>1. Entry(session, s, v)
        BY <1>1 DEF LedgerInv
    <2> QED BY <1>1, <2>1 DEF Entry
<1>5. ASSUME NEW r \in Rows, NEW v \in Nat PROVE Ahead(r, v)'
    <2>1. Ahead(r, v)
        BY DEF BookInv
    <2>2. CASE r = s
        BY <1>3, <1>4, <2>2 DEF Ahead
    <2>3. CASE r # s
        BY <1>3, <2>1, <2>3 DEF Ahead
    <2> QED BY <2>2, <2>3
<1> QED BY <1>2, <1>3, <1>5 DEF BookInv

LEMMA BookInvStep == WatcherInv /\ BookInv /\ [Next]_vars => BookInv'
<1> SUFFICES ASSUME WatcherInv, BookInv, [Next]_vars PROVE BookInv'
    OBVIOUS
<1>1. TypeOK'
    BY TypeStep DEF WatcherInv
<1>2. CASE Mine \/ Reorg \/ UNCHANGED vars
    BY <1>2 DEF Mine, Reorg, watcherVars, vars, BookInv, Ahead
<1>3. CASE BeginScan \/ RecordBlock \/ StartCredit \/ StartReorgs
    BY <1>3, BookInvScan, BookInvRecord, BookInvStartCredit, BookInvStartReorgs
<1>4. CASE \E k \in Rows : CreditRow(k) \/ CheckRow(k)
    BY <1>4, BookInvCredit, BookInvCheck
<1>5. CASE Commit \/ Fail
    BY <1>1, <1>5, BookInvReset DEF Commit, Fail
<1>6. CASE \E s \in Sims, u \in Users : FaucetSimulate(s, u)
    BY <1>6, BookInvFaucet
<1> QED BY <1>2, <1>3, <1>4, <1>5, <1>6 DEF Next, Watch

\* A commit is a step of the book.
LEMMA CommitBooks == WatcherInv /\ WatcherInv' /\ BookInv /\ Commit => Book!Next
<1> SUFFICES ASSUME WatcherInv, WatcherInv', BookInv, Commit PROVE Book!Next
    OBVIOUS
<1>1. db \in Databases /\ session \in Databases /\ db' \in Databases
    BY DEF WatcherInv, TypeOK
<1>2. db'.rows = session.rows /\ db'.posted = session.posted
    BY <1>1 DEF Commit, Databases
<1>3. /\ Credits(db) \subseteq Credits(db') /\ Reversals(db) \subseteq Reversals(db')
    BY <1>2 DEF BookInv, Credits, Reversals
<1>4. Reversals(db') \subseteq Credits(db')
    BY <1>1, LedgerInvBalanced DEF WatcherInv, Balanced
<1>5. ASSUME NEW e \in Credits(db') \ Credits(db)
      PROVE  /\ \A f \in Credits(db) : f[1] = e[1] => f \in Reversals(db) /\ f[2] < e[2]
             /\ \A f \in Credits(db') \ Credits(db) : f[1] = e[1] => f = e
    <2>1. PICK k \in Rows, v \in Nat : e = <<k, v>>
        BY <1>1, LedgerPairs
    <2>2. CreditKey(k, v) \in session.posted \ db.posted
        BY <1>1, <1>2, <1>5, <2>1, LedgerPairs
    <2>3. v = session.rows[k].rev /\ db.rows[k].status # "credited"
        BY <2>2 DEF BookInv, Ahead
    <2>4. ASSUME NEW f \in Credits(db), f[1] = k PROVE f \in Reversals(db) /\ f[2] < v
        <3>1. PICK w \in Nat : f = <<k, w>>
            BY <1>1, <2>4, LedgerPairs
        <3>2. CreditKey(k, w) \in db.posted /\ CreditKey(k, w) \in session.posted
            BY <1>1, <2>4, <3>1, LedgerPairs DEF BookInv
        <3>3. Entry(db, k, w) /\ Entry(session, k, w)
            BY DEF WatcherInv, LedgerInv
        <3>4. ReverseKey(k, w) \in db.posted
            BY <2>3, <3>2, <3>3 DEF Entry
        <3>5. w <= v /\ w # v
            BY <2>2, <2>3, <3>2, <3>3 DEF Entry
        <3> QED BY <1>1, <3>1, <3>4, <3>5, LedgerPairs
    <2>5. ASSUME NEW f \in Credits(db') \ Credits(db), f[1] = k PROVE f = <<k, v>>
        <3>1. PICK w \in Nat : f = <<k, w>>
            BY <1>1, <2>5, LedgerPairs
        <3>2. CreditKey(k, w) \in session.posted \ db.posted
            BY <1>1, <1>2, <2>5, <3>1, LedgerPairs
        <3> QED BY <2>3, <3>1, <3>2 DEF BookInv, Ahead
    <2> QED BY <2>1, <2>4, <2>5
<1> QED BY <1>3, <1>4, <1>5 DEF Book!Next, Book!NewCredit

\* So is a simulated deposit.
LEMMA FaucetBooks ==
    ASSUME WatcherInv, WatcherInv', NEW s \in Sims, NEW u \in Users, FaucetSimulate(s, u)
    PROVE  Book!Next
<1>1. /\ db \in Databases /\ db' \in Databases /\ s \in Rows
      /\ db.rows[s].status = "none" /\ LedgerInv(db)
    BY DEF WatcherInv, TypeOK, FaucetSimulate, Rows
<1>2. db'.posted = db.posted \cup {CreditKey(s, 0)}
    BY <1>1 DEF FaucetSimulate, Databases
<1>3. /\ Credits(db) \subseteq Credits(db') /\ Reversals(db) \subseteq Reversals(db')
    BY <1>2 DEF Credits, Reversals
<1>4. Reversals(db') \subseteq Credits(db')
    BY <1>1, LedgerInvBalanced DEF WatcherInv, Balanced
<1>5. \A e \in Credits(db') \ Credits(db) : e = <<s, 0>>
    <2> SUFFICES ASSUME NEW e \in Credits(db') \ Credits(db) PROVE e = <<s, 0>>
        OBVIOUS
    <2>1. PICK k \in Rows, v \in Nat : e = <<k, v>>
        BY <1>1, LedgerPairs
    <2>2. CreditKey(k, v) \in db'.posted \ db.posted
        BY <1>1, <2>1, LedgerPairs
    <2> QED BY <1>2, <2>1, <2>2 DEF CreditKey
<1>6. \A f \in Credits(db) : f[1] # s
    <2> SUFFICES ASSUME NEW f \in Credits(db), f[1] = s PROVE FALSE
        OBVIOUS
    <2>1. PICK v \in Nat : f = <<s, v>>
        BY <1>1, LedgerPairs
    <2>2. CreditKey(s, v) \in db.posted /\ Entry(db, s, v)
        BY <1>1, <2>1, LedgerPairs DEF LedgerInv
    <2> QED BY <1>1, <2>2 DEF Entry
<1> QED BY <1>3, <1>4, <1>5, <1>6 DEF Book!Next, Book!NewCredit

\* The deposit watcher and the simulated faucet implement the append-only book of
\* credits and reversals: over all reorganisations, failed passes and restarts,
\* what is posted stays posted, and a deposit is credited again only under a later
\* revision and after an earlier transaction has reversed its last credit.
THEOREM WatcherIsCreditBook == Spec => ImplementsCreditBook
<1>1. Init => Book!Init
    BY DEF Init, Book!Init, Credits, Reversals
<1>2. WatcherInv /\ WatcherInv' /\ BookInv /\ [Next]_vars => [Book!Next]_(Book!book)
    <2> SUFFICES ASSUME WatcherInv, WatcherInv', BookInv, [Next]_vars
                 PROVE  Book!Next \/ UNCHANGED Book!book
        OBVIOUS
    <2>1. CASE db' = db
        BY <2>1 DEF Book!book
    <2>2. CASE Commit
        BY <2>2, CommitBooks
    <2>3. CASE \E s \in Sims, u \in Users : FaucetSimulate(s, u)
        BY <2>3, FaucetBooks
    <2> QED BY <2>1, <2>2, <2>3 DEF Next, Watch, Mine, Reorg, watcherVars, vars, BeginScan,
            RecordBlock, StartCredit, CreditRow, StartReorgs, CheckRow, Fail
<1> QED BY <1>1, <1>2, WatcherInvInit, WatcherInvStep, BookInvInit, BookInvStep, PTL
        DEF Spec, ImplementsCreditBook, Book!Spec

-----------------------------------------------------------------------------
(* Only final deposits are credited.                                         *)

\* The chain never gets shorter.
LEMMA ChainGrows ==
    ASSUME TypeOK, [Next]_vars
    PROVE  Len(chain) \in Nat /\ Len(chain') \in Nat /\ Len(chain') >= Len(chain)
<1>1. chain \in Seq(Blocks) /\ Len(chain) \in Nat
    BY LenProperties DEF TypeOK
<1>2. CASE Mine
    <2>1. PICK block : chain' = Append(chain, block)
        BY <1>2 DEF Mine
    <2>2. Len(chain') = Len(chain) + 1
        BY <1>1, <2>1
    <2> QED BY <1>1, <2>2
<1>3. CASE Reorg
    <2>1. PICK n, s, height, base : chain' = Replaced(n, s, height, base)
        BY <1>3 DEF Reorg
    <2>2. Len(chain') = Len(chain)
        BY <1>1, <2>1 DEF Replaced
    <2> QED BY <1>1, <2>2
<1>4. CASE chain' = chain
    BY <1>1, <1>4
<1>5. Mine \/ Reorg \/ chain' = chain
    BY DEF Next, vars, Watch, BeginScan, RecordBlock, StartCredit, CreditRow, StartReorgs, CheckRow,
       Commit, Fail, FaucetSimulate
<1> QED BY <1>2, <1>3, <1>4, <1>5

LEMMA HeadsType ==
    ASSUME TypeOK, NEW head \in Heads
    PROVE  head \in Nat /\ head <= Len(chain) /\ Len(chain) \in Nat
    BY LenProperties DEF TypeOK, Heads

\* What a step of the watcher, or a simulated deposit, may do to row k of the session.
RowStep(k) ==
    LET old == session.rows[k]
        new == session'.rows[k]
    IN  \/ new = old
        \/ (BeginScan \/ Fail) /\ new = db.rows[k]
        \/ pc = "record" /\ old.status \in {"none", "orphaned"} /\ new.status = "seen"
        \/ /\ pc = "record" /\ old.status = "seen" /\ new.status = "confirmed"
           /\ new.block + Confirmations <= Len(chain)
        \/ /\ pc = "credit" /\ old.status = "confirmed" /\ new.status = "credited"
           /\ new.block = old.block /\ new.hash = Hash(new.block)
        \/ pc = "credit" /\ old.status = "confirmed" /\ new.status = "orphaned"
        \/ pc = "reorgs" /\ old.status \in {"seen", "confirmed", "credited"} /\ new.status = "orphaned"
        \/ k \in Sims /\ db.rows[k].status = "none" /\ new.status = "credited"

LEMMA RecordRowStep ==
    ASSUME WatcherInv, NEW k \in Rows, RecordBlock
    PROVE  RowStep(k)
<1>1. PICK n \in todo, view \in Heads :
        session' = IF n \in 1..view
                   THEN [session EXCEPT !.rows = RecordLogs(session.rows, n)]
                   ELSE session
    BY DEF RecordBlock
<1>2. CASE n \notin 1..view
    BY <1>1, <1>2 DEF RowStep
<1>3. CASE n \in 1..view
    <2>1. n \in 1..Len(chain) /\ n \in Nat /\ chain \in Seq(Blocks) /\ Hash(n) \in Seq(Blocks)
        BY <1>3, LenProperties, HashType DEF Heads, WatcherInv, TypeOK
    <2>2. session.rows \in [Rows -> RowTypes]
        BY DEF WatcherInv, TypeOK, Databases
    <2>3. session'.rows = RecordLogs(session.rows, n)
        BY <1>1, <1>3 DEF WatcherInv, TypeOK, Databases
    <2>4. CASE session'.rows[k] = session.rows[k]
        BY <2>4 DEF RowStep
    <2>5. CASE \E user \in Users : session'.rows[k] = InsertIfNew(session.rows[k], n, Hash(n), user)
        <3>1. \/ session'.rows[k] = session.rows[k]
              \/ session.rows[k].status \in {"none", "orphaned"} /\ session'.rows[k].status = "seen"
            BY <2>1, <2>2, <2>5, InsertIfNewType
        <3> QED BY <3>1 DEF RowStep, RecordBlock
    <2> QED BY <2>1, <2>2, <2>3, <2>4, <2>5, RecordLogsType
<1> QED BY <1>2, <1>3

LEMMA ConfirmRowStep ==
    ASSUME WatcherInv, NEW k \in Rows, StartCredit
    PROVE  RowStep(k)
<1> DEFINE old == session.rows[k]
<1>1. PICK head \in Heads :
        session' = [session EXCEPT !.rows = [r \in Rows |->
            IF Final(session.rows[r], head)
            THEN [session.rows[r] EXCEPT !.status = "confirmed"]
            ELSE session.rows[r]]]
    BY DEF StartCredit
<1>2. session'.rows[k] = IF Final(old, head) THEN [old EXCEPT !.status = "confirmed"] ELSE old
    BY <1>1 DEF WatcherInv, TypeOK, Databases
<1>3. CASE Final(old, head)
    <2>1. old.block \in Nat /\ old \in RowTypes
        BY DEF WatcherInv, TypeOK, Databases, RowTypes
    <2>2. head \in Nat /\ head <= Len(chain) /\ Len(chain) \in Nat /\ Confirmations \in Nat
        BY HeadsType, WatcherAssumption DEF WatcherInv
    <2>3. old.block + Confirmations <= Len(chain) /\ old.status = "seen"
        BY <1>3, <2>1, <2>2 DEF Final
    <2>4. session'.rows[k].status = "confirmed" /\ session'.rows[k].block = old.block
        BY <1>2, <1>3, <2>1 DEF RowTypes
    <2> QED BY <2>3, <2>4 DEF RowStep, StartCredit
<1>4. CASE ~Final(old, head)
    BY <1>2, <1>4 DEF RowStep
<1> QED BY <1>3, <1>4

LEMMA CreditRowStep ==
    ASSUME WatcherInv, NEW k \in Rows, NEW r \in Rows, CreditRow(r)
    PROVE  RowStep(k)
<1> DEFINE old == session.rows[r]
<1>1. /\ session \in Databases /\ old \in RowTypes /\ pc = "credit" /\ old.status = "confirmed"
    BY DEF WatcherInv, TypeOK, Databases, PhaseInv, CreditRow
<1>2. PICK canonical \in BlockHashes(old.block) :
        \/ session' = session
        \/ /\ canonical # NoHash /\ canonical = old.hash
           /\ session' = [session EXCEPT !.rows[r].status = "credited",
                                         !.posted = @ \cup {CreditKey(r, old.rev)}]
        \/ session' = [session EXCEPT !.rows[r].status = "orphaned"]
    BY DEF CreditRow, StillCanonical
<1>3. CASE k # r \/ session' = session
    <2>1. session'.rows[k] = session.rows[k]
        BY <1>1, <1>2, <1>3 DEF Databases
    <2> QED BY <2>1 DEF RowStep
<1>4. CASE /\ k = r /\ canonical # NoHash /\ canonical = old.hash
           /\ session' = [session EXCEPT !.rows[r].status = "credited",
                                         !.posted = @ \cup {CreditKey(r, old.rev)}]
    <2>1. session'.rows[r] = [old EXCEPT !.status = "credited"]
        BY <1>1, <1>4 DEF Databases
    <2>2. /\ session'.rows[r].status = "credited" /\ session'.rows[r].block = old.block
          /\ session'.rows[r].hash = old.hash
        BY <1>1, <2>1 DEF RowTypes
    <2>3. old.hash = Hash(old.block)
        BY <1>2, <1>4 DEF BlockHashes
    <2> QED BY <1>1, <1>4, <2>2, <2>3 DEF RowStep
<1>5. CASE k = r /\ session' = [session EXCEPT !.rows[r].status = "orphaned"]
    <2>1. session'.rows[r].status = "orphaned"
        BY <1>1, <1>5 DEF Databases, RowTypes
    <2> QED BY <1>1, <1>5, <2>1 DEF RowStep
<1> QED BY <1>2, <1>3, <1>4, <1>5

LEMMA CheckRowStep ==
    ASSUME WatcherInv, NEW k \in Rows, NEW r \in Rows, CheckRow(r)
    PROVE  RowStep(k)
<1>1. /\ session \in Databases /\ session.rows[r] \in RowTypes /\ pc = "reorgs"
      /\ session.rows[r].status \in {"seen", "confirmed", "credited"}
    BY DEF WatcherInv, TypeOK, Databases, PhaseInv, CheckRow
<1>2. \/ session' = session
      \/ \E posted : session' = [session EXCEPT !.rows[r].status = "orphaned", !.posted = posted]
    BY DEF CheckRow
<1>3. CASE k # r \/ session' = session
    <2>1. session'.rows[k] = session.rows[k]
        BY <1>1, <1>2, <1>3 DEF Databases
    <2> QED BY <2>1 DEF RowStep
<1>4. CASE k = r /\ session' # session
    <2>1. PICK posted : session' = [session EXCEPT !.rows[r].status = "orphaned", !.posted = posted]
        BY <1>2, <1>4
    <2>2. session'.rows[r] = [session.rows[r] EXCEPT !.status = "orphaned"]
        BY <1>1, <2>1 DEF Databases
    <2>3. session'.rows[r].status = "orphaned"
        BY <1>1, <2>2 DEF RowTypes
    <2> QED BY <1>1, <1>4, <2>3 DEF RowStep
<1> QED BY <1>3, <1>4

LEMMA FaucetRowStep ==
    ASSUME WatcherInv, NEW k \in Rows, NEW s \in Sims, NEW u \in Users, FaucetSimulate(s, u)
    PROVE  /\ RowStep(k)
           /\ k # s => db'.rows[k] = db.rows[k] /\ session'.rows[k] = session.rows[k]
           /\ k = s => db'.rows[k].status = "credited" /\ session'.rows[k].status = "credited"
<1>1. /\ db \in Databases /\ session \in Databases /\ db.rows[s].status = "none" /\ s \in Rows
    BY DEF WatcherInv, TypeOK, FaucetSimulate, Rows
<1>2. /\ db' = [db EXCEPT !.rows[s] = NewRow("credited", 0, ZeroHash, u),
                          !.posted = @ \cup {CreditKey(s, 0)}]
      /\ session' = [session EXCEPT !.rows[s] = NewRow("credited", 0, ZeroHash, u),
                                    !.posted = @ \cup {CreditKey(s, 0)}]
    BY DEF FaucetSimulate
<1>3. CASE k # s
    <2>1. db'.rows[k] = db.rows[k] /\ session'.rows[k] = session.rows[k]
        BY <1>1, <1>2, <1>3 DEF Databases
    <2> QED BY <1>3, <2>1 DEF RowStep
<1>4. CASE k = s
    <2>1. db'.rows[s].status = "credited" /\ session'.rows[s].status = "credited"
        BY <1>1, <1>2 DEF Databases, NewRow
    <2> QED BY <1>1, <1>4, <2>1 DEF RowStep
<1> QED BY <1>3, <1>4

LEMMA EveryRowStep ==
    ASSUME WatcherInv, [Next]_vars, NEW k \in Rows
    PROVE  RowStep(k)
<1>1. CASE BeginScan
    BY <1>1 DEF BeginScan, RowStep, WatcherInv, TypeOK, Databases
<1>2. CASE StartReorgs \/ Mine \/ Reorg \/ UNCHANGED vars
    BY <1>2 DEF StartReorgs, Mine, Reorg, watcherVars, vars, RowStep
<1>3. CASE Commit
    BY <1>3 DEF Commit, RowStep, WatcherInv, TypeOK, Databases
<1>4. CASE Fail
    BY <1>4 DEF Fail, RowStep
<1>5. CASE RecordBlock \/ StartCredit
    BY <1>5, RecordRowStep, ConfirmRowStep
<1>6. CASE \E r \in Rows : CreditRow(r) \/ CheckRow(r)
    BY <1>6, CreditRowStep, CheckRowStep
<1>7. CASE \E s \in Sims, u \in Users : FaucetSimulate(s, u)
    BY <1>7, FaucetRowStep
<1> QED BY <1>1, <1>2, <1>3, <1>4, <1>5, <1>6, <1>7 DEF Next, Watch

\* A CONFIRMED row stays deep enough until its block is compared, on a chain of h
\* blocks.
DeepInv(d, h) ==
    \A k \in Rows : d.rows[k].status = "confirmed" => d.rows[k].block + Confirmations <= h

\* What the database has CREDITED, the session has credited too until handle_reorgs
\* orphans it: a rollback credits nothing.
CreditedInv ==
    \A k \in Rows : db.rows[k].status = "credited" =>
        /\ session.rows[k].status \in {"credited", "orphaned"}
        /\ pc # "reorgs" => session.rows[k].status = "credited"

FinalInv == WatcherInv /\ DeepInv(db, Len(chain)) /\ DeepInv(session, Len(chain)) /\ CreditedInv

LEMMA FinalInvInit == Init => FinalInv
<1> SUFFICES ASSUME Init PROVE FinalInv
    OBVIOUS
<1>1. \A k \in Rows : db.rows[k].status = "none" /\ session = db
    BY DEF Init, NoRow
<1> QED BY <1>1, WatcherInvInit DEF FinalInv, DeepInv, CreditedInv

LEMMA DeepGrows ==
    ASSUME NEW d \in Databases, NEW h \in Nat, NEW g \in Nat, g >= h, DeepInv(d, h)
    PROVE  DeepInv(d, g)
<1> SUFFICES ASSUME NEW k \in Rows, d.rows[k].status = "confirmed"
             PROVE  d.rows[k].block + Confirmations <= g
    BY DEF DeepInv
<1>1. d.rows[k].block \in Nat /\ Confirmations \in Nat
    BY WatcherAssumption DEF Databases, RowTypes
<1>2. d.rows[k].block + Confirmations <= h
    BY DEF DeepInv
<1> QED BY <1>1, <1>2

\* The committed state: as it was, what the pass commits, or one simulated deposit more.
LEMMA DatabaseStep ==
    ASSUME WatcherInv, [Next]_vars, NEW k \in Rows
    PROVE  \/ db'.rows[k] = db.rows[k]
           \/ Commit /\ db'.rows[k] = session'.rows[k]
           \/ db'.rows[k].status = "credited" /\ session'.rows[k].status = "credited"
<1>1. CASE db' = db
    BY <1>1
<1>2. CASE Commit
    BY <1>2 DEF Commit
<1>3. CASE \E s \in Sims, u \in Users : FaucetSimulate(s, u)
    BY <1>3, FaucetRowStep
<1>4. db' = db \/ Commit \/ \E s \in Sims, u \in Users : FaucetSimulate(s, u)
    BY DEF Next, vars, Mine, Reorg, watcherVars, Watch, BeginScan, RecordBlock, StartCredit,
       CreditRow, StartReorgs, CheckRow, Fail
<1> QED BY <1>1, <1>2, <1>3, <1>4

\* The phases follow each other; handle_reorgs ends with a commit or a rollback.
LEMMA PhaseStep ==
    ASSUME [Next]_vars
    PROVE  /\ pc = "reorgs" /\ pc' # "reorgs" => Commit \/ Fail
           /\ BeginScan \/ Fail => db' = db
           /\ Commit => pc' = "idle"
    BY DEF Next, vars, Mine, Reorg, watcherVars, Watch, BeginScan, RecordBlock, StartCredit,
       CreditRow, StartReorgs, CheckRow, Commit, Fail, FaucetSimulate

LEMMA FinalInvStep == FinalInv /\ [Next]_vars => FinalInv'
<1> SUFFICES ASSUME FinalInv, [Next]_vars PROVE FinalInv'
    OBVIOUS
<1>1. WatcherInv /\ TypeOK /\ db \in Databases /\ session \in Databases
    BY DEF FinalInv, WatcherInv, TypeOK
<1>2. WatcherInv'
    BY <1>1, WatcherInvStep
<1>3. Len(chain) \in Nat /\ Len(chain') \in Nat /\ Len(chain') >= Len(chain)
    BY <1>1, ChainGrows
<1>4. DeepInv(db, Len(chain')) /\ DeepInv(session, Len(chain'))
    BY <1>1, <1>3, DeepGrows DEF FinalInv
<1>5. DeepInv(session', Len(chain'))
    <2> SUFFICES ASSUME NEW k \in Rows, session'.rows[k].status = "confirmed"
                 PROVE  session'.rows[k].block + Confirmations <= Len(chain')
        BY DEF DeepInv
    <2>1. CASE session'.rows[k] = session.rows[k] \/ session'.rows[k] = db.rows[k]
        BY <1>4, <2>1 DEF DeepInv
    <2>2. CASE session'.rows[k].block + Confirmations <= Len(chain)
        <3>1. session'.rows[k].block \in Nat /\ Confirmations \in Nat
            BY <1>2, WatcherAssumption DEF WatcherInv, TypeOK, Databases, RowTypes
        <3> QED BY <1>3, <2>2, <3>1
    <2> QED BY <1>1, <2>1, <2>2, EveryRowStep DEF RowStep
<1>6. DeepInv(db', Len(chain'))
    BY <1>1, <1>4, <1>5, DatabaseStep DEF DeepInv
<1>7. CreditedInv'
    <2> SUFFICES ASSUME NEW k \in Rows, db'.rows[k].status = "credited"
                 PROVE  /\ session'.rows[k].status \in {"credited", "orphaned"}
                        /\ pc' # "reorgs" => session'.rows[k].status = "credited"
        BY DEF CreditedInv
    <2>1. CASE session'.rows[k].status = "credited"
        BY <2>1
    <2>2. CASE Commit
        BY <2>1, <2>2 DEF Commit
    <2>3. CASE ~Commit /\ db'.rows[k] = db.rows[k]
        <3>1. /\ session.rows[k].status \in {"credited", "orphaned"}
              /\ pc # "reorgs" => session.rows[k].status = "credited"
            BY <2>3 DEF FinalInv, CreditedInv
        <3>2. RowStep(k)
            BY <1>1, EveryRowStep
        <3>3. CASE session'.rows[k] = db.rows[k]
            BY <2>1, <2>3, <3>3
        <3>4. CASE pc = "reorgs" /\ session'.rows[k] # db.rows[k]
            <4>1. ~Fail
                BY <3>4 DEF Fail
            <4>2. pc' = "reorgs"
                BY <2>3, <3>4, <4>1, PhaseStep
            <4>3. session'.rows[k].status \in {"credited", "orphaned"}
                BY <3>1, <3>2, <3>4 DEF RowStep
            <4> QED BY <4>2, <4>3
        <3>5. CASE pc # "reorgs" /\ session'.rows[k] # db.rows[k]
            BY <2>3, <3>1, <3>2, <3>5 DEF RowStep
        <3> QED BY <3>3, <3>4, <3>5
    <2> QED BY <1>1, <2>1, <2>2, <2>3, DatabaseStep
<1> QED BY <1>2, <1>5, <1>6, <1>7 DEF FinalInv

LEMMA FinalAlways == Spec => []FinalInv
    BY FinalInvInit, FinalInvStep, PTL DEF Spec

\* confirm_and_credit makes a CONFIRMED row CREDITED only for a block that is
\* canonical when it is compared and at least Confirmations deep, although the row was
\* confirmed at an earlier head, by an earlier pass perhaps; no other step, a rollback
\* included, makes a CONFIRMED row CREDITED.
THEOREM OnlyFinalDepositsAreCredited == Spec => CreditedOnlyFinal
<1> DEFINE Step ==
        \A k \in Rows \ Sims :
            session.rows[k].status = "confirmed" /\ session'.rows[k].status = "credited" =>
                /\ session'.rows[k].hash = Hash(session'.rows[k].block)
                /\ session'.rows[k].block + Confirmations <= Len(chain)
<1>1. FinalInv /\ [Next]_vars => [Step]_vars
    <2> SUFFICES ASSUME FinalInv, [Next]_vars, NEW k \in Rows \ Sims,
                        session.rows[k].status = "confirmed", session'.rows[k].status = "credited"
                 PROVE  /\ session'.rows[k].hash = Hash(session'.rows[k].block)
                        /\ session'.rows[k].block + Confirmations <= Len(chain)
        OBVIOUS
    <2>1. RowStep(k)
        BY EveryRowStep DEF FinalInv
    <2>2. db.rows[k].status # "credited"
        BY DEF FinalInv, CreditedInv
    <2>3. session'.rows[k].block = session.rows[k].block
          /\ session'.rows[k].hash = Hash(session'.rows[k].block)
        BY <2>1, <2>2 DEF RowStep
    <2> QED BY <2>3 DEF FinalInv, DeepInv
<1> QED BY <1>1, FinalAlways, PTL DEF Spec, CreditedOnlyFinal

-----------------------------------------------------------------------------
(* The cursor.                                                               *)

\* Every transfer of the chain c up to the cursor of d has a row in d, but for the
\* heights that are still to be visited.
Scanned(d, c, rest) ==
    d.cursor # NoCursor =>
        \A n \in StartBlock..Len(c) : n >= 1 /\ n <= d.cursor /\ n \notin rest =>
            \A log \in Logs(c[n]) : d.rows[log.key].status # "none"

Unscanned == IF pc = "record" THEN todo ELSE {}

\* The cursor is on the chain, so that a block that is mined is above it; and it has
\* passed only what is recorded, when the providers agree on the head.
CursorInv ==
    /\ WatcherInv
    /\ db.cursor # NoCursor => db.cursor <= Len(chain)
    /\ session.cursor # NoCursor => session.cursor <= Len(chain)
    /\ MaxLag = 0 /\ reorgs = 0 => Scanned(db, chain, {}) /\ Scanned(session, chain, Unscanned)

\* A lower cursor, more rows.
LEMMA ScannedKeeps ==
    ASSUME chain \in Seq(Blocks), NEW d \in Databases, NEW e \in Databases, NEW rest, NEW more,
           rest \subseteq more, Scanned(d, chain, rest),
           e.cursor # NoCursor => d.cursor # NoCursor /\ e.cursor <= d.cursor,
           \A k \in Rows : d.rows[k].status # "none" => e.rows[k].status # "none"
    PROVE  Scanned(e, chain, more)
<1> SUFFICES ASSUME e.cursor # NoCursor, NEW n \in StartBlock..Len(chain), n >= 1, n <= e.cursor,
                    n \notin more, NEW log \in Logs(chain[n])
             PROVE  e.rows[log.key].status # "none"
    BY DEF Scanned
<1>1. n \in 1..Len(chain) /\ n \in Int /\ d.cursor \in Int /\ e.cursor \in Int
    BY LenProperties, WatcherAssumption DEF Databases
<1>2. log.key \in Rows
    BY <1>1, LogsType, ElementOfSeq DEF Rows
<1>3. n <= d.cursor /\ n \notin rest
    BY <1>1
<1>4. d.rows[log.key].status # "none"
    BY <1>1, <1>3 DEF Scanned
<1> QED BY <1>2, <1>4

\* A block above the cursor.
LEMMA ScannedMine ==
    ASSUME chain \in Seq(Blocks), NEW block, NEW d \in Databases, NEW rest, Scanned(d, chain, rest),
           d.cursor # NoCursor => d.cursor <= Len(chain)
    PROVE  Scanned(d, Append(chain, block), rest)
<1> SUFFICES ASSUME d.cursor # NoCursor, NEW n \in StartBlock..Len(Append(chain, block)), n >= 1,
                    n <= d.cursor, n \notin rest, NEW log \in Logs(Append(chain, block)[n])
             PROVE  d.rows[log.key].status # "none"
    BY DEF Scanned
<1>1. n \in Int /\ d.cursor \in Int /\ Len(chain) \in Nat /\ d.cursor <= Len(chain) /\ StartBlock \in Nat
    BY LenProperties, WatcherAssumption DEF Databases
<1>2. n \in StartBlock..Len(chain) /\ n \in 1..Len(chain)
    BY <1>1
<1>3. Append(chain, block)[n] = chain[n]
    BY <1>2
<1> QED BY <1>2, <1>3 DEF Scanned

LEMMA CursorInvInit == Init => CursorInv
    BY WatcherInvInit DEF Init, CursorInv, Scanned

LEMMA CursorMine ==
    ASSUME CursorInv, Mine, WatcherInv'
    PROVE  CursorInv'
<1>1. /\ chain \in Seq(Blocks) /\ Len(chain) \in Nat /\ db \in Databases /\ session \in Databases
    BY LenProperties DEF CursorInv, WatcherInv, TypeOK
<1>2. PICK block : chain' = Append(chain, block)
    BY DEF Mine
<1>3. Len(chain') = Len(chain) + 1
    BY <1>1, <1>2
<1>4. UNCHANGED <<db, session, reorgs, pc, todo>>
    BY DEF Mine, watcherVars
<1>5. /\ db.cursor \in Int \cup {NoCursor} /\ session.cursor \in Int \cup {NoCursor}
    BY <1>1 DEF Databases
<1>6. /\ db.cursor # NoCursor => db.cursor <= Len(chain')
      /\ session.cursor # NoCursor => session.cursor <= Len(chain')
    BY <1>1, <1>3, <1>5 DEF CursorInv
<1>7. MaxLag = 0 /\ reorgs = 0 => Scanned(db, chain', {}) /\ Scanned(session, chain', Unscanned)
    BY <1>1, <1>2, ScannedMine DEF CursorInv
<1>8. Unscanned' = Unscanned
    BY <1>4 DEF Unscanned
<1> QED BY <1>4, <1>6, <1>7, <1>8 DEF CursorInv

LEMMA CursorReorg ==
    ASSUME CursorInv, Reorg, WatcherInv'
    PROVE  CursorInv'
<1>1. /\ chain \in Seq(Blocks) /\ Len(chain) \in Nat /\ reorgs \in Nat
    BY LenProperties DEF CursorInv, WatcherInv, TypeOK
<1>2. PICK n, s, height, base : chain' = Replaced(n, s, height, base)
    BY DEF Reorg
<1>3. Len(chain') = Len(chain)
    BY <1>1, <1>2 DEF Replaced
<1>4. UNCHANGED <<db, session>> /\ reorgs' # 0
    BY <1>1 DEF Reorg, watcherVars
<1> QED BY <1>3, <1>4 DEF CursorInv

LEMMA CursorScan ==
    ASSUME CursorInv, BeginScan, WatcherInv'
    PROVE  CursorInv'
<1>1. PICK head \in Heads :
        /\ session' = [db EXCEPT !.cursor =
                            IF db.cursor = NoCursor THEN head ELSE Larger(db.cursor, head)]
        /\ todo' = FromBlock(db.cursor)..head
    BY DEF BeginScan
<1>2. /\ chain \in Seq(Blocks) /\ db \in Databases /\ head \in Nat /\ head <= Len(chain)
      /\ Len(chain) \in Nat /\ UNCHANGED <<chain, db, reorgs>> /\ pc' = "record"
    BY HeadsType DEF CursorInv, WatcherInv, TypeOK, BeginScan
<1>3. /\ db.cursor \in Int \cup {NoCursor} /\ NoCursor \notin Int /\ StartBlock \in Nat
      /\ db.cursor # NoCursor => db.cursor <= Len(chain)
    BY <1>2, NullAssumption, WatcherAssumption DEF Databases, CursorInv
<1>4. /\ session'.cursor = IF db.cursor = NoCursor THEN head ELSE Larger(db.cursor, head)
      /\ session'.rows = db.rows
    BY <1>1, <1>2 DEF Databases
<1>5. session'.cursor \in Int /\ session'.cursor <= Len(chain)
    BY <1>2, <1>3, <1>4 DEF Larger
<1>6. ASSUME Scanned(db, chain, {}) PROVE Scanned(session', chain, todo')
    <2> SUFFICES ASSUME NEW n \in StartBlock..Len(chain), n >= 1, n <= session'.cursor, n \notin todo',
                        NEW log \in Logs(chain[n])
                 PROVE  session'.rows[log.key].status # "none"
        BY DEF Scanned
    <2>1. n \in Int /\ n >= StartBlock
        BY <1>2, <1>3
    <2>2. db.cursor # NoCursor /\ n <= db.cursor
        <3>1. CASE db.cursor = NoCursor
            BY <1>1, <1>2, <1>3, <1>4, <2>1, <3>1 DEF FromBlock
        <3>2. CASE db.cursor # NoCursor
            <4>1. todo' = (db.cursor + 1)..head /\ session'.cursor = Larger(db.cursor, head)
                BY <1>1, <1>4, <3>2 DEF FromBlock
            <4> QED BY <1>2, <1>3, <2>1, <3>2, <4>1 DEF Larger
        <3> QED BY <3>1, <3>2
    <2>3. db.rows[log.key].status # "none"
        BY <1>6, <2>2 DEF Scanned
    <2> QED BY <1>4, <2>3
<1>7. Unscanned' = todo'
    BY <1>2 DEF Unscanned
<1> QED BY <1>2, <1>5, <1>6, <1>7 DEF CursorInv

\* record_deposits of a height leaves no transfer of it without a row.
LEMMA RecordLogsAll ==
    ASSUME chain \in Seq(Blocks), NEW n \in 1..Len(chain), NEW rows \in [Rows -> RowTypes],
           NEW log \in Logs(chain[n])
    PROVE  RecordLogs(rows, n)[log.key].status # "none"
<1> DEFINE k == log.key
           user == (CHOOSE l \in Logs(chain[n]) : l.key = k).user
<1>1. chain[n] \in Blocks /\ n \in Nat /\ Hash(n) \in Seq(Blocks)
    BY ElementOfSeq, LenProperties, HashType
<1>2. k \in Rows
    BY <1>1, LogsType DEF Rows
<1>3. user \in Users
    <2>1. (CHOOSE l \in Logs(chain[n]) : l.key = k) \in Logs(chain[n])
        OBVIOUS
    <2> QED BY <1>1, <2>1, LogsType
<1>4. RecordLogs(rows, n)[k] = InsertIfNew(rows[k], n, Hash(n), user)
    BY <1>2 DEF RecordLogs
<1> HIDE DEF k, user
<1>5. InsertIfNew(rows[k], n, Hash(n), user).status # "none"
    BY <1>1, <1>2, <1>3, InsertIfNewType DEF RowTypes
<1> QED BY <1>4, <1>5 DEF k

LEMMA CursorRecord ==
    ASSUME CursorInv, RecordBlock, WatcherInv'
    PROVE  CursorInv'
<1>1. PICK n \in todo, view \in Heads :
        /\ session' = IF n \in 1..view
                      THEN [session EXCEPT !.rows = RecordLogs(session.rows, n)]
                      ELSE session
        /\ todo' = todo \ {n}
    BY DEF RecordBlock
<1>2. /\ chain \in Seq(Blocks) /\ Len(chain) \in Nat /\ session \in Databases /\ session' \in Databases
      /\ UNCHANGED <<chain, db, reorgs, pc>> /\ pc = "record" /\ WatcherInv
    BY LenProperties DEF CursorInv, WatcherInv, TypeOK, RecordBlock
<1>3. session'.cursor = session.cursor /\ session.rows \in [Rows -> RowTypes]
    BY <1>1, <1>2 DEF Databases
<1>4. \A k \in Rows : session.rows[k].status # "none" => session'.rows[k].status # "none"
    <2> SUFFICES ASSUME NEW k \in Rows PROVE RowStep(k) /\ ~BeginScan /\ ~Fail
        BY DEF RowStep
    <2>1. ~BeginScan /\ ~Fail
        BY <1>2 DEF BeginScan, Fail
    <2> QED BY <1>2, <2>1, RecordRowStep
<1>5. ASSUME MaxLag = 0, Scanned(session, chain, todo) PROVE Scanned(session', chain, todo')
    <2> SUFFICES ASSUME session'.cursor # NoCursor, NEW m \in StartBlock..Len(chain), m >= 1,
                        m <= session'.cursor, m \notin todo', NEW log \in Logs(chain[m])
                 PROVE  session'.rows[log.key].status # "none"
        BY DEF Scanned
    <2>1. m \in 1..Len(chain)
        BY <1>2, WatcherAssumption
    <2>2. CASE m \notin todo
        <3>1. session.rows[log.key].status # "none"
            BY <1>3, <1>5, <2>2 DEF Scanned
        <3>2. log.key \in Rows
            BY <1>2, <2>1, LogsType, ElementOfSeq DEF Rows
        <3> QED BY <1>4, <3>1, <3>2
    <2>3. CASE m \in todo
        <3>1. m = n
            BY <1>1, <2>3
        <3>2. view = Len(chain)
            BY <1>2, <1>5 DEF Heads
        <3>3. session' = [session EXCEPT !.rows = RecordLogs(session.rows, m)]
            BY <1>1, <2>1, <3>1, <3>2
        <3>4. session'.rows = RecordLogs(session.rows, m)
            BY <1>2, <3>3 DEF Databases
        <3> QED BY <1>2, <1>3, <2>1, <3>4, RecordLogsAll
    <2> QED BY <2>2, <2>3
<1>6. Unscanned = todo /\ Unscanned' = todo'
    BY <1>2 DEF Unscanned
<1> QED BY <1>2, <1>3, <1>5, <1>6 DEF CursorInv

\* The steps after record_deposits move the cursor down at most, and delete no row.
LEMMA CursorKeeps ==
    ASSUME CursorInv, WatcherInv', UNCHANGED <<chain, reorgs>>, Unscanned \subseteq Unscanned',
           session'.cursor # NoCursor =>
                session.cursor # NoCursor /\ session'.cursor <= session.cursor,
           \A k \in Rows : session.rows[k].status # "none" => session'.rows[k].status # "none",
           \/ db' = db
           \/ db' = session' /\ Unscanned = {}
           \/ /\ db'.cursor = db.cursor
              /\ \A k \in Rows : db.rows[k].status # "none" => db'.rows[k].status # "none"
    PROVE  CursorInv'
<1>1. /\ chain \in Seq(Blocks) /\ Len(chain) \in Nat /\ db \in Databases /\ db' \in Databases
      /\ session \in Databases /\ session' \in Databases
    BY LenProperties DEF CursorInv, WatcherInv, TypeOK
<1>2. /\ db.cursor \in Int \cup {NoCursor} /\ session.cursor \in Int \cup {NoCursor}
      /\ session'.cursor \in Int \cup {NoCursor}
    BY <1>1 DEF Databases
<1>3. session'.cursor # NoCursor => session'.cursor <= Len(chain)
    BY <1>1, <1>2 DEF CursorInv
<1>4. db'.cursor # NoCursor => db'.cursor <= Len(chain)
    BY <1>3 DEF CursorInv
<1>5. ASSUME MaxLag = 0, reorgs = 0
      PROVE  Scanned(db', chain, {}) /\ Scanned(session', chain, Unscanned')
    <2>1. Scanned(db, chain, {}) /\ Scanned(session, chain, Unscanned)
        BY <1>5 DEF CursorInv
    <2>2. Scanned(session', chain, Unscanned')
        BY <1>1, <2>1, ScannedKeeps
    <2>3. CASE db' = db
        BY <2>1, <2>2, <2>3
    <2>4. CASE db' = session' /\ Unscanned = {}
        BY <1>1, <2>1, <2>4, ScannedKeeps
    <2>5. CASE /\ db'.cursor = db.cursor
               /\ \A k \in Rows : db.rows[k].status # "none" => db'.rows[k].status # "none"
        <3>1. db'.cursor # NoCursor => db.cursor # NoCursor /\ db'.cursor <= db.cursor
            BY <1>2, <2>5
        <3> QED BY <1>1, <2>1, <2>5, <3>1, ScannedKeeps
    <2> QED BY <2>2, <2>3, <2>4, <2>5
<1> QED BY <1>3, <1>4, <1>5 DEF CursorInv

LEMMA CursorInvStep == CursorInv /\ [Next]_vars => CursorInv'
<1> SUFFICES ASSUME CursorInv, [Next]_vars PROVE CursorInv'
    OBVIOUS
<1>1. WatcherInv /\ WatcherInv' /\ TypeOK /\ db \in Databases /\ session \in Databases
    BY WatcherInvStep DEF CursorInv, WatcherInv, TypeOK
<1>2. CASE Mine \/ Reorg \/ BeginScan \/ RecordBlock
    BY <1>1, <1>2, CursorMine, CursorReorg, CursorScan, CursorRecord
<1>3. CASE Fail
    <2>1. UNCHANGED <<chain, reorgs, db>> /\ session' = db /\ Unscanned' = {}
        BY <1>3 DEF Fail, Unscanned
    <2> QED BY <1>1, <2>1 DEF CursorInv
<1>4. CASE UNCHANGED vars
    <2>1. UNCHANGED <<chain, reorgs, db, session, pc, todo>>
        BY <1>4 DEF vars
    <2>2. Unscanned' = Unscanned
        BY <2>1 DEF Unscanned
    <2> QED BY <1>1, <2>1, <2>2 DEF CursorInv
<1>5. ASSUME ~BeginScan, ~Fail
      PROVE  \A k \in Rows : session.rows[k].status # "none" => session'.rows[k].status # "none"
    <2> SUFFICES ASSUME NEW k \in Rows, session.rows[k].status # "none"
                 PROVE  session'.rows[k].status # "none"
        OBVIOUS
    <2>1. RowStep(k)
        BY <1>1, EveryRowStep
    <2> QED BY <1>5, <2>1 DEF RowStep
<1>6. CASE StartCredit \/ StartReorgs \/ \E k \in Rows : CreditRow(k) \/ CheckRow(k)
    <2>1. ~BeginScan /\ ~Fail
        BY <1>6 DEF StartCredit, StartReorgs, CreditRow, CheckRow, BeginScan, Fail
    <2>2. UNCHANGED <<chain, reorgs, db>> /\ Unscanned = {}
        BY <1>6 DEF StartCredit, StartReorgs, CreditRow, CheckRow, Unscanned
    <2>3. session'.cursor = session.cursor
        <3>1. CASE StartCredit
            BY <1>1, <3>1 DEF StartCredit, Databases
        <3>2. ASSUME NEW k \in Rows, CreditRow(k) PROVE session'.cursor = session.cursor
            BY <1>1, <3>2 DEF CreditRow, Databases
        <3>3. ASSUME NEW k \in Rows, CheckRow(k) PROVE session'.cursor = session.cursor
            BY <1>1, <3>3 DEF CheckRow, Databases
        <3> QED BY <1>6, <3>1, <3>2, <3>3 DEF StartReorgs
    <2>4. session'.cursor # NoCursor =>
                session.cursor # NoCursor /\ session'.cursor <= session.cursor
        BY <1>1, <2>3 DEF Databases
    <2> QED BY <1>1, <1>5, <2>1, <2>2, <2>4, CursorKeeps
<1>7. CASE Commit
    <2>1. ~BeginScan /\ ~Fail
        <3>1. failures \in Int
            BY DEF CursorInv, WatcherInv, TypeOK
        <3> QED BY <1>7, <3>1 DEF Commit, BeginScan, Fail
    <2>2. UNCHANGED <<chain, reorgs>> /\ db' = session' /\ Unscanned = {} /\ session.cursor \in Int
        <3>1. pc = "reorgs" /\ UNCHANGED <<chain, reorgs>> /\ db' = session'
            BY <1>7 DEF Commit
        <3>2. Unscanned = {}
            BY <3>1 DEF Unscanned
        <3>3. session.cursor \in Int
            BY <3>1 DEF CursorInv, WatcherInv, TypeOK
        <3> QED BY <3>1, <3>2, <3>3
    <2>3. session'.cursor = Smaller(session.cursor, lowest - 1) /\ lowest \in Int
        BY <1>1, <1>7 DEF Commit, TypeOK, Databases
    <2>4. session.cursor # NoCursor /\ session'.cursor <= session.cursor
        BY <2>2, <2>3, NullAssumption DEF Smaller
    <2> QED BY <1>1, <1>5, <2>1, <2>2, <2>4, CursorKeeps
<1>8. ASSUME NEW s \in Sims, NEW u \in Users, FaucetSimulate(s, u) PROVE CursorInv'
    <2>1. UNCHANGED <<chain, reorgs, pc, todo>>
        BY <1>8 DEF FaucetSimulate
    <2>2. Unscanned' = Unscanned
        BY <2>1 DEF Unscanned
    <2>3. session'.cursor = session.cursor /\ db'.cursor = db.cursor
        BY <1>1, <1>8 DEF FaucetSimulate, Databases
    <2>4. session'.cursor # NoCursor =>
                session.cursor # NoCursor /\ session'.cursor <= session.cursor
        BY <1>1, <2>3 DEF Databases
    <2>5. ASSUME NEW k \in Rows
          PROVE  /\ session.rows[k].status # "none" => session'.rows[k].status # "none"
                 /\ db.rows[k].status # "none" => db'.rows[k].status # "none"
        BY <1>1, <1>8, FaucetRowStep
    <2> QED BY <1>1, <2>1, <2>2, <2>3, <2>4, <2>5, CursorKeeps
<1> QED BY <1>2, <1>3, <1>4, <1>6, <1>7, <1>8 DEF Next, Watch

\* While the providers agree on the head and nothing is reorganised, no transfer at or
\* below the committed cursor is without a row, whatever passes fail, blocks arrive
\* between the phases, and rows make the cursor go back.  A provider that is behind
\* the one that answered block_number() would break this (RecordBlock skips a height
\* above its view).
THEOREM CursorSkipsNothing == Spec => [](MaxLag = 0 => CursorNeverSkips)
<1>1. CursorInv => (MaxLag = 0 => CursorNeverSkips)
    <2> SUFFICES ASSUME CursorInv, MaxLag = 0, NEW n \in StartBlock..Len(chain),
                        reorgs = 0, db.cursor # NoCursor, n >= 1, n <= db.cursor,
                        NEW log \in Logs(chain[n])
                 PROVE  db.rows[log.key].status # "none"
        BY DEF CursorNeverSkips
    <2>1. Scanned(db, chain, {})
        BY DEF CursorInv
    <2> QED BY <2>1 DEF Scanned
<1> QED BY <1>1, CursorInvInit, CursorInvStep, PTL DEF Spec

-----------------------------------------------------------------------------
(* Who is credited.                                                          *)

\* The transaction of the key pays u with a log that may have the index of the key.
Payee(k, u) ==
    \E b \in Bases : \E i \in DOMAIN Recipients[k[1]] :
        k[2] = b + i - 1 /\ u = Recipients[k[1]][i]

\* A row that exists belongs to a user whom its transaction pays.
PayeeInv(d) ==
    \A k \in Txs \X LogIndexes : d.rows[k].status # "none" => Payee(k, d.rows[k].user)

PayeesInv == PayeeInv(db) /\ PayeeInv(session)

\* A log pays a payee of its key.
LEMMA LogPayee ==
    ASSUME NEW block \in Blocks, NEW log \in Logs(block)
    PROVE  Payee(log.key, log.user)
<1>1. PICK p \in block.txs :
            log \in {[key |-> <<p[1], p[2] + i - 1>>, user |-> Recipients[p[1]][i]] :
                        i \in DOMAIN Recipients[p[1]]}
    BY DEF Logs
<1>2. PICK i \in DOMAIN Recipients[p[1]] :
            log = [key |-> <<p[1], p[2] + i - 1>>, user |-> Recipients[p[1]][i]]
    BY <1>1
<1>3. p[2] \in Bases
    BY DEF Blocks
<1> QED BY <1>2, <1>3 DEF Payee

\* _insert_if_new gives an unknown row the user of the log and keeps that of a
\* resurrected one.
LEMMA RecordPayee ==
    ASSUME chain \in Seq(Blocks), NEW n \in 1..Len(chain), NEW rows \in [Rows -> RowTypes],
           NEW k \in Txs \X LogIndexes, rows[k].status # "none" => Payee(k, rows[k].user)
    PROVE  RecordLogs(rows, n)[k].status # "none" => Payee(k, RecordLogs(rows, n)[k].user)
<1>1. chain[n] \in Blocks /\ k \in Rows
    BY ElementOfSeq, LenProperties DEF Rows
<1>2. CASE ~\E log \in Logs(chain[n]) : log.key = k
    BY <1>1, <1>2 DEF RecordLogs
<1>3. CASE \E log \in Logs(chain[n]) : log.key = k
    <2> DEFINE l == CHOOSE log \in Logs(chain[n]) : log.key = k
    <2>1. l \in Logs(chain[n]) /\ l.key = k
        BY <1>3
    <2>2. Payee(k, l.user)
        BY <1>1, <2>1, LogPayee
    <2>3. RecordLogs(rows, n)[k] = InsertIfNew(rows[k], n, Hash(n), l.user)
        BY <1>1, <1>3 DEF RecordLogs
    <2> HIDE DEF l
    <2>4. CASE rows[k].status = "none"
        BY <2>2, <2>3, <2>4 DEF InsertIfNew, NewRow
    <2>5. CASE rows[k].status # "none"
        <3>1. Payee(k, rows[k].user)
            BY <2>5
        <3>2. InsertIfNew(rows[k], n, Hash(n), l.user).user = rows[k].user
            BY <2>5 DEF InsertIfNew
        <3> QED BY <2>3, <3>1, <3>2
    <2> QED BY <2>4, <2>5
<1> QED BY <1>2, <1>3

\* A step that creates no row and keeps the users keeps the payees.
LEMMA PayeeFrame ==
    ASSUME NEW d, NEW e, PayeeInv(d),
           \A k \in Txs \X LogIndexes :
                /\ e.rows[k].user = d.rows[k].user
                /\ d.rows[k].status = "none" => e.rows[k].status = "none"
    PROVE  PayeeInv(e)
    BY DEF PayeeInv

\* The steps of a pass on the rows of the session.
LEMMA PayeeRecord == TypeOK /\ PayeesInv /\ RecordBlock => PayeeInv(session')
<1> SUFFICES ASSUME TypeOK, PayeesInv, RecordBlock PROVE PayeeInv(session')
    OBVIOUS
<1>1. PICK n \in todo, view \in Heads :
        session' = IF n \in 1..view
                   THEN [session EXCEPT !.rows = RecordLogs(session.rows, n)]
                   ELSE session
    BY DEF RecordBlock
<1>2. CASE n \notin 1..view
    BY <1>1, <1>2 DEF PayeesInv
<1>3. CASE n \in 1..view
    <2>1. n \in 1..Len(chain) /\ chain \in Seq(Blocks) /\ session.rows \in [Rows -> RowTypes]
        BY <1>3, LenProperties DEF Heads, TypeOK, Databases
    <2>2. session'.rows = RecordLogs(session.rows, n)
        BY <1>1, <1>3 DEF TypeOK, Databases
    <2> SUFFICES ASSUME NEW k \in Txs \X LogIndexes
                 PROVE  session'.rows[k].status # "none" => Payee(k, session'.rows[k].user)
        BY DEF PayeeInv
    <2>3. session.rows[k].status # "none" => Payee(k, session.rows[k].user)
        BY DEF PayeesInv, PayeeInv
    <2> QED BY <2>1, <2>2, <2>3, RecordPayee
<1> QED BY <1>2, <1>3

LEMMA PayeeConfirm == TypeOK /\ PayeesInv /\ StartCredit => PayeeInv(session')
<1> SUFFICES ASSUME TypeOK, PayeesInv, StartCredit PROVE PayeeInv(session')
    OBVIOUS
<1>1. PICK head \in Heads :
        session' = [session EXCEPT !.rows = [k \in Rows |->
                IF Final(session.rows[k], head) THEN [session.rows[k] EXCEPT !.status = "confirmed"]
                ELSE session.rows[k]]]
    BY DEF StartCredit
<1>2. \A k \in Rows : /\ session'.rows[k].user = session.rows[k].user
                      /\ session.rows[k].status = "none" => session'.rows[k].status = "none"
    BY <1>1 DEF TypeOK, Databases, RowTypes, Final
<1> QED BY <1>2, PayeeFrame DEF PayeesInv, Rows

LEMMA PayeeLoop ==
    ASSUME WatcherInv, PayeesInv, NEW k \in Rows, CreditRow(k) \/ CheckRow(k)
    PROVE  PayeeInv(session')
<1>1. session \in Databases /\ session.rows[k].status # "none"
    BY DEF WatcherInv, TypeOK, PhaseInv, CreditRow, CheckRow
<1>2. \/ session'.rows = session.rows
      \/ \E st \in Statuses : session'.rows = [session.rows EXCEPT ![k].status = st]
    BY <1>1 DEF CreditRow, CheckRow, Databases, Statuses
<1>3. ASSUME NEW r \in Rows
      PROVE  /\ session'.rows[r].user = session.rows[r].user
             /\ session.rows[r].status = "none" => session'.rows[r].status = "none"
    <2>1. session.rows \in [Rows -> RowTypes]
        BY <1>1 DEF Databases
    <2>2. CASE session'.rows = session.rows
        BY <2>2
    <2>3. ASSUME NEW st \in Statuses, session'.rows = [session.rows EXCEPT ![k].status = st]
          PROVE  /\ session'.rows[r].user = session.rows[r].user
                 /\ session.rows[r].status = "none" => session'.rows[r].status = "none"
        <3>1. CASE r = k
            <4>1. session'.rows[k] = [session.rows[k] EXCEPT !.status = st]
                BY <2>1, <2>3
            <4>2. session'.rows[k].user = session.rows[k].user
                BY <2>1, <4>1 DEF RowTypes
            <4> QED BY <1>1, <3>1, <4>2
        <3>2. CASE r # k
            <4>1. session'.rows[r] = session.rows[r]
                BY <2>1, <2>3, <3>2
            <4> QED BY <4>1
        <3> QED BY <3>1, <3>2
    <2> QED BY <1>2, <2>2, <2>3
<1> QED BY <1>3, PayeeFrame DEF PayeesInv, Rows

\* The row of a simulated deposit has no transaction.
LEMMA PayeeFaucet ==
    ASSUME TypeOK, PayeesInv, NEW s \in Sims, NEW u \in Users, FaucetSimulate(s, u)
    PROVE  PayeesInv'
<1>1. \A k \in Txs \X LogIndexes : db'.rows[k] = db.rows[k] /\ session'.rows[k] = session.rows[k]
    BY NullAssumption DEF FaucetSimulate, TypeOK, Databases, Rows
<1> QED BY <1>1, PayeeFrame DEF PayeesInv

LEMMA PayeesStep == WatcherInv /\ PayeesInv /\ [Next]_vars => PayeesInv'
<1> SUFFICES ASSUME WatcherInv, PayeesInv, [Next]_vars PROVE PayeesInv'
    OBVIOUS
<1>1. TypeOK
    BY DEF WatcherInv
<1>2. CASE Mine \/ Reorg \/ StartReorgs \/ UNCHANGED vars
    BY <1>2 DEF Mine, Reorg, StartReorgs, watcherVars, vars, PayeesInv, PayeeInv
<1>3. CASE BeginScan
    <2>1. db' = db /\ session'.rows = db.rows
        BY <1>1, <1>3 DEF BeginScan, TypeOK, Databases
    <2> QED BY <2>1 DEF PayeesInv, PayeeInv
<1>4. CASE RecordBlock \/ StartCredit \/ \E k \in Rows : CreditRow(k) \/ CheckRow(k)
    <2>1. db' = db
        BY <1>4 DEF RecordBlock, StartCredit, CreditRow, CheckRow
    <2> QED BY <1>1, <1>4, <2>1, PayeeRecord, PayeeConfirm, PayeeLoop DEF PayeesInv
<1>5. CASE Commit
    <2>1. db' = session' /\ session'.rows = session.rows
        BY <1>1, <1>5 DEF Commit, TypeOK, Databases
    <2> QED BY <2>1 DEF PayeesInv, PayeeInv
<1>6. CASE Fail
    BY <1>6 DEF Fail, PayeesInv
<1>7. CASE \E s \in Sims, u \in Users : FaucetSimulate(s, u)
    BY <1>1, <1>7, PayeeFaucet
<1> QED BY <1>2, <1>3, <1>4, <1>5, <1>6, <1>7 DEF Next, Watch

LEMMA PayeesAlways == Spec => []PayeesInv
<1>1. Init => PayeesInv
    BY DEF Init, PayeesInv, PayeeInv, NoRow, Rows
<1>2. Spec => []WatcherInv
    BY WatcherInvInit, WatcherInvStep, PTL DEF Spec
<1> QED BY <1>1, <1>2, PayeesStep, PTL DEF Spec

\* The logs of a transaction that can have one index all pay one user: it is a native
\* transfer, it pays a single user, or its logs keep their indexes.
OneUserPerKey ==
    \A t \in Txs, b, c \in Bases : \A i, j \in DOMAIN Recipients[t] :
        b + i = c + j => Recipients[t][i] = Recipients[t][j]

\* Over any number of reorganisations, a credit goes to the user whom the log pays,
\* provided that all logs that can take its key pay one user.  Without that condition
\* _insert_if_new resurrects a row under the user it had before.
THEOREM CreditReachesRecipient == Spec => [](OneUserPerKey => CreditedToRecipient)
<1>1. TypeOK /\ PayeesInv => (OneUserPerKey => CreditedToRecipient)
    <2> SUFFICES ASSUME TypeOK, PayeesInv, OneUserPerKey,
                        NEW n \in 1..Len(chain), NEW log \in Logs(chain[n]), CreditedAt(log, n)
                 PROVE  db.rows[log.key].user = log.user
        BY DEF CreditedToRecipient
    <2>1. chain[n] \in Blocks
        BY ElementOfSeq, LenProperties DEF TypeOK
    <2>2. log.key \in Txs \X LogIndexes /\ Payee(log.key, log.user)
        BY <2>1, LogsType, LogPayee
    <2>3. Payee(log.key, db.rows[log.key].user)
        BY <2>2 DEF PayeesInv, PayeeInv, CreditedAt
    <2>4. PICK b \in Bases, i \in DOMAIN Recipients[log.key[1]] :
            log.key[2] = b + i - 1 /\ log.user = Recipients[log.key[1]][i]
        BY <2>2 DEF Payee
    <2>5. PICK c \in Bases, j \in DOMAIN Recipients[log.key[1]] :
            log.key[2] = c + j - 1 /\ db.rows[log.key].user = Recipients[log.key[1]][j]
        BY <2>3 DEF Payee
    <2>6. Recipients[log.key[1]] \in Seq(Users) /\ b \in Int /\ c \in Int
        BY <2>2, WatcherAssumption
    <2>7. i \in Int /\ j \in Int
        BY <2>6, LenProperties
    <2>8. b + i = c + j
        BY <2>4, <2>5, <2>6, <2>7
    <2>9. log.key[1] \in Txs
        BY <2>2
    <2>10. Recipients[log.key[1]][i] = Recipients[log.key[1]][j]
        BY <2>8, <2>9 DEF OneUserPerKey
    <2> QED BY <2>4, <2>5, <2>10
<1> QED BY <1>1, WatcherTypeCorrect, PayeesAlways, PTL
=============================================================================
