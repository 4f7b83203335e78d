-------------------------- MODULE DepositOnceProofs --------------------------
(***************************************************************************)
(* A transfer is credited once, although a reorganisation gives its log    *)
(* another index and so its row another key: NoDoubleCredit, for every     *)
(* value of the constants.                                                 *)
(*                                                                         *)
(* The pass that credits the new row is the one that reverses the old one. *)
(* That needs the old row inside the window of handle_reorgs when the pass *)
(* gets there (StaleInWindow), and a provider that has its block.          *)
(***************************************************************************)
EXTENDS DepositWatcherProofs, FiniteSetTheorems

-----------------------------------------------------------------------------
(* One credit per transfer.                                                  *)

\* A transaction is mined once on the chain c.
MinedOnce(c) ==
    \A t \in Txs, g, h \in 1..Len(c), a, b \in Bases :
        <<t, a>> \in c[g].txs /\ <<t, b>> \in c[h].txs => g = h /\ a = b

Live(row) == row.status \in {"seen", "confirmed", "credited"}

\* The block of the row is still the one at its height of c.
Canonical(row, c) == row.hash = SubSeq(c, 1, row.block)

\* The log indexes of transaction t when its logs start at b.
Span(t, b) == b..(b + Len(Recipients[t]) - 1)

\* A live row of transaction t and log index i is of a height of c, deep enough once
\* it is CREDITED, and of a log of t when its block is canonical.
LoggedRow(row, c, t, i) ==
    Live(row) =>
        /\ row.block \in 1..Len(c)
        /\ row.status = "credited" => row.block + Confirmations <= Len(c)
        /\ Canonical(row, c) =>
                \E b \in Bases : <<t, b>> \in c[row.block].txs /\ i \in Span(t, b)

Logged(d, c) == \A t \in Txs, i \in LogIndexes : LoggedRow(d.rows[<<t, i>>], c, t, i)

AllCanonical(d, c) ==
    \A t \in Txs, i \in LogIndexes : Live(d.rows[<<t, i>>]) => Canonical(d.rows[<<t, i>>], c)

Kept(d, c, t, i) == d.rows[<<t, i>>].status = "credited" /\ Canonical(d.rows[<<t, i>>], c)
Stale(d, c, t, i) == d.rows[<<t, i>>].status = "credited" /\ ~Canonical(d.rows[<<t, i>>], c)

\* The credits of t whose blocks were replaced are of one mining of t.
StaleTogether(d, c) ==
    \A t \in Txs : \E b \in Nat : \A i \in LogIndexes : Stale(d, c, t, i) => i \in Span(t, b)

\* No transaction is credited both from a canonical block and from a replaced one, but
\* for the replaced rows in rest.
Unmixed(d, c, rest) ==
    \A t \in Txs, i, j \in LogIndexes :
        Kept(d, c, t, i) /\ Stale(d, c, t, j) => <<t, j>> \in rest

\* The rows that handle_reorgs of this pass has still to compare.
Uncompared ==
    IF pc = "credit" THEN Rows ELSE IF pc = "reorgs" THEN todo ELSE {}

\* All of it for the chain c after r reorganisations, at most one.
OnceOver(d, c, r, rest) ==
    /\ Logged(d, c)
    /\ r = 0 => AllCanonical(d, c)
    /\ StaleTogether(d, c)
    /\ Unmixed(d, c, rest)

OnceInv ==
    /\ FinalInv
    /\ MinedOnce(chain)
    /\ MaxLag <= Confirmations /\ reorgs <= 1 =>
            /\ OnceOver(db, chain, reorgs, {})
            /\ OnceOver(session, chain, reorgs, Uncompared)

\* The window of handle_reorgs covers every CREDITED row whose block was replaced:
\* the pass that sees the replacement comes before the row is too deep.
StaleInWindow ==
    \A t \in Txs, i \in LogIndexes :
        Stale(session, chain, t, i) =>
            session.rows[<<t, i>>].block > WindowFloor(Len(chain))

-----------------------------------------------------------------------------
(* The chain.                                                                *)

\* A block on top changes no hash and no block below it.
LEMMA AppendKeeps ==
    ASSUME NEW c \in Seq(Blocks), NEW block \in Blocks, NEW n \in 1..Len(c)
    PROVE  /\ SubSeq(Append(c, block), 1, n) = SubSeq(c, 1, n)
           /\ Append(c, block)[n] = c[n]
           /\ n \in 1..Len(Append(c, block))
    BY AppendProperties, LenProperties, SubSeqProperties

\* Equal hashes, equal blocks.
LEMMA SameHashSameBlock ==
    ASSUME NEW c \in Seq(Blocks), NEW e \in Seq(Blocks), NEW n \in 1..Len(c), n \in 1..Len(e),
           SubSeq(c, 1, n) = SubSeq(e, 1, n)
    PROVE  c[n] = e[n]
<1>1. n \in Nat /\ n >= 1 /\ Len(c) \in Nat /\ Len(e) \in Nat
    BY LenProperties
<1>2. SubSeq(c, 1, n)[n] = c[n] /\ SubSeq(e, 1, n)[n] = e[n]
    BY <1>1, SubSeqProperties
<1> QED BY <1>2

LEMMA MinedOnceMine ==
    ASSUME chain \in Seq(Blocks), MinedOnce(chain), NEW block \in Blocks,
           block.txs \in Placements(Txs \ MinedIn(chain, Len(chain)))
    PROVE  MinedOnce(Append(chain, block))
<1> DEFINE c == Append(chain, block)
           top == Len(chain) + 1
<1>1. Len(chain) \in Nat /\ Len(c) = top /\ c[top] = block
    BY AppendProperties, LenProperties
<1>2. \A h \in 1..Len(chain) : c[h] = chain[h]
    BY AppendProperties
<1> HIDE DEF c
<1>3. \A h \in 1..Len(c) : h \in 1..Len(chain) \/ h = top
    BY <1>1
<1>4. \A t, b : <<t, b>> \in block.txs =>
        \A h \in 1..Len(chain), a \in Bases : <<t, a>> \notin chain[h].txs
    <2> SUFFICES ASSUME NEW t, NEW b, <<t, b>> \in block.txs,
                        NEW h \in 1..Len(chain), NEW a \in Bases, <<t, a>> \in chain[h].txs
                 PROVE  FALSE
        OBVIOUS
    <2>1. t \in Txs \ MinedIn(chain, Len(chain))
        BY DEF Placements
    <2> QED BY <2>1 DEF MinedIn
<1>5. \A t, a, b : <<t, a>> \in block.txs /\ <<t, b>> \in block.txs => a = b
    BY DEF Placements
<1> SUFFICES ASSUME NEW t \in Txs, NEW g \in 1..Len(c), NEW h \in 1..Len(c), NEW a \in Bases,
                    NEW b \in Bases, <<t, a>> \in c[g].txs, <<t, b>> \in c[h].txs
             PROVE  g = h /\ a = b
    BY DEF MinedOnce, c
<1>6. CASE g \in 1..Len(chain) /\ h \in 1..Len(chain)
    BY <1>2, <1>6 DEF MinedOnce
<1>7. CASE g = top \/ h = top
    BY <1>1, <1>2, <1>3, <1>4, <1>5, <1>7
<1> QED BY <1>3, <1>6, <1>7

LEMMA MinedOnceReorg ==
    ASSUME chain \in Seq(Blocks), MinedOnce(chain), NEW n \in 0..(Len(chain) - 1), NEW s \in Salts,
           NEW height \in [Txs \ MinedIn(chain, n) -> {0} \cup (n + 1)..Len(chain)],
           NEW base \in [Txs \ MinedIn(chain, n) -> Bases]
    PROVE  MinedOnce(Replaced(n, s, height, base))
<1> DEFINE c == Replaced(n, s, height, base)
<1>1. Len(chain) \in Nat /\ Len(c) = Len(chain) /\ n \in Nat
    BY LenProperties DEF Replaced
<1>2. \A h \in 1..Len(chain) : h <= n => c[h] = chain[h]
    BY DEF Replaced
<1>3. \A h \in 1..Len(chain) : ~(h <= n) =>
        c[h].txs = {<<t, base[t]>> : t \in {u \in Txs \ MinedIn(chain, n) : height[u] = h}}
    BY DEF Replaced
<1> HIDE DEF c
<1>4. \A h \in 1..Len(chain) : h <= n =>
        \A t, b : t \in Txs /\ b \in Bases /\ <<t, b>> \in c[h].txs => t \in MinedIn(chain, n)
    <2> SUFFICES ASSUME NEW h \in 1..Len(chain), h <= n, NEW t \in Txs, NEW b \in Bases,
                        <<t, b>> \in c[h].txs
                 PROVE  \E g \in 1..n : \E a \in Bases : <<t, a>> \in chain[g].txs
        BY DEF MinedIn
    <2>1. h \in 1..n /\ <<t, b>> \in chain[h].txs
        BY <1>1, <1>2
    <2> QED BY <2>1
<1>5. \A h \in 1..Len(chain) : ~(h <= n) =>
        \A t, b : <<t, b>> \in c[h].txs =>
            t \notin MinedIn(chain, n) /\ b = base[t] /\ h = height[t]
    BY <1>3
<1> SUFFICES ASSUME NEW t \in Txs, NEW g \in 1..Len(c), NEW h \in 1..Len(c), NEW a \in Bases,
                    NEW b \in Bases, <<t, a>> \in c[g].txs, <<t, b>> \in c[h].txs
             PROVE  g = h /\ a = b
    BY DEF MinedOnce, c
<1>6. CASE g <= n /\ h <= n
    BY <1>1, <1>2, <1>6 DEF MinedOnce
<1>7. CASE ~(g <= n /\ h <= n)
    BY <1>1, <1>4, <1>5, <1>7
<1> QED BY <1>6, <1>7

-----------------------------------------------------------------------------
(* The credits of a database, on one chain.                                  *)

\* The CREDITED rows of t from canonical blocks are of the one mining of t: they share
\* their block and lie in the span of its logs.
LEMMA KeptTogether ==
    ASSUME NEW d, NEW c, MinedOnce(c), Logged(d, c), NEW t \in Txs
    PROVE  \E b \in Nat : \A i \in LogIndexes : Kept(d, c, t, i) => i \in Span(t, b)
<1>1. CASE \E i \in LogIndexes : Kept(d, c, t, i)
    <2>1. PICK i \in LogIndexes : Kept(d, c, t, i)
        BY <1>1
    <2>2. PICK b \in Bases : <<t, b>> \in c[d.rows[<<t, i>>].block].txs
        BY <2>1 DEF Logged, LoggedRow, Kept, Live
    <2>3. d.rows[<<t, i>>].block \in 1..Len(c)
        BY <2>1 DEF Logged, LoggedRow, Kept, Live
    <2>4. ASSUME NEW j \in LogIndexes, Kept(d, c, t, j) PROVE j \in Span(t, b)
        <3>1. PICK a \in Bases : <<t, a>> \in c[d.rows[<<t, j>>].block].txs /\ j \in Span(t, a)
            BY <2>4 DEF Logged, LoggedRow, Kept, Live
        <3>2. d.rows[<<t, j>>].block \in 1..Len(c)
            BY <2>4 DEF Logged, LoggedRow, Kept, Live
        <3>3. a = b
            BY <2>2, <2>3, <3>1, <3>2 DEF MinedOnce
        <3> QED BY <3>1, <3>3
    <2>5. b \in Nat
        BY WatcherAssumption
    <2> QED BY <2>4, <2>5
<1>2. CASE \A i \in LogIndexes : ~Kept(d, c, t, i)
    BY <1>2
<1> QED BY <1>1, <1>2

LEMMA KeptSameBlock ==
    ASSUME NEW d, NEW c, MinedOnce(c), Logged(d, c), NEW t \in Txs,
           NEW i \in LogIndexes, NEW j \in LogIndexes, Kept(d, c, t, i), Kept(d, c, t, j)
    PROVE  d.rows[<<t, i>>].block = d.rows[<<t, j>>].block
<1>1. PICK a \in Bases : <<t, a>> \in c[d.rows[<<t, i>>].block].txs
    BY DEF Logged, LoggedRow, Kept, Live
<1>2. PICK b \in Bases : <<t, b>> \in c[d.rows[<<t, j>>].block].txs
    BY DEF Logged, LoggedRow, Kept, Live
<1>3. d.rows[<<t, i>>].block \in 1..Len(c) /\ d.rows[<<t, j>>].block \in 1..Len(c)
    BY DEF Logged, LoggedRow, Kept, Live
<1> QED BY <1>1, <1>2, <1>3 DEF MinedOnce

\* As many log indexes as the transaction makes transfers.
LEMMA SpanSize ==
    ASSUME NEW t \in Txs, NEW b \in Nat, NEW S, S \subseteq Span(t, b)
    PROVE  Cardinality(S) <= Len(Recipients[t])
<1>1. Len(Recipients[t]) \in Nat
    BY LenProperties, WatcherAssumption
<1> DEFINE top == b + Len(Recipients[t]) - 1
<1>2. b \in Int /\ top \in Int
    BY <1>1
<1>3. IsFiniteSet(b..top) /\ Cardinality(b..top) = IF b > top THEN 0 ELSE top - b + 1
    BY <1>2, FS_Interval
<1>4. Cardinality(b..top) = Len(Recipients[t])
    BY <1>1, <1>3
<1>5. S \subseteq b..top
    BY DEF Span
<1> HIDE DEF top
<1>6. Cardinality(S) <= Cardinality(b..top)
    BY <1>3, <1>5, FS_Subset
<1> QED BY <1>4, <1>6

\* A database in which no transaction is credited from two minings credits no
\* transaction more often than it pays.
LEMMA UnmixedOnce ==
    ASSUME NEW d, NEW c, MinedOnce(c), Logged(d, c), StaleTogether(d, c), Unmixed(d, c, {}),
           NEW t \in Txs
    PROVE  Cardinality({i \in LogIndexes : d.rows[<<t, i>>].status = "credited"})
                <= Len(Recipients[t])
<1> DEFINE S == {i \in LogIndexes : d.rows[<<t, i>>].status = "credited"}
<1>1. \A i \in S : i \in LogIndexes /\ (Kept(d, c, t, i) \/ Stale(d, c, t, i))
    BY DEF Kept, Stale
<1>2. CASE \E i \in LogIndexes : Kept(d, c, t, i)
    <2>1. PICK b \in Nat : \A i \in LogIndexes : Kept(d, c, t, i) => i \in Span(t, b)
        BY KeptTogether
    <2>2. S \subseteq Span(t, b)
        BY <1>1, <1>2, <2>1 DEF Unmixed
    <2> QED BY <2>2, SpanSize
<1>3. CASE \A i \in LogIndexes : ~Kept(d, c, t, i)
    <2>1. PICK b \in Nat : \A i \in LogIndexes : Stale(d, c, t, i) => i \in Span(t, b)
        BY DEF StaleTogether
    <2>2. S \subseteq Span(t, b)
        BY <1>1, <1>3, <2>1
    <2> QED BY <2>2, SpanSize
<1> QED BY <1>2, <1>3

\* A block is mined: no row is affected.
LEMMA OnceMine ==
    ASSUME NEW c \in Seq(Blocks), NEW block \in Blocks, NEW d \in Databases, Logged(d, c)
    PROVE  /\ Logged(d, Append(c, block))
           /\ \A t \in Txs, i \in LogIndexes : Live(d.rows[<<t, i>>]) =>
                (Canonical(d.rows[<<t, i>>], Append(c, block)) <=> Canonical(d.rows[<<t, i>>], c))
<1> DEFINE e == Append(c, block)
<1>1. Len(c) \in Nat /\ Len(e) = Len(c) + 1 /\ Confirmations \in Nat
    BY AppendProperties, LenProperties, WatcherAssumption
<1>2. \A n \in 1..Len(c) : SubSeq(e, 1, n) = SubSeq(c, 1, n) /\ e[n] = c[n] /\ n \in 1..Len(e)
    BY AppendKeeps
<1> HIDE DEF e
<1>3. ASSUME NEW t \in Txs, NEW i \in LogIndexes, Live(d.rows[<<t, i>>])
      PROVE  /\ Canonical(d.rows[<<t, i>>], e) <=> Canonical(d.rows[<<t, i>>], c)
             /\ LoggedRow(d.rows[<<t, i>>], e, t, i)
    <2> DEFINE row == d.rows[<<t, i>>]
    <2>1. LoggedRow(row, c, t, i) /\ row.block \in Nat
        BY DEF Logged, Databases, RowTypes, Rows
    <2> HIDE DEF row
    <2>2. Live(row)
        BY <1>3 DEF row
    <2>3. row.block \in 1..Len(c)
        BY <2>1, <2>2 DEF LoggedRow
    <2>4. SubSeq(e, 1, row.block) = SubSeq(c, 1, row.block) /\ e[row.block] = c[row.block]
          /\ row.block \in 1..Len(e)
        BY <1>2, <2>3
    <2>5. Canonical(row, e) <=> Canonical(row, c)
        BY <2>4 DEF Canonical
    <2>6. row.status = "credited" => row.block + Confirmations <= Len(e)
        BY <1>1, <2>1, <2>2 DEF LoggedRow
    <2>7. LoggedRow(row, e, t, i)
        BY <2>1, <2>2, <2>4, <2>5, <2>6 DEF LoggedRow
    <2> QED BY <2>5, <2>7 DEF row
<1> QED BY <1>3 DEF Logged, LoggedRow, e

\* A chain e on which the same live rows are canonical has the same credits kept and
\* replaced.
LEMMA SameCanonical ==
    ASSUME NEW c, NEW e, NEW d,
           \A t \in Txs, i \in LogIndexes : Live(d.rows[<<t, i>>]) =>
                (Canonical(d.rows[<<t, i>>], e) <=> Canonical(d.rows[<<t, i>>], c))
    PROVE  /\ AllCanonical(d, c) => AllCanonical(d, e)
           /\ StaleTogether(d, c) => StaleTogether(d, e)
           /\ \A rest : Unmixed(d, c, rest) => Unmixed(d, e, rest)
<1>1. \A t \in Txs, i \in LogIndexes :
        /\ Kept(d, e, t, i) <=> Kept(d, c, t, i)
        /\ Stale(d, e, t, i) <=> Stale(d, c, t, i)
    BY DEF Kept, Stale, Live
<1> QED BY <1>1 DEF AllCanonical, StaleTogether, Unmixed

\* The first reorganisation, from c to e: until then every row is of c, so the rows
\* of a transaction are all replaced or all kept.
LEMMA OnceReorg ==
    ASSUME NEW c \in Seq(Blocks), NEW e \in Seq(Blocks), Len(e) = Len(c), NEW d \in Databases,
           MinedOnce(c), Logged(d, c), AllCanonical(d, c)
    PROVE  Logged(d, e) /\ StaleTogether(d, e) /\ Unmixed(d, e, {})
<1>1. Len(c) \in Nat
    BY LenProperties
<1>2. Logged(d, e)
    <2> SUFFICES ASSUME NEW t \in Txs, NEW i \in LogIndexes
                 PROVE  LoggedRow(d.rows[<<t, i>>], e, t, i)
        BY DEF Logged
    <2> DEFINE row == d.rows[<<t, i>>]
    <2>1. LoggedRow(row, c, t, i) /\ (Live(row) => Canonical(row, c))
        BY DEF Logged, AllCanonical
    <2> HIDE DEF row
    <2>2. Live(row) => row.block \in 1..Len(c)
        BY <2>1 DEF LoggedRow
    <2>3. Live(row) /\ Canonical(row, e) => e[row.block] = c[row.block]
        BY <2>1, <2>2, SameHashSameBlock DEF Canonical
    <2>4. LoggedRow(row, e, t, i)
        BY <2>1, <2>3 DEF LoggedRow
    <2> QED BY <2>4 DEF row
<1>3. \A t \in Txs, i \in LogIndexes : Kept(d, e, t, i) \/ Stale(d, e, t, i) => Kept(d, c, t, i)
    BY DEF AllCanonical, Kept, Stale, Live
<1>4. StaleTogether(d, e)
    <2> SUFFICES ASSUME NEW t \in Txs
                 PROVE  \E b \in Nat : \A i \in LogIndexes : Stale(d, e, t, i) => i \in Span(t, b)
        BY DEF StaleTogether
    <2>1. PICK b \in Nat : \A i \in LogIndexes : Kept(d, c, t, i) => i \in Span(t, b)
        BY KeptTogether
    <2> QED BY <1>3, <2>1
<1>5. Unmixed(d, e, {})
    <2> SUFFICES ASSUME NEW t \in Txs, NEW i \in LogIndexes, NEW j \in LogIndexes,
                        Kept(d, e, t, i), Stale(d, e, t, j)
                 PROVE  FALSE
        BY DEF Unmixed
    <2>1. Kept(d, c, t, i) /\ Kept(d, c, t, j)
        BY <1>3
    <2>2. d.rows[<<t, i>>].block = d.rows[<<t, j>>].block
        BY <2>1, KeptSameBlock
    <2> QED BY <2>1, <2>2 DEF Kept, Stale, Canonical
<1> QED BY <1>2, <1>4, <1>5

\* What one row may become on the chain c: itself, a row of a log of c, the same row one
\* status further, credited when its block is canonical, or a row that is not live.
RowMoves(old, new, c, t, i) ==
    \/ new = old
    \/ ~Live(new)
    \/ /\ new.status = "seen" /\ new.block \in 1..Len(c) /\ Canonical(new, c)
       /\ \E b \in Bases : <<t, b>> \in c[new.block].txs /\ i \in Span(t, b)
    \/ /\ old.status = "seen" /\ new.status = "confirmed"
       /\ new.block = old.block /\ new.hash = old.hash
    \/ /\ old.status = "confirmed" /\ new.status = "credited"
       /\ new.block = old.block /\ new.hash = old.hash
       /\ Canonical(new, c) /\ new.block + Confirmations <= Len(c)

Moves(d, e, c) ==
    \A t \in Txs, i \in LogIndexes : RowMoves(d.rows[<<t, i>>], e.rows[<<t, i>>], c, t, i)

\* Such steps never credit a row of a replaced block.
LEMMA MovesKeep ==
    ASSUME NEW c, NEW d, NEW e, Moves(d, e, c)
    PROVE  /\ Logged(d, c) => Logged(e, c)
           /\ AllCanonical(d, c) => AllCanonical(e, c)
           /\ StaleTogether(d, c) => StaleTogether(e, c)
           /\ \A t \in Txs, i \in LogIndexes : Stale(e, c, t, i) => Stale(d, c, t, i)
<1>1. ASSUME NEW t \in Txs, NEW i \in LogIndexes
      PROVE  /\ LoggedRow(d.rows[<<t, i>>], c, t, i) => LoggedRow(e.rows[<<t, i>>], c, t, i)
             /\ \/ Live(d.rows[<<t, i>>]) /\ ~Canonical(d.rows[<<t, i>>], c)
                \/ Canonical(e.rows[<<t, i>>], c) \/ ~Live(e.rows[<<t, i>>])
             /\ Stale(e, c, t, i) => Stale(d, c, t, i)
    <2> DEFINE old == d.rows[<<t, i>>]
               new == e.rows[<<t, i>>]
    <2>1. RowMoves(old, new, c, t, i)
        BY DEF Moves
    <2>2. Stale(e, c, t, i) <=> new.status = "credited" /\ ~Canonical(new, c)
        BY DEF Stale
    <2>3. Stale(d, c, t, i) <=> old.status = "credited" /\ ~Canonical(old, c)
        BY DEF Stale
    <2> HIDE DEF old, new
    <2>4. LoggedRow(old, c, t, i) => LoggedRow(new, c, t, i)
        BY <2>1 DEF RowMoves, LoggedRow, Live, Canonical
    <2>5. (Live(old) /\ ~Canonical(old, c)) \/ Canonical(new, c) \/ ~Live(new)
        BY <2>1 DEF RowMoves, Live, Canonical
    <2>6. Stale(e, c, t, i) => Stale(d, c, t, i)
        BY <2>1, <2>2, <2>3 DEF RowMoves, Live
    <2> QED BY <2>4, <2>5, <2>6 DEF old, new
<1>2. Logged(d, c) => Logged(e, c)
    BY <1>1 DEF Logged
<1>3. AllCanonical(d, c) => AllCanonical(e, c)
    BY <1>1 DEF AllCanonical
<1>4. StaleTogether(d, c) => StaleTogether(e, c)
    BY <1>1 DEF StaleTogether
<1> QED BY <1>1, <1>2, <1>3, <1>4

\* Without a new credit, no transaction becomes credited from two minings.
LEMMA UnmixedKeeps ==
    ASSUME NEW c, NEW d, NEW e, NEW rest, Unmixed(d, c, rest),
           \A t \in Txs, i \in LogIndexes :
                e.rows[<<t, i>>].status = "credited" => e.rows[<<t, i>>] = d.rows[<<t, i>>]
    PROVE  Unmixed(e, c, rest)
<1>1. \A t \in Txs, i \in LogIndexes :
        /\ Kept(e, c, t, i) => Kept(d, c, t, i)
        /\ Stale(e, c, t, i) => Stale(d, c, t, i)
    BY DEF Kept, Stale
<1> QED BY <1>1 DEF Unmixed

-----------------------------------------------------------------------------
(* The steps.                                                                *)

\* A log keyed <<t, i>> is in the span of t.
LEMMA LogSpan ==
    ASSUME NEW block \in Blocks, NEW log \in Logs(block), NEW t \in Txs, NEW i \in LogIndexes,
           log.key = <<t, i>>
    PROVE  \E b \in Bases : <<t, b>> \in block.txs /\ i \in Span(t, b)
<1>1. PICK p \in block.txs :
            log \in {[key |-> <<p[1], p[2] + n - 1>>, user |-> Recipients[p[1]][n]] :
                        n \in DOMAIN Recipients[p[1]]}
    BY DEF Logs
<1>2. PICK n \in DOMAIN Recipients[p[1]] : log.key = <<p[1], p[2] + n - 1>>
    BY <1>1
<1>3. p \in Txs \X Bases
    BY DEF Blocks
<1>4. p = <<t, p[2]>> /\ p[2] \in Bases /\ i = p[2] + n - 1
    BY <1>2, <1>3
<1>5. n \in 1..Len(Recipients[t]) /\ Len(Recipients[t]) \in Nat /\ p[2] \in Nat
    <2>1. p[1] = t /\ n \in DOMAIN Recipients[t]
        BY <1>2, <1>4
    <2>2. Recipients[t] \in Seq(Users) /\ p[2] \in Nat
        BY <1>4, WatcherAssumption
    <2> QED BY <2>1, <2>2, LenProperties
<1>6. i \in Span(t, p[2])
    BY <1>4, <1>5 DEF Span
<1> QED BY <1>4, <1>6

\* record_deposits writes rows of the canonical chain, and leaves the live ones alone.
LEMMA RecordMoves ==
    ASSUME WatcherInv, RecordBlock
    PROVE  /\ Moves(session, session', chain)
           /\ \A k \in Rows : session'.rows[k].status = "credited" =>
                    session'.rows[k] = session.rows[k]
<1>1. PICK n \in todo, view \in Heads :
        session' = IF n \in 1..view
                   THEN [session EXCEPT !.rows = RecordLogs(session.rows, n)]
                   ELSE session
    BY DEF RecordBlock
<1>2. CASE n \notin 1..view
    BY <1>1, <1>2 DEF Moves, RowMoves
<1>3. CASE n \in 1..view
    <2>1. /\ n \in 1..Len(chain) /\ n \in Nat /\ chain \in Seq(Blocks) /\ Hash(n) \in Seq(Blocks)
          /\ chain[n] \in Blocks
        BY <1>3, LenProperties, HashType, ElementOfSeq DEF Heads, WatcherInv, TypeOK
    <2>2. session.rows \in [Rows -> RowTypes]
        BY DEF WatcherInv, TypeOK, Databases
    <2>3. session'.rows = RecordLogs(session.rows, n)
        BY <1>1, <1>3 DEF WatcherInv, TypeOK, Databases
    <2>4. ASSUME NEW k \in Rows
          PROVE  \/ session'.rows[k] = session.rows[k]
                 \/ /\ session'.rows[k].status = "seen" /\ session'.rows[k].block = n
                    /\ session'.rows[k].hash = Hash(n)
                    /\ \E log \in Logs(chain[n]) : log.key = k
        <3>1. CASE \E log \in Logs(chain[n]) : log.key = k
            <4> DEFINE user == (CHOOSE log \in Logs(chain[n]) : log.key = k).user
            <4>1. session'.rows[k] = InsertIfNew(session.rows[k], n, Hash(n), user)
                BY <2>3, <3>1 DEF RecordLogs
            <4> HIDE DEF user
            <4>2. \/ InsertIfNew(session.rows[k], n, Hash(n), user) = session.rows[k]
                  \/ /\ InsertIfNew(session.rows[k], n, Hash(n), user).status = "seen"
                     /\ InsertIfNew(session.rows[k], n, Hash(n), user).block = n
                     /\ InsertIfNew(session.rows[k], n, Hash(n), user).hash = Hash(n)
                BY DEF InsertIfNew, NewRow
            <4> QED BY <3>1, <4>1, <4>2
        <3>2. CASE ~\E log \in Logs(chain[n]) : log.key = k
            BY <2>3, <3>2 DEF RecordLogs
        <3> QED BY <3>1, <3>2
    <2>5. ASSUME NEW t \in Txs, NEW i \in LogIndexes
          PROVE  RowMoves(session.rows[<<t, i>>], session'.rows[<<t, i>>], chain, t, i)
        <3>1. <<t, i>> \in Rows
            BY DEF Rows
        <3>2. CASE session'.rows[<<t, i>>] = session.rows[<<t, i>>]
            BY <3>2 DEF RowMoves
        <3>3. CASE /\ session'.rows[<<t, i>>].status = "seen" /\ session'.rows[<<t, i>>].block = n
                   /\ session'.rows[<<t, i>>].hash = Hash(n)
                   /\ \E log \in Logs(chain[n]) : log.key = <<t, i>>
            <4>1. \E b \in Bases : <<t, b>> \in chain[n].txs /\ i \in Span(t, b)
                BY <2>1, <3>3, LogSpan
            <4> QED BY <2>1, <3>3, <4>1 DEF RowMoves, Canonical, Hash
        <3> QED BY <2>4, <3>1, <3>2, <3>3
    <2>6. \A k \in Rows : session'.rows[k].status = "credited" => session'.rows[k] = session.rows[k]
        BY <2>4
    <2> QED BY <2>5, <2>6 DEF Moves
<1> QED BY <1>2, <1>3

LEMMA ConfirmMoves ==
    ASSUME WatcherInv, StartCredit
    PROVE  /\ Moves(session, session', chain)
           /\ \A k \in Rows : session'.rows[k].status = "credited" =>
                    session'.rows[k] = session.rows[k]
<1>1. PICK head \in Heads :
        session' = [session EXCEPT !.rows = [r \in Rows |->
            IF Final(session.rows[r], head)
            THEN [session.rows[r] EXCEPT !.status = "confirmed"]
            ELSE session.rows[r]]]
    BY DEF StartCredit
<1>2. ASSUME NEW k \in Rows
      PROVE  \/ session'.rows[k] = session.rows[k]
             \/ /\ session.rows[k].status = "seen" /\ session'.rows[k].status = "confirmed"
                /\ session'.rows[k].block = session.rows[k].block
                /\ session'.rows[k].hash = session.rows[k].hash
    <2>1. session'.rows[k] = IF Final(session.rows[k], head)
                             THEN [session.rows[k] EXCEPT !.status = "confirmed"] ELSE session.rows[k]
        BY <1>1 DEF WatcherInv, TypeOK, Databases
    <2>2. session.rows[k] \in RowTypes
        BY DEF WatcherInv, TypeOK, Databases
    <2> QED BY <2>1, <2>2 DEF Final, RowTypes
<1>3. \A t \in Txs, i \in LogIndexes : <<t, i>> \in Rows
    BY DEF Rows
<1> QED BY <1>2, <1>3 DEF Moves, RowMoves

\* confirm_and_credit credits a row whose block it has just found canonical.
LEMMA CreditMoves ==
    ASSUME FinalInv, NEW r \in Rows, CreditRow(r)
    PROVE  Moves(session, session', chain)
<1> SUFFICES ASSUME NEW t \in Txs, NEW i \in LogIndexes
             PROVE  RowMoves(session.rows[<<t, i>>], session'.rows[<<t, i>>], chain, t, i)
    BY DEF Moves
<1> DEFINE k == <<t, i>>
           old == session.rows[r]
<1>1. /\ session \in Databases /\ old \in RowTypes /\ old.status = "confirmed"
      /\ old.block + Confirmations <= Len(chain) /\ k \in Rows
    BY DEF FinalInv, DeepInv, WatcherInv, TypeOK, Databases, PhaseInv, CreditRow, Rows
<1>2. PICK canonical \in BlockHashes(old.block) :
        \/ session' = session
        \/ /\ canonical # NoHash /\ canonical = old.hash
           /\ session' = [session EXCEPT !.rows[r].status = "credited",
                                         !.posted = @ \cup {CreditKey(r, old.rev)}]
        \/ session' = [session EXCEPT !.rows[r].status = "orphaned"]
    BY DEF CreditRow, StillCanonical
<1>3. CASE k # r \/ session' = session
    <2>1. session'.rows[k] = session.rows[k]
        BY <1>1, <1>2, <1>3 DEF Databases
    <2> QED BY <2>1 DEF RowMoves
<1>4. CASE /\ k = r /\ canonical # NoHash /\ canonical = old.hash
           /\ session' = [session EXCEPT !.rows[r].status = "credited",
                                         !.posted = @ \cup {CreditKey(r, old.rev)}]
    <2>1. session'.rows[r] = [old EXCEPT !.status = "credited"]
        BY <1>1, <1>4 DEF Databases
    <2>2. /\ session'.rows[r].status = "credited" /\ session'.rows[r].block = old.block
          /\ session'.rows[r].hash = old.hash
        BY <1>1, <2>1 DEF RowTypes
    <2>3. old.hash = Hash(old.block)
        BY <1>2, <1>4 DEF BlockHashes
    <2>4. session.rows[k] = old /\ session'.rows[k] = session'.rows[r]
        BY <1>4
    <2> QED BY <1>1, <2>2, <2>3, <2>4 DEF RowMoves, Canonical, Hash
<1>5. CASE k = r /\ session' = [session EXCEPT !.rows[r].status = "orphaned"]
    <2>1. session'.rows[r].status = "orphaned"
        BY <1>1, <1>5 DEF Databases, RowTypes
    <2> QED BY <1>5, <2>1 DEF RowMoves, Live
<1> QED BY <1>2, <1>3, <1>4, <1>5

\* handle_reorgs finds the replaced block of a CREDITED row: the row is deep enough for
\* every provider to have its height.
LEMMA CheckMoves ==
    ASSUME FinalInv, NEW r \in Rows, CheckRow(r)
    PROVE  /\ Moves(session, session', chain)
           /\ \A k \in Rows : session'.rows[k].status = "credited" =>
                    session'.rows[k] = session.rows[k]
           /\ MaxLag <= Confirmations /\ Logged(session, chain) =>
                \A t \in Txs, i \in LogIndexes : Stale(session', chain, t, i) => <<t, i>> # r
<1> DEFINE old == session.rows[r]
<1>1. /\ session \in Databases /\ old \in RowTypes /\ chain \in Seq(Blocks)
      /\ Len(chain) \in Nat /\ Confirmations \in Nat /\ MaxLag \in Nat
    BY LenProperties, WatcherAssumption DEF FinalInv, WatcherInv, TypeOK, Databases
<1>2. PICK canonical \in BlockHashes(old.block) :
        IF canonical \in {NoHash, old.hash}
        THEN session' = session
        ELSE session' = [session EXCEPT
                    !.rows[r].status = "orphaned",
                    !.posted = IF old.status = "credited"
                               THEN @ \cup {ReverseKey(r, old.rev)} ELSE @]
    BY DEF CheckRow, OtherBlock
<1>3. \A k \in Rows \ {r} : session'.rows[k] = session.rows[k]
    BY <1>1, <1>2 DEF Databases
<1>4. IF canonical \in {NoHash, old.hash} THEN session' = session
                                       ELSE session'.rows[r].status = "orphaned"
    <2>1. CASE canonical \in {NoHash, old.hash}
        BY <1>2, <2>1
    <2>2. CASE canonical \notin {NoHash, old.hash}
        <3>1. PICK posted :
                session' = [session EXCEPT !.rows[r].status = "orphaned", !.posted = posted]
            BY <1>2, <2>2
        <3>2. session'.rows[r] = [session.rows[r] EXCEPT !.status = "orphaned"]
            BY <1>1, <3>1 DEF Databases
        <3>3. session'.rows[r].status = "orphaned"
            BY <1>1, <3>2 DEF RowTypes
        <3> QED BY <2>2, <3>3
    <2> QED BY <2>1, <2>2
<1>5. \A k \in Rows : session'.rows[k] = session.rows[k] \/ session'.rows[k].status = "orphaned"
    BY <1>3, <1>4
<1>6. Moves(session, session', chain)
    <2> SUFFICES ASSUME NEW t \in Txs, NEW i \in LogIndexes
                 PROVE  RowMoves(session.rows[<<t, i>>], session'.rows[<<t, i>>], chain, t, i)
        BY DEF Moves
    <2>1. <<t, i>> \in Rows
        BY DEF Rows
    <2> QED BY <1>5, <2>1 DEF RowMoves, Live
<1>7. ASSUME MaxLag <= Confirmations, Logged(session, chain),
             NEW t \in Txs, NEW i \in LogIndexes, Stale(session', chain, t, i), <<t, i>> = r
      PROVE  FALSE
    <2>1. session'.rows[r].status = "credited"
        BY <1>7 DEF Stale
    <2>2. session' = session /\ canonical \in {NoHash, old.hash}
        BY <1>4, <2>1
    <2>3. old.status = "credited" /\ ~Canonical(old, chain)
        BY <1>7, <2>2 DEF Stale
    <2>4. old.block \in 1..Len(chain) /\ old.block + Confirmations <= Len(chain)
        BY <1>7, <2>3 DEF Logged, LoggedRow, Live
    <2>5. old.block <= Len(chain) /\ ~(old.block > Len(chain) - MaxLag) /\ old.block \in 0..Len(chain)
        BY <1>1, <1>7, <2>4
    <2>6. canonical = Hash(old.block)
        BY <2>5 DEF BlockHashes
    <2>7. canonical # NoHash
        BY <1>1, <2>5, <2>6, HashType, HashAssumption
    <2> QED BY <2>2, <2>3, <2>6, <2>7 DEF Canonical, Hash
<1> QED BY <1>5, <1>6, <1>7

\* A step on an unchanged chain.
LEMMA OnceOverMoves ==
    ASSUME NEW d, NEW e, NEW c, NEW n, NEW rest, OnceOver(d, c, n, rest), Moves(d, e, c),
           \A k \in Rows : e.rows[k].status = "credited" => e.rows[k] = d.rows[k]
    PROVE  OnceOver(e, c, n, rest)
<1>1. \A t \in Txs, i \in LogIndexes : <<t, i>> \in Rows
    BY DEF Rows
<1>2. Unmixed(e, c, rest)
    BY <1>1, UnmixedKeeps DEF OnceOver
<1> QED BY <1>2, MovesKeep DEF OnceOver

\* The rows of transactions are all that counts.
LEMMA OnceOverSame ==
    ASSUME NEW d, NEW e, NEW c, NEW n, NEW rest, OnceOver(d, c, n, rest),
           \A t \in Txs, i \in LogIndexes : e.rows[<<t, i>>] = d.rows[<<t, i>>]
    PROVE  OnceOver(e, c, n, rest)
<1>1. Moves(d, e, c)
    BY DEF Moves, RowMoves
<1>2. Unmixed(e, c, rest)
    BY UnmixedKeeps DEF OnceOver
<1> QED BY <1>1, <1>2, MovesKeep DEF OnceOver

LEMMA OnceInvInit == Init => OnceInv
<1> SUFFICES ASSUME Init PROVE OnceInv
    OBVIOUS
<1>1. FinalInv
    BY FinalInvInit
<1>2. MinedOnce(chain)
    <2>1. Len(chain) = 0
        BY DEF Init
    <2>2. 1..Len(chain) = {}
        BY <2>1
    <2> QED BY <2>2 DEF MinedOnce
<1>3. \A t \in Txs, i \in LogIndexes :
        db.rows[<<t, i>>].status = "none" /\ session.rows[<<t, i>>].status = "none"
    BY DEF Init, NoRow, Rows
<1>4. \A rest : OnceOver(db, chain, reorgs, rest) /\ OnceOver(session, chain, reorgs, rest)
    BY <1>3 DEF OnceOver, Logged, LoggedRow, AllCanonical, StaleTogether, Unmixed, Live, Kept, Stale
<1> QED BY <1>1, <1>2, <1>4 DEF OnceInv

\* The steps of the environment.
LEMMA OnceInvChain ==
    ASSUME OnceInv, FinalInv', Mine \/ Reorg
    PROVE  OnceInv'
<1>1. /\ chain \in Seq(Blocks) /\ chain' \in Seq(Blocks) /\ Len(chain) \in Nat /\ reorgs \in Nat
      /\ db \in Databases /\ session \in Databases
    BY LenProperties DEF OnceInv, FinalInv, WatcherInv, TypeOK
<1>2. UNCHANGED <<db, session, pc, todo>>
    BY DEF Mine, Reorg, watcherVars
<1>3. Uncompared' = Uncompared
    BY <1>2 DEF Uncompared
<1>4. CASE Mine
    <2>1. PICK S \in Placements(Txs \ MinedIn(chain, Len(chain))) :
                chain' = Append(chain, [salt |-> TipSalt, txs |-> S])
        BY <1>4 DEF Mine
    <2> DEFINE block == [salt |-> TipSalt, txs |-> S]
    <2>2. block \in Blocks
        <3>1. Len(chain') = Len(chain) + 1 /\ chain'[Len(chain) + 1] = block
            BY <1>1, <2>1
        <3> QED BY <1>1, <3>1, ElementOfSeq
    <2>3. block.txs \in Placements(Txs \ MinedIn(chain, Len(chain)))
        OBVIOUS
    <2>4. chain' = Append(chain, block)
        BY <2>1
    <2> HIDE DEF block
    <2>5. MinedOnce(chain')
        BY <1>1, <2>2, <2>3, <2>4, MinedOnceMine DEF OnceInv
    <2>6. ASSUME NEW d \in Databases, NEW rest, OnceOver(d, chain, reorgs, rest)
          PROVE  OnceOver(d, chain', reorgs, rest)
        <3>1. Logged(d, chain)
            BY <2>6 DEF OnceOver
        <3>2. /\ Logged(d, chain')
              /\ \A t \in Txs, i \in LogIndexes : Live(d.rows[<<t, i>>]) =>
                    (Canonical(d.rows[<<t, i>>], chain') <=> Canonical(d.rows[<<t, i>>], chain))
            BY <1>1, <2>2, <2>4, <3>1, OnceMine
        <3>3. /\ AllCanonical(d, chain) => AllCanonical(d, chain')
              /\ StaleTogether(d, chain) => StaleTogether(d, chain')
              /\ Unmixed(d, chain, rest) => Unmixed(d, chain', rest)
            BY <3>2, SameCanonical
        <3> QED BY <2>6, <3>2, <3>3 DEF OnceOver
    <2>7. reorgs' = reorgs
        BY <1>4 DEF Mine
    <2> QED BY <1>1, <1>2, <1>3, <2>5, <2>6, <2>7 DEF OnceInv
<1>5. CASE Reorg
    <2>1. PICK n \in 0..(Len(chain) - 1), s \in Salts :
            \E height \in [Txs \ MinedIn(chain, n) -> {0} \cup (n + 1)..Len(chain)],
               base \in [Txs \ MinedIn(chain, n) -> Bases] :
                    chain' = Replaced(n, s, height, base)
        BY <1>5 DEF Reorg
    <2>2. PICK height \in [Txs \ MinedIn(chain, n) -> {0} \cup (n + 1)..Len(chain)],
               base \in [Txs \ MinedIn(chain, n) -> Bases] :
                    chain' = Replaced(n, s, height, base)
        BY <2>1
    <2>3. MinedOnce(chain')
        BY <1>1, <2>2, MinedOnceReorg DEF OnceInv
    <2>4. Len(chain') = Len(chain)
        BY <1>1, <2>2 DEF Replaced
    <2>5. reorgs' = reorgs + 1
        BY <1>5 DEF Reorg
    <2>6. ASSUME reorgs' <= 1, NEW d \in Databases, NEW rest, OnceOver(d, chain, reorgs, rest)
          PROVE  \A more : OnceOver(d, chain', reorgs', more)
        <3>1. reorgs = 0 /\ reorgs' # 0
            BY <1>1, <2>5, <2>6
        <3>2. Logged(d, chain) /\ AllCanonical(d, chain) /\ MinedOnce(chain)
            BY <2>6, <3>1 DEF OnceOver, OnceInv
        <3>3. Logged(d, chain') /\ StaleTogether(d, chain') /\ Unmixed(d, chain', {})
            BY <1>1, <2>4, <3>2, OnceReorg
        <3>4. \A more : Unmixed(d, chain', more)
            BY <3>3 DEF Unmixed
        <3> QED BY <3>1, <3>3, <3>4 DEF OnceOver
    <2>7. reorgs' <= 1 => reorgs <= 1
        BY <1>1, <2>5
    <2> QED BY <1>1, <1>2, <2>3, <2>6, <2>7 DEF OnceInv
<1> QED BY <1>4, <1>5

\* A pass, up to handle_reorgs.
LEMMA OnceInvPass ==
    ASSUME OnceInv, FinalInv', BeginScan \/ RecordBlock \/ StartCredit \/ \E k \in Rows : CreditRow(k)
    PROVE  OnceInv'
<1>1. WatcherInv /\ FinalInv /\ db \in Databases /\ session \in Databases
    BY DEF OnceInv, FinalInv, WatcherInv, TypeOK
<1>2. UNCHANGED <<chain, reorgs, db>>
    BY DEF BeginScan, RecordBlock, StartCredit, CreditRow
<1> SUFFICES ASSUME OnceOver(db, chain, reorgs, {}), OnceOver(session, chain, reorgs, Uncompared)
             PROVE  OnceOver(session', chain, reorgs, Uncompared')
    BY <1>1, <1>2 DEF OnceInv
<1>3. CASE BeginScan
    <2>1. session'.rows = db.rows /\ pc' = "record"
        BY <1>1, <1>3 DEF BeginScan, Databases
    <2>2. Uncompared' = {}
        BY <2>1 DEF Uncompared
    <2> QED BY <2>1, <2>2, OnceOverSame
<1>4. CASE RecordBlock
    <2>1. Uncompared' = Uncompared
        BY <1>4 DEF Uncompared, RecordBlock
    <2> QED BY <1>1, <1>4, <2>1, RecordMoves, OnceOverMoves
<1>5. CASE StartCredit \/ \E k \in Rows : CreditRow(k)
    <2>1. Uncompared' = Rows
        BY <1>5 DEF Uncompared, StartCredit, CreditRow
    <2>2. Moves(session, session', chain)
        BY <1>1, <1>5, ConfirmMoves, CreditMoves
    <2>3. Unmixed(session', chain, Rows)
        BY DEF Unmixed, Rows
    <2> QED BY <2>1, <2>2, <2>3, MovesKeep DEF OnceOver
<1> QED BY <1>3, <1>4, <1>5

\* handle_reorgs selects every replaced credit, as long as the window covers them.
LEMMA OnceInvSelect ==
    ASSUME OnceInv, StaleInWindow, FinalInv', StartReorgs
    PROVE  OnceInv'
<1>1. PICK head \in Heads :
        todo' = {k \in Rows : /\ session.rows[k].status \in {"seen", "confirmed", "credited"}
                              /\ session.rows[k].block > WindowFloor(head)}
    BY DEF StartReorgs
<1>2. /\ UNCHANGED <<chain, reorgs, db, session>> /\ Uncompared' = todo'
    BY DEF StartReorgs, Uncompared
<1>3. /\ head \in Nat /\ head <= Len(chain) /\ Len(chain) \in Nat
      /\ Confirmations \in Nat /\ Margin \in Nat /\ session \in Databases
    BY HeadsType, WatcherAssumption DEF OnceInv, FinalInv, WatcherInv, TypeOK
<1>4. ASSUME NEW t \in Txs, NEW i \in LogIndexes, Stale(session, chain, t, i)
      PROVE  <<t, i>> \in todo'
    <2>1. <<t, i>> \in Rows /\ session.rows[<<t, i>>].status = "credited"
        BY <1>4 DEF Stale, Rows
    <2>2. session.rows[<<t, i>>].block \in Nat
        BY <1>3, <2>1 DEF Databases, RowTypes
    <2>3. session.rows[<<t, i>>].block > WindowFloor(Len(chain))
        BY <1>4 DEF StaleInWindow
    <2>4. session.rows[<<t, i>>].block > WindowFloor(head)
        BY <1>3, <2>2, <2>3 DEF WindowFloor
    <2> QED BY <1>1, <2>1, <2>4
<1>5. Unmixed(session, chain, todo')
    BY <1>4 DEF Unmixed
<1> QED BY <1>2, <1>5 DEF OnceInv, OnceOver

LEMMA OnceInvCheck ==
    ASSUME OnceInv, FinalInv', NEW r \in Rows, CheckRow(r)
    PROVE  OnceInv'
<1>1. UNCHANGED <<chain, reorgs, db>> /\ Uncompared = todo /\ Uncompared' = todo \ {r}
    BY DEF CheckRow, Uncompared
<1> SUFFICES ASSUME MaxLag <= Confirmations, OnceOver(session, chain, reorgs, todo)
             PROVE  OnceOver(session', chain, reorgs, todo \ {r})
    BY <1>1 DEF OnceInv
<1>2. OnceOver(session', chain, reorgs, todo)
    BY CheckMoves, OnceOverMoves DEF OnceInv
<1>3. \A t \in Txs, i \in LogIndexes : Stale(session', chain, t, i) => <<t, i>> # r
    BY CheckMoves DEF OnceInv, OnceOver
<1>4. Unmixed(session', chain, todo \ {r})
    BY <1>2, <1>3 DEF OnceOver, Unmixed
<1> QED BY <1>2, <1>4 DEF OnceOver

\* A pass ends, or a simulated deposit is added.
LEMMA OnceInvEnd ==
    ASSUME OnceInv, FinalInv',
           Commit \/ Fail \/ \E s \in Sims, u \in Users : FaucetSimulate(s, u)
    PROVE  OnceInv'
<1>1. WatcherInv /\ db \in Databases /\ session \in Databases
    BY DEF OnceInv, FinalInv, WatcherInv, TypeOK
<1>2. UNCHANGED <<chain, reorgs>>
    BY DEF Commit, Fail, FaucetSimulate
<1>3. CASE Commit
    <2>1. session'.rows = session.rows /\ db' = session' /\ Uncompared = {} /\ Uncompared' = {}
        <3>1. /\ pc = "reorgs" /\ todo = {} /\ pc' = "idle" /\ db' = session'
              /\ session' = [session EXCEPT !.cursor = Smaller(@, lowest - 1)]
            BY <1>3 DEF Commit
        <3> QED BY <1>1, <3>1 DEF Uncompared, Databases
    <2>2. OnceOver(session, chain, reorgs, {}) => OnceOver(session', chain, reorgs, {})
        BY <2>1, OnceOverSame
    <2> QED BY <1>2, <2>1, <2>2 DEF OnceInv
<1>4. CASE Fail
    <2>1. session' = db /\ db' = db /\ Uncompared' = {}
        BY <1>4 DEF Fail, Uncompared
    <2> QED BY <1>2, <2>1 DEF OnceInv
<1>5. ASSUME NEW s \in Sims, NEW u \in Users, FaucetSimulate(s, u) PROVE OnceInv'
    <2>1. Uncompared' = Uncompared
        BY <1>5 DEF FaucetSimulate, Uncompared
    <2>2. \A t \in Txs, i \in LogIndexes : <<t, i>> \in Rows /\ <<t, i>> # s
        BY NullAssumption DEF Rows
    <2>3. \A t \in Txs, i \in LogIndexes :
            db'.rows[<<t, i>>] = db.rows[<<t, i>>] /\ session'.rows[<<t, i>>] = session.rows[<<t, i>>]
        BY <1>1, <1>5, <2>2, FaucetRowStep
    <2>4. /\ OnceOver(db, chain, reorgs, {}) => OnceOver(db', chain, reorgs, {})
          /\ OnceOver(session, chain, reorgs, Uncompared) =>
                OnceOver(session', chain, reorgs, Uncompared)
        BY <2>3, OnceOverSame
    <2> QED BY <1>2, <2>1, <2>4 DEF OnceInv
<1> QED BY <1>3, <1>4, <1>5

LEMMA OnceInvStep == OnceInv /\ StaleInWindow /\ [Next]_vars => OnceInv'
<1> SUFFICES ASSUME OnceInv, StaleInWindow, [Next]_vars PROVE OnceInv'
    OBVIOUS
<1>1. FinalInv'
    BY FinalInvStep DEF OnceInv
<1>2. CASE UNCHANGED vars
    <2>1. UNCHANGED <<chain, reorgs, db, session, pc, todo>>
        BY <1>2 DEF vars
    <2>2. Uncompared' = Uncompared
        BY <2>1 DEF Uncompared
    <2> QED BY <1>1, <2>1, <2>2 DEF OnceInv
<1>3. CASE Watch
    BY <1>1, <1>3, OnceInvPass, OnceInvSelect, OnceInvCheck, OnceInvEnd DEF Watch
<1> QED BY <1>1, <1>2, <1>3, OnceInvChain, OnceInvEnd DEF Next

LEMMA OnceInvSuffices == OnceInv => (MaxLag <= Confirmations => NoDoubleCredit)
    BY UnmixedOnce DEF OnceInv, OnceOver, NoDoubleCredit

\* After at most one reorganisation, no transaction has more committed credits than the
\* transfers it makes, whatever log indexes it gets when it is mined again, whichever
\* pass fails and wherever in a pass the reorganisation falls.  It rests on what the
\* window is for: no credit of a replaced block is deeper than the window before a pass
\* has compared it; and on providers that are at most Confirmations blocks behind.
THEOREM TransferCreditedOnce ==
    Spec /\ []StaleInWindow => [](MaxLag <= Confirmations => NoDoubleCredit)
    BY OnceInvInit, OnceInvStep, OnceInvSuffices, PTL DEF Spec
=============================================================================
