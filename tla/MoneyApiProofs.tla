---------------------------- MODULE MoneyApiProofs ----------------------------
(***************************************************************************)
(* Proofs about MoneyApi, for every value of its constants.                *)
(***************************************************************************)
EXTENDS MoneyApi, FiniteSetTheorems, FunctionTheorems, TLAPS

Debits(c) == Kind[c] \in {"withdraw", "transfer"}

\* The steps of a debit between its row lock and its commit, and those after the
\* balance was found sufficient.
Holding == {"check", "post", "insert", "entries", "commit"}
Checked == {"post", "insert", "entries", "commit"}

Reserved(c) == \E t \in txs : t.kind = "withdraw" /\ t.ref = <<"request", c>>

\* What TypeOK says of the variables that the calls do not share.
WorldOK ==
    /\ faucet \in [Calls -> [nonce : Nat, sent : BOOLEAN]]
    /\ now \in 0..MaxTime /\ failures \in 0..MaxFailures /\ credits \in 0..MaxCredits

FaucetOnly == {"row", "nonce", "send"}

\* A debit past its lock holds the wallet, and past its check the wallet still has
\* the amount: nobody else can take it.  A debit never gets there around the check.
FundsInv ==
    \A c \in Calls : Debits(c) =>
        /\ pc[c] \in Holding => wallet[User[c]] = c
        /\ pc[c] \in Checked => balance[User[c]] >= Amount[c]
        /\ pc[c] \notin FaucetOnly
        /\ pc[c] = "limit" => Kind[c] = "withdraw"

\* A withdrawal about to commit without a transaction of its own has one already.
ReplayInv ==
    \A c \in Calls :
        /\ Kind[c] = "withdraw" /\ pc[c] = "commit" /\ c \notin posted => Reserved(c)
        /\ pc[c] = "entries" => c \in posted

ApiInv == TypeOK /\ NoOverspend /\ FundsInv /\ EveryRequestReserved /\ ReplayInv

LEMMA ApiInit == Init => ApiInv
<1> SUFFICES ASSUME Init PROVE ApiInv
    OBVIOUS
<1>1. TypeOK
    BY ApiAssumption DEF Init, TypeOK, Steps, Answers
<1>2. NoOverspend /\ FundsInv /\ EveryRequestReserved /\ ReplayInv
    BY ApiAssumption DEF Init, NoOverspend, FundsInv, EveryRequestReserved, ReplayInv,
       Holding, Checked, FaucetOnly
<1> QED BY <1>1, <1>2 DEF ApiInv

\* A call proceeds to a step that it may be in.
LEMMA GotoKeeps ==
    ASSUME ApiInv, NEW c \in Calls, NEW step \in Steps,
           pc' = [pc EXCEPT ![c] = step], UNCHANGED <<dbVars, wallet, result>>,
           stamp' \in [Calls -> Nat \cup {None}], WorldOK',
           posted' \in {posted, posted \cup {c}},
           c \in posted' => step \in {"entries", "commit"},
           step = "entries" => c \in posted',
           step \notin Holding => \A u \in Users : wallet[u] # c,
           Debits(c) /\ step \in Holding => wallet[User[c]] = c,
           Debits(c) /\ step \in Checked => balance[User[c]] >= Amount[c],
           Debits(c) => step \notin FaucetOnly /\ (step = "limit" => Kind[c] = "withdraw"),
           Kind[c] = "withdraw" /\ step = "commit" /\ c \notin posted' => Reserved(c)
    PROVE  ApiInv'
<1>1. TypeOK'
    <2>1. pc' \in [Calls -> Steps]
        BY DEF ApiInv, TypeOK
    <2>2. posted' \subseteq {d \in Calls : pc'[d] \in {"entries", "commit"}}
        BY DEF ApiInv, TypeOK
    <2>3. \A u \in Users : wallet[u] # None => pc'[wallet[u]] \in Holding
        BY DEF ApiInv, TypeOK, Holding
    <2> QED BY <2>1, <2>2, <2>3 DEF ApiInv, TypeOK, WorldOK, dbVars, Holding
<1>2. NoOverspend' /\ EveryRequestReserved'
    BY DEF ApiInv, NoOverspend, EveryRequestReserved, dbVars
<1>3. FundsInv'
    BY DEF ApiInv, TypeOK, FundsInv, Debits, dbVars
<1>4. ReplayInv'
    BY DEF ApiInv, TypeOK, ReplayInv, Reserved, dbVars
<1> QED BY <1>1, <1>2, <1>3, <1>4 DEF ApiInv

\* A call ends without a commit.
LEMMA FinishKeeps ==
    ASSUME ApiInv, NEW c \in Calls, NEW answer \in Answers, Finish(c, answer),
           UNCHANGED dbVars, WorldOK'
    PROVE  ApiInv'
<1>1. TypeOK'
    <2>1. /\ pc' \in [Calls -> Steps] /\ result' \in [Calls -> Answers]
          /\ stamp' \in [Calls -> Nat \cup {None}] /\ wallet' \in [Users -> Calls \cup {None}]
        BY DEF ApiInv, TypeOK, Finish, Steps
    <2>2. posted' \subseteq {d \in Calls : pc'[d] \in {"entries", "commit"}}
        BY DEF ApiInv, TypeOK, Finish
    <2>3. \A u \in Users : wallet'[u] # None => pc'[wallet'[u]] \in Holding
        BY DEF ApiInv, TypeOK, Finish, Holding
    <2> QED BY <2>1, <2>2, <2>3 DEF ApiInv, TypeOK, WorldOK, dbVars, Holding
<1>2. NoOverspend' /\ EveryRequestReserved'
    BY DEF ApiInv, NoOverspend, EveryRequestReserved, dbVars
<1>3. FundsInv'
    <2> SUFFICES ASSUME NEW d \in Calls, Debits(d)
                 PROVE  /\ pc'[d] \in Holding => wallet'[User[d]] = d
                        /\ pc'[d] \in Checked => balance'[User[d]] >= Amount[d]
                        /\ pc'[d] \notin FaucetOnly
                        /\ pc'[d] = "limit" => Kind[d] = "withdraw"
        BY DEF FundsInv, Debits
    <2>1. CASE d = c
        BY <2>1 DEF ApiInv, TypeOK, Finish, Holding, Checked, FaucetOnly
    <2>2. CASE d # c
        BY <2>2, ApiAssumption DEF ApiInv, TypeOK, FundsInv, Finish, dbVars
    <2> QED BY <2>1, <2>2
<1>4. ReplayInv'
    BY DEF ApiInv, TypeOK, ReplayInv, Reserved, Finish, dbVars
<1> QED BY <1>1, <1>2, <1>3, <1>4 DEF ApiInv

\* Only a call past its lock holds a wallet.
LEMMA EarlyHoldsNothing ==
    ASSUME ApiInv, NEW c \in Calls, pc[c] \notin Holding
    PROVE  \A u \in Users : wallet[u] # c
    BY ApiAssumption DEF ApiInv, TypeOK, Holding

LEMMA WorldKept ==
    ASSUME ApiInv, UNCHANGED <<faucet, worldVars>>
    PROVE  WorldOK'
    BY DEF ApiInv, TypeOK, WorldOK, worldVars

LEMMA ApiStart ==
    ASSUME ApiInv, NEW c \in Calls, Start(c)
    PROVE  ApiInv'
<1>1. WorldOK' /\ UNCHANGED dbVars /\ pc[c] = "start"
    BY WorldKept DEF Start
<1>2. CASE Finish(c, "replayed")
    BY <1>1, <1>2, FinishKeeps DEF Answers
<1>3. ASSUME NEW step \in {"limit", "lock"}, Goto(c, step),
             Kind[c] = "transfer" => step = "lock"
      PROVE  ApiInv'
    <2>1. c \notin posted /\ \A u \in Users : wallet[u] # c
        BY <1>1, EarlyHoldsNothing DEF ApiInv, TypeOK, Holding
    <2>2. /\ step \in Steps /\ step \notin Holding /\ step \notin Checked /\ step # "commit"
          /\ pc' = [pc EXCEPT ![c] = step] /\ UNCHANGED <<dbVars, wallet, result>>
          /\ posted' = posted /\ stamp' \in [Calls -> Nat \cup {None}] /\ step \notin FaucetOnly
        BY <1>1, <1>3 DEF Goto, Steps, Holding, Checked, FaucetOnly, ApiInv, TypeOK
    <2>3. Debits(c) /\ step = "limit" => Kind[c] = "withdraw"
        BY <1>3 DEF Debits
    <2> QED BY <1>1, <2>1, <2>2, <2>3, GotoKeeps
<1> QED BY <1>2, <1>3 DEF Start, Limited

LEMMA ApiLimit ==
    ASSUME ApiInv, NEW c \in Calls, EnforceRateLimit(c)
    PROVE  ApiInv'
<1>1. WorldOK' /\ UNCHANGED dbVars /\ pc[c] = "limit"
    BY WorldKept DEF EnforceRateLimit
<1>2. CASE Finish(c, "limited")
    BY <1>1, <1>2, FinishKeeps DEF Answers
<1>3. ASSUME NEW step \in {"lock", "nonce", "row"}, Debits(c) => step = "lock", pc' = [pc EXCEPT ![c] = step],
             stamp' = [stamp EXCEPT ![c] = now], UNCHANGED <<wallet, posted, result>>
      PROVE  ApiInv'
    <2>1. c \notin posted /\ \A u \in Users : wallet[u] # c
        BY <1>1, EarlyHoldsNothing DEF ApiInv, TypeOK, Holding
    <2>2. /\ step \in Steps /\ step \notin Holding /\ step \notin Checked /\ step # "commit"
          /\ stamp' \in [Calls -> Nat \cup {None}] /\ (Debits(c) => step \notin FaucetOnly)
        BY <1>3 DEF Steps, Holding, Checked, FaucetOnly, ApiInv, TypeOK
    <2> QED BY <1>1, <1>3, <2>1, <2>2, GotoKeeps
<1>4. Debits(c) => Kind[c] = "withdraw"
    BY <1>1 DEF ApiInv, FundsInv
<1> QED BY <1>2, <1>3, <1>4 DEF EnforceRateLimit

LEMMA ApiLock ==
    ASSUME ApiInv, NEW c \in Calls, LockUserAsset(c)
    PROVE  ApiInv'
<1>1. /\ wallet[User[c]] = None /\ wallet' = [wallet EXCEPT ![User[c]] = c]
      /\ pc[c] = "lock" /\ pc' = [pc EXCEPT ![c] = "check"]
      /\ UNCHANGED <<dbVars, posted, stamp, result>> /\ WorldOK' /\ User[c] \in Users
    BY WorldKept, ApiAssumption DEF LockUserAsset, WalletFree
<1>2. TypeOK'
    <2>1. pc' \in [Calls -> Steps] /\ wallet' \in [Users -> Calls \cup {None}]
        BY <1>1 DEF ApiInv, TypeOK, Steps
    <2>2. posted' \subseteq {d \in Calls : pc'[d] \in {"entries", "commit"}}
        BY <1>1 DEF ApiInv, TypeOK
    <2>3. \A u \in Users : wallet'[u] # None => pc'[wallet'[u]] \in Holding
        BY <1>1 DEF ApiInv, TypeOK, Holding
    <2> QED BY <1>1, <2>1, <2>2, <2>3 DEF ApiInv, TypeOK, WorldOK, dbVars, Holding
<1>3. NoOverspend' /\ EveryRequestReserved'
    BY <1>1 DEF ApiInv, NoOverspend, EveryRequestReserved, dbVars
<1>4. FundsInv'
    BY <1>1, ApiAssumption DEF ApiInv, TypeOK, FundsInv, Debits, Holding, Checked, FaucetOnly, dbVars
<1>5. ReplayInv'
    BY <1>1 DEF ApiInv, TypeOK, ReplayInv, Reserved, dbVars
<1> QED BY <1>2, <1>3, <1>4, <1>5 DEF ApiInv

LEMMA ApiCheck ==
    ASSUME ApiInv, NEW c \in Calls, CheckBalance(c)
    PROVE  ApiInv'
<1>1. WorldOK' /\ UNCHANGED dbVars /\ pc[c] = "check"
    BY WorldKept DEF CheckBalance
<1>2. CASE Finish(c, "insufficient")
    BY <1>1, <1>2, FinishKeeps DEF Answers
<1>3. CASE balance[User[c]] >= Amount[c] /\ Goto(c, "post")
    <2>1. c \notin posted /\ (Debits(c) => wallet[User[c]] = c)
        BY <1>1 DEF ApiInv, TypeOK, FundsInv, Holding
    <2>2. /\ "post" \in Steps /\ "post" \in Holding /\ "post" # "commit"
          /\ "post" # "limit" /\ "post" \notin FaucetOnly
          /\ pc' = [pc EXCEPT ![c] = "post"] /\ UNCHANGED <<dbVars, wallet, result>>
          /\ posted' = posted /\ stamp' \in [Calls -> Nat \cup {None}]
        BY <1>1, <1>3 DEF Goto, Steps, Holding, FaucetOnly, ApiInv, TypeOK
    <2> QED BY <1>1, <1>3, <2>1, <2>2, GotoKeeps
<1>4. balance[User[c]] \in Int /\ Amount[c] \in Int
    BY ApiAssumption DEF ApiInv, TypeOK
<1> QED BY <1>2, <1>3, <1>4 DEF CheckBalance

LEMMA ApiRow ==
    ASSUME ApiInv, NEW c \in Calls, InsertDepositRow(c)
    PROVE  ApiInv'
<1>1. WorldOK' /\ UNCHANGED dbVars /\ pc[c] = "row"
    BY WorldKept DEF InsertDepositRow
<1>2. CASE Finish(c, "error")
    BY <1>1, <1>2, FinishKeeps DEF Answers
<1>3. CASE Goto(c, "post")
    <2>1. c \notin posted /\ ~Debits(c)
        BY <1>1 DEF ApiInv, TypeOK, FundsInv, FaucetOnly
    <2>2. /\ "post" \in Steps /\ "post" \in Holding /\ "post" # "commit"
          /\ "post" # "limit" /\ "post" \notin FaucetOnly
          /\ pc' = [pc EXCEPT ![c] = "post"] /\ UNCHANGED <<dbVars, wallet, result>>
          /\ posted' = posted /\ stamp' \in [Calls -> Nat \cup {None}]
        BY <1>1, <1>3 DEF Goto, Steps, Holding, FaucetOnly, ApiInv, TypeOK
    <2> QED BY <1>1, <2>1, <2>2, GotoKeeps
<1> QED BY <1>2, <1>3 DEF InsertDepositRow

\* The pending nonce of the faucet is a natural number.
LEMMA SentFinite == Cardinality(Sent) \in Nat
<1> DEFINE S == {d \in Calls : faucet[d].sent}
           f == [c \in S |-> FaucetTx(c)]
<1>1. S \in SUBSET Calls
    OBVIOUS
<1>2. IsFiniteSet(S)
    BY <1>1, ApiAssumption, FS_Subset, Zenon
<1>3. f \in Surjection(S, Sent)
    BY DEF Sent, Surjection
<1>4. IsFiniteSet(Sent)
    BY <1>2, <1>3, FS_Surjection
<1> QED BY <1>4, FS_CardinalityType

LEMMA ApiNonce ==
    ASSUME ApiInv, NEW c \in Calls, ReadFaucetNonce(c)
    PROVE  ApiInv'
<1>1. /\ UNCHANGED dbVars /\ pc[c] = "nonce" /\ Goto(c, "send")
      /\ faucet' = [faucet EXCEPT ![c].nonce = Cardinality(Sent)] /\ UNCHANGED worldVars
    BY DEF ReadFaucetNonce
<1>2. WorldOK'
    BY <1>1, SentFinite DEF WorldOK, ApiInv, TypeOK, worldVars
<1>3. c \notin posted /\ ~Debits(c) /\ \A u \in Users : wallet[u] # c
    BY <1>1, EarlyHoldsNothing DEF ApiInv, TypeOK, FundsInv, FaucetOnly, Holding
<1>4. /\ "send" \in Steps /\ "send" # "commit" /\ Kind[c] # "withdraw"
      /\ pc' = [pc EXCEPT ![c] = "send"] /\ UNCHANGED <<dbVars, wallet, result>>
      /\ posted' = posted /\ stamp' \in [Calls -> Nat \cup {None}]
    BY <1>1, <1>3 DEF Goto, Steps, Debits, ApiInv, TypeOK
<1> QED BY <1>2, <1>3, <1>4, GotoKeeps

LEMMA ApiSend ==
    ASSUME ApiInv, NEW c \in Calls, SendFaucet(c)
    PROVE  ApiInv'
<1>1. WorldOK' /\ UNCHANGED dbVars /\ pc[c] = "send"
    <2>1. /\ UNCHANGED dbVars /\ UNCHANGED worldVars /\ pc[c] = "send"
          /\ faucet' \in {faucet, [faucet EXCEPT ![c].sent = TRUE]}
        BY DEF SendFaucet
    <2>2. faucet \in [Calls -> [nonce : Nat, sent : BOOLEAN]]
        BY DEF ApiInv, TypeOK
    <2>3. [faucet[c] EXCEPT !.sent = TRUE] \in [nonce : Nat, sent : BOOLEAN]
        BY <2>2
    <2>4. [faucet EXCEPT ![c].sent = TRUE] \in [Calls -> [nonce : Nat, sent : BOOLEAN]]
        BY <2>2, <2>3
    <2>5. faucet' \in [Calls -> [nonce : Nat, sent : BOOLEAN]]
        BY <2>1, <2>2, <2>4
    <2> QED BY <2>1, <2>5 DEF WorldOK, ApiInv, TypeOK, worldVars
<1>2. CASE Finish(c, "error")
    BY <1>1, <1>2, FinishKeeps DEF Answers
<1>3. CASE Goto(c, "post")
    <2>1. c \notin posted /\ ~Debits(c)
        BY <1>1 DEF ApiInv, TypeOK, FundsInv, FaucetOnly
    <2>2. /\ "post" \in Steps /\ "post" \in Holding /\ "post" # "commit"
          /\ pc' = [pc EXCEPT ![c] = "post"] /\ UNCHANGED <<dbVars, wallet, result>>
          /\ posted' = posted /\ stamp' \in [Calls -> Nat \cup {None}]
        BY <1>1, <1>3 DEF Goto, Steps, Holding, ApiInv, TypeOK
    <2> QED BY <1>1, <2>1, <2>2, GotoKeeps
<1> QED BY <1>2, <1>3 DEF SendFaucet

\* Within ledger.post a call keeps its lock; a compatible replay of a withdrawal
\* is a replay of its own reservation.
LEMMA ApiPost ==
    ASSUME ApiInv, NEW c \in Calls, Post(c) \/ InsertTransaction(c) \/ InsertEntries(c)
    PROVE  ApiInv'
<1>1. WorldOK' /\ UNCHANGED dbVars /\ pc[c] \in Checked /\ pc[c] # "commit"
    BY WorldKept DEF Post, InsertTransaction, InsertEntries, Checked
<1>2. CASE Finish(c, "error")
    BY <1>1, <1>2, FinishKeeps DEF Answers
<1>3. Debits(c) => wallet[User[c]] = c /\ balance[User[c]] >= Amount[c]
    BY <1>1 DEF ApiInv, FundsInv, Holding, Checked
<1>4. ASSUME NEW step \in {"insert", "entries", "commit"}, pc' = [pc EXCEPT ![c] = step],
             UNCHANGED <<wallet, stamp, result>>, posted' \in {posted, posted \cup {c}},
             c \in posted' => step # "insert", step = "entries" => c \in posted',
             Kind[c] = "withdraw" /\ step = "commit" /\ c \notin posted' => Reserved(c)
      PROVE  ApiInv'
    <2>1. /\ step \in Steps /\ step \in Holding /\ step # "limit" /\ step \notin FaucetOnly
          /\ stamp' \in [Calls -> Nat \cup {None}] /\ (c \in posted' => step \in {"entries", "commit"})
        BY <1>4 DEF Steps, Holding, FaucetOnly, ApiInv, TypeOK
    <2> QED BY <1>1, <1>3, <1>4, <2>1, GotoKeeps
<1>5. CASE Post(c)
    <2>1. c \notin posted
        BY <1>5 DEF Post, ApiInv, TypeOK
    <2>2. Kind[c] = "withdraw" /\ ReplayCompatible(c) => Reserved(c)
        BY DEF ReplayCompatible, Ref, Reserved
    <2> QED BY <1>2, <1>4, <1>5, <2>1, <2>2 DEF Post, Goto
<1>6. CASE InsertTransaction(c)
    BY <1>2, <1>4, <1>6 DEF InsertTransaction
<1>7. CASE InsertEntries(c)
    <2>1. CASE c \in posted
        BY <1>4, <1>7, <2>1 DEF InsertEntries, Goto
    <2>2. CASE c \notin posted
        BY <1>7, <2>2 DEF InsertEntries, ApiInv, ReplayInv
    <2> QED BY <2>1, <2>2
<1> QED BY <1>5, <1>6, <1>7

\* The commit of the route.  The debit comes out of a wallet that the call holds
\* and that has the amount; every other wallet only gains.
LEMMA ApiCommit ==
    ASSUME ApiInv, NEW c \in Calls, CommitCall(c)
    PROVE  ApiInv'
<1>1. /\ WorldOK' /\ pc[c] = "commit" /\ Kind[c] \in Kinds /\ Amount[c] \in Nat
      /\ Kind[c] = "transfer" => Peer[c] # User[c]
    BY WorldKept, ApiAssumption DEF CommitCall
<1>2. Finish(c, "ok") \/ Finish(c, "replayed")
    BY DEF CommitCall
<1>3. /\ pc' = [pc EXCEPT ![c] = "done"] /\ posted' = posted \ {c}
      /\ wallet' = [u \in Users |-> IF wallet[u] = c THEN None ELSE wallet[u]]
      /\ stamp' = [stamp EXCEPT ![c] = None]
      /\ result' \in [Calls -> Answers]
    BY <1>2 DEF Finish, ApiInv, TypeOK, Answers
<1>4. \A u \in Users : /\ Leg(c, u) \in Int
                       /\ u # User[c] \/ ~Debits(c) => Leg(c, u) >= 0
                       /\ u = User[c] /\ Debits(c) => Leg(c, u) = -Amount[c]
    BY <1>1 DEF Leg, Debits
<1>5. \A u \in Users : /\ balance[u] \in Int /\ balance'[u] \in Int
                       /\ u # User[c] \/ ~Debits(c) => balance'[u] >= balance[u]
                       /\ u = User[c] /\ Debits(c) => balance'[u] >= balance[u] - Amount[c]
    <2>1. \A u \in Users : balance[u] \in Int
        BY DEF ApiInv, TypeOK
    <2>2. CASE balance' = balance
        BY <1>1, <2>1, <2>2
    <2>3. CASE balance' = [u \in Users |-> balance[u] + Leg(c, u)]
        BY <1>1, <1>4, <2>1, <2>3
    <2> QED BY <2>2, <2>3 DEF CommitCall
<1>6. Debits(c) => wallet[User[c]] = c /\ balance[User[c]] >= Amount[c]
    BY <1>1 DEF ApiInv, FundsInv, Holding, Checked
<1>7. TypeOK'
    <2>1. balance' \in [Users -> Int]
        BY <1>5 DEF CommitCall, ApiInv, TypeOK
    <2>2. /\ pc' \in [Calls -> Steps] /\ stamp' \in [Calls -> Nat \cup {None}]
          /\ wallet' \in [Users -> Calls \cup {None}] /\ requests' \subseteq Calls
        BY <1>3 DEF ApiInv, TypeOK, Steps, CommitCall
    <2>3. posted' \subseteq {d \in Calls : pc'[d] \in {"entries", "commit"}}
        BY <1>3 DEF ApiInv, TypeOK
    <2>4. \A u \in Users : wallet'[u] # None => pc'[wallet'[u]] \in Holding
        BY <1>3 DEF ApiInv, TypeOK, Holding
    <2> QED BY <1>1, <1>3, <2>1, <2>2, <2>3, <2>4 DEF TypeOK, WorldOK, Holding
<1>8. NoOverspend'
    <2> SUFFICES ASSUME NEW u \in Users PROVE balance'[u] >= 0
        BY DEF NoOverspend
    <2>1. balance[u] >= 0
        BY DEF ApiInv, NoOverspend
    <2> QED BY <1>1, <1>5, <1>6, <2>1
<1>9. FundsInv'
    <2> SUFFICES ASSUME NEW d \in Calls, Debits(d)
                 PROVE  /\ pc'[d] \in Holding => wallet'[User[d]] = d
                        /\ pc'[d] \in Checked => balance'[User[d]] >= Amount[d]
                        /\ pc'[d] \notin FaucetOnly
                        /\ pc'[d] = "limit" => Kind[d] = "withdraw"
        BY DEF FundsInv, Debits
    <2>1. CASE d = c
        BY <1>3, <2>1 DEF ApiInv, TypeOK, Holding, Checked, FaucetOnly
    <2>2. CASE d # c
        <3>1. pc'[d] = pc[d] /\ User[d] \in Users /\ Amount[d] \in Nat
            BY <1>3, <2>2, ApiAssumption DEF ApiInv, TypeOK
        <3>2. pc[d] \in Holding => wallet[User[d]] = d /\ wallet'[User[d]] = d
            BY <1>3, <2>2, <3>1 DEF ApiInv, FundsInv
        <3>3. ASSUME pc[d] \in Checked PROVE balance'[User[d]] >= Amount[d]
            <4>1. balance[User[d]] >= Amount[d] /\ wallet[User[d]] = d
                BY <3>2, <3>3 DEF ApiInv, FundsInv, Holding, Checked
            <4>2. User[d] # User[c] \/ ~Debits(c)
                BY <1>6, <2>2, <4>1
            <4> QED BY <1>5, <3>1, <4>1, <4>2
        <3> QED BY <3>1, <3>2, <3>3 DEF ApiInv, FundsInv
    <2> QED BY <2>1, <2>2
<1>10. txs \subseteq txs' /\ (Kind[c] = "withdraw" => \E t \in txs' :
                                    t.kind = "withdraw" /\ t.ref = <<"request", c>>)
    <2>1. CASE c \in posted
        <3>1. Kind[c] = "withdraw" => Transaction(c).kind = "withdraw" /\ Transaction(c).ref = <<"request", c>>
            BY DEF Transaction, Ref
        <3> QED BY <2>1, <3>1 DEF CommitCall
    <2>2. CASE c \notin posted
        BY <1>1, <2>2 DEF CommitCall, ApiInv, ReplayInv, Reserved
    <2> QED BY <2>1, <2>2
<1>11. EveryRequestReserved'
    BY <1>10 DEF CommitCall, ApiInv, EveryRequestReserved
<1>12. ReplayInv'
    BY <1>3, <1>10 DEF ApiInv, TypeOK, ReplayInv, Reserved
<1> QED BY <1>7, <1>8, <1>9, <1>11, <1>12 DEF ApiInv

LEMMA ApiBreak ==
    ASSUME ApiInv, NEW c \in Calls, BreakDeadlock(c)
    PROVE  ApiInv'
    BY WorldKept, FinishKeeps DEF BreakDeadlock, Answers

LEMMA ApiLose ==
    ASSUME ApiInv, NEW c \in Calls, Lose(c)
    PROVE  ApiInv'
<1>1. WorldOK'
    BY ApiAssumption DEF Lose, ApiInv, TypeOK, WorldOK
<1> QED BY <1>1, FinishKeeps DEF Lose, Answers

\* A deposit only adds to a wallet.
LEMMA ApiCredit ==
    ASSUME ApiInv, NEW u \in Users, CreditDeposit(u)
    PROVE  ApiInv'
<1>1. /\ UNCHANGED <<txs, requests, callVars, faucet, now, failures>>
      /\ credits' \in 0..MaxCredits
      /\ balance' \in [Users -> Int] /\ \A v \in Users : balance[v] \in Int /\ balance'[v] >= balance[v]
    BY ApiAssumption DEF CreditDeposit, ApiInv, TypeOK
<1>2. TypeOK'
    BY <1>1 DEF ApiInv, TypeOK, callVars
<1>3. NoOverspend'
    BY <1>1 DEF ApiInv, NoOverspend, TypeOK
<1>4. FundsInv'
    BY <1>1, ApiAssumption DEF ApiInv, FundsInv, Debits, callVars
<1>5. EveryRequestReserved' /\ ReplayInv'
    BY <1>1 DEF ApiInv, EveryRequestReserved, ReplayInv, Reserved, callVars
<1> QED BY <1>2, <1>3, <1>4, <1>5 DEF ApiInv

LEMMA ApiIdle ==
    ASSUME ApiInv, UNCHANGED <<dbVars, callVars, faucet, failures, credits>>, now' \in 0..MaxTime
    PROVE  ApiInv'
    BY DEF ApiInv, TypeOK, NoOverspend, FundsInv, Debits, EveryRequestReserved, ReplayInv, Reserved,
       dbVars, callVars

-----------------------------------------------------------------------------
(* The theorems.                                                             *)

LEMMA ApiNext == ApiInv /\ [Next]_vars => ApiInv'
<1> SUFFICES ASSUME ApiInv, [Next]_vars PROVE ApiInv'
    OBVIOUS
<1>1. CASE \E c \in Calls : Start(c)
    BY <1>1, ApiStart
<1>2. ASSUME NEW c \in Calls, Step(c) PROVE ApiInv'
    BY <1>2, ApiLimit, ApiLock, ApiCheck, ApiRow, ApiNonce, ApiSend, ApiPost, ApiCommit, ApiBreak
       DEF Step
<1>3. CASE \E c \in Calls : Lose(c)
    BY <1>3, ApiLose
<1>4. CASE \E u \in Users : CreditDeposit(u)
    BY <1>4, ApiCredit
<1>5. CASE Tick
    <2>1. now' \in 0..MaxTime
        BY <1>5, ApiAssumption DEF Tick, ApiInv, TypeOK
    <2> QED BY <1>5, <2>1, ApiIdle DEF Tick
<1>6. CASE UNCHANGED vars
    <2>1. now' \in 0..MaxTime
        BY <1>6 DEF vars, ApiInv, TypeOK
    <2> QED BY <1>6, <2>1, ApiIdle DEF vars, dbVars, callVars
<1> QED BY <1>1, <1>2, <1>3, <1>4, <1>5, <1>6 DEF Next

LEMMA ApiAlways == Spec => []ApiInv
    BY ApiInit, ApiNext, PTL DEF Spec

\* The endpoints keep their types, and only a call that is under way holds a
\* wallet or an uncommitted transaction.
THEOREM ApiTypeCorrect == Spec => []TypeOK
<1>1. ApiInv => TypeOK
    BY DEF ApiInv
<1> QED BY <1>1, ApiAlways, PTL

\* No number of concurrent withdrawals and transfers overdraws a wallet: the row
\* lock is held from before the balance is read until the debit is committed.
THEOREM WalletsNeverOverdrawn == Spec => []NoOverspend
<1>1. ApiInv => NoOverspend
    BY DEF ApiInv
<1> QED BY <1>1, ApiAlways, PTL

\* Every withdrawal request that is committed has its own reservation.
THEOREM RequestsAreReserved == Spec => []EveryRequestReserved
<1>1. ApiInv => EveryRequestReserved
    BY DEF ApiInv
<1> QED BY <1>1, ApiAlways, PTL

-----------------------------------------------------------------------------
(* Idempotency keys.                                                         *)

\* A committed transaction is that of a call with its key; a call that succeeded, or
\* is about to commit as a replay, has one; and an uncommitted transaction is the only
\* one with its key, so that no key is committed twice.
KeyInv ==
    /\ \A t \in txs : \E d \in Calls : t.key = ScopedKey(d) /\ t.kind = Kind[d] /\ t.user = User[d]
    /\ \A c \in Calls :
        /\ result[c] \in {"ok", "replayed"} => Found(c)
        /\ pc[c] = "commit" /\ c \notin posted => Found(c)
    /\ \A c \in posted :
        /\ ~Found(c)
        /\ \A d \in posted : ScopedKey(c) = ScopedKey(d) => c = d
    /\ \A c, d \in Calls :
        ScopedKey(c) = ScopedKey(d) /\ result[c] = "ok" /\ result[d] = "ok" => c = d

\* The keys are as they were when no transaction is committed.
LEMMA KeyKeeps ==
    ASSUME ApiInv, KeyInv, NEW c \in Calls, NEW step, NEW answer,
           txs' = txs, pc' = [pc EXCEPT ![c] = step], result' = [result EXCEPT ![c] = answer],
           posted' \in {posted, posted \ {c}, posted \cup {c}},
           \/ answer = result[c]
           \/ answer \notin {"ok", "replayed"}
           \/ answer = "replayed" /\ Found(c),
           c \in posted' /\ c \notin posted => KeyHolders(c) = {} /\ ~Found(c),
           step = "commit" /\ c \notin posted' => Found(c)
    PROVE  KeyInv'
<1>1. /\ pc \in [Calls -> Steps] /\ result \in [Calls -> Answers] /\ posted \subseteq Calls
    BY DEF ApiInv, TypeOK
<1>2. \A d \in Calls : Found(d)' = Found(d)
    BY DEF Found, ScopedKey, Domain
<1>3. \A t \in txs' : \E d \in Calls : t.key = ScopedKey(d) /\ t.kind = Kind[d] /\ t.user = User[d]
    BY DEF KeyInv
<1>4. ASSUME NEW d \in Calls
      PROVE  /\ result'[d] \in {"ok", "replayed"} => Found(d)
             /\ pc'[d] = "commit" /\ d \notin posted' => Found(d)
             /\ result'[d] = "ok" => result[d] = "ok"
    BY <1>1 DEF KeyInv
<1>5. ASSUME NEW d \in posted' PROVE ~Found(d)
    BY <1>1 DEF KeyInv
<1>6. ASSUME NEW d \in posted', NEW e \in posted', ScopedKey(d) = ScopedKey(e) PROVE d = e
    <2>1. CASE d \in posted /\ e \in posted
        BY <1>6, <2>1 DEF KeyInv
    <2>2. CASE d = c /\ c \notin posted
        BY <1>6, <2>2 DEF KeyHolders
    <2>3. CASE e = c /\ c \notin posted
        BY <1>6, <2>3 DEF KeyHolders
    <2> QED BY <2>1, <2>2, <2>3
<1>7. ASSUME NEW d \in Calls, NEW e \in Calls, ScopedKey(d) = ScopedKey(e),
             result'[d] = "ok", result'[e] = "ok"
      PROVE  d = e
    BY <1>4, <1>7 DEF KeyInv
<1>8. \A d \in Calls : ScopedKey(d)' = ScopedKey(d)
    BY DEF ScopedKey, Domain
<1>9. posted' \subseteq Calls
    BY <1>1
<1> QED BY <1>2, <1>3, <1>4, <1>5, <1>6, <1>7, <1>8, <1>9 DEF KeyInv

LEMMA KeyFinish ==
    ASSUME ApiInv, KeyInv, NEW c \in Calls, NEW answer, Finish(c, answer), txs' = txs,
           answer # "ok", answer = "replayed" => Found(c)
    PROVE  KeyInv'
<1>1. /\ pc' = [pc EXCEPT ![c] = "done"] /\ result' = [result EXCEPT ![c] = answer]
      /\ posted' = posted \ {c} /\ "done" # "commit"
    BY DEF Finish
<1> QED BY <1>1, KeyKeeps

LEMMA KeyGoto ==
    ASSUME ApiInv, KeyInv, NEW c \in Calls, NEW step, Goto(c, step), txs' = txs,
           step = "commit" => Found(c) \/ c \in posted
    PROVE  KeyInv'
<1>1. pc' = [pc EXCEPT ![c] = step] /\ posted' = posted /\ result' = result
    BY DEF Goto
<1>2. result' = [result EXCEPT ![c] = result[c]]
    BY <1>1 DEF ApiInv, TypeOK
<1> QED BY <1>1, <1>2, KeyKeeps

\* Every step of a call but its commit.
LEMMA KeyStep ==
    ASSUME ApiInv, KeyInv, NEW c \in Calls,
           \/ Start(c) \/ EnforceRateLimit(c) \/ LockUserAsset(c) \/ CheckBalance(c)
           \/ InsertDepositRow(c) \/ ReadFaucetNonce(c) \/ SendFaucet(c) \/ Post(c)
           \/ InsertTransaction(c) \/ InsertEntries(c) \/ BreakDeadlock(c) \/ Lose(c)
    PROVE  KeyInv'
<1>1. result = [result EXCEPT ![c] = result[c]]
    BY DEF ApiInv, TypeOK
<1>2. ASSUME NEW answer \in {"limited", "insufficient", "error", "lost"}, Finish(c, answer), txs' = txs
      PROVE  KeyInv'
    BY <1>2, KeyFinish
<1>3. ASSUME NEW step \in Steps \ {"commit"}, Goto(c, step), txs' = txs
      PROVE  KeyInv'
    BY <1>3, KeyGoto
<1>4. CASE Start(c)
    <2>1. txs' = txs
        BY <1>4 DEF Start, dbVars
    <2>2. CASE Found(c)
        BY <1>4, <2>1, <2>2, KeyFinish DEF Start
    <2>3. CASE ~Found(c)
        BY <1>3, <1>4, <2>1, <2>3 DEF Start, Steps
    <2> QED BY <2>2, <2>3
<1>5. CASE EnforceRateLimit(c)
    <2>1. txs' = txs
        BY <1>5 DEF EnforceRateLimit, dbVars
    <2>2. ASSUME NEW step \in {"lock", "nonce", "row"}, pc' = [pc EXCEPT ![c] = step],
                 UNCHANGED <<posted, result>>
          PROVE  KeyInv'
        BY <1>1, <2>1, <2>2, KeyKeeps
    <2> QED BY <1>2, <1>5, <2>1, <2>2 DEF EnforceRateLimit
<1>6. CASE LockUserAsset(c)
    <2>1. txs' = txs /\ pc' = [pc EXCEPT ![c] = "check"] /\ posted' = posted /\ result' = result
        BY <1>6 DEF LockUserAsset, dbVars
    <2> QED BY <1>1, <2>1, KeyKeeps
<1>7. CASE CheckBalance(c)
    BY <1>2, <1>3, <1>7 DEF CheckBalance, dbVars, Steps
<1>8. CASE InsertDepositRow(c)
    BY <1>2, <1>3, <1>8 DEF InsertDepositRow, dbVars, Steps
<1>9. CASE ReadFaucetNonce(c)
    BY <1>3, <1>9 DEF ReadFaucetNonce, dbVars, Steps
<1>10. CASE SendFaucet(c)
    BY <1>2, <1>3, <1>10 DEF SendFaucet, dbVars, Steps
<1>11. CASE Post(c)
    <2>1. txs' = txs
        BY <1>11 DEF Post, dbVars
    <2>2. CASE Found(c) /\ Goto(c, "commit")
        BY <2>1, <2>2, KeyGoto
    <2> QED BY <1>2, <1>3, <1>11, <2>1, <2>2 DEF Post, Steps
<1>12. CASE InsertTransaction(c)
    <2>1. txs' = txs /\ KeyHolders(c) = {}
        BY <1>12 DEF InsertTransaction, dbVars
    <2>2. CASE /\ ~KeyTaken(c) /\ posted' = posted \cup {c} /\ pc' = [pc EXCEPT ![c] = "entries"]
               /\ result' = result
        <3>1. ~Found(c)
            BY <2>2 DEF KeyTaken, Found
        <3> QED BY <1>1, <2>1, <2>2, <3>1, KeyKeeps
    <2> QED BY <1>2, <1>12, <2>1, <2>2 DEF InsertTransaction
<1>13. CASE InsertEntries(c)
    <2>1. txs' = txs /\ c \in posted /\ Goto(c, "commit")
        BY <1>13 DEF InsertEntries, dbVars, ApiInv, ReplayInv
    <2> QED BY <2>1, KeyGoto
<1>14. CASE BreakDeadlock(c)
    BY <1>2, <1>14 DEF BreakDeadlock, dbVars
<1>15. CASE Lose(c)
    BY <1>2, <1>15 DEF Lose, dbVars
<1> QED BY <1>4, <1>5, <1>6, <1>7, <1>8, <1>9, <1>10, <1>11, <1>12, <1>13, <1>14, <1>15

\* The commit of an uncommitted transaction brings its key, which nobody else has.
LEMMA KeyCommit ==
    ASSUME ApiInv, KeyInv, NEW c \in Calls, CommitCall(c)
    PROVE  KeyInv'
<1>1. pc[c] = "commit"
    BY DEF CommitCall
<1>2. CASE c \notin posted
    <2>1. Finish(c, "replayed") /\ txs' = txs /\ Found(c)
        BY <1>1, <1>2 DEF CommitCall, KeyInv
    <2> QED BY <2>1, KeyFinish
<1>3. CASE c \in posted
    <2>1. /\ txs' = txs \cup {Transaction(c)} /\ posted' = posted \ {c}
          /\ pc' = [pc EXCEPT ![c] = "done"] /\ result' = [result EXCEPT ![c] = "ok"]
        BY <1>3 DEF CommitCall, Finish
    <2>2. /\ pc \in [Calls -> Steps] /\ result \in [Calls -> Answers] /\ posted \subseteq Calls
        BY DEF ApiInv, TypeOK
    <2>3. /\ Transaction(c).key = ScopedKey(c) /\ Transaction(c).kind = Kind[c]
          /\ Transaction(c).user = User[c]
        BY DEF Transaction
    <2>4. \A d \in Calls : /\ Found(d) => Found(d)'
                           /\ ScopedKey(d) = ScopedKey(c) => Found(d)'
                           /\ Found(d)' => Found(d) \/ ScopedKey(d) = ScopedKey(c)
        <3>1. \A d \in Calls : ScopedKey(d)' = ScopedKey(d)
            BY DEF ScopedKey, Domain
        <3> QED BY <2>1, <2>3, <3>1 DEF Found
    <2>5. \A t \in txs' : \E d \in Calls : t.key = ScopedKey(d) /\ t.kind = Kind[d] /\ t.user = User[d]
        BY <2>1, <2>3 DEF KeyInv
    <2>6. ASSUME NEW d \in Calls
          PROVE  /\ result'[d] \in {"ok", "replayed"} => Found(d)'
                 /\ pc'[d] = "commit" /\ d \notin posted' => Found(d)'
        BY <2>1, <2>2, <2>4 DEF KeyInv
    <2>7. ASSUME NEW d \in posted'
          PROVE  ~Found(d)' /\ \A e \in posted' : ScopedKey(d) = ScopedKey(e) => d = e
        BY <1>3, <2>1, <2>2, <2>4 DEF KeyInv
    <2>8. ASSUME NEW d \in Calls, result[d] = "ok" PROVE ScopedKey(d) # ScopedKey(c)
        <3>1. Found(d) /\ ~Found(c)
            BY <1>3, <2>8 DEF KeyInv
        <3> QED BY <3>1 DEF Found
    <2>9. ASSUME NEW d \in Calls, NEW e \in Calls, ScopedKey(d) = ScopedKey(e),
                 result'[d] = "ok", result'[e] = "ok"
          PROVE  d = e
        BY <2>1, <2>2, <2>8, <2>9 DEF KeyInv
    <2>10. \A d \in Calls : ScopedKey(d)' = ScopedKey(d)
        BY DEF ScopedKey, Domain
    <2>11. posted' \subseteq Calls
        BY <2>1, <2>2
    <2> QED BY <2>5, <2>6, <2>7, <2>9, <2>10, <2>11 DEF KeyInv
<1> QED BY <1>2, <1>3

LEMMA KeyIdle ==
    ASSUME KeyInv, UNCHANGED <<txs, posted, pc, result>>
    PROVE  KeyInv'
<1>1. \A c : Found(c)' = Found(c) /\ ScopedKey(c)' = ScopedKey(c)
    BY DEF Found, ScopedKey, Domain
<1> QED BY <1>1 DEF KeyInv

LEMMA KeyNext == ApiInv /\ KeyInv /\ [Next]_vars => KeyInv'
<1> SUFFICES ASSUME ApiInv, KeyInv, [Next]_vars PROVE KeyInv'
    OBVIOUS
<1>1. CASE \E c \in Calls : Start(c) \/ Lose(c)
    BY <1>1, KeyStep
<1>2. CASE \E c \in Calls : Step(c)
    BY <1>2, KeyStep, KeyCommit DEF Step
<1>3. CASE Tick \/ (\E u \in Users : CreditDeposit(u)) \/ UNCHANGED vars
    BY <1>3, KeyIdle DEF Tick, CreditDeposit, dbVars, callVars, vars
<1> QED BY <1>1, <1>2, <1>3 DEF Next

LEMMA KeyAlways == Spec => []KeyInv
<1>1. Init => KeyInv
    BY DEF Init, KeyInv, Found
<1> QED BY <1>1, ApiAlways, KeyNext, PTL DEF Spec

\* A key says of which operation and of which user it is.
LEMMA KeyDetermines ==
    ASSUME NEW c \in Calls, NEW d \in Calls
    PROVE  ScopedKey(c) = ScopedKey(d) <=> SameOperation(c, d)
    BY DEF ScopedKey, SameOperation

\* A call is answered with success, its own or a replay, only when a transaction of
\* the same operation, user and key is committed: find_transaction_by_idempotency_key
\* never finds a transaction of another operation, or one that is rolled back.
THEOREM SuccessIsCommitted == Spec => []SuccessIsReal
<1>1. KeyInv => SuccessIsReal
    <2> SUFFICES ASSUME KeyInv, NEW c \in Calls, result[c] \in {"ok", "replayed"}
                 PROVE  \E t \in txs : /\ Domain(t.kind) = Domain(Kind[c]) /\ t.user = User[c]
                                       /\ t.key = ScopedKey(c)
        BY DEF SuccessIsReal
    <2>1. PICK t \in txs : t.key = ScopedKey(c)
        BY DEF KeyInv, Found
    <2>2. PICK d \in Calls : t.key = ScopedKey(d) /\ t.kind = Kind[d] /\ t.user = User[d]
        BY DEF KeyInv
    <2>3. SameOperation(c, d)
        BY <2>1, <2>2, KeyDetermines
    <2> QED BY <2>1, <2>2, <2>3 DEF SameOperation
<1> QED BY <1>1, KeyAlways, PTL

\* However a client retries a key and races its retries, one call with the key
\* executes: the unique index is looked at when the transaction is inserted, and no
\* step between that and the commit lets another transaction with the key in.
THEOREM KeysExecuteOnce == Spec => []OncePerKey
<1>1. KeyInv => OncePerKey
    BY KeyDetermines DEF KeyInv, OncePerKey
<1> QED BY <1>1, KeyAlways, PTL

-----------------------------------------------------------------------------
(* The endpoints are a bank.                                                 *)

\* Only a call that is done is answered, and the transaction of a key is that of a
\* call which was told so: no client is left with "refused" for what was executed.
AnswerInv ==
    /\ \A c \in Calls : pc[c] # "done" => result[c] = "none"
    /\ \A t \in txs : \E d \in Calls : t.key = ScopedKey(d) /\ result[d] = "ok"

Refusals == {"limited", "insufficient", "error", "lost"}

\* What a step of a call does to the answers: none, or the end of a call that was
\* under way.
LEMMA CallMoves ==
    ASSUME ApiInv, KeyInv, NEW c \in Calls, Start(c) \/ Step(c) \/ Lose(c)
    PROVE  /\ pc[c] # "done"
           /\ \/ /\ UNCHANGED <<balance, txs, result>>
                 /\ \E step \in Steps : pc' = [pc EXCEPT ![c] = step]
              \/ /\ UNCHANGED <<balance, txs>>
                 /\ \E a \in Refusals : Finish(c, a)
              \/ UNCHANGED <<balance, txs>> /\ Finish(c, "replayed") /\ Found(c)
              \/ CommitCall(c) /\ c \in posted
<1>1. CASE Start(c)
    BY <1>1 DEF Start, Goto, dbVars, Steps
<1>2. CASE EnforceRateLimit(c)
    BY <1>2 DEF EnforceRateLimit, dbVars, Steps, Refusals
<1>3. CASE LockUserAsset(c) \/ CheckBalance(c) \/ InsertDepositRow(c) \/ ReadFaucetNonce(c)
    BY <1>3 DEF LockUserAsset, CheckBalance, InsertDepositRow, ReadFaucetNonce, Goto, dbVars,
       Steps, Refusals
<1>4. CASE SendFaucet(c) \/ Post(c) \/ InsertTransaction(c) \/ InsertEntries(c)
    BY <1>4 DEF SendFaucet, Post, InsertTransaction, InsertEntries, Goto, dbVars, Steps, Refusals
<1>5. CASE CommitCall(c)
    BY <1>5 DEF CommitCall, KeyInv
<1>6. CASE BreakDeadlock(c)
    <2>1. \E d : WaitsFor(c, d)
        BY <1>6 DEF BreakDeadlock, Deadlocked
    <2>2. pc[c] # "done"
        BY <2>1 DEF WaitsFor
    <2> QED BY <1>6, <2>2 DEF BreakDeadlock, dbVars, Refusals
<1>7. CASE Lose(c)
    BY <1>7 DEF Lose, dbVars, Refusals
<1> QED BY <1>1, <1>2, <1>3, <1>4, <1>5, <1>6, <1>7 DEF Step

LEMMA AnswerCall ==
    ASSUME ApiInv, KeyInv, AnswerInv, NEW c \in Calls, Start(c) \/ Step(c) \/ Lose(c)
    PROVE  AnswerInv'
<1>1. pc \in [Calls -> Steps] /\ result \in [Calls -> Answers] /\ result[c] = "none"
    BY CallMoves DEF ApiInv, TypeOK, AnswerInv
<1>2. \A d \in Calls : ScopedKey(d)' = ScopedKey(d)
    BY DEF ScopedKey, Domain
<1>3. ASSUME NEW a, Finish(c, a)
      PROVE  /\ \A d \in Calls : pc'[d] # "done" => result'[d] = "none"
             /\ \A d \in Calls : result[d] = "ok" => result'[d] = "ok"
    BY <1>1, <1>3 DEF Finish, AnswerInv
<1>4. ASSUME NEW a, Finish(c, a), txs' = txs PROVE AnswerInv'
    BY <1>2, <1>3, <1>4 DEF AnswerInv
<1>5. ASSUME NEW step \in Steps, UNCHANGED <<txs, result>>, pc' = [pc EXCEPT ![c] = step]
      PROVE  AnswerInv'
    BY <1>1, <1>2, <1>5 DEF AnswerInv
<1>6. CASE CommitCall(c) /\ c \in posted
    <2>1. Finish(c, "ok") /\ txs' = txs \cup {Transaction(c)}
        BY <1>6 DEF CommitCall
    <2>2. result'[c] = "ok" /\ Transaction(c).key = ScopedKey(c)
        BY <1>1, <2>1 DEF Finish, Transaction
    <2> QED BY <1>2, <1>3, <2>1, <2>2 DEF AnswerInv
<1> QED BY <1>4, <1>5, <1>6, CallMoves

LEMMA AnswerNext == ApiInv /\ KeyInv /\ AnswerInv /\ [Next]_vars => AnswerInv'
<1> SUFFICES ASSUME ApiInv, KeyInv, AnswerInv, [Next]_vars PROVE AnswerInv'
    OBVIOUS
<1>1. CASE \E c \in Calls : Start(c) \/ Step(c) \/ Lose(c)
    BY <1>1, AnswerCall
<1>2. CASE Tick \/ (\E u \in Users : CreditDeposit(u)) \/ UNCHANGED vars
    <2>1. UNCHANGED <<txs, pc, result>>
        BY <1>2 DEF Tick, CreditDeposit, dbVars, callVars, vars
    <2>2. \A c : ScopedKey(c)' = ScopedKey(c)
        BY DEF ScopedKey, Domain
    <2> QED BY <2>1, <2>2 DEF AnswerInv
<1> QED BY <1>1, <1>2 DEF Next

\* The key of a call is taken when, and only when, its operation was executed.
LEMMA FoundExecuted ==
    ASSUME KeyInv, AnswerInv, NEW c \in Calls
    PROVE  Found(c) <=> AtOnce!Executed(c)
<1>1. AtOnce!Executed(c) <=> \E d \in Calls : ScopedKey(d) = ScopedKey(c) /\ Answer(d) = "ok"
    BY DEF AtOnce!Executed
<1>2. \A d \in Calls : Answer(d) = "ok" <=> result[d] = "ok"
    BY DEF Answer
<1>3. Found(c) => \E d \in Calls : ScopedKey(d) = ScopedKey(c) /\ result[d] = "ok"
    BY DEF Found, AnswerInv
<1>4. ASSUME NEW d \in Calls, ScopedKey(d) = ScopedKey(c), result[d] = "ok" PROVE Found(c)
    BY <1>4 DEF KeyInv, Found
<1> QED BY <1>1, <1>2, <1>3, <1>4

\* The end of a call is the bank's answer to it.
LEMMA FinishAnswers ==
    ASSUME ApiInv, NEW c \in Calls, NEW a, NEW b, Finish(c, a), result[c] = "none",
           b = IF a \in {"none", "ok", "replayed"} THEN a ELSE "refused"
    PROVE  AtOnce!Answer(c, b)
<1>1. result \in [Calls -> Answers] /\ result' = [result EXCEPT ![c] = a]
    BY DEF ApiInv, TypeOK, Finish
<1>2. \A d \in Calls : Answer(d)' = IF d = c THEN b ELSE Answer(d)
    BY <1>1 DEF Answer
<1>3. Answer(c) = "none"
    BY DEF Answer
<1> QED BY <1>2, <1>3 DEF AtOnce!Answer

\* A step of a call is a step of the bank or none.
LEMMA CallBanks ==
    ASSUME ApiInv, ApiInv', KeyInv, AnswerInv, NEW c \in Calls, Start(c) \/ Step(c) \/ Lose(c)
    PROVE  AtOnce!Next \/ UNCHANGED AtOnce!vars
<1>1. result[c] = "none"
    BY CallMoves DEF AnswerInv
<1>2. CASE UNCHANGED <<balance, result>>
    BY <1>2 DEF AtOnce!vars, Answer
<1>3. ASSUME NEW a \in Refusals, Finish(c, a), balance' = balance PROVE AtOnce!Refuse(c)
    BY <1>1, <1>3, FinishAnswers DEF AtOnce!Refuse, Refusals
<1>4. CASE balance' = balance /\ Finish(c, "replayed") /\ Found(c)
    BY <1>1, <1>4, FinishAnswers, FoundExecuted DEF AtOnce!Next, AtOnce!Replay
<1>5. CASE CommitCall(c) /\ c \in posted
    <2>1. balance' = [u \in Users |-> balance[u] + Leg(c, u)] /\ Finish(c, "ok")
        BY <1>5 DEF CommitCall
    <2>2. AtOnce!Answer(c, "ok")
        BY <1>1, <2>1, FinishAnswers
    <2>3. ~AtOnce!Executed(c)
        BY <1>5, FoundExecuted DEF KeyInv
    <2>4. \A u \in Users : balance'[u] >= 0
        BY DEF ApiInv, NoOverspend
    <2>5. AtOnce!Execute(c)
        BY <2>1, <2>2, <2>3, <2>4 DEF AtOnce!Execute
    <2> QED BY <2>5 DEF AtOnce!Next
<1> QED BY <1>2, <1>3, <1>4, <1>5, CallMoves DEF AtOnce!Next

\* The endpoints implement a bank that executes calls one at a time: under any
\* interleaving of the statements of concurrent calls, deadlocks, lost calls and
\* retries, a call takes effect at its commit or not at all, with the funds it needs,
\* once per key, and a replay is answered only after the call it replays.
THEOREM EndpointsAreABank == Spec => ImplementsBank
<1>1. Init => AtOnce!Init
    BY DEF Init, AtOnce!Init, Answer
<1>2. Init => AnswerInv
    BY DEF Init, AnswerInv
<1>3. ApiInv /\ ApiInv' /\ KeyInv /\ AnswerInv /\ [Next]_vars => [AtOnce!Next]_(AtOnce!vars)
    <2> SUFFICES ASSUME ApiInv, ApiInv', KeyInv, AnswerInv, [Next]_vars
                 PROVE  AtOnce!Next \/ UNCHANGED AtOnce!vars
        OBVIOUS
    <2>1. CASE \E c \in Calls : Start(c) \/ Step(c) \/ Lose(c)
        BY <2>1, CallBanks
    <2>2. CASE Tick \/ UNCHANGED vars
        BY <2>2 DEF Tick, dbVars, callVars, vars, AtOnce!vars, Answer
    <2>3. CASE \E u \in Users : CreditDeposit(u)
        <3>1. PICK u \in Users : CreditDeposit(u)
            BY <2>3
        <3>2. balance' = [balance EXCEPT ![u] = @ + 1] /\ result' = result
            BY <3>1 DEF CreditDeposit, callVars
        <3> QED BY <3>2 DEF AtOnce!Next, AtOnce!Deposit, Answer
    <2> QED BY <2>1, <2>2, <2>3 DEF Next
<1> QED BY <1>1, <1>2, <1>3, ApiAlways, KeyAlways, AnswerNext, PTL
        DEF Spec, ImplementsBank, AtOnce!Spec
=============================================================================
