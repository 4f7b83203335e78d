---------------------------- MODULE NftOutboxProofs ----------------------------
(***************************************************************************)
(* Proofs about NftOutbox, for every value of its constants.               *)
(***************************************************************************)
EXTENDS NftOutbox, FiniteSetTheorems, TLAPS

-----------------------------------------------------------------------------
(* The inductive invariant.                                                  *)

Statuses == {"none", "requested", "signing", "broadcast", "confirmed", "failed"}
Rows == [status : Statuses, nonce : Int, since : Int]

Mined == {r \in Requests : mined[r].at # 0}

Holdings == [user : Users \cup {NoUser}, status : {"none", "held", "withdrawing", "withdrawn"}]

\* The next nonce, whether or not the row exists.
NextFree == IF next = NoRow THEN 0 ELSE next

\* What the row of a request says of its transaction: only a signed request has
\* one, only a mined one is marked, and a resolved one was resolved as its
\* receipt says.
RowInv(r) ==
    /\ reqs[r].nonce = NoNonce <=> reqs[r].status \in {"none", "requested"}
    /\ reqs[r].since # NoBlock => r \in Mined
    /\ r \in mempool \cup Mined => r \in Signed
    /\ ~(r \in mempool /\ r \in Mined)
    /\ mined[r].ok => r \in Mined
    /\ reqs[r].status = "confirmed" => mined[r].ok
    /\ reqs[r].status = "failed" => r \in Mined /\ ~mined[r].ok

\* The nonces of the signed requests are those below the next one, and those of
\* the mined transactions are those below the account nonce.
NonceInv ==
    /\ NoncesGapFree
    /\ {reqs[r].nonce : r \in Mined} = 0..(Account - 1)

\* A decision that a confirm phase has buffered agrees with the chain.  The last
\* case is why _reconcile_unmined never drops a request here: one without a
\* receipt has no marker.
DecisionInv(r, decided) ==
    /\ reqs[r].status = "broadcast"
    /\ decided = "confirmed" => mined[r].ok
    /\ decided = "failed" => r \in Mined /\ ~mined[r].ok
    /\ decided = "mark" => r \in Mined
    /\ decided = "unmined" => reqs[r].since = NoBlock

\* What the phase of loop l still has to visit and what it has decided.
LoopInv(l) ==
    /\ buffer[l] \subseteq Queue(l) \X Decisions
    /\ pc[l] # "confirm" => buffer[l] = {}
    /\ pc[l] \in {"pending nonce", "write"} => todo[l] \subseteq Pending(l)
    /\ pc[l] = "write" => read[l] \in 0..NextFree
    /\ pc[l] = "broadcast" =>
            todo[l] \subseteq {r \in Queue(l) : reqs[r].status = "signing"}
    /\ pc[l] = "confirm" =>
            todo[l] \subseteq {r \in Queue(l) : reqs[r].status = "broadcast"}
    /\ \A r \in Requests, x \in Decisions :
            <<r, x>> \in buffer[l] => r \notin todo[l] /\ DecisionInv(r, x)
    /\ \A r \in Requests, x, y \in Decisions :
            <<r, x>> \in buffer[l] /\ <<r, y>> \in buffer[l] => x = y

OpenFor(k, t) == Open(k) /\ tokenOf[k] = t

\* The holding of a token that has not come back, its requests and the chain.
TokenInv(t) ==
    /\ \A k, q \in Keys : OpenFor(k, t) /\ OpenFor(q, t) => k = q
    /\ (\E k \in Keys : OpenFor(k, t)) <=> holdings[t].status = "withdrawing"
    /\ \A k \in Keys : OpenFor(k, t) => holdings[t].user = Requester(k)
    /\ \A k \in Keys : tokenOf[k] = t /\ mined[k].ok =>
            Open(k) \/ (reqs[k].status = "confirmed" /\ holdings[t].status = "withdrawn")
    /\ holdings[t].status = "withdrawn" =>
            \E k \in Keys : tokenOf[k] = t /\ reqs[k].status = "confirmed"
    /\ t \in Mints => (holdings[t].status = "none" <=> reqs[t].status # "confirmed")

\* Where a token can be.
LocationInv(t) ==
    /\ location[t] = "nowhere" => t \in Mints /\ ~mined[t].ok
    /\ location[t] = "out" => \E k \in Keys : tokenOf[k] = t /\ mined[k].ok

NftOutboxInv ==
    /\ TypeOK
    /\ \A r \in Requests : RowInv(r)
    /\ NonceInv
    /\ \A l \in Loops : LoopInv(l)
    /\ \A t \in Tokens \ returned : TokenInv(t)
    /\ \A t \in Tokens : LocationInv(t)

-----------------------------------------------------------------------------
(* Facts about the operators of the model.                                   *)

LEMMA BoundsAreNat == Confirmations \in Nat /\ MaxHeight \in Nat /\ MaxFailures \in Nat
    BY NftOutboxAssumption, Zenon

LEMMA RequestsFinite == IsFiniteSet(Requests)
    BY NftOutboxAssumption, FS_Union DEF Requests

\* The account nonce counts the mined transactions.
LEMMA AccountIsNat == IsFiniteSet(Mined) /\ Account \in Nat /\ Account = Cardinality(Mined)
<1>1. Mined \in SUBSET Requests
    BY DEF Mined
<1>2. IsFiniteSet(Mined)
    BY <1>1, RequestsFinite, FS_Subset, Zenon
<1>3. Account = Cardinality(Mined)
    BY DEF Account, Mined
<1> QED BY <1>2, <1>3, FS_CardinalityType

LEMMA QueueIsRequests == ASSUME NEW l \in Loops PROVE Queue(l) \subseteq Requests
    BY DEF Queue, Requests

\* The two loops have no request in common.
LEMMA QueuesDisjoint ==
    ASSUME NEW l \in Loops, NEW m \in Loops, NEW r \in Queue(l), r \in Queue(m)
    PROVE  l = m
    BY NftOutboxAssumption DEF Queue, Loops

LEMMA HoldingsType == TypeOK => holdings \in [Tokens -> Holdings]
    BY DEF TypeOK, Holdings

LEMMA RowsType == TypeOK => reqs \in [Requests -> Rows]
    BY DEF TypeOK, Rows, Statuses

LEMMA NextFreeType == TypeOK => NextFree \in Nat
    BY NftOutboxAssumption DEF TypeOK, NextFree

\* Below the next nonce are the nonces of the signed requests.
LEMMA NoncesBelowNext ==
    ASSUME TypeOK, NoncesGapFree
    PROVE  {reqs[r].nonce : r \in Signed} = 0..(NextFree - 1)
<1>1. CASE next = NoRow
    BY <1>1 DEF NoncesGapFree, NextFree
<1>2. CASE next # NoRow
    BY <1>2 DEF NoncesGapFree, NextFree
<1> QED BY <1>1, <1>2

-----------------------------------------------------------------------------
(* What a step leaves alone keeps its part of the invariant.                 *)

\* A step of another process keeps what loop l is in the middle of, if it changes no
\* request that l has seen, takes no transaction off the chain and moves the nonce
\* row forward only.
LEMMA LoopFrame ==
    ASSUME NEW l \in Loops, TypeOK, \A r \in Requests : RowInv(r), LoopInv(l),
           pc'[l] = pc[l], todo'[l] = todo[l], buffer'[l] = buffer[l], read'[l] = read[l],
           \A r \in Queue(l) : reqs[r].status # "none" => reqs'[r] = reqs[r],
           \A r \in Mined : mined'[r] = mined[r],
           NextFree' \in Nat, NextFree <= NextFree'
    PROVE  LoopInv(l)'
<1>1. pc'[l] \in {"pending nonce", "write"} => todo'[l] \subseteq Pending(l)'
    BY DEF LoopInv, Pending
<1>2. pc'[l] = "write" => read'[l] \in 0..NextFree'
    BY NextFreeType DEF LoopInv
<1>3. ASSUME NEW r \in Requests, NEW x \in Decisions, <<r, x>> \in buffer'[l]
      PROVE  r \notin todo'[l] /\ DecisionInv(r, x)'
    <2>1. r \notin todo[l] /\ DecisionInv(r, x)
        BY <1>3 DEF LoopInv
    <2>2. <<r, x>> \in Queue(l) \X Decisions
        BY <1>3 DEF LoopInv
    <2>3. reqs'[r] = reqs[r]
        BY <2>1, <2>2 DEF DecisionInv
    <2>4. r \in Mined => r \in Mined' /\ mined'[r] = mined[r]
        BY DEF Mined
    <2>5. mined[r].ok => r \in Mined
        BY DEF RowInv
    <2> QED BY <1>3, <2>1, <2>4, <2>5, <2>3 DEF DecisionInv
<1> QED BY <1>1, <1>2, <1>3 DEF LoopInv

\* So do the steps that change neither requests nor the chain nor the nonce row.
LEMMA RowsFrame ==
    ASSUME TypeOK, \A r \in Requests : RowInv(r), NonceInv,
           UNCHANGED <<reqs, mined, mempool, next>>
    PROVE  (\A r \in Requests : RowInv(r)') /\ NonceInv'
<1>1. Mined' = Mined /\ Account' = Account /\ Signed' = Signed
    BY DEF Mined, Account, Signed
<1> QED BY <1>1 DEF RowInv, NonceInv, NoncesGapFree

\* The tokens, when no request, holding or transaction changes.
LEMMA TokenFrame ==
    ASSUME UNCHANGED <<reqs, tokenOf, holdings, mined>>, NEW t \in Tokens, TokenInv(t)
    PROVE  TokenInv(t)'
    BY DEF TokenInv, OpenFor, Open

LEMMA LocationFrame ==
    ASSUME UNCHANGED <<location, tokenOf, mined>>, NEW t \in Tokens, LocationInv(t)
    PROVE  LocationInv(t)'
    BY DEF LocationInv

\* The loops, when only their surroundings change.
LEMMA LoopsFrame ==
    ASSUME TypeOK, \A r \in Requests : RowInv(r), \A l \in Loops : LoopInv(l),
           UNCHANGED <<reqs, mined, next, loopVars>>
    PROVE  \A l \in Loops : LoopInv(l)'
<1>1. NextFree' = NextFree /\ NextFree \in Nat
    BY NextFreeType DEF NextFree
<1>2. UNCHANGED <<pc, todo, buffer, read>>
    BY DEF loopVars
<1> SUFFICES ASSUME NEW l \in Loops PROVE LoopInv(l)'
    OBVIOUS
<1> QED BY <1>1, <1>2, LoopFrame

Labels == {"sign", "pending nonce", "write", "broadcast", "confirm"}

\* What loop l has in memory changes; the other loop is where it was.
OnlyLoop(l) ==
    /\ pc' \in [Loops -> Labels]
    /\ todo' \in [Loops -> SUBSET Requests]
    /\ buffer' \in [Loops -> SUBSET (Requests \X Decisions)]
    /\ read' \in [Loops -> Int]
    /\ \A m \in Loops \ {l} : /\ pc'[m] = pc[m] /\ todo'[m] = todo[m]
                              /\ buffer'[m] = buffer[m] /\ read'[m] = read[m]

\* A phase starts with an empty buffer.
LEMMA PhaseStart ==
    ASSUME TypeOK, NEW l \in Loops, NEW label \in Labels, NEW S, S \subseteq Requests,
           NEW x \in Int, StartPhase(l, label, S, x)
    PROVE  /\ OnlyLoop(l)
           /\ pc'[l] = label /\ todo'[l] = S /\ buffer'[l] = {} /\ read'[l] = x
<1>1. /\ pc \in [Loops -> Labels]
      /\ todo \in [Loops -> SUBSET Requests]
      /\ buffer \in [Loops -> SUBSET (Requests \X Decisions)]
      /\ read \in [Loops -> Int]
    BY DEF TypeOK, Labels
<1>2. /\ pc' = [pc EXCEPT ![l] = label] /\ todo' = [todo EXCEPT ![l] = S]
      /\ buffer' = [buffer EXCEPT ![l] = {}] /\ read' = [read EXCEPT ![l] = x]
    BY DEF StartPhase, Goto
<1> QED BY <1>1, <1>2 DEF OnlyLoop

-----------------------------------------------------------------------------
(* The initial states.                                                       *)

LEMMA TypeInit == Init => TypeOK
<1> SUFFICES ASSUME Init PROVE TypeOK
    OBVIOUS
<1>1. (CHOOSE t \in Tokens : TRUE) \in Tokens
    BY NftOutboxAssumption, Zenon DEF Tokens
<1>2. tokenOf \in [Keys -> Tokens]
    BY <1>1 DEF Init
<1>3. holdings \in [Tokens -> [user : Users \cup {NoUser},
                               status : {"none", "held", "withdrawing", "withdrawn"}]]
    BY NftOutboxAssumption DEF Init, NoHolding, Tokens
<1>4. location \in [Tokens -> {"nowhere", "hot", "out", "deposit"}]
    BY DEF Init
<1>5. mined \in [Requests -> [at : 0..MaxHeight, ok : BOOLEAN]]
    BY NftOutboxAssumption DEF Init
<1> QED BY <1>2, <1>3, <1>4, <1>5, NftOutboxAssumption
        DEF Init, TypeOK, NoNonce, NoBlock, Free, Loops

LEMMA InvInit == Init => NftOutboxInv
<1> SUFFICES ASSUME Init PROVE NftOutboxInv
    OBVIOUS
<1>1. TypeOK
    BY TypeInit
<1>2. \A r \in Requests : /\ reqs[r] = [status |-> "none", nonce |-> NoNonce, since |-> NoBlock]
                          /\ mined[r] = [at |-> 0, ok |-> FALSE]
    BY DEF Init
<1>3. Mined = {} /\ Signed = {}
    BY <1>2 DEF Mined, Signed
<1>4. \A r \in Requests : RowInv(r)
    BY <1>2, <1>3 DEF Init, RowInv
<1>5. NonceInv
    <2>1. Account = 0
        BY <1>3, AccountIsNat, FS_EmptySet
    <2>2. 0..(0 - 1) = {}
        OBVIOUS
    <2> QED BY <1>3, <2>1, <2>2 DEF NonceInv, NoncesGapFree, Init
<1>6. ASSUME NEW l \in Loops PROVE LoopInv(l)
    BY DEF Init, LoopInv
<1>7. \A k \in Keys : reqs[k].status = "none" /\ ~mined[k].ok
    BY <1>2 DEF Requests
<1>8. ASSUME NEW t \in Tokens PROVE TokenInv(t)
    <2>1. holdings[t].status = IF t \in Deposited THEN "held" ELSE "none"
        BY DEF Init, NoHolding
    <2>2. t \in Mints => t \notin Deposited /\ reqs[t].status = "none"
        BY <1>2, NftOutboxAssumption DEF Requests
    <2> QED BY <1>7, <2>1, <2>2 DEF TokenInv, OpenFor, Open
<1>9. ASSUME NEW t \in Tokens PROVE LocationInv(t)
    <2>1. t \in Mints => ~mined[t].ok
        BY <1>2 DEF Requests
    <2> QED BY <2>1 DEF Init, LocationInv
<1> QED BY <1>1, <1>4, <1>5, <1>6, <1>8, <1>9 DEF NftOutboxInv

-----------------------------------------------------------------------------
(* The steps of the API.                                                     *)

\* The arguments of a call.
LEMMA CallType ==
    ASSUME NEW c \in Calls
    PROVE  /\ CallOf[c].token \in Tokens
           /\ CallOf[c].user \in Users /\ CallOf[c].to \in Users
           /\ CallOf[c].op = "withdraw" => CallOf[c].key \in Keys
    BY NftOutboxAssumption, Zenon DEF Tokens

\* A key names one user: it was scoped with the id of the user.
LEMMA RequesterOfCall ==
    ASSUME NEW c \in Calls, CallOf[c].op = "withdraw"
    PROVE  Requester(CallOf[c].key) = CallOf[c].user
<1> DEFINE d == CHOOSE d \in Calls : CallOf[d].op = "withdraw" /\ CallOf[d].key = CallOf[c].key
<1>1. d \in Calls /\ CallOf[d].key = CallOf[c].key
    BY Zenon
<1>2. CallOf[d].user = CallOf[c].user
    BY <1>1, NftOutboxAssumption, Zenon
<1> QED BY <1>2, Zenon DEF Requester

LEMMA InvAnswer ==
    ASSUME NftOutboxInv, NEW c \in Calls, LookUpKey(c) \/ Refused(c)
    PROVE  NftOutboxInv'
<1>1. TypeOK'
    BY DEF NftOutboxInv, TypeOK, LookUpKey, Refused, chainVars, loopVars
<1>2. UNCHANGED <<chainVars, reqs, tokenOf, holdings, returned, next, loopVars>>
    BY DEF LookUpKey, Refused
<1>3. UNCHANGED <<reqs, tokenOf, holdings, returned, next, mined, mempool, location>>
    BY <1>2 DEF chainVars
<1>4. (\A r \in Requests : RowInv(r)') /\ NonceInv'
    BY <1>3, RowsFrame DEF NftOutboxInv
<1>5. \A l \in Loops : LoopInv(l)'
    BY <1>2, <1>3, LoopsFrame DEF NftOutboxInv
<1> QED BY <1>1, <1>3, <1>4, <1>5, TokenFrame, LocationFrame DEF NftOutboxInv

LEMMA InvTransferNft ==
    ASSUME NftOutboxInv, NEW c \in Calls, TransferNft(c)
    PROVE  NftOutboxInv'
<1> DEFINE t == CallOf[c].token
<1>1. UNCHANGED <<reqs, tokenOf, returned, next, mined, mempool, location, loopVars>>
    BY DEF TransferNft, chainVars
<1>2. /\ holdings[t].status = "held" /\ t \in Tokens
      /\ holdings' = [holdings EXCEPT ![t].user = CallOf[c].to]
      /\ CallOf[c].to \in Users
    <2>1. t \in Tokens /\ CallOf[c].to \in Users
        BY CallType
    <2>2. holdings[t] = [user |-> CallOf[c].user, status |-> "held"]
        BY DEF TransferNft, SelectHeld
    <2>3. holdings' = [holdings EXCEPT ![t].user = CallOf[c].to]
        BY DEF TransferNft
    <2> QED BY <2>1, <2>2, <2>3
<1>3. holdings' \in [Tokens -> Holdings]
    BY <1>2, HoldingsType DEF NftOutboxInv, Holdings
<1>4. TypeOK'
    BY <1>3 DEF NftOutboxInv, TypeOK, Holdings, TransferNft, chainVars, loopVars
<1>5. (\A r \in Requests : RowInv(r)') /\ NonceInv'
    BY <1>1, RowsFrame DEF NftOutboxInv
<1>6. \A l \in Loops : LoopInv(l)'
    BY <1>1, LoopsFrame DEF NftOutboxInv
<1>7. ASSUME NEW u \in Tokens, TokenInv(u) PROVE TokenInv(u)'
    <2>1. /\ holdings'[u].status = holdings[u].status
          /\ u # t => holdings'[u] = holdings[u]
        BY <1>2 DEF NftOutboxInv, TypeOK
    <2>2. \A k \in Keys : ~OpenFor(k, t) \/ u # t
        BY <1>2, <1>7 DEF TokenInv
    <2> QED BY <1>1, <1>7, <2>1, <2>2 DEF TokenInv, OpenFor, Open
<1> QED BY <1>1, <1>4, <1>5, <1>6, <1>7, LocationFrame DEF NftOutboxInv

LEMMA InvCreditRedeposit ==
    ASSUME NftOutboxInv, NEW k \in Keys, CreditRedeposit(k)
    PROVE  NftOutboxInv'
<1> DEFINE t == tokenOf[k]
<1>1. UNCHANGED <<reqs, tokenOf, next, mined, mempool, location, loopVars>>
    BY DEF CreditRedeposit, chainVars
<1>2. /\ t \in Tokens
      /\ returned' = returned \cup {t}
      /\ holdings' = [holdings EXCEPT ![t] = [user |-> Depositor, status |-> "held"]]
    BY DEF CreditRedeposit, NftOutboxInv, TypeOK
<1>3. holdings' \in [Tokens -> Holdings]
    BY <1>2, HoldingsType, NftOutboxAssumption DEF NftOutboxInv, Holdings
<1>4. TypeOK'
    BY <1>2, <1>3 DEF NftOutboxInv, TypeOK, Holdings, CreditRedeposit, chainVars, loopVars, apiVars
<1>5. (\A r \in Requests : RowInv(r)') /\ NonceInv'
    BY <1>1, RowsFrame DEF NftOutboxInv
<1>6. \A l \in Loops : LoopInv(l)'
    BY <1>1, LoopsFrame DEF NftOutboxInv
<1>7. ASSUME NEW u \in Tokens \ returned', TokenInv(u) PROVE TokenInv(u)'
    <2>1. holdings'[u] = holdings[u]
        BY <1>2 DEF NftOutboxInv, TypeOK
    <2> QED BY <1>1, <1>7, <2>1 DEF TokenInv, OpenFor, Open
<1> QED BY <1>1, <1>2, <1>4, <1>5, <1>6, <1>7, LocationFrame DEF NftOutboxInv

\* A new request: its row has no nonce yet, and nothing on the chain.
LEMMA NewRequest ==
    ASSUME NftOutboxInv, NEW m \in Requests, reqs[m].status = "none",
           reqs' = [reqs EXCEPT ![m].status = "requested"],
           UNCHANGED <<mined, mempool, next, loopVars>>
    PROVE  /\ reqs' \in [Requests -> Rows]
           /\ reqs'[m].status = "requested" /\ \A r \in Requests \ {m} : reqs'[r] = reqs[r]
           /\ \A r \in Requests : RowInv(r)'
           /\ NonceInv'
           /\ \A l \in Loops : LoopInv(l)'
<1>1. reqs \in [Requests -> Rows]
    BY DEF NftOutboxInv, TypeOK, Rows, Statuses
<1>2. reqs' \in [Requests -> Rows]
    BY <1>1 DEF Rows, Statuses
<1>3. /\ reqs'[m].status = "requested" /\ reqs'[m].nonce = reqs[m].nonce
      /\ reqs'[m].since = reqs[m].since
      /\ \A r \in Requests \ {m} : reqs'[r] = reqs[r]
    BY <1>1 DEF Rows
<1>4. \A r \in Requests : reqs'[r].nonce = reqs[r].nonce
    BY <1>3
<1>5. Mined' = Mined /\ Account' = Account /\ Signed' = Signed
    BY <1>4 DEF Mined, Account, Signed
<1>6. \A r \in Requests : RowInv(r)'
    BY <1>3, <1>5 DEF NftOutboxInv, RowInv
<1>7. {reqs'[r].nonce : r \in Signed} = {reqs[r].nonce : r \in Signed}
    BY <1>4 DEF Signed
<1>8. {reqs'[r].nonce : r \in Mined} = {reqs[r].nonce : r \in Mined}
    BY <1>4 DEF Mined
<1>9. \A r, q \in Signed : reqs'[r].nonce = reqs'[q].nonce => r = q
    BY <1>4 DEF NftOutboxInv, NonceInv, NoncesGapFree, Signed
<1>10. NonceInv'
    BY <1>5, <1>7, <1>8, <1>9 DEF NftOutboxInv, NonceInv, NoncesGapFree
<1>11. ASSUME NEW l \in Loops PROVE LoopInv(l)'
    <2>1. NextFree' = NextFree /\ NextFree \in Nat
        BY NextFreeType DEF NextFree, NftOutboxInv
    <2>2. UNCHANGED <<pc, todo, buffer, read>>
        BY DEF loopVars
    <2>3. \A r \in Queue(l) : reqs[r].status # "none" => reqs'[r] = reqs[r]
        BY <1>3, QueueIsRequests
    <2>4. TypeOK /\ (\A r \in Requests : RowInv(r)) /\ LoopInv(l)
        BY DEF NftOutboxInv
    <2> QED BY <2>1, <2>2, <2>3, <2>4, LoopFrame
<1> QED BY <1>2, <1>3, <1>6, <1>10, <1>11

LEMMA InvMintNft ==
    ASSUME NftOutboxInv, NEW m \in Mints, MintNft(m)
    PROVE  NftOutboxInv'
<1>1. UNCHANGED <<tokenOf, holdings, returned, next, mined, mempool, location, loopVars>>
    BY DEF MintNft, chainVars
<1>2. /\ m \in Requests /\ reqs[m].status = "none"
      /\ reqs' = [reqs EXCEPT ![m].status = "requested"]
    BY DEF MintNft, Requests
<1>3. /\ reqs' \in [Requests -> Rows]
      /\ reqs'[m].status = "requested" /\ \A r \in Requests \ {m} : reqs'[r] = reqs[r]
      /\ \A r \in Requests : RowInv(r)'
      /\ NonceInv'
      /\ \A l \in Loops : LoopInv(l)'
    BY <1>1, <1>2, NewRequest
<1>4. TypeOK'
    BY <1>3 DEF NftOutboxInv, TypeOK, MintNft, chainVars, loopVars, apiVars, Rows, Statuses
<1>5. \A k \in Keys : reqs'[k] = reqs[k]
    BY <1>3, NftOutboxAssumption DEF Requests
<1>6. ASSUME NEW t \in Tokens, TokenInv(t) PROVE TokenInv(t)'
    <2>1. t \in Mints => (reqs'[t].status = "confirmed" <=> reqs[t].status = "confirmed")
        BY <1>2, <1>3 DEF Requests
    <2> QED BY <1>1, <1>5, <1>6, <2>1 DEF TokenInv, OpenFor, Open
<1> QED BY <1>1, <1>3, <1>4, <1>6, LocationFrame DEF NftOutboxInv

LEMMA InvRequestWithdrawal ==
    ASSUME NftOutboxInv, NEW c \in Calls, RequestWithdrawal(c)
    PROVE  NftOutboxInv'
<1> DEFINE k == CallOf[c].key
           t == CallOf[c].token
<1>1. UNCHANGED <<returned, next, mined, mempool, location, loopVars>>
    BY DEF RequestWithdrawal, chainVars
<1>2. k \in Keys /\ k \in Requests /\ t \in Tokens /\ Requester(k) = CallOf[c].user
    BY CallType, RequesterOfCall DEF RequestWithdrawal, Requests
<1>3. /\ reqs[k].status = "none"
      /\ reqs' = [reqs EXCEPT ![k].status = "requested"]
      /\ tokenOf' = [tokenOf EXCEPT ![k] = t]
      /\ holdings' = [holdings EXCEPT ![t].status = "withdrawing"]
      /\ holdings[t] = [user |-> CallOf[c].user, status |-> "held"]
    BY DEF RequestWithdrawal, RowExists, SelectHeld
<1>4. /\ reqs' \in [Requests -> Rows]
      /\ reqs'[k].status = "requested" /\ \A r \in Requests \ {k} : reqs'[r] = reqs[r]
      /\ \A r \in Requests : RowInv(r)'
      /\ NonceInv'
      /\ \A l \in Loops : LoopInv(l)'
    BY <1>1, <1>2, <1>3, NewRequest
<1>5. holdings' \in [Tokens -> Holdings]
    BY <1>3, HoldingsType DEF NftOutboxInv, Holdings
<1>6. tokenOf' \in [Keys -> Tokens] /\ tokenOf'[k] = t
      /\ \A q \in Keys \ {k} : tokenOf'[q] = tokenOf[q]
    BY <1>2, <1>3 DEF NftOutboxInv, TypeOK
<1>7. TypeOK'
    BY <1>4, <1>5, <1>6
    DEF NftOutboxInv, TypeOK, Holdings, RequestWithdrawal, chainVars, loopVars, Rows, Statuses
<1>8. ~mined[k].ok /\ ~Open(k)
    BY <1>2, <1>3 DEF NftOutboxInv, RowInv, Signed, Open
<1>9. \A q \in Keys \ {k} : Open(q)' <=> Open(q)
    BY <1>4 DEF Open, Requests
<1>10. ASSUME NEW u \in Tokens, TokenInv(u) PROVE TokenInv(u)'
    <2>1. u \in Mints => reqs'[u] = reqs[u]
        BY <1>2, <1>4, NftOutboxAssumption DEF Requests
    <2>2. CASE u # t
        <3>1. holdings'[u] = holdings[u]
            BY <1>3, <2>2 DEF NftOutboxInv, TypeOK
        <3>2. \A q \in Keys : OpenFor(q, u)' <=> OpenFor(q, u)
            BY <1>6, <1>8, <1>9, <2>2 DEF OpenFor
        <3>3. \A q \in Keys : /\ tokenOf'[q] = u => q # k /\ tokenOf[q] = u
                              /\ q # k => tokenOf'[q] = tokenOf[q] /\ reqs'[q] = reqs[q]
            BY <1>4, <1>6, <2>2 DEF Requests
        <3>4. \A q \in Keys : tokenOf'[q] = u /\ mined'[q].ok =>
                Open(q)' \/ (reqs'[q].status = "confirmed" /\ holdings'[u].status = "withdrawn")
            BY <1>1, <1>9, <1>10, <3>1, <3>3 DEF TokenInv
        <3>5. holdings'[u].status = "withdrawn" =>
                \E q \in Keys : tokenOf'[q] = u /\ reqs'[q].status = "confirmed"
            <4>1. reqs[k].status # "confirmed"
                BY <1>3
            <4> QED BY <1>10, <3>1, <3>3, <4>1 DEF TokenInv
        <3>6. Requester(k)' = Requester(k) /\ \A q \in Keys : Requester(q)' = Requester(q)
            BY DEF Requester
        <3> QED BY <1>10, <2>1, <3>1, <3>2, <3>4, <3>5, <3>6 DEF TokenInv
    <2>3. CASE u = t
        <3>1. holdings'[t].status = "withdrawing" /\ holdings'[t].user = Requester(k)
            <4>1. holdings'[t].status = "withdrawing" /\ holdings'[t].user = holdings[t].user
                BY <1>2, <1>3 DEF NftOutboxInv, TypeOK
            <4> QED BY <1>2, <1>3, <4>1
        <3>2. \A q \in Keys : ~OpenFor(q, t)
            BY <1>3, <1>10, <2>3 DEF TokenInv
        <3>3. \A q \in Keys : tokenOf[q] = t => ~mined[q].ok
            BY <1>3, <1>10, <2>3, <3>2 DEF TokenInv, OpenFor
        <3>4. \A q \in Keys : OpenFor(q, t)' <=> q = k
            BY <1>4, <1>6, <1>9, <3>2 DEF OpenFor, Open
        <3>5. \A q \in Keys : tokenOf'[q] = t => ~mined'[q].ok
            BY <1>1, <1>6, <1>8, <3>3
        <3>6. t \in Mints => reqs[t].status = "confirmed"
            BY <1>3, <1>10, <2>3 DEF TokenInv
        <3>7. Requester(k)' = Requester(k)
            BY DEF Requester
        <3> QED BY <1>2, <2>1, <2>3, <3>1, <3>4, <3>5, <3>6, <3>7 DEF TokenInv
    <2> QED BY <2>2, <2>3
<1>11. ASSUME NEW u \in Tokens, LocationInv(u) PROVE LocationInv(u)'
    BY <1>1, <1>6, <1>8, <1>11 DEF LocationInv
<1> QED BY <1>1, <1>4, <1>7, <1>10, <1>11 DEF NftOutboxInv

-----------------------------------------------------------------------------
(* The chain.                                                                *)

\* A pending transaction belongs to a request that is not resolved.
LEMMA PendingIsOpen ==
    ASSUME NftOutboxInv, NEW r \in mempool
    PROVE  /\ r \in Requests /\ r \in Signed /\ r \notin Mined
           /\ reqs[r].status \in {"signing", "broadcast"}
<1>1. r \in Requests
    BY DEF NftOutboxInv, TypeOK
<1>2. RowInv(r) /\ reqs[r].status \in Statuses
    BY <1>1 DEF NftOutboxInv, TypeOK, Statuses
<1> QED BY <1>1, <1>2 DEF RowInv, Statuses, Signed

\* A block with the next transaction of the hot wallet.
LEMMA InvMineOne ==
    ASSUME NftOutboxInv, NEW r \in mempool, NEW ok \in Outcomes(r),
           height < MaxHeight, height' = height + 1,
           reqs[r].nonce = Account,
           mined' = [mined EXCEPT ![r] = [at |-> height + 1, ok |-> ok]],
           mempool' = mempool \ {r},
           location' = IF ok THEN [location EXCEPT ![TokenOfRequest(r)] = Destination(r)]
                       ELSE location,
           UNCHANGED <<failures, reqs, tokenOf, holdings, returned, apiVars, next, lock, loopVars>>
    PROVE  NftOutboxInv'
<1>1. /\ r \in Requests /\ r \in Signed /\ r \notin Mined
      /\ reqs[r].status \in {"signing", "broadcast"}
    BY PendingIsOpen
<1>2. ok \in BOOLEAN
    BY DEF Outcomes
<1>3. height \in Nat /\ height + 1 \in 0..MaxHeight
    <2>1. height \in 0..MaxHeight
        BY DEF NftOutboxInv, TypeOK
    <2> QED BY <2>1, BoundsAreNat
<1>4. mined' \in [Requests -> [at : 0..MaxHeight, ok : BOOLEAN]]
    BY <1>1, <1>2, <1>3 DEF NftOutboxInv, TypeOK
<1>5. /\ mined'[r].at = height + 1 /\ mined'[r].ok = ok
      /\ \A q \in Requests \ {r} : mined'[q] = mined[q]
    BY <1>1 DEF NftOutboxInv, TypeOK
<1>6. location' \in [Tokens -> {"nowhere", "hot", "out", "deposit"}]
    <2>1. Destination(r) \in {"nowhere", "hot", "out", "deposit"}
        BY DEF Destination
    <2>2. location \in [Tokens -> {"nowhere", "hot", "out", "deposit"}]
        BY DEF NftOutboxInv, TypeOK
    <2>3. CASE ok
        BY <2>1, <2>2, <2>3
    <2>4. CASE ~ok
        BY <2>2, <2>4
    <2> QED BY <2>3, <2>4
<1>7. TypeOK'
    BY <1>3, <1>4, <1>6 DEF NftOutboxInv, TypeOK, apiVars, loopVars
<1>8. Mined' = Mined \cup {r}
    BY <1>1, <1>3, <1>5 DEF Mined
<1>9. Account' = Account + 1 /\ Account \in Nat
    <2>1. (IsFiniteSet(Mined) /\ Account \in Nat /\ Account = Cardinality(Mined))'
        <3>1. Mined' = {q \in Requests : mined'[q].at # 0}
            BY DEF Mined
        <3>2. IsFiniteSet(Mined \cup {r})
            BY AccountIsNat, FS_AddElement
        <3>3. Account' = Cardinality(Mined')
            BY <3>1 DEF Account
        <3> QED BY <1>8, <3>2, <3>3, FS_CardinalityType
    <2> QED BY <1>1, <1>8, <2>1, AccountIsNat, FS_AddElement
<1>10. Signed' = Signed
    BY DEF Signed
<1>11. ASSUME NEW q \in Requests PROVE RowInv(q)'
    <2>1. RowInv(q)
        BY DEF NftOutboxInv
    <2>2. CASE q = r
        BY <1>1, <1>5, <1>8, <1>10, <2>1, <2>2 DEF RowInv
    <2>3. CASE q # r
        BY <1>5, <1>8, <1>10, <2>1, <2>3 DEF RowInv
    <2> QED BY <2>2, <2>3
<1>12. NonceInv'
    <2>1. {reqs'[q].nonce : q \in Mined'} = {reqs[q].nonce : q \in Mined} \cup {Account}
        BY <1>8
    <2>2. 0..(Account' - 1) = 0..(Account - 1) \cup {Account}
        BY <1>9
    <2>3. NoncesGapFree'
        BY <1>10 DEF NftOutboxInv, NonceInv, NoncesGapFree
    <2> QED BY <2>1, <2>2, <2>3 DEF NftOutboxInv, NonceInv
<1>13. ASSUME NEW l \in Loops PROVE LoopInv(l)'
    <2>1. NextFree' = NextFree /\ NextFree \in Nat
        BY NextFreeType DEF NextFree, NftOutboxInv
    <2>2. UNCHANGED <<pc, todo, buffer, read, reqs>>
        BY DEF loopVars
    <2>3. \A q \in Mined : mined'[q] = mined[q]
        BY <1>1, <1>5 DEF Mined
    <2>4. TypeOK /\ (\A q \in Requests : RowInv(q)) /\ LoopInv(l)
        BY DEF NftOutboxInv
    <2> QED BY <2>1, <2>2, <2>3, <2>4, LoopFrame
<1>14. ASSUME NEW t \in Tokens, TokenInv(t) PROVE TokenInv(t)'
    <2>1. UNCHANGED <<reqs, tokenOf, holdings>>
        OBVIOUS
    <2>2. \A k \in Keys : mined'[k].ok => mined[k].ok \/ Open(k)
        BY <1>1, <1>5 DEF Requests, Open
    <2> QED BY <1>14, <2>1, <2>2 DEF TokenInv, OpenFor, Open
<1>15. ASSUME NEW t \in Tokens PROVE LocationInv(t)'
    <2>1. LocationInv(t)
        BY DEF NftOutboxInv
    <2>2. \A q \in Requests : mined[q].ok => mined'[q].ok /\ q # r
        BY <1>1, <1>5 DEF NftOutboxInv, RowInv
    <2>3. ASSUME location'[t] = "out"
          PROVE  \E k \in Keys : tokenOf'[k] = t /\ mined'[k].ok
        <3>1. CASE location[t] = "out"
            BY <2>1, <2>2, <3>1 DEF LocationInv, Requests
        <3>2. CASE location[t] # "out"
            <4>1. ok /\ t = TokenOfRequest(r) /\ Destination(r) = "out"
                BY <2>3, <3>2 DEF NftOutboxInv, TypeOK
            <4>2. r \in Keys /\ tokenOf[r] = t
                BY <1>1, <4>1 DEF Destination, TokenOfRequest, Requests
            <4> QED BY <1>5, <4>1, <4>2
        <3> QED BY <3>1, <3>2
    <2>4. ASSUME location'[t] = "nowhere"
          PROVE  t \in Mints /\ ~mined'[t].ok
        <3>1. location[t] = "nowhere"
            BY <2>4 DEF NftOutboxInv, TypeOK, Destination
        <3>2. t \in Mints /\ ~mined[t].ok /\ t \in Requests
            BY <2>1, <3>1 DEF LocationInv, Requests
        <3>3. ASSUME t = r, ok PROVE FALSE
            <4>1. TokenOfRequest(r) = t /\ Destination(r) = "hot"
                BY <3>2, <3>3 DEF TokenOfRequest, Destination
            <4> QED BY <2>4, <3>3, <4>1 DEF NftOutboxInv, TypeOK
        <3> QED BY <1>2, <1>5, <3>2, <3>3
    <2> QED BY <2>3, <2>4 DEF LocationInv
<1> QED BY <1>7, <1>11, <1>12, <1>13, <1>14, <1>15 DEF NftOutboxInv

LEMMA InvMine ==
    ASSUME NftOutboxInv, Mine
    PROVE  NftOutboxInv'
<1>1. CASE UNCHANGED <<mined, mempool, location>>
    <2>1. UNCHANGED <<reqs, tokenOf, holdings, returned, next, loopVars>>
        BY DEF Mine
    <2>2. height' \in 0..MaxHeight
        <3>1. height \in 0..MaxHeight
            BY DEF NftOutboxInv, TypeOK
        <3> QED BY <3>1, BoundsAreNat DEF Mine
    <2>3. TypeOK'
        BY <1>1, <2>2 DEF NftOutboxInv, TypeOK, Mine, apiVars, loopVars
    <2>4. (\A r \in Requests : RowInv(r)') /\ NonceInv'
        BY <1>1, <2>1, RowsFrame DEF NftOutboxInv
    <2>5. \A l \in Loops : LoopInv(l)'
        BY <1>1, <2>1, LoopsFrame DEF NftOutboxInv
    <2> QED BY <1>1, <2>1, <2>3, <2>4, <2>5, TokenFrame, LocationFrame DEF NftOutboxInv
<1>2. CASE ~UNCHANGED <<mined, mempool, location>>
    BY <1>2, InvMineOne DEF Mine
<1> QED BY <1>1, <1>2

-----------------------------------------------------------------------------
(* The steps of a loop that only read.                                       *)

\* A step that changes nothing but what loop l has in memory, and the lock.
LEMMA LoopStep ==
    ASSUME NftOutboxInv, NEW l \in Loops, TypeOK', LoopInv(l)', OnlyLoop(l),
           UNCHANGED <<chainVars, reqs, tokenOf, holdings, returned, next>>
    PROVE  NftOutboxInv'
<1>1. UNCHANGED <<reqs, tokenOf, holdings, returned, next, mined, mempool, location>>
    BY DEF chainVars
<1>2. (\A r \in Requests : RowInv(r)') /\ NonceInv'
    BY <1>1, RowsFrame DEF NftOutboxInv
<1>3. ASSUME NEW m \in Loops PROVE LoopInv(m)'
    <2>1. NextFree' = NextFree /\ NextFree \in Nat
        BY <1>1, NextFreeType DEF NextFree, NftOutboxInv
    <2>2. TypeOK /\ (\A r \in Requests : RowInv(r)) /\ LoopInv(m)
        BY DEF NftOutboxInv
    <2>3. CASE m = l
        BY <2>3
    <2>4. CASE m # l
        BY <1>1, <2>1, <2>2, <2>4, LoopFrame DEF OnlyLoop
    <2> QED BY <2>3, <2>4
<1> QED BY <1>1, <1>2, <1>3, TokenFrame, LocationFrame DEF NftOutboxInv

LEMMA InvSignNothing ==
    ASSUME NftOutboxInv, NEW l \in Loops, SignNothing(l)
    PROVE  NftOutboxInv'
<1>1. UNCHANGED <<chainVars, reqs, tokenOf, holdings, returned, next>>
    BY DEF SignNothing
<1>2. Signing(l) = {r \in Queue(l) : reqs[r].status = "signing"}
    BY <1>1 DEF Signing
<1>3. Signing(l) \subseteq Requests
    BY <1>2, QueueIsRequests
<1>4. StartPhase(l, "broadcast", Signing(l), 0) /\ TypeOK
    BY DEF SignNothing, NftOutboxInv
<1>5. /\ OnlyLoop(l)
      /\ pc'[l] = "broadcast" /\ todo'[l] = Signing(l) /\ buffer'[l] = {} /\ read'[l] = 0
    <2>1. "broadcast" \in Labels /\ 0 \in Int
        BY DEF Labels
    <2> QED BY <1>3, <1>4, <2>1, PhaseStart, Zenon
<1>6. lock # l
    BY DEF SignNothing, NftOutboxInv, TypeOK
<1>7. TypeOK'
    BY <1>5, <1>6 DEF NftOutboxInv, TypeOK, OnlyLoop, Labels, SignNothing, chainVars, apiVars
<1>8. LoopInv(l)'
    BY <1>1, <1>2, <1>5 DEF LoopInv
<1> QED BY <1>1, <1>5, <1>7, <1>8, LoopStep

LEMMA InvSelectNonceRow ==
    ASSUME NftOutboxInv, NEW l \in Loops, SelectNonceRow(l)
    PROVE  NftOutboxInv'
<1>1. UNCHANGED <<chainVars, reqs, tokenOf, holdings, returned, next>>
    BY DEF SelectNonceRow
<1>2. Pending(l) \subseteq Requests /\ Pending(l)' = Pending(l)
    BY <1>1, QueueIsRequests DEF Pending
<1>3. StartPhase(l, "pending nonce", Pending(l), 0) /\ TypeOK
    BY DEF SelectNonceRow, NftOutboxInv
<1>4. /\ OnlyLoop(l)
      /\ pc'[l] = "pending nonce" /\ todo'[l] = Pending(l) /\ buffer'[l] = {} /\ read'[l] = 0
    <2>1. "pending nonce" \in Labels /\ 0 \in Int
        BY DEF Labels
    <2> QED BY <1>2, <1>3, <2>1, PhaseStart, Zenon
<1>5. lock' \in Loops \cup {Free} /\ \A m \in Loops : lock' = m => m = l
    BY DEF SelectNonceRow, Free, Loops
<1>6. TypeOK'
    BY <1>4, <1>5 DEF NftOutboxInv, TypeOK, OnlyLoop, Labels, SelectNonceRow, chainVars, apiVars
<1>7. LoopInv(l)'
    BY <1>2, <1>4 DEF LoopInv
<1> QED BY <1>1, <1>4, <1>6, <1>7, LoopStep

\* pending_nonce never answers a nonce above the next one: every nonce that is mined
\* or pending was taken from the row.
LEMMA PendingNonceBound ==
    ASSUME NftOutboxInv, NEW n \in PendingNonces
    PROVE  n \in 0..NextFree
<1>1. Account \in Nat /\ NextFree \in Nat
    BY AccountIsNat, NextFreeType DEF NftOutboxInv
<1>2. Cardinality(mempool) \in Nat
    <2>1. mempool \in SUBSET Requests
        BY DEF NftOutboxInv, TypeOK
    <2> QED BY <2>1, RequestsFinite, FS_Subset, FS_CardinalityType, Zenon
<1>3. n \in Nat /\ Account <= n /\ \A i \in Account..(n - 1) : \E r \in mempool : reqs[r].nonce = i
    BY <1>1, <1>2 DEF PendingNonces
<1>4. {reqs[r].nonce : r \in Signed} = 0..(NextFree - 1)
    BY NoncesBelowNext DEF NftOutboxInv, NonceInv
<1>5. CASE n = Account
    <2>1. CASE Account = 0
        BY <1>1, <1>5, <2>1
    <2>2. CASE Account # 0
        <3>1. Account - 1 \in {reqs[r].nonce : r \in Mined}
            BY <1>1, <2>2 DEF NftOutboxInv, NonceInv
        <3>2. Mined \subseteq Signed
            BY DEF NftOutboxInv, RowInv, Mined
        <3> QED BY <1>1, <1>4, <1>5, <3>1, <3>2
    <2> QED BY <2>1, <2>2
<1>6. CASE n # Account
    <2>1. n - 1 \in Account..(n - 1)
        BY <1>1, <1>3, <1>6
    <2>2. PICK r \in mempool : reqs[r].nonce = n - 1
        BY <1>3, <2>1
    <2>3. r \in Signed
        BY PendingIsOpen
    <2> QED BY <1>1, <1>3, <1>4, <2>2, <2>3
<1> QED BY <1>5, <1>6

LEMMA InvReadPendingNonce ==
    ASSUME NftOutboxInv, NEW l \in Loops, ReadPendingNonce(l)
    PROVE  NftOutboxInv'
<1>1. UNCHANGED <<chainVars, reqs, tokenOf, holdings, returned, next, todo, buffer, lock>>
    BY DEF ReadPendingNonce
<1>2. PICK n \in PendingNonces : read' = [read EXCEPT ![l] = n]
    BY DEF ReadPendingNonce
<1>3. n \in 0..NextFree /\ NextFree \in Nat /\ NextFree' = NextFree
    BY <1>1, PendingNonceBound, NextFreeType DEF NftOutboxInv, NextFree
<1>4. /\ pc \in [Loops -> Labels]
      /\ todo \in [Loops -> SUBSET Requests]
      /\ buffer \in [Loops -> SUBSET (Requests \X Decisions)]
      /\ read \in [Loops -> Int]
    BY DEF NftOutboxInv, TypeOK, Labels
<1>5. pc[l] = "pending nonce" /\ pc' = [pc EXCEPT ![l] = "write"]
    BY DEF ReadPendingNonce, Goto
<1>6. OnlyLoop(l) /\ pc'[l] = "write" /\ read'[l] = n
    <2>1. "write" \in Labels /\ n \in Int
        BY <1>3 DEF Labels
    <2>2. pc' \in [Loops -> Labels] /\ read' \in [Loops -> Int]
        BY <1>2, <1>4, <1>5, <2>1
    <2>3. /\ pc'[l] = "write" /\ read'[l] = n
          /\ \A m \in Loops \ {l} : pc'[m] = pc[m] /\ read'[m] = read[m]
        BY <1>2, <1>4, <1>5
    <2> QED BY <1>1, <1>4, <2>2, <2>3 DEF OnlyLoop
<1>7. TypeOK'
    BY <1>6 DEF NftOutboxInv, TypeOK, OnlyLoop, Labels, ReadPendingNonce, chainVars, apiVars
<1>8. LoopInv(l)'
    <2>1. buffer[l] = {} /\ todo[l] \subseteq Pending(l) /\ Pending(l)' = Pending(l)
        BY <1>1, <1>5 DEF NftOutboxInv, LoopInv, Pending
    <2> QED BY <1>1, <1>3, <1>6, <2>1 DEF LoopInv
<1> QED BY <1>1, <1>6, <1>7, <1>8, LoopStep

LEMMA InvFail ==
    ASSUME NftOutboxInv, NEW l \in Loops, Fail(l)
    PROVE  NftOutboxInv'
<1>1. UNCHANGED <<chainVars, reqs, tokenOf, holdings, returned, next>>
    BY DEF Fail
<1>2. StartPhase(l, "sign", {}, 0) /\ TypeOK
    BY DEF Fail, NftOutboxInv
<1>3. /\ OnlyLoop(l)
      /\ pc'[l] = "sign" /\ todo'[l] = {} /\ buffer'[l] = {} /\ read'[l] = 0
    <2>1. "sign" \in Labels /\ 0 \in Int /\ {} \subseteq Requests
        BY DEF Labels
    <2> QED BY <1>2, <2>1, PhaseStart, Zenon
<1>4. lock' \in Loops \cup {Free} /\ \A m \in Loops : lock' = m => m # l /\ lock = m
    <2>1. lock \in Loops \cup {Free} /\ Free \notin Loops
        BY DEF NftOutboxInv, TypeOK, Free, Loops
    <2> QED BY <2>1 DEF Fail
<1>5. failures' \in 0..MaxFailures
    <2>1. failures \in 0..MaxFailures
        BY DEF NftOutboxInv, TypeOK
    <2> QED BY <2>1, BoundsAreNat DEF Fail
<1>6. TypeOK'
    BY <1>3, <1>4, <1>5 DEF NftOutboxInv, TypeOK, OnlyLoop, Labels, Fail, chainVars, apiVars
<1>7. LoopInv(l)'
    BY <1>3 DEF LoopInv
<1> QED BY <1>1, <1>3, <1>6, <1>7, LoopStep

\* A new decision about r joins those of the phase of l, which has none about r but,
\* maybe, the one it replaces.
LEMMA LoopDecides ==
    ASSUME NftOutboxInv, NEW l \in Loops, NEW r \in Queue(l), NEW x \in Decisions,
           pc[l] = "confirm", DecisionInv(r, x),
           NEW old \in SUBSET buffer[l], \A y \in Decisions : <<r, y>> \notin old,
           NEW rest \in SUBSET todo[l], r \notin rest,
           buffer' = [buffer EXCEPT ![l] = old \cup {<<r, x>>}],
           todo' = [todo EXCEPT ![l] = rest],
           UNCHANGED <<chainVars, failures, reqs, tokenOf, holdings, returned, apiVars, next, lock,
                       pc, read>>
    PROVE  NftOutboxInv'
<1>1. TypeOK /\ LoopInv(l)
    BY DEF NftOutboxInv
<1>2. /\ pc \in [Loops -> Labels]
      /\ todo \in [Loops -> SUBSET Requests]
      /\ buffer \in [Loops -> SUBSET (Requests \X Decisions)]
      /\ read \in [Loops -> Int]
    BY <1>1 DEF TypeOK, Labels
<1>3. r \in Requests
    BY QueueIsRequests
<1>4. /\ buffer'[l] = old \cup {<<r, x>>} /\ todo'[l] = rest
      /\ \A m \in Loops \ {l} : buffer'[m] = buffer[m] /\ todo'[m] = todo[m]
    BY <1>2
<1>5. old \cup {<<r, x>>} \in SUBSET (Requests \X Decisions) /\ rest \in SUBSET Requests
    BY <1>2, <1>3
<1>6. OnlyLoop(l)
    <2>1. buffer' \in [Loops -> SUBSET (Requests \X Decisions)]
        BY <1>2, <1>5
    <2>2. todo' \in [Loops -> SUBSET Requests]
        BY <1>2, <1>5
    <2> QED BY <1>2, <1>4, <2>1, <2>2 DEF OnlyLoop
<1>7. TypeOK'
    BY <1>1, <1>6 DEF TypeOK, OnlyLoop, Labels, chainVars, apiVars
<1>8. UNCHANGED <<reqs, mined>>
    BY DEF chainVars
<1>9. buffer'[l] \subseteq Queue(l) \X Decisions
    BY <1>1, <1>4 DEF LoopInv
<1>10. ASSUME NEW q \in Requests, NEW y \in Decisions, <<q, y>> \in buffer'[l]
       PROVE  q \notin todo'[l] /\ DecisionInv(q, y)'
    <2>1. CASE <<q, y>> \in old
        <3>1. q \notin todo[l] /\ DecisionInv(q, y)
            BY <1>1, <1>10, <2>1 DEF LoopInv
        <3> QED BY <1>4, <1>8, <3>1 DEF DecisionInv, Mined
    <2>2. CASE <<q, y>> = <<r, x>>
        <3>1. q = r /\ y = x
            BY <2>2
        <3> QED BY <1>4, <1>8, <3>1 DEF DecisionInv, Mined
    <2> QED BY <1>4, <1>10, <2>1, <2>2
<1>11. ASSUME NEW q \in Requests, NEW y \in Decisions, NEW z \in Decisions,
              <<q, y>> \in buffer'[l], <<q, z>> \in buffer'[l]
       PROVE  y = z
    <2>1. CASE q = r
        <3>1. <<q, y>> \notin old /\ <<q, z>> \notin old
            BY <2>1
        <3> QED BY <1>4, <1>11, <3>1
    <2>2. CASE q # r
        <3>1. <<q, y>> \in buffer[l] /\ <<q, z>> \in buffer[l]
            BY <1>4, <1>11, <2>2
        <3> QED BY <1>1, <3>1 DEF LoopInv
    <2> QED BY <2>1, <2>2
<1>12. todo'[l] \subseteq {q \in Queue(l) : reqs'[q].status = "broadcast"}
    BY <1>1, <1>4, <1>8 DEF LoopInv
<1>13. pc'[l] = "confirm"
    OBVIOUS
<1>14. LoopInv(l)'
    BY <1>9, <1>10, <1>11, <1>12, <1>13 DEF LoopInv
<1> QED BY <1>6, <1>7, <1>14, LoopStep

LEMMA InvReadReceipt ==
    ASSUME NftOutboxInv, NEW l \in Loops, NEW r \in Requests, ReadReceipt(l, r)
    PROVE  NftOutboxInv'
<1> DEFINE x == IF mined[r].at = 0 THEN "unmined" ELSE Decide(r, read[l])
<1>1. pc[l] = "confirm" /\ r \in todo[l] /\ LoopInv(l) /\ RowInv(r)
    BY DEF ReadReceipt, NftOutboxInv
<1>2. r \in Queue(l) /\ reqs[r].status = "broadcast"
    BY <1>1 DEF LoopInv
<1>3. x \in Decisions
    BY DEF Decide, Decisions
<1>4. DecisionInv(r, x)
    <2>1. CASE mined[r].at = 0
        BY <1>1, <1>2, <2>1 DEF DecisionInv, RowInv, Mined
    <2>2. CASE mined[r].at # 0
        BY <1>2, <2>2 DEF DecisionInv, Decide, Mined
    <2> QED BY <2>1, <2>2
<1>5. \A y \in Decisions : <<r, y>> \notin buffer[l]
    BY <1>1 DEF LoopInv
<1>6. /\ buffer' = [buffer EXCEPT ![l] = buffer[l] \cup {<<r, x>>}]
      /\ todo' = [todo EXCEPT ![l] = todo[l] \ {r}]
      /\ UNCHANGED <<chainVars, failures, reqs, tokenOf, holdings, returned, apiVars, next, lock,
                     pc, read>>
    BY DEF ReadReceipt
<1>7. buffer[l] \in SUBSET buffer[l] /\ todo[l] \ {r} \in SUBSET todo[l] /\ r \notin todo[l] \ {r}
    OBVIOUS
<1> HIDE DEF x
<1> QED BY <1>1, <1>2, <1>3, <1>4, <1>5, <1>6, <1>7, LoopDecides

\* A nonce below the account nonce is that of a mined transaction.
LEMMA UsedNonceIsMined ==
    ASSUME NftOutboxInv, NEW r \in Signed, ~(Account <= reqs[r].nonce)
    PROVE  r \in Mined
<1>1. Account \in Nat /\ NextFree \in Nat
    BY AccountIsNat, NextFreeType DEF NftOutboxInv
<1>2. reqs[r].nonce \in 0..(NextFree - 1)
    BY NoncesBelowNext DEF NftOutboxInv, NonceInv
<1>3. reqs[r].nonce \in {reqs[q].nonce : q \in Mined}
    BY <1>1, <1>2 DEF NftOutboxInv, NonceInv
<1>4. PICK q \in Mined : reqs[q].nonce = reqs[r].nonce
    BY <1>3
<1>5. q \in Signed
    BY DEF NftOutboxInv, RowInv, Mined
<1> QED BY <1>4, <1>5 DEF NftOutboxInv, NonceInv, NoncesGapFree

LEMMA InvReconcileUnmined ==
    ASSUME NftOutboxInv, NEW l \in Loops, ReconcileUnmined(l)
    PROVE  NftOutboxInv'
<1>1. PICK r \in Unmined(l) :
        buffer' = [buffer EXCEPT ![l] =
                    (buffer[l] \ {<<r, "unmined">>}) \cup {<<r, Reconcile(r, read[l])>>}]
    BY DEF ReconcileUnmined
<1> DEFINE x == Reconcile(r, read[l])
           old == buffer[l] \ {<<r, "unmined">>}
<1>2. /\ r \in Requests /\ <<r, "unmined">> \in buffer[l]
      /\ pc[l] = "confirm" /\ LoopInv(l) /\ RowInv(r) /\ "unmined" \in Decisions
    BY DEF ReconcileUnmined, NftOutboxInv, Unmined, Decisions
<1>3. r \in Queue(l) /\ r \notin todo[l] /\ DecisionInv(r, "unmined")
    <2>1. <<r, "unmined">> \in Queue(l) \X Decisions
        BY <1>2 DEF LoopInv
    <2> QED BY <1>2, <2>1 DEF LoopInv
<1>4. r \in Signed /\ reqs[r].since = NoBlock /\ reqs[r].status = "broadcast"
    BY <1>2, <1>3 DEF DecisionInv, RowInv, Signed
<1>5. x \in {"unmark", "mark"} /\ (x = "mark" => ~(Account <= reqs[r].nonce))
    BY <1>4 DEF Reconcile
<1>6. DecisionInv(r, x) /\ x \in Decisions
    <2>1. x = "mark" => r \in Mined
        BY <1>4, <1>5, UsedNonceIsMined
    <2> QED BY <1>4, <1>5, <2>1 DEF DecisionInv, Decisions
<1>7. \A y \in Decisions : <<r, y>> \notin old
    BY <1>2 DEF LoopInv
<1>8. /\ buffer' = [buffer EXCEPT ![l] = old \cup {<<r, x>>}]
      /\ todo' = [todo EXCEPT ![l] = todo[l]]
      /\ UNCHANGED <<chainVars, failures, reqs, tokenOf, holdings, returned, apiVars, next, lock,
                     pc, read>>
    BY <1>1 DEF ReconcileUnmined, NftOutboxInv, TypeOK
<1>9. old \in SUBSET buffer[l] /\ todo[l] \in SUBSET todo[l]
    OBVIOUS
<1> HIDE DEF x, old
<1> QED BY <1>2, <1>3, <1>6, <1>7, <1>8, <1>9, LoopDecides

-----------------------------------------------------------------------------
(* The sign phase.                                                           *)

\* Whoever created the row, and whatever was read from the chain before the lock was
\* there, a commit goes on where the row stands.
LEMMA NextNonceIsFree ==
    ASSUME NftOutboxInv, NEW l \in Loops, pc[l] = "write"
    PROVE  NextNonce(l) = NextFree
<1>1. read[l] \in 0..NextFree /\ NextFree \in Nat
    BY NextFreeType DEF NftOutboxInv, LoopInv
<1> QED BY <1>1 DEF NextNonce, NextFree, Larger

\* Distinct nonces from an interval as large as the batch use up the interval.
LEMMA BatchUsesInterval ==
    ASSUME NEW S, IsFiniteSet(S), NEW n \in Nat,
           NEW nonce \in [S -> n..(n + Cardinality(S) - 1)],
           \A r, q \in S : nonce[r] = nonce[q] => r = q
    PROVE  {nonce[r] : r \in S} = n..(n + Cardinality(S) - 1)
<1> DEFINE T == n..(n + Cardinality(S) - 1)
<1>1. Cardinality(S) \in Nat
    BY FS_CardinalityType
<1>2. IsFiniteSet(T) /\ Cardinality(T) = Cardinality(S)
    <2>1. n \in Int /\ n + Cardinality(S) - 1 \in Int
        BY <1>1
    <2>2. /\ IsFiniteSet(T)
          /\ Cardinality(T) = IF n > n + Cardinality(S) - 1 THEN 0
                              ELSE (n + Cardinality(S) - 1) - n + 1
        BY <2>1, FS_Interval
    <2> QED BY <1>1, <2>2
<1>3. nonce \in Injection(S, T)
    BY DEF Injection, IsInjective
<1>4. nonce \in Surjection(S, T)
    BY <1>2, <1>3, FS_Injection
<1> QED BY <1>4 DEF Surjection

LEMMA InvSignAndCommit ==
    ASSUME NftOutboxInv, NEW l \in Loops, SignAndCommit(l)
    PROVE  NftOutboxInv'
<1>1. pc[l] = "write" /\ LoopInv(l) /\ TypeOK /\ NonceInv /\ NoncesGapFree
    BY DEF SignAndCommit, NftOutboxInv, NonceInv
<1>2. PICK n \in Nat : n = NextFree /\ NextNonce(l) = n
    BY <1>1, NextNonceIsFree, NextFreeType
<1>3. PICK S \in SUBSET todo[l] : \E nonce \in [S -> n..(n + Cardinality(S) - 1)] :
        /\ \A r, q \in S : nonce[r] = nonce[q] => r = q
        /\ failures' = failures + Cardinality(todo[l] \ S)
        /\ failures' <= MaxFailures
        /\ reqs' = [r \in Requests |->
                        IF r \in S THEN [reqs[r] EXCEPT !.status = "signing", !.nonce = nonce[r]]
                        ELSE reqs[r]]
        /\ next' = n + Cardinality(S)
    BY <1>2 DEF SignAndCommit
<1>4. PICK nonce \in [S -> n..(n + Cardinality(S) - 1)] :
        /\ \A r, q \in S : nonce[r] = nonce[q] => r = q
        /\ failures' = failures + Cardinality(todo[l] \ S)
        /\ failures' <= MaxFailures
        /\ reqs' = [r \in Requests |->
                        IF r \in S THEN [reqs[r] EXCEPT !.status = "signing", !.nonce = nonce[r]]
                        ELSE reqs[r]]
        /\ next' = n + Cardinality(S)
    BY <1>3
<1> DEFINE c == Cardinality(S)
<1>5. /\ next' = n + c /\ nonce \in [S -> n..(n + c - 1)]
      /\ \A r, q \in S : nonce[r] = nonce[q] => r = q
      /\ failures' = failures + Cardinality(todo[l] \ S) /\ failures' <= MaxFailures
    BY <1>4
<1>6. /\ lock' = Free /\ StartPhase(l, "broadcast", Signing(l), 0)
      /\ UNCHANGED <<chainVars, tokenOf, holdings, returned, apiVars>>
    BY DEF SignAndCommit
<1>7. /\ S \subseteq Queue(l) /\ S \in SUBSET Requests /\ todo[l] \in SUBSET Requests
      /\ \A r \in S : reqs[r].status = "requested"
    BY <1>1, QueueIsRequests DEF LoopInv, Pending
<1>8. /\ IsFiniteSet(S) /\ Cardinality(S) \in Nat
      /\ IsFiniteSet(todo[l] \ S) /\ Cardinality(todo[l] \ S) \in Nat
    <2>1. todo[l] \ S \in SUBSET Requests
        BY <1>7
    <2> QED BY <1>7, <2>1, RequestsFinite, FS_Subset, FS_CardinalityType, Zenon
<1>9. {nonce[r] : r \in S} = n..(n + c - 1)
    BY <1>8, <1>5, BatchUsesInterval
<1>10. c \in Nat
    BY <1>8
<1> HIDE DEF c
<1>11. reqs \in [Requests -> Rows]
    BY <1>1, RowsType
<1>12. /\ \A r \in S : /\ reqs'[r].status = "signing" /\ reqs'[r].nonce = nonce[r]
                       /\ reqs'[r].since = reqs[r].since
       /\ \A r \in Requests \ S : reqs'[r] = reqs[r]
    BY <1>4, <1>7, <1>11 DEF Rows
<1>13. \A r \in S : nonce[r] \in Int /\ nonce[r] >= n /\ nonce[r] # NoNonce
    BY <1>5, <1>10 DEF NoNonce
<1>14. reqs' \in [Requests -> Rows]
    <2>1. ASSUME NEW r \in S
          PROVE  [reqs[r] EXCEPT !.status = "signing", !.nonce = nonce[r]] \in Rows
        BY <1>7, <1>11, <1>13 DEF Rows, Statuses
    <2> QED BY <1>4, <1>11, <2>1
<1>15. next' \in Nat /\ NextFree' = n + c /\ next' # NoRow
    <2>1. NoRow \notin Nat
        BY NftOutboxAssumption
    <2> QED BY <1>5, <1>10, <2>1 DEF NextFree
<1>16. Signed' = Signed \cup S /\ Signed \cap S = {}
    <2>1. \A r \in S : reqs[r].nonce = NoNonce
        BY <1>7 DEF NftOutboxInv, RowInv
    <2> QED BY <1>7, <1>12, <1>13, <2>1 DEF Signed
<1>17. Mined' = Mined /\ Account' = Account /\ mined' = mined /\ mempool' = mempool
    BY <1>6 DEF chainVars, Mined, Account
<1>18. ASSUME NEW r \in Requests PROVE RowInv(r)'
    <2>1. RowInv(r)
        BY DEF NftOutboxInv
    <2>2. CASE r \in S
        BY <1>12, <1>13, <1>16, <1>17, <2>1, <2>2 DEF RowInv
    <2>3. CASE r \notin S
        BY <1>12, <1>16, <1>17, <2>1, <2>3 DEF RowInv
    <2> QED BY <2>2, <2>3
<1>19. NoncesGapFree'
    <2>1. {reqs[r].nonce : r \in Signed} = 0..(n - 1)
        BY <1>1, <1>2, NoncesBelowNext
    <2>2. {reqs'[r].nonce : r \in Signed'} =
            {reqs[r].nonce : r \in Signed} \cup {nonce[r] : r \in S}
        BY <1>12, <1>16 DEF Signed
    <2>3. 0..(n - 1) \cup n..(n + c - 1) = 0..(next' - 1)
        BY <1>5, <1>10
    <2>4. ASSUME NEW r \in Signed', NEW q \in Signed', reqs'[r].nonce = reqs'[q].nonce
          PROVE  r = q
        <3>1. \A p \in Signed : reqs'[p].nonce = reqs[p].nonce /\ reqs[p].nonce \in 0..(n - 1)
            BY <1>12, <1>16, <2>1 DEF Signed
        <3>2. CASE r \in Signed /\ q \in Signed
            BY <1>1, <2>4, <3>1, <3>2 DEF NoncesGapFree
        <3>3. CASE r \in S /\ q \in S
            BY <1>12, <1>5, <2>4, <3>3
        <3>4. CASE r \in S /\ q \in Signed
            BY <1>12, <1>13, <2>4, <3>1, <3>4
        <3>5. CASE q \in S /\ r \in Signed
            BY <1>12, <1>13, <2>4, <3>1, <3>5
        <3> QED BY <1>16, <3>2, <3>3, <3>4, <3>5
    <2> QED BY <1>9, <1>15, <2>1, <2>2, <2>3, <2>4 DEF NoncesGapFree
<1>20. NonceInv'
    <2>1. Mined \subseteq Signed
        BY DEF NftOutboxInv, RowInv, Mined
    <2>2. \A r \in Mined : reqs'[r] = reqs[r]
        BY <1>12, <1>16, <2>1 DEF Mined
    <2>3. {reqs'[r].nonce : r \in Mined} = {reqs[r].nonce : r \in Mined}
        BY <2>2
    <2> QED BY <1>1, <1>17, <1>19, <2>3 DEF NonceInv
<1>21. Signing(l) \subseteq Requests
    BY QueueIsRequests DEF Signing
<1>22. OnlyLoop(l) /\ pc'[l] = "broadcast" /\ todo'[l] = Signing(l) /\ buffer'[l] = {}
    <2>1. "broadcast" \in Labels /\ 0 \in Int
        BY DEF Labels
    <2> QED BY <1>1, <1>6, <1>21, <2>1, PhaseStart, Zenon
<1>23. failures' \in 0..MaxFailures
    <2>1. failures \in 0..MaxFailures
        BY <1>1 DEF TypeOK
    <2> QED BY <1>8, <1>5, <2>1, BoundsAreNat
<1>24. TypeOK'
    BY <1>1, <1>6, <1>14, <1>15, <1>22, <1>23
    DEF TypeOK, OnlyLoop, Labels, chainVars, apiVars, Rows, Statuses, Free, Loops
<1>25. ASSUME NEW m \in Loops PROVE LoopInv(m)'
    <2>1. CASE m = l
        BY <1>22, <2>1 DEF LoopInv, Signing
    <2>2. CASE m # l
        <3>1. \A r \in Queue(m) : reqs'[r] = reqs[r]
            <4>1. \A r \in Queue(m) : r \in Requests \ S
                BY <1>7, <2>2, QueuesDisjoint, QueueIsRequests
            <4> QED BY <1>12, <4>1
        <3>2. TypeOK /\ (\A r \in Requests : RowInv(r)) /\ LoopInv(m)
            BY DEF NftOutboxInv
        <3>3. /\ pc'[m] = pc[m] /\ todo'[m] = todo[m]
              /\ buffer'[m] = buffer[m] /\ read'[m] = read[m]
            BY <1>22, <2>2 DEF OnlyLoop
        <3>4. NextFree' \in Nat /\ NextFree <= NextFree'
            BY <1>2, <1>15, <1>10
        <3> QED BY <1>17, <3>1, <3>2, <3>3, <3>4, LoopFrame
    <2> QED BY <2>1, <2>2
<1>26. ASSUME NEW t \in Tokens, TokenInv(t) PROVE TokenInv(t)'
    <2>1. \A k \in Keys : /\ Open(k)' <=> Open(k)
                          /\ reqs'[k].status = "confirmed" <=> reqs[k].status = "confirmed"
        BY <1>7, <1>12 DEF Open, Requests
    <2>2. t \in Mints => (reqs'[t].status = "confirmed" <=> reqs[t].status = "confirmed")
        BY <1>7, <1>12 DEF Requests
    <2> QED BY <1>6, <1>17, <1>26, <2>1, <2>2 DEF TokenInv, OpenFor
<1>27. UNCHANGED <<location, tokenOf, mined, returned>>
    BY <1>6 DEF chainVars
<1> QED BY <1>18, <1>20, <1>24, <1>25, <1>26, <1>27, LocationFrame DEF NftOutboxInv

-----------------------------------------------------------------------------
(* The broadcast phase.                                                      *)

LEMMA InvBroadcast ==
    ASSUME NftOutboxInv, NEW l \in Loops, Broadcast(l)
    PROVE  NftOutboxInv'
<1>1. pc[l] = "broadcast" /\ LoopInv(l) /\ TypeOK /\ NonceInv
    BY DEF Broadcast, NftOutboxInv
<1>2. PICK Taken \in SUBSET todo[l], Sent \in SUBSET todo[l] :
        /\ Sent \subseteq Taken
        /\ failures' = failures + Cardinality(todo[l] \ Sent)
        /\ failures' <= MaxFailures
        /\ mempool' = mempool \cup {r \in Taken : mined[r].at = 0}
        /\ reqs' = [r \in Requests |->
                        IF r \in Sent THEN [reqs[r] EXCEPT !.status = "broadcast"] ELSE reqs[r]]
    BY DEF Broadcast
<1> DEFINE Confirm == {r \in Queue(l) : reqs'[r].status = "broadcast"}
<1>3. /\ StartPhase(l, "confirm", Confirm, height)
      /\ UNCHANGED <<height, mined, location, tokenOf, holdings, returned, apiVars, next, lock>>
    BY DEF Broadcast
<1>4. /\ Taken \subseteq Queue(l) /\ Taken \subseteq Requests /\ todo[l] \in SUBSET Requests
      /\ \A r \in Taken : reqs[r].status = "signing"
    BY <1>1, QueueIsRequests DEF LoopInv
<1>5. reqs \in [Requests -> Rows]
    BY <1>1, RowsType
<1>6. /\ \A r \in Sent : reqs'[r].status = "broadcast" /\ reqs[r].status = "signing"
      /\ \A r \in Requests \ Sent : reqs'[r] = reqs[r]
      /\ \A r \in Requests : reqs'[r].nonce = reqs[r].nonce /\ reqs'[r].since = reqs[r].since
    BY <1>2, <1>4, <1>5 DEF Rows
<1>7. reqs' \in [Requests -> Rows]
    <2>1. ASSUME NEW r \in Sent PROVE [reqs[r] EXCEPT !.status = "broadcast"] \in Rows
        BY <1>4, <1>5 DEF Rows, Statuses
    <2> QED BY <1>2, <1>5, <2>1
<1>8. Signed' = Signed /\ Mined' = Mined /\ Account' = Account
    BY <1>3, <1>6 DEF Signed, Mined, Account
<1>9. ASSUME NEW r \in Requests PROVE RowInv(r)'
    <2>1. RowInv(r)
        BY DEF NftOutboxInv
    <2>2. r \in Taken => r \in Signed
        BY <1>4, <2>1 DEF RowInv, Signed
    <2>3. r \in mempool' => r \in mempool \/ (r \in Taken /\ r \notin Mined)
        BY <1>2 DEF Mined
    <2>4. CASE r \in Sent
        BY <1>3, <1>6, <1>8, <2>1, <2>2, <2>3, <2>4 DEF RowInv
    <2>5. CASE r \notin Sent
        BY <1>3, <1>6, <1>8, <2>1, <2>2, <2>3, <2>5 DEF RowInv
    <2> QED BY <2>4, <2>5
<1>10. NonceInv'
    <2>1. {reqs'[r].nonce : r \in Signed} = {reqs[r].nonce : r \in Signed}
        BY <1>6 DEF Signed
    <2>2. {reqs'[r].nonce : r \in Mined} = {reqs[r].nonce : r \in Mined}
        BY <1>6 DEF Mined
    <2>3. \A r, q \in Signed : reqs'[r].nonce = reqs'[q].nonce => r = q
        BY <1>1, <1>6 DEF NonceInv, NoncesGapFree, Signed
    <2> QED BY <1>1, <1>3, <1>8, <2>1, <2>2, <2>3 DEF NonceInv, NoncesGapFree
<1>11. Confirm \subseteq Requests /\ height \in Int
    <2>1. height \in 0..MaxHeight
        BY <1>1 DEF TypeOK
    <2> QED BY <2>1, QueueIsRequests
<1>12. OnlyLoop(l) /\ pc'[l] = "confirm" /\ todo'[l] = Confirm /\ buffer'[l] = {}
    <2>1. "confirm" \in Labels
        BY DEF Labels
    <2> HIDE DEF Confirm
    <2> QED BY <1>1, <1>3, <1>11, <2>1, PhaseStart, Zenon
<1>13. failures' \in 0..MaxFailures
    <2>1. failures \in 0..MaxFailures
        BY <1>1 DEF TypeOK
    <2>2. todo[l] \ Sent \in SUBSET Requests
        BY <1>4
    <2>3. Cardinality(todo[l] \ Sent) \in Nat
        BY <2>2, RequestsFinite, FS_Subset, FS_CardinalityType, Zenon
    <2> QED BY <1>2, <2>1, <2>3, BoundsAreNat
<1>14. mempool' \subseteq Requests
    BY <1>1, <1>2, <1>4 DEF TypeOK
<1>15. lock # l
    BY <1>1 DEF TypeOK
<1>16. TypeOK'
    BY <1>1, <1>3, <1>7, <1>12, <1>13, <1>14, <1>15
    DEF TypeOK, OnlyLoop, Labels, apiVars, Rows, Statuses
<1>17. ASSUME NEW m \in Loops PROVE LoopInv(m)'
    <2>1. CASE m = l
        BY <1>12, <2>1 DEF LoopInv
    <2>2. CASE m # l
        <3>1. \A r \in Queue(m) : reqs'[r] = reqs[r]
            <4>1. \A r \in Queue(m) : r \in Requests \ Sent
                BY <1>2, <1>4, <2>2, QueuesDisjoint, QueueIsRequests
            <4> QED BY <1>6, <4>1
        <3>2. TypeOK /\ (\A r \in Requests : RowInv(r)) /\ LoopInv(m)
            BY DEF NftOutboxInv
        <3>3. /\ pc'[m] = pc[m] /\ todo'[m] = todo[m]
              /\ buffer'[m] = buffer[m] /\ read'[m] = read[m]
            BY <1>12, <2>2 DEF OnlyLoop
        <3>4. NextFree' \in Nat /\ NextFree <= NextFree'
            BY <1>1, <1>3, NextFreeType DEF NextFree
        <3> QED BY <1>3, <3>1, <3>2, <3>3, <3>4, LoopFrame
    <2> QED BY <2>1, <2>2
<1>18. ASSUME NEW t \in Tokens, TokenInv(t) PROVE TokenInv(t)'
    <2>1. \A k \in Keys : /\ Open(k)' <=> Open(k)
                          /\ reqs'[k].status = "confirmed" <=> reqs[k].status = "confirmed"
        BY <1>6 DEF Open, Requests
    <2>2. t \in Mints => (reqs'[t].status = "confirmed" <=> reqs[t].status = "confirmed")
        BY <1>6 DEF Requests
    <2> QED BY <1>3, <1>18, <2>1, <2>2 DEF TokenInv, OpenFor
<1> QED BY <1>3, <1>9, <1>10, <1>16, <1>17, <1>18, LocationFrame DEF NftOutboxInv

-----------------------------------------------------------------------------
(* The commit of the confirm phase.                                          *)

\* What the commit of the phase of l does to the row of r: it is resolved as it was
\* decided, or keeps its status.
Resolves(l, r) ==
    /\ reqs'[r].nonce = reqs[r].nonce
    /\ reqs'[r].since # NoBlock => r \in Mined
    /\ \/ /\ reqs'[r].status = reqs[r].status
          /\ <<r, "confirmed">> \notin buffer[l] /\ <<r, "failed">> \notin buffer[l]
       \/ /\ <<r, "confirmed">> \in buffer[l]
          /\ reqs[r].status = "broadcast" /\ reqs'[r].status = "confirmed" /\ mined[r].ok
       \/ /\ <<r, "failed">> \in buffer[l] /\ <<r, "confirmed">> \notin buffer[l]
          /\ reqs[r].status = "broadcast" /\ reqs'[r].status = "failed"
          /\ r \in Mined /\ ~mined[r].ok

LEMMA CommitResolves ==
    ASSUME NftOutboxInv, NEW l \in Loops, CommitConfirm(l)
    PROVE  /\ reqs' \in [Requests -> Rows]
           /\ \A r \in Requests : Resolves(l, r)
           /\ \A r \in Requests \ Queue(l) : reqs'[r] = reqs[r]
<1>1. TypeOK /\ LoopInv(l) /\ reqs \in [Requests -> Rows] /\ read[l] \in Int
    BY RowsType DEF NftOutboxInv, TypeOK
<1>2. reqs' = [r \in Requests |->
                    IF \E d \in buffer[l] : d[1] = r
                    THEN Written(r, (CHOOSE d \in buffer[l] : d[1] = r)[2], read[l])
                    ELSE reqs[r]]
    BY DEF CommitConfirm
<1>3. buffer[l] \subseteq Queue(l) \X Decisions /\ buffer[l] \subseteq Requests \X Decisions
    BY <1>1, QueueIsRequests DEF LoopInv, TypeOK
<1>4. ASSUME NEW r \in Requests, \E d \in buffer[l] : d[1] = r
      PROVE  \E x \in Decisions :
                <<r, x>> \in buffer[l] /\ r \in Queue(l) /\ reqs'[r] = Written(r, x, read[l])
    <2> DEFINE d == CHOOSE d \in buffer[l] : d[1] = r
    <2>1. d \in buffer[l] /\ d[1] = r
        BY <1>4, Zenon
    <2>2. d = <<d[1], d[2]>> /\ d[1] \in Queue(l) /\ d[2] \in Decisions
        BY <1>3, <2>1
    <2>3. <<r, d[2]>> \in buffer[l]
        BY <2>1, <2>2
    <2>4. reqs'[r] = Written(r, d[2], read[l])
        BY <1>2, <1>4
    <2> HIDE DEF d
    <2> QED BY <2>1, <2>2, <2>3, <2>4
<1>5. ASSUME NEW r \in Requests, ~\E d \in buffer[l] : d[1] = r
      PROVE  reqs'[r] = reqs[r] /\ \A x \in Decisions : <<r, x>> \notin buffer[l]
    <2>1. reqs'[r] = reqs[r]
        BY <1>2, <1>5
    <2>2. ASSUME NEW x \in Decisions, <<r, x>> \in buffer[l] PROVE FALSE
        <3>1. <<r, x>>[1] = r
            OBVIOUS
        <3> QED BY <1>5, <2>2, <3>1
    <2> QED BY <2>1, <2>2
<1>6. ASSUME NEW r \in Requests PROVE Resolves(l, r) /\ reqs'[r] \in Rows
    <2>1. RowInv(r) /\ reqs[r] \in Rows
        BY <1>1 DEF NftOutboxInv
    <2>2. "confirmed" \in Decisions /\ "failed" \in Decisions
        BY DEF Decisions
    <2>3. CASE \E d \in buffer[l] : d[1] = r
        <3>1. PICK x \in Decisions : <<r, x>> \in buffer[l] /\ reqs'[r] = Written(r, x, read[l])
            BY <1>4, <2>3
        <3>2. /\ DecisionInv(r, x)
              /\ \A y \in Decisions : <<r, y>> \in buffer[l] => y = x
            BY <1>1, <3>1 DEF LoopInv
        <3>3. CASE x \in {"confirmed", "failed"}
            <4>1. reqs'[r] = [reqs[r] EXCEPT !.status = x]
                BY <3>1, <3>3 DEF Written
            <4>2. /\ reqs'[r] \in Rows
                  /\ reqs'[r].status = x /\ reqs'[r].nonce = reqs[r].nonce
                  /\ reqs'[r].since = reqs[r].since
                BY <2>1, <3>3, <4>1 DEF Rows, Statuses
            <4> QED BY <2>1, <2>2, <3>1, <3>2, <3>3, <4>2 DEF Resolves, DecisionInv, RowInv
        <3>4. CASE x \notin {"confirmed", "failed"}
            <4> DEFINE s == IF x = "unmark" THEN NoBlock
                            ELSE IF x = "mark" THEN read[l] ELSE reqs[r].since
            <4>1. reqs'[r] = [reqs[r] EXCEPT !.since = s]
                BY <2>1, <3>1, <3>4 DEF Written, Rows
            <4>2. s \in Int
                BY <1>1, <2>1 DEF Rows, NoBlock
            <4>3. s # NoBlock => r \in Mined
                BY <2>1, <3>2 DEF DecisionInv, RowInv
            <4>4. /\ reqs'[r] \in Rows
                  /\ reqs'[r].status = reqs[r].status /\ reqs'[r].nonce = reqs[r].nonce
                  /\ reqs'[r].since = s
                BY <2>1, <4>1, <4>2 DEF Rows
            <4>5. <<r, "confirmed">> \notin buffer[l] /\ <<r, "failed">> \notin buffer[l]
                BY <2>2, <3>2, <3>4
            <4> QED BY <4>3, <4>4, <4>5 DEF Resolves
        <3> QED BY <3>3, <3>4
    <2>4. CASE ~\E d \in buffer[l] : d[1] = r
        BY <1>5, <2>1, <2>2, <2>4 DEF Resolves, RowInv
    <2> QED BY <2>3, <2>4
<1>7. \A r \in Requests \ Queue(l) : reqs'[r] = reqs[r]
    BY <1>4, <1>5
<1>8. reqs' \in [Requests -> Rows]
    BY <1>2, <1>6
<1> QED BY <1>6, <1>7, <1>8

\* The commit of the minter: a confirmed mint had no holding before.
LEMMA MinterCommitToken ==
    ASSUME NftOutboxInv, CommitConfirm("minter"), NEW t \in Tokens, TokenInv(t)
    PROVE  TokenInv(t)'
<1> DEFINE l == "minter"
<1>1. l \in Loops /\ Queue(l) = Mints
    BY DEF Loops, Queue
<1>2. UNCHANGED <<mined, tokenOf>> /\ holdings'[t] = HoldingAfter(holdings[t], t, l)
    BY DEF CommitConfirm, chainVars
<1>3. \A r \in Requests : Resolves(l, r)
    BY <1>1, CommitResolves
<1>4. \A k \in Keys : reqs'[k] = reqs[k]
    BY <1>1, CommitResolves, NftOutboxAssumption DEF Requests
<1>5. buffer[l] \subseteq Mints \X Decisions
    BY <1>1 DEF NftOutboxInv, LoopInv
<1>6. ~Decided(l, t, "confirmed") /\ ~Decided(l, t, "failed")
    BY <1>5, NftOutboxAssumption DEF Decided
<1>7. \A k \in Keys : /\ OpenFor(k, t)' <=> OpenFor(k, t)
                      /\ Open(k)' <=> Open(k)
                      /\ Requester(k)' = Requester(k)
    BY <1>2, <1>4 DEF OpenFor, Open, Requester
<1>8. CASE <<t, "confirmed">> \in buffer[l]
    <2>1. t \in Mints /\ t \in Requests
        BY <1>5, <1>8 DEF Requests
    <2>2. reqs[t].status = "broadcast" /\ reqs'[t].status = "confirmed"
        BY <1>3, <1>8, <2>1 DEF Resolves
    <2>3. holdings[t].status = "none"
        BY <2>1, <2>2 DEF TokenInv
    <2>4. holdings'[t].status = "held"
        BY <1>2, <1>8 DEF HoldingAfter, RecordHolding
    <2>5. \A k \in Keys : ~OpenFor(k, t) /\ ~(tokenOf[k] = t /\ mined[k].ok)
        BY <2>3 DEF TokenInv, OpenFor
    <2> QED BY <1>2, <1>7, <2>2, <2>4, <2>5 DEF TokenInv
<1>9. CASE <<t, "confirmed">> \notin buffer[l]
    <2>1. holdings'[t] = holdings[t]
        BY <1>2, <1>6, <1>9 DEF HoldingAfter
    <2>2. t \in Mints => (reqs'[t].status = "confirmed" <=> reqs[t].status = "confirmed")
        BY <1>3, <1>9 DEF Resolves, Requests
    <2> QED BY <1>2, <1>4, <1>7, <2>1, <2>2 DEF TokenInv
<1> QED BY <1>8, <1>9

\* The commit of the withdrawer: the request that it resolves was the only open one.
LEMMA WithdrawerCommitToken ==
    ASSUME NftOutboxInv, CommitConfirm("withdrawer"), NEW t \in Tokens, TokenInv(t)
    PROVE  TokenInv(t)'
<1> DEFINE l == "withdrawer"
<1>1. l \in Loops /\ Queue(l) = Keys
    BY DEF Loops, Queue
<1>2. UNCHANGED <<mined, tokenOf>> /\ holdings'[t] = HoldingAfter(holdings[t], t, l)
    BY DEF CommitConfirm, chainVars
<1>3. \A k \in Keys : Resolves(l, k)
    BY <1>1, CommitResolves DEF Requests
<1>4. t \in Mints => reqs'[t] = reqs[t]
    BY <1>1, CommitResolves, NftOutboxAssumption DEF Requests
<1>5. <<t, "confirmed">> \notin buffer[l]
    <2>1. buffer[l] \subseteq Keys \X Decisions
        BY <1>1 DEF NftOutboxInv, LoopInv
    <2> QED BY <2>1, NftOutboxAssumption DEF Tokens
<1>6. ASSUME NEW k \in Keys PROVE Open(k)' => Open(k) /\ reqs'[k].status = reqs[k].status
    BY <1>3 DEF Resolves, Open
<1>7. \A k \in Keys : Requester(k)' = Requester(k)
    BY DEF Requester
<1>8. holdings[t] \in Holdings
    BY HoldingsType DEF NftOutboxInv
<1>9. ASSUME NEW k \in Keys, tokenOf[k] = t,
             <<k, "confirmed">> \in buffer[l] \/ <<k, "failed">> \in buffer[l]
      PROVE  /\ OpenFor(k, t) /\ holdings[t].status = "withdrawing"
             /\ \A q \in Keys : ~OpenFor(q, t)'
             /\ \A q \in Keys : tokenOf[q] = t /\ mined[q].ok => q = k
    <2>1. OpenFor(k, t) /\ ~Open(k)'
        BY <1>3, <1>9 DEF Resolves, OpenFor, Open
    <2>2. holdings[t].status = "withdrawing"
        BY <2>1 DEF TokenInv
    <2>3. \A q \in Keys : OpenFor(q, t) => q = k
        BY <2>1 DEF TokenInv
    <2>4. \A q \in Keys : ~OpenFor(q, t)'
        BY <1>2, <1>6, <2>1, <2>3 DEF OpenFor
    <2>5. \A q \in Keys : tokenOf[q] = t /\ mined[q].ok => q = k
        BY <2>2, <2>3 DEF TokenInv, OpenFor
    <2> QED BY <2>1, <2>2, <2>4, <2>5
<1>10. CASE Decided(l, t, "confirmed")
    <2>1. PICK k \in Keys : tokenOf[k] = t /\ <<k, "confirmed">> \in buffer[l]
        BY <1>10 DEF Decided
    <2>2. holdings'[t].status = "withdrawn"
        BY <1>2, <1>5, <1>8, <1>10 DEF HoldingAfter, MarkWithdrawn, Holdings
    <2>3. reqs'[k].status = "confirmed" /\ mined[k].ok
        BY <1>3, <2>1 DEF Resolves
    <2>4. /\ \A q \in Keys : ~OpenFor(q, t)'
          /\ \A q \in Keys : tokenOf[q] = t /\ mined[q].ok => q = k
          /\ holdings[t].status = "withdrawing"
        BY <1>9, <2>1
    <2>5. t \in Mints => reqs'[t].status = "confirmed"
        BY <1>4, <2>4 DEF TokenInv
    <2> QED BY <1>2, <2>1, <2>2, <2>3, <2>4, <2>5 DEF TokenInv
<1>11. CASE ~Decided(l, t, "confirmed") /\ Decided(l, t, "failed")
    <2>1. PICK k \in Keys : tokenOf[k] = t /\ <<k, "failed">> \in buffer[l]
        BY <1>11 DEF Decided
    <2>2. holdings'[t].status = "held"
        BY <1>2, <1>5, <1>8, <1>11 DEF HoldingAfter, FailAndRelease, Holdings
    <2>3. ~mined[k].ok
        <3>1. Resolves(l, k) /\ <<k, "confirmed">> \notin buffer[l]
            BY <1>3, <1>11, <2>1 DEF Decided
        <3> QED BY <2>1, <3>1 DEF Resolves
    <2>4. /\ \A q \in Keys : ~OpenFor(q, t)'
          /\ \A q \in Keys : tokenOf[q] = t /\ mined[q].ok => q = k
          /\ holdings[t].status = "withdrawing"
        BY <1>9, <2>1
    <2>5. t \in Mints => reqs'[t].status = "confirmed"
        BY <1>4, <2>4 DEF TokenInv
    <2> QED BY <1>2, <2>2, <2>3, <2>4, <2>5 DEF TokenInv
<1>12. CASE ~Decided(l, t, "confirmed") /\ ~Decided(l, t, "failed")
    <2>1. holdings'[t] = holdings[t]
        BY <1>2, <1>5, <1>12 DEF HoldingAfter
    <2>2. \A k \in Keys : tokenOf[k] = t => reqs'[k].status = reqs[k].status
        BY <1>3, <1>12 DEF Decided, Resolves
    <2>3. \A k \in Keys : /\ OpenFor(k, t)' <=> OpenFor(k, t)
                          /\ tokenOf[k] = t => (Open(k)' <=> Open(k))
        BY <1>2, <2>2 DEF OpenFor, Open
    <2> QED BY <1>2, <1>4, <1>7, <2>1, <2>2, <2>3 DEF TokenInv
<1> QED BY <1>10, <1>11, <1>12

LEMMA InvCommitConfirm ==
    ASSUME NftOutboxInv, NEW l \in Loops, CommitConfirm(l)
    PROVE  NftOutboxInv'
<1>1. pc[l] = "confirm" /\ TypeOK /\ NonceInv
    BY DEF CommitConfirm, NftOutboxInv
<1>2. /\ reqs' \in [Requests -> Rows]
      /\ \A r \in Requests : Resolves(l, r)
      /\ \A r \in Requests \ Queue(l) : reqs'[r] = reqs[r]
    BY CommitResolves
<1>3. /\ StartPhase(l, "sign", {}, 0)
      /\ UNCHANGED <<chainVars, failures, tokenOf, returned, apiVars, next, lock>>
    BY DEF CommitConfirm
<1>4. UNCHANGED <<mined, mempool, location>>
    BY <1>3 DEF chainVars
<1>5. OnlyLoop(l) /\ pc'[l] = "sign" /\ todo'[l] = {} /\ buffer'[l] = {}
    <2>1. "sign" \in Labels /\ 0 \in Int /\ {} \subseteq Requests
        BY DEF Labels
    <2> QED BY <1>1, <1>3, <2>1, PhaseStart, Zenon
<1>6. holdings' \in [Tokens -> Holdings]
    <2>1. ASSUME NEW t \in Tokens PROVE HoldingAfter(holdings[t], t, l) \in Holdings
        <3>1. holdings[t] \in Holdings
            BY <1>1, HoldingsType
        <3>2. UserOf[t] \in Users
            BY NftOutboxAssumption DEF Tokens
        <3> QED BY <3>1, <3>2
                DEF HoldingAfter, RecordHolding, MarkWithdrawn, FailAndRelease, Holdings
    <2> QED BY <2>1 DEF CommitConfirm
<1>7. lock # l
    BY <1>1 DEF TypeOK
<1>8. TypeOK'
    BY <1>1, <1>2, <1>3, <1>5, <1>6, <1>7
    DEF TypeOK, OnlyLoop, Labels, chainVars, apiVars, Rows, Statuses, Holdings
<1>9. Signed' = Signed /\ Mined' = Mined /\ Account' = Account
    BY <1>2, <1>4 DEF Signed, Mined, Account, Resolves
<1>10. ASSUME NEW r \in Requests PROVE RowInv(r)'
    <2>1. RowInv(r) /\ Resolves(l, r)
        BY <1>2 DEF NftOutboxInv
    <2> QED BY <1>4, <1>9, <2>1 DEF RowInv, Resolves
<1>11. NonceInv'
    <2>1. \A r \in Requests : reqs'[r].nonce = reqs[r].nonce
        BY <1>2 DEF Resolves
    <2>2. {reqs'[r].nonce : r \in Signed} = {reqs[r].nonce : r \in Signed}
        BY <2>1 DEF Signed
    <2>3. {reqs'[r].nonce : r \in Mined} = {reqs[r].nonce : r \in Mined}
        BY <2>1 DEF Mined
    <2>4. \A r, q \in Signed : reqs'[r].nonce = reqs'[q].nonce => r = q
        BY <1>1, <2>1 DEF NonceInv, NoncesGapFree, Signed
    <2> QED BY <1>1, <1>3, <1>9, <2>2, <2>3, <2>4 DEF NonceInv, NoncesGapFree
<1>12. ASSUME NEW m \in Loops PROVE LoopInv(m)'
    <2>1. CASE m = l
        BY <1>5, <2>1 DEF LoopInv
    <2>2. CASE m # l
        <3>1. \A r \in Queue(m) : reqs'[r] = reqs[r]
            BY <1>2, <2>2, QueuesDisjoint, QueueIsRequests
        <3>2. TypeOK /\ (\A r \in Requests : RowInv(r)) /\ LoopInv(m)
            BY DEF NftOutboxInv
        <3>3. /\ pc'[m] = pc[m] /\ todo'[m] = todo[m]
              /\ buffer'[m] = buffer[m] /\ read'[m] = read[m]
            BY <1>5, <2>2 DEF OnlyLoop
        <3>4. NextFree' \in Nat /\ NextFree <= NextFree'
            BY <1>1, <1>3, NextFreeType DEF NextFree
        <3> QED BY <1>4, <3>1, <3>2, <3>3, <3>4, LoopFrame
    <2> QED BY <2>1, <2>2
<1>13. ASSUME NEW t \in Tokens, TokenInv(t) PROVE TokenInv(t)'
    BY <1>13, MinterCommitToken, WithdrawerCommitToken DEF Loops
<1> QED BY <1>3, <1>4, <1>8, <1>10, <1>11, <1>12, <1>13, LocationFrame DEF NftOutboxInv

-----------------------------------------------------------------------------
(* The invariant, and what it shows.                                         *)

LEMMA InvStep == NftOutboxInv /\ [Next]_vars => NftOutboxInv'
<1> SUFFICES ASSUME NftOutboxInv, [Next]_vars PROVE NftOutboxInv'
    OBVIOUS
<1>1. CASE UNCHANGED vars
    <2>1. /\ UNCHANGED <<chainVars, reqs, tokenOf, holdings, returned, next, loopVars>>
          /\ UNCHANGED <<reqs, tokenOf, holdings, returned, next, mined, mempool, location>>
        BY <1>1 DEF vars, chainVars, loopVars
    <2>2. TypeOK'
        BY <1>1 DEF NftOutboxInv, TypeOK, vars
    <2>3. (\A r \in Requests : RowInv(r)') /\ NonceInv'
        BY <2>1, RowsFrame DEF NftOutboxInv
    <2>4. \A l \in Loops : LoopInv(l)'
        BY <2>1, LoopsFrame DEF NftOutboxInv
    <2> QED BY <2>1, <2>2, <2>3, <2>4, TokenFrame, LocationFrame DEF NftOutboxInv
<1>2. ASSUME NEW c \in Calls, Api(c) PROVE NftOutboxInv'
    BY <1>2, InvAnswer, InvTransferNft, InvRequestWithdrawal DEF Api
<1>3. ASSUME NEW l \in Loops, Work(l) PROVE NftOutboxInv'
    BY <1>3, InvSignNothing, InvSelectNonceRow, InvReadPendingNonce, InvSignAndCommit,
       InvBroadcast, InvReadReceipt, InvReconcileUnmined, InvCommitConfirm DEF Work
<1> QED BY <1>1, <1>2, <1>3, InvMine, InvMintNft, InvCreditRedeposit, InvFail DEF Next

LEMMA InvAlways == Spec => []NftOutboxInv
    BY InvInit, InvStep, PTL DEF Spec

\* Type correctness of the NFT loops and of the calls that move a holding.
THEOREM NftOutboxTypeCorrect == Spec => []TypeOK
<1>1. NftOutboxInv => TypeOK
    BY DEF NftOutboxInv
<1> QED BY <1>1, InvAlways, PTL

\* The minter and the withdrawer, which race for one nonce row, share no nonce and
\* leave no gap, however many requests they have and whatever fails.
THEOREM NftNoncesGapFree == Spec => []NoncesGapFree
<1>1. NftOutboxInv => NoncesGapFree
    BY DEF NftOutboxInv, NonceInv
<1> QED BY <1>1, InvAlways, PTL

\* A holding is WITHDRAWING exactly while one request of its user for its token is
\* open, for any number of users, tokens and overlapping calls.
THEOREM WithdrawingHoldingIsOpen == Spec => []WithdrawingIsOpen
<1>1. ASSUME NftOutboxInv, NEW t \in Tokens \ returned
      PROVE  LET open == {k \in Keys : Open(k) /\ tokenOf[k] = t}
             IN  /\ Cardinality(open) <= 1
                 /\ open # {} <=> holdings[t].status = "withdrawing"
                 /\ \A k \in open : holdings[t].user = Requester(k)
    <2> DEFINE open == {k \in Keys : Open(k) /\ tokenOf[k] = t}
    <2>1. TokenInv(t) /\ open = {k \in Keys : OpenFor(k, t)}
        BY <1>1 DEF NftOutboxInv, OpenFor
    <2>2. Cardinality(open) <= 1
        <3>1. CASE open = {}
            BY <3>1, FS_EmptySet
        <3>2. CASE open # {}
            <4>1. PICK k \in Keys : OpenFor(k, t)
                BY <2>1, <3>2
            <4>2. open = {k}
                BY <2>1, <4>1 DEF TokenInv
            <4>3. Cardinality({k}) = 1
                BY FS_Singleton
            <4> QED BY <4>2, <4>3
        <3> QED BY <3>1, <3>2
    <2>3. open # {} <=> holdings[t].status = "withdrawing"
        BY <2>1 DEF TokenInv
    <2>4. \A k \in open : holdings[t].user = Requester(k)
        BY <2>1 DEF TokenInv
    <2> QED BY <2>2, <2>3, <2>4
<1>2. NftOutboxInv => WithdrawingIsOpen
    BY <1>1 DEF WithdrawingIsOpen
<1> QED BY <1>2, InvAlways, PTL

\* A token that the database says is held is in custody, and one that it says is
\* withdrawn was sent by a confirmed request; a failed request moved nothing.
THEOREM HoldingsAreInCustody == Spec => []CustodyMatchesHoldings
<1>1. ASSUME NftOutboxInv, NEW t \in Tokens \ returned
      PROVE  /\ holdings[t].status = "held" => location[t] \in {"hot", "deposit"}
             /\ holdings[t].status = "withdrawn" =>
                    \E k \in Keys : tokenOf[k] = t /\ reqs[k].status = "confirmed" /\ mined[k].ok
             /\ t \in Mints => (holdings[t].status = "none" <=> reqs[t].status # "confirmed")
    <2>1. TokenInv(t) /\ LocationInv(t) /\ location[t] \in {"nowhere", "hot", "out", "deposit"}
        BY <1>1 DEF NftOutboxInv, TypeOK
    <2>2. \A r \in Requests : reqs[r].status = "confirmed" => mined[r].ok
        BY <1>1 DEF NftOutboxInv, RowInv
    <2>3. ASSUME holdings[t].status = "held" PROVE location[t] \in {"hot", "deposit"}
        <3>1. location[t] # "out"
            BY <2>1, <2>3 DEF TokenInv, LocationInv, OpenFor
        <3>2. location[t] # "nowhere"
            BY <2>1, <2>2, <2>3 DEF TokenInv, LocationInv, Requests
        <3> QED BY <2>1, <3>1, <3>2
    <2>4. \A k \in Keys : reqs[k].status = "confirmed" => mined[k].ok
        BY <2>2 DEF Requests
    <2> QED BY <2>1, <2>3, <2>4 DEF TokenInv
<1>2. NftOutboxInv => \A r \in Requests : reqs[r].status = "failed" => ~mined[r].ok
    BY DEF NftOutboxInv, RowInv
<1>3. NftOutboxInv => CustodyMatchesHoldings
    BY <1>1, <1>2 DEF CustodyMatchesHoldings
<1> QED BY <1>3, InvAlways, PTL

-----------------------------------------------------------------------------
(* The two loops implement the abstract outbox.                              *)

\* The phase of Outbox that a status stands for.
LEMMA PhaseOf ==
    /\ Phase("none") = "none" /\ Phase("requested") = "open"
    /\ Phase("signing") = "signed" /\ Phase("broadcast") = "signed"
    /\ Phase("confirmed") = "paid" /\ Phase("failed") = "refunded"
    BY DEF Phase

\* What a step may do to the row of request r.
Advances(r) ==
    \/ reqs'[r].status = reqs[r].status /\ reqs'[r].nonce = reqs[r].nonce
    \/ /\ <<reqs[r].status, reqs'[r].status>> \in
            {<<"none", "requested">>, <<"signing", "broadcast">>,
             <<"broadcast", "confirmed">>, <<"broadcast", "failed">>}
       /\ reqs'[r].nonce = reqs[r].nonce
    \/ /\ reqs[r].status = "requested" /\ reqs'[r].status = "signing"
       /\ reqs'[r].nonce # NoNonce

LEMMA SignAdvances ==
    ASSUME NftOutboxInv, NftOutboxInv', NEW l \in Loops, SignAndCommit(l), NEW r \in Requests
    PROVE  Advances(r)
<1>1. PICK S \in SUBSET todo[l] :
        \E nonce \in [S -> NextNonce(l)..(NextNonce(l) + Cardinality(S) - 1)] :
            reqs' = [q \in Requests |->
                        IF q \in S THEN [reqs[q] EXCEPT !.status = "signing", !.nonce = nonce[q]]
                        ELSE reqs[q]]
    BY DEF SignAndCommit
<1>2. PICK nonce \in [S -> NextNonce(l)..(NextNonce(l) + Cardinality(S) - 1)] :
        reqs' = [q \in Requests |->
                    IF q \in S THEN [reqs[q] EXCEPT !.status = "signing", !.nonce = nonce[q]]
                    ELSE reqs[q]]
    BY <1>1
<1>3. reqs[r] \in Rows /\ RowInv(r)'
    BY RowsType DEF NftOutboxInv
<1>4. CASE r \in S
    <2>1. reqs[r].status = "requested"
        BY <1>4 DEF SignAndCommit, NftOutboxInv, LoopInv, Pending
    <2>2. reqs'[r].status = "signing"
        BY <1>2, <1>3, <1>4 DEF Rows
    <2>3. reqs'[r].nonce # NoNonce
        BY <1>3, <2>2 DEF RowInv
    <2> QED BY <2>1, <2>2, <2>3 DEF Advances
<1>5. CASE r \notin S
    BY <1>2, <1>5 DEF Advances
<1> QED BY <1>4, <1>5

LEMMA BroadcastAdvances ==
    ASSUME NftOutboxInv, NEW l \in Loops, Broadcast(l), NEW r \in Requests
    PROVE  Advances(r)
<1>1. PICK Sent \in SUBSET todo[l] :
        reqs' = [q \in Requests |->
                    IF q \in Sent THEN [reqs[q] EXCEPT !.status = "broadcast"] ELSE reqs[q]]
    BY DEF Broadcast
<1>2. reqs[r] \in Rows
    BY RowsType DEF NftOutboxInv
<1>3. CASE r \in Sent
    <2>1. reqs[r].status = "signing"
        BY <1>3 DEF Broadcast, NftOutboxInv, LoopInv
    <2>2. reqs'[r].status = "broadcast" /\ reqs'[r].nonce = reqs[r].nonce
        BY <1>1, <1>2, <1>3 DEF Rows
    <2> QED BY <2>1, <2>2 DEF Advances
<1>4. CASE r \notin Sent
    BY <1>1, <1>4 DEF Advances
<1> QED BY <1>3, <1>4

LEMMA StepAdvances ==
    ASSUME NftOutboxInv, NftOutboxInv', [Next]_vars, NEW r \in Requests
    PROVE  Advances(r)
<1>1. CASE reqs' = reqs
    BY <1>1 DEF Advances
<1>2. ASSUME NEW m \in Requests, reqs[m].status = "none",
             reqs' = [reqs EXCEPT ![m].status = "requested"]
      PROVE  Advances(r)
    <2>1. reqs \in [Requests -> Rows]
        BY RowsType DEF NftOutboxInv
    <2> QED BY <1>2, <2>1 DEF Advances, Rows
<1>3. ASSUME NEW m \in Mints, MintNft(m) PROVE Advances(r)
    BY <1>2, <1>3 DEF MintNft, Requests
<1>4. ASSUME NEW c \in Calls, RequestWithdrawal(c) PROVE Advances(r)
    <2>1. /\ CallOf[c].key \in Requests /\ reqs[CallOf[c].key].status = "none"
          /\ reqs' = [reqs EXCEPT ![CallOf[c].key].status = "requested"]
        BY <1>4, CallType DEF RequestWithdrawal, RowExists, Requests
    <2> QED BY <1>2, <2>1
<1>5. ASSUME NEW l \in Loops, SignAndCommit(l) \/ Broadcast(l) \/ CommitConfirm(l)
      PROVE  Advances(r)
    BY <1>5, SignAdvances, BroadcastAdvances, CommitResolves DEF Resolves, Advances
<1>6. \/ reqs' = reqs
      \/ \E m \in Mints : MintNft(m)
      \/ \E c \in Calls : RequestWithdrawal(c)
      \/ \E l \in Loops : SignAndCommit(l) \/ Broadcast(l) \/ CommitConfirm(l)
    BY DEF Next, Api, Work, Mine, LookUpKey, Refused, TransferNft, CreditRedeposit, SignNothing,
           SelectNonceRow, ReadPendingNonce, ReadReceipt, ReconcileUnmined, Fail, vars
<1> QED BY <1>1, <1>3, <1>4, <1>5, <1>6

LEMMA StepRefines ==
    ASSUME NftOutboxInv, NftOutboxInv', \A r \in Requests : Advances(r)
    PROVE  Abstract!Next
<1>1. \A r \in Requests : reqs[r].status \in Statuses /\ reqs'[r].status \in Statuses
    BY DEF NftOutboxInv, TypeOK, Statuses
<1>2. \A r \in Requests : Phase(reqs'[r].status) \in Abstract!Phases
    BY <1>1, PhaseOf DEF Statuses, Abstract!Phases
<1>3. ASSUME NEW r \in Requests
      PROVE  /\ \/ Phase(reqs'[r].status) = Phase(reqs[r].status)
                \/ <<Phase(reqs[r].status), Phase(reqs'[r].status)>> \in Abstract!Moves
             /\ IF Phase(reqs[r].status) = "open" /\ Phase(reqs'[r].status) = "signed"
                THEN reqs'[r].nonce # NoNonce
                ELSE reqs'[r].nonce = reqs[r].nonce
    <2>1. Advances(r)
        OBVIOUS
    <2>2. CASE reqs'[r].status = reqs[r].status /\ reqs'[r].nonce = reqs[r].nonce
        BY <1>1, <2>2, PhaseOf DEF Statuses
    <2>3. CASE reqs'[r].status # reqs[r].status
        BY <2>1, <2>3, PhaseOf DEF Advances, Abstract!Moves
    <2> QED BY <2>1, <2>2, <2>3 DEF Advances
<1>4. \A r, q \in Requests :
        reqs'[r].nonce = reqs'[q].nonce /\ reqs'[r].nonce # NoNonce => r = q
    BY DEF NftOutboxInv, NonceInv, NoncesGapFree, Signed
<1> QED BY <1>2, <1>3, <1>4 DEF Abstract!Next

\* The two loops together implement the outbox: every mint and every withdrawal is
\* signed at most once, with a nonce of its own, and resolved at most once.
THEOREM NftLoopsAreOutbox == Spec => ImplementsOutbox
<1>1. Init => Abstract!Init
    BY PhaseOf DEF Init, Abstract!Init
<1>2. NftOutboxInv /\ NftOutboxInv' /\ [Next]_vars => [Abstract!Next]_(Abstract!vars)
    BY StepAdvances, StepRefines
<1> QED BY <1>1, <1>2, InvAlways, PTL DEF Spec, ImplementsOutbox, Abstract!Spec
=============================================================================
