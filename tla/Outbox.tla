-------------------------------- MODULE Outbox --------------------------------
(***************************************************************************)
(* What every hot-wallet outbox of the worker promises: a request is       *)
(* signed at most once, with a nonce no other request has, and is resolved *)
(* at most once, as paid or as refunded, and never after that.             *)
(*                                                                         *)
(* Withdrawer and NftOutbox implement it.  A request that cannot be signed *)
(* is refunded without a nonce.  A step may move several requests: a phase *)
(* of the worker commits all it did at once.                               *)
(***************************************************************************)
EXTENDS Integers

CONSTANTS
    Requests,  \* the requests for a payout
    NoNonce    \* not signed

VARIABLES
    phase,  \* phase[r]: none, open, signed, paid or refunded
    nonce   \* nonce[r]: the nonce r is signed with

vars == <<phase, nonce>>

Phases == {"none", "open", "signed", "paid", "refunded"}

\* The steps of one request.
Moves == {<<"none", "open">>, <<"open", "signed">>, <<"open", "refunded">>,
          <<"signed", "paid">>, <<"signed", "refunded">>}

Init ==
    /\ phase = [r \in Requests |-> "none"]
    /\ nonce = [r \in Requests |-> NoNonce]

Next ==
    /\ phase' \in [Requests -> Phases]
    /\ \A r \in Requests :
        /\ phase'[r] = phase[r] \/ <<phase[r], phase'[r]>> \in Moves
        /\ IF phase[r] = "open" /\ phase'[r] = "signed"
           THEN nonce'[r] # NoNonce
           ELSE nonce'[r] = nonce[r]
    /\ \A r, q \in Requests : nonce'[r] = nonce'[q] /\ nonce'[r] # NoNonce => r = q

Spec == Init /\ [][Next]_vars
=============================================================================
