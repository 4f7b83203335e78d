------------------------------ MODULE CreditBook ------------------------------
(***************************************************************************)
(* What the deposit watcher promises the ledger: an append-only book of    *)
(* credits and reversals of deposits.  A deposit is credited under a new   *)
(* revision, and only when all its earlier credits were reversed by earlier *)
(* transactions; a reversal is of a credit in the book.                    *)
(*                                                                         *)
(* A step is what one database transaction adds for all deposits together: *)
(* a pass of the watcher may credit a deposit and reverse that very credit. *)
(***************************************************************************)
EXTENDS Integers

VARIABLES
    credits,   \* pairs <<deposit, revision>> ever credited
    reversals  \* those of them that were reversed

book == <<credits, reversals>>

Init == credits = {} /\ reversals = {}

\* The transaction adds the credit e.
NewCredit(e) ==
    /\ \A f \in credits : f[1] = e[1] => f \in reversals /\ f[2] < e[2]
    /\ \A f \in credits' \ credits : f[1] = e[1] => f = e

Next ==
    /\ credits \subseteq credits' /\ reversals \subseteq reversals'
    /\ reversals' \subseteq credits'
    /\ \A e \in credits' \ credits : NewCredit(e)

Spec == Init /\ [][Next]_book
=============================================================================
