----------------------------- MODULE MCNftWatcher -----------------------------
(***************************************************************************)
(* Values for the constants of NftWatcher.                                 *)
(***************************************************************************)
EXTENDS NftWatcher

CONSTANTS l1, l2, k1, alice, bob

\* Both logs move the one token.
OneToken == [l \in Logs |-> k1]

\* The second log, which excludes the first, pays somebody else.
TwoRecipients == [l \in Logs |-> IF l = l1 THEN alice ELSE bob]
=============================================================================
