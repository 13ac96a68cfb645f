-------------------------- MODULE MCTransactionEngine --------------------------
(* Small instances of TransactionEngine and its pages for TLC.             *)
EXTENDS TransactionPages, TLC

\* A till with a cash drawer ("register"), a card terminal and a queue.
MCZones == {"register", "terminal", "queue"}
MCZoneKinds ==
    [register |-> {"checkout", "cash"}, terminal |-> {"payment"}, queue |-> {"queue"}]

\* The gaps between these instants fall on both sides of the code's thresholds
\* (5, 10, 15, 20, 30, 180 and 480 seconds).
MCInstants == {1, 190, 500, 511, 545}

MCSymmetry == Permutations(SessionIds)
=============================================================================
