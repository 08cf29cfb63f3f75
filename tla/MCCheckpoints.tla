--------------------------- MODULE MCCheckpoints ---------------------------
(* TLC instances of Checkpoints. *)
EXTENDS Checkpoints, TLC

CONSTANTS r1, r2, h1, x1, n

\* One of two interchangeable runs is of the session's chat, and the session
\* starts with a checkpoint: a snapshot or a reset lead from there to here,
\* and back.
RestoreInit == Init /\ r1 \in ours /\ refs = {0}
RestoreSpec == RestoreInit /\ [][Next]_vars /\ Fairness
=============================================================================
