--------------------------- MODULE MCTaskTracker ---------------------------
(* TLC instances of TaskTracker; the clients are interchangeable. *)
EXTENDS TaskTracker, TLC

ClientSymmetry == Permutations(Clients)
=============================================================================
