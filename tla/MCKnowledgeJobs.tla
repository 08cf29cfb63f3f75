-------------------------- MODULE MCKnowledgeJobs --------------------------
(* TLC instances of KnowledgeJobs: who runs under which id. *)
EXTENDS KnowledgeJobs, TLC

CONSTANTS w1, w2

OwnIds == (w1 :> "a") @@ (w2 :> "b")
SharedId == (w1 :> "a") @@ (w2 :> "a")
=============================================================================
