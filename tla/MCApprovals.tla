---------------------------- MODULE MCApprovals ----------------------------
(* TLC instances of Approvals. *)
EXTENDS Approvals, TLC

CONSTANTS r1, r2, main, child, t1
MCRootOf == [s \in Sessions |-> main]
=============================================================================
