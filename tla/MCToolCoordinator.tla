-------------------------- MODULE MCToolCoordinator --------------------------
(* TLC instances of ToolCoordinator. *)
EXTENDS ToolCoordinator, TLC

CONSTANTS c1, c2, s1
MCSessionOf == [c \in Calls |-> s1]
=============================================================================
