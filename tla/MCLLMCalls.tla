---------------------------- MODULE MCLLMCalls ----------------------------
(* TLC instances of LLMCalls. *)
EXTENDS LLMCalls, TLC

CONSTANTS c1, c2
=============================================================================
