-------------------------- MODULE MCChannelQueues --------------------------
(* TLC instances of ChannelQueues. *)
EXTENDS ChannelQueues

\* Sessions are interchangeable: the first message is of one of them.
CONSTANT First
ASSUME FirstAssumption == First \in Sessions

FirstInit == Init /\ session[1] = First
FirstSpec == FirstInit /\ [][Next]_vars /\ Fairness
=============================================================================
