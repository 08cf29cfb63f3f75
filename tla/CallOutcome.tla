---------------------------- MODULE CallOutcome ----------------------------
(***************************************************************************)
(* What tool_calls promises the agent about one tool call: it is answered  *)
(* in the foreground, or moved to the background and then reported once.   *)
(* A call can also be lost: its caller was cancelled, or its task died     *)
(* while somebody was giving it time to stop.                              *)
(***************************************************************************)
CONSTANT Calls
VARIABLE outcome

Init == outcome = [c \in Calls |-> "none"]

Move(c, from, to) ==
    /\ outcome[c] \in from
    /\ outcome' = [outcome EXCEPT ![c] = to]

Begin(c) == Move(c, {"none"}, "open")
Answer(c) == Move(c, {"open"}, "answered")
Background(c) == Move(c, {"open"}, "background")
Report(c) == Move(c, {"background"}, "reported")
Lose(c) == Move(c, {"open", "background"}, "lost")

Next == \E c \in Calls :
    Begin(c) \/ Answer(c) \/ Background(c) \/ Report(c) \/ Lose(c)

Spec == Init /\ [][Next]_outcome
=============================================================================
