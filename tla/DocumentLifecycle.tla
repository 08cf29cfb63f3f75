------------------------- MODULE DocumentLifecycle -------------------------
(***************************************************************************)
(* What the ingestion queue promises of a document, whoever processes it:  *)
(* it waits, is held by at most one worker, who alone decides what becomes *)
(* of the run; a hold that nobody has any more goes back to the queue or   *)
(* is given up; an outcome stays; a document can be removed at any time.   *)
(***************************************************************************)
CONSTANTS Docs, Workers, Nobody

VARIABLES
    phase,  \* document -> "new", "waiting", "running", "done", "failed", "gone"
    holder  \* document -> worker that runs it, or Nobody

vars == <<phase, holder>>

Init == /\ phase = [d \in Docs |-> "new"]
        /\ holder = [d \in Docs |-> Nobody]

Move(d, p, h) == /\ phase' = [phase EXCEPT ![d] = p]
                 /\ holder' = [holder EXCEPT ![d] = h]

Submit(d) == phase[d] = "new" /\ Move(d, "waiting", Nobody)

\* a worker holds one document at a time
Take(d, w) ==
    /\ phase[d] = "waiting"
    /\ \A e \in Docs : holder[e] # w
    /\ Move(d, "running", w)

\* the holder ends its run: success, a failure to retry, or the last failure
Settle(d, p) == holder[d] # Nobody /\ Move(d, p, Nobody)

\* the holder dies, or loses the record of its failure
Abandon(d) == holder[d] # Nobody /\ Move(d, phase[d], Nobody)

\* recovery takes every abandoned document it sees in one step
Reclaim ==
    /\ \E S \in SUBSET {d \in Docs : phase[d] = "running" /\ holder[d] = Nobody} :
        \E failed \in SUBSET S :
            phase' = [d \in Docs |-> IF d \in failed THEN "failed"
                                     ELSE IF d \in S THEN "waiting"
                                     ELSE phase[d]]
    /\ UNCHANGED holder

Remove(d) == phase[d] # "new" /\ Move(d, "gone", Nobody)

Next ==
    \/ Reclaim
    \/ \E d \in Docs :
        \/ Submit(d) \/ Abandon(d) \/ Remove(d)
        \/ \E w \in Workers : Take(d, w)
        \/ \E p \in {"waiting", "done", "failed"} : Settle(d, p)

Spec == Init /\ [][Next]_vars
=============================================================================
