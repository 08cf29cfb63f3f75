------------------------- MODULE CheckpointsProofs -------------------------
(***************************************************************************)
(* Proofs about Checkpoints, for any number of runs, requests and timers,  *)
(* and any number of saves and failures, when no operation of a run is     *)
(* stopped more than once: a second cancellation leaves a thread behind    *)
(* that nothing waits for.                                                 *)
(*                                                                         *)
(* The inductive invariant: who works has the lock (Lock); a thread works  *)
(* only for an actor that waits for it (Threads); a save in flight belongs *)
(* to a run that is talking, or was left behind (Saves); a restore past    *)
(* its idle check works behind a closed gate among runs that wait there or *)
(* are over for the tracker (Quiet); and at each step of its transaction   *)
(* the head, the refs and, unless a save left behind landed, the file are  *)
(* what the plan and the steps behind it made them (Plans).                *)
(***************************************************************************)
EXTENDS Checkpoints, TLAPS

Locked == {"quiescing", "preparing", "applying", "working"}

\* An actor past the lock owns it, and nobody else does.
Lock ==
    /\ \A a \in Actors : pc[a] \in Locked => owner = a
    /\ owner # NoActor => pc[owner] \in Locked

\* What an actor's thread may be doing.
ThreadOf(a) ==
    /\ job[a] # "none" => pc[a] \in {"preparing", "applying", "working"}
    /\ pc[a] = "preparing" => job[a] \in {"prepare", "other"} \cup Over
    /\ pc[a] = "applying" => job[a] \in Transaction \cup {"other"} \cup Over
    /\ pc[a] = "working" => job[a] \notin Transaction \cup {"prepare"}
    /\ job[a] = "other" => ~OfSession(a)
    /\ job[a] \in Transaction \cup {"prepare"} => OfSession(a)
    /\ pc[a] \in {"quiescing", "preparing", "applying"} => op[a] = "restore"
    /\ pc[a] \in {"queued", "gathering"} => op[a] \in Ops

Threads == \A a \in Actors : ThreadOf(a)

\* A save in flight belongs to a run that talks, or to one that gave it up.
Saves ==
    \A r \in Runs :
        writes[r] > 0 =>
            pc[r] \in {"chatting", "closing", "draining", "adrift", "rescuing", "done"}

\* A restore has closed the gate, and past its idle check the other runs have
\* not got through it.
Quiet ==
    \A a \in Actors :
        /\ pc[a] \in {"quiescing", "preparing", "applying"} => ~gate
        /\ pc[a] \in {"preparing", "applying"} =>
             \A r \in Runs \ {a} : pc[r] \in {"new", "waiting", "done"} \cup Adrift

\* The store, as each step of the transaction finds it.
PlanOf(a) ==
    /\ pc[a] # "applying" => plan[a].pre = None
    /\ pc[a] = "preparing" /\ OfSession(a) /\ job[a] = "ok" => plan[a].target \in refs
    /\ pc[a] = "applying" /\ OfSession(a) =>
         /\ job[a] \in {"capture", "write", "sethead", "undo"} => plan[a].target \in refs
         /\ job[a] \in {"write", "sethead", "undo", "undohead"} => plan[a].pre \in refs
         /\ job[a] = "capture" => plan[a].pre = None
         /\ job[a] \in {"write", "undohead"} => file = plan[a].pre \/ spoiled
         /\ job[a] = "sethead" => file = plan[a].target \/ spoiled
         /\ job[a] = "undo" => file \in {plan[a].target, plan[a].pre} \/ spoiled
         /\ job[a] = "ok" => head = plan[a].target /\ (file = plan[a].target \/ spoiled)
         /\ (job[a] = "failed" /\ plan[a].pre # None) =>
               head = plan[a].head /\ (file = plan[a].pre \/ spoiled)

Plans == \A a \in Actors : PlanOf(a)

IInv == TypeOK /\ Lock /\ Threads /\ Saves /\ Quiet /\ Plans /\ GateIsHeld

LEMMA SavedTypes ==
    ASSUME TypeOK, NEW r \in Runs, Saved(r) \/ UNCHANGED store
    PROVE  /\ file' \in Contents /\ saves' \in Contents
           /\ refs' \subseteq Contents /\ head' \in Contents \cup {None}
           /\ spoiled' \in BOOLEAN
<1>1. CASE Saved(r)
  <2>1. saves + 1 \in 0..MaxSaves
    BY <1>1, CheckpointsAssumption DEF TypeOK, Saved, Contents
  <2>2. spoiled' \in BOOLEAN
    BY <1>1 DEF Saved
  <2>. QED
    BY <1>1, <2>1, <2>2 DEF TypeOK, Saved, Contents
<1>2. CASE UNCHANGED store
  BY <1>2 DEF TypeOK, store
<1>. QED
  BY <1>1, <1>2

\* What the end of an operation does to each actor.
LEMMA EndsFacts ==
    ASSUME TypeOK, NEW a \in Actors, NEW next, NEW then, Ends(a, next, then)
    PROVE  /\ pc'[a] = next /\ op'[a] = then
           /\ \A b \in Actors \ {a} :
                /\ op'[b] = op[b]
                /\ pc'[b] = pc[b] \/ (pc[b] = "waiting" /\ pc'[b] = "through")
           /\ owner' = NoActor
           /\ paused' = (paused /\ op[a] # "restore")
           /\ gate' = (gate \/ op[a] \in {"restore", "reset"})
BY DEF Ends, TypeOK

LEMMA EndsTypes ==
    ASSUME TypeOK, NEW a \in Actors, NEW next \in Places,
           NEW then \in Ops \cup {"none"}, Ends(a, next, then)
    PROVE  /\ pc' \in [Actors -> Places] /\ op' \in [Actors -> Ops \cup {"none"}]
           /\ owner' \in Actors \cup {NoActor}
           /\ gate' \in BOOLEAN /\ paused' \in BOOLEAN
<1>1. "through" \in Places
  BY DEF Places
<1>. QED
  BY <1>1 DEF Ends, TypeOK

LEMMA TypeStep ==
    ASSUME TypeOK, Plans, Threads, Next
    PROVE  TypeOK'
<1>1. ASSUME NEW r \in Runs, Message(r)
      PROVE  TypeOK'
  BY <1>1, CheckpointsAssumption DEF Message, Active, Adrift, run, store,
     door, TypeOK, Actors, Contents, Ops, NoPlan, Planned, None, Over,
     Transaction, Jobs, Talking, Places, Plans, PlanOf, Threads, ThreadOf
<1>2. ASSUME NEW r \in Runs, Load(r)
      PROVE  TypeOK'
  BY <1>2, CheckpointsAssumption DEF Load, run, store, door, TypeOK, Actors,
     Contents, Ops, NoPlan, Planned, None, Over, Transaction, Jobs, Talking,
     Adrift, Places, Plans, PlanOf, Threads, ThreadOf
<1>3. ASSUME NEW r \in Runs, Command(r)
      PROVE  TypeOK'
  BY <1>3, CheckpointsAssumption DEF Command, run, store, door, TypeOK,
     Actors, Contents, Ops, NoPlan, Planned, None, Over, Transaction, Jobs,
     Talking, Adrift, Places, Plans, PlanOf, Threads, ThreadOf
<1>4. ASSUME NEW r \in Runs, SaveBegins(r)
      PROVE  TypeOK'
  BY <1>4, CheckpointsAssumption DEF SaveBegins, run, store, door, TypeOK,
     Actors, Contents, Ops, NoPlan, Planned, None, Over, Transaction, Jobs,
     Talking, Adrift, Places, Plans, PlanOf, Threads, ThreadOf
<1>5. ASSUME NEW r \in Runs, SaveEnds(r)
      PROVE  TypeOK'
  <2>1. writes' \in [Runs -> Nat]
    BY <1>5 DEF SaveEnds, TypeOK
  <2>. QED
    BY <1>5, <2>1, SavedTypes DEF SaveEnds, TypeOK, door
<1>6. ASSUME NEW r \in Runs, ChatEnds(r)
      PROVE  TypeOK'
  BY <1>6, CheckpointsAssumption DEF ChatEnds, run, store, door, TypeOK,
     Actors, Contents, Ops, NoPlan, Planned, None, Over, Transaction, Jobs,
     Talking, Adrift, Places, Plans, PlanOf, Threads, ThreadOf
<1>7. ASSUME NEW r \in Runs, Stored(r)
      PROVE  TypeOK'
  <2>1. pc' \in [Actors -> Places]
    BY <1>7 DEF Stored, TypeOK, Places, Talking
  <2>2. Saved(r) \/ UNCHANGED store
    BY <1>7 DEF Stored
  <2>. QED
    BY <1>7, <2>1, <2>2, SavedTypes DEF Stored, TypeOK, door, run
<1>8. ASSUME NEW r \in Runs, DrainEnds(r)
      PROVE  TypeOK'
  <2>1. {"rescuing", "salvaging"} \subseteq Places
    BY DEF Places, Talking, Adrift
  <2>2. pc' \in [Actors -> Places]
    BY <1>8, <2>1 DEF DrainEnds, TypeOK
  <2>. QED
    BY <1>8, <2>2 DEF DrainEnds, TypeOK, run, store, door
<1>9. ASSUME NEW r \in Runs, Rescued(r)
      PROVE  TypeOK'
  <2>1. pc' \in [Actors -> Places]
    BY <1>9 DEF Rescued, TypeOK, Places
  <2>2. Saved(r) \/ UNCHANGED store
    BY <1>9 DEF Rescued
  <2>. QED
    BY <1>9, <2>1, <2>2, SavedTypes DEF Rescued, TypeOK, door, run
<1>10. ASSUME NEW r \in Runs, Stop(r)
      PROVE  TypeOK'
  <2>1. pc' \in [Actors -> Places] /\ op' \in [Actors -> Ops \cup {"none"}]
        /\ owner' \in Actors \cup {NoActor} /\ gate' \in BOOLEAN /\ paused'
        \in BOOLEAN
    <3>1. CASE Ends(r, "done", "none")
      <4>1. r \in Actors /\ "done" \in Places
        BY DEF Actors, Places
      <4>. QED
        BY <3>1, <4>1, EndsTypes
    <3>2. CASE ~Ends(r, "done", "none")
      <4>1. UNCHANGED door
        BY <1>10, <3>2 DEF Stop, Adrift, Talking, StopTalking, StopOutside,
           Abandoned, StopWorking
      <4>2. pc' \in [Actors -> Places] /\ op' \in [Actors -> Ops \cup {"none"}]
        BY <1>10, <3>2 DEF Stop, StopTalking, StopOutside, Abandoned,
           StopWorking, TypeOK, Places, Talking, Adrift
      <4>. QED
        BY <4>1, <4>2 DEF door, TypeOK
    <3>. QED
      BY <3>1, <3>2
  <2>2. writes' \in [Runs -> Nat]
    BY <1>10, EndsTypes, CheckpointsAssumption DEF Stop, Adrift, Talking,
       StopTalking, StopOutside, Abandoned, StopWorking, TypeOK
  <2>3. stops' \in [Runs -> 0..MaxStops]
    BY <1>10, EndsTypes, CheckpointsAssumption DEF Stop, Adrift, Talking,
       StopTalking, StopOutside, Abandoned, StopWorking, TypeOK
  <2>. QED
    BY <1>10, <2>1, <2>2, <2>3 DEF Stop, Adrift, Talking, StopTalking,
       StopOutside, Abandoned, StopWorking, TypeOK, run, store, door
<1>11. ASSUME NEW c \in Callers, Request(c)
      PROVE  TypeOK'
  BY <1>11, CheckpointsAssumption DEF Request, run, store, door, TypeOK,
     Actors, Contents, Ops, NoPlan, Planned, None, Over, Transaction, Jobs,
     Talking, Adrift, Places, Plans, PlanOf, Threads, ThreadOf
<1>12. ASSUME NEW c \in Callers, Delete(c)
      PROVE  TypeOK'
  BY <1>12, CheckpointsAssumption DEF Delete, run, store, door, TypeOK,
     Actors, Contents, Ops, NoPlan, Planned, None, Over, Transaction, Jobs,
     Talking, Adrift, Places, Plans, PlanOf, Threads, ThreadOf
<1>13. ASSUME NEW c \in Callers, Gathered(c)
      PROVE  TypeOK'
  BY <1>13, CheckpointsAssumption DEF Gathered, run, store, door, TypeOK,
     Actors, Contents, Ops, NoPlan, Planned, None, Over, Transaction, Jobs,
     Talking, Adrift, Places, Plans, PlanOf, Threads, ThreadOf
<1>14. ASSUME NEW x \in Autos, Fires(x)
      PROVE  TypeOK'
  <2>1. pc' \in [Actors -> Places]
    BY <1>14 DEF Fires, Actors, TypeOK, Places
  <2>2. op' \in [Actors -> Ops \cup {"none"}]
    BY <1>14 DEF Fires, Actors, TypeOK, Ops
  <2>. QED
    BY <1>14, <2>1, <2>2 DEF Fires, Actors, TypeOK, run, store, door
<1>15. ASSUME NEW b \in Actors, Acquire(b)
      PROVE  TypeOK'
  <2>1. pc' \in [Actors -> Places]
    BY <1>15 DEF Acquire, Begin, TypeOK, Places
  <2>2. job' \in [Actors -> Jobs \cup Over \cup {"none"}]
    BY <1>15 DEF Acquire, Begin, TypeOK, Jobs, Over, Transaction, Ops
  <2>3. gate' \in BOOLEAN /\ paused' \in BOOLEAN /\ owner' \in Actors \cup
        {NoActor}
    BY <1>15 DEF Acquire, Begin, TypeOK, Actors
  <2>. QED
    BY <1>15, <2>1, <2>2, <2>3 DEF Acquire, Begin, TypeOK, run, store, door
<1>16. ASSUME NEW b \in Actors, Quiesced(b)
      PROVE  TypeOK'
  BY <1>16, CheckpointsAssumption DEF Quiesced, Idle, Active, Adrift, run,
     store, door, TypeOK, Actors, Contents, Ops, NoPlan, Planned, None, Over,
     Transaction, Jobs, Talking, Places, Plans, PlanOf, Threads, ThreadOf
<1>17. ASSUME NEW b \in Actors, QuiesceTimeout(b)
      PROVE  TypeOK'
  <2>1. pc' \in [Actors -> Places] /\ op' \in [Actors -> Ops \cup {"none"}]
        /\ owner' \in Actors \cup {NoActor} /\ gate' \in BOOLEAN /\ paused'
        \in BOOLEAN
    BY <1>17, EndsTypes DEF QuiesceTimeout, Places, TypeOK, Ops
  <2>. QED
    BY <1>17, <2>1 DEF QuiesceTimeout, Places, TypeOK, run, store, door
<1>18. ASSUME NEW b \in Actors, Prepared(b)
      PROVE  TypeOK'
  <2>1. pc' \in [Actors -> Places] /\ op' \in [Actors -> Ops \cup {"none"}]
        /\ owner' \in Actors \cup {NoActor} /\ gate' \in BOOLEAN /\ paused'
        \in BOOLEAN
    <3>1. CASE Ends(b, "done", "none")
      <4>1. "done" \in Places
        BY DEF Places
      <4>. QED
        BY <3>1, <4>1, EndsTypes
    <3>2. CASE ~Ends(b, "done", "none")
      <4>1. UNCHANGED <<op, door>> /\ pc' = [pc EXCEPT ![b] = "applying"]
        BY <1>18, <3>2 DEF Prepared
      <4>2. "applying" \in Places
        BY DEF Places
      <4>. QED
        BY <4>1, <4>2 DEF door, TypeOK
    <3>. QED
      BY <3>1, <3>2
  <2>2. job' \in [Actors -> Jobs \cup Over \cup {"none"}]
    BY <1>18, EndsTypes DEF Prepared, Places, TypeOK, Jobs, Over,
       Transaction, Ops
  <2>3. plan' \in [Actors -> Planned]
    <3>1. NoPlan \in Planned
      BY DEF NoPlan, Planned
    <3>2. plan' \in {plan, [plan EXCEPT ![b] = NoPlan]}
      BY <1>18 DEF Prepared
    <3>. QED
      BY <3>1, <3>2 DEF TypeOK
  <2>. QED
    BY <1>18, <2>1, <2>2, <2>3 DEF Prepared, Places, TypeOK, run, store,
       door
<1>19. ASSUME NEW b \in Actors, Finishes(b)
      PROVE  TypeOK'
  <2>1. pc' \in [Actors -> Places] /\ op' \in [Actors -> Ops \cup {"none"}]
        /\ owner' \in Actors \cup {NoActor} /\ gate' \in BOOLEAN /\ paused'
        \in BOOLEAN
    <3>1. {"done", "queued"} \subseteq Places /\ "gc" \in Ops
      BY DEF Places, Ops
    <3>2. CASE Ends(b, "done", "none")
      BY <3>1, <3>2, EndsTypes
    <3>3. CASE Ends(b, "queued", "gc")
      BY <3>1, <3>3, EndsTypes
    <3>. QED
      BY <1>19, <3>2, <3>3 DEF Finishes
  <2>2. job' \in [Actors -> Jobs \cup Over \cup {"none"}]
    BY <1>19, EndsTypes DEF Finishes, Places, TypeOK, Jobs, Over,
       Transaction, Ops
  <2>3. plan' \in [Actors -> Planned]
    BY <1>19, EndsTypes DEF Finishes, Places, TypeOK, Planned, NoPlan
  <2>. QED
    BY <1>19, <2>1, <2>2, <2>3 DEF Finishes, Places, TypeOK, run, store,
       door
<1>20. ASSUME NEW b \in Actors, Prepare(b),
         UNCHANGED <<pc, op, run, door, timer, gathers, spoiled>>
      PROVE  TypeOK'
  <2>1. job' \in [Actors -> Jobs \cup Over \cup {"none"}]
    BY <1>20 DEF Prepare, Goes, Heads, TypeOK, Jobs, Over, Transaction, Ops
  <2>2. plan' \in [Actors -> Planned]
    BY <1>20 DEF Prepare, Goes, Heads, TypeOK, Planned
  <2>3. file' \in Contents /\ saves' \in Contents /\ refs' \subseteq
        Contents /\ head' \in Contents \cup {None}
    BY <1>20 DEF Prepare, Goes, Heads, TypeOK, store
  <2>. QED
    BY <1>20, <2>1, <2>2, <2>3 DEF Prepare, Goes, Heads, TypeOK, run, store,
       door
<1>21. ASSUME NEW b \in Actors, Snapshot(b),
         UNCHANGED <<pc, op, run, door, timer, gathers, spoiled>>
      PROVE  TypeOK'
  <2>1. job' \in [Actors -> Jobs \cup Over \cup {"none"}]
    BY <1>21 DEF Snapshot, Goes, Snaps, TypeOK, Jobs, Over, Transaction, Ops
  <2>2. file' \in Contents /\ saves' \in Contents /\ refs' \subseteq
        Contents /\ head' \in Contents \cup {None}
    BY <1>21 DEF Snapshot, Goes, Snaps, TypeOK, store
  <2>. QED
    BY <1>21, <2>1, <2>2 DEF Snapshot, Goes, Snaps, TypeOK, run, store, door
<1>22. ASSUME NEW b \in Actors, Capture(b),
         UNCHANGED <<pc, op, run, door, timer, gathers, spoiled>>
      PROVE  TypeOK'
  <2>1. job' \in [Actors -> Jobs \cup Over \cup {"none"}]
    BY <1>22 DEF Capture, Goes, Snaps, TypeOK, Jobs, Over, Transaction, Ops
  <2>2. plan' \in [Actors -> Planned]
    <3>1. plan' \in {plan, [plan EXCEPT ![b].pre = file]}
      BY <1>22 DEF Capture
    <3>2. file \in Contents /\ plan \in [Actors -> Planned]
      BY DEF TypeOK
    <3>. QED
      BY <3>1, <3>2 DEF Planned
  <2>3. file' \in Contents /\ saves' \in Contents /\ refs' \subseteq
        Contents /\ head' \in Contents \cup {None}
    BY <1>22 DEF Capture, Goes, Snaps, TypeOK, store
  <2>. QED
    BY <1>22, <2>1, <2>2, <2>3 DEF Capture, Goes, Snaps, TypeOK, run, store,
       door
<1>23. ASSUME NEW b \in Actors, WriteFile(b),
         UNCHANGED <<pc, op, run, door, timer, gathers, spoiled>>
      PROVE  TypeOK'
  <2>1. job' \in [Actors -> Jobs \cup Over \cup {"none"}]
    BY <1>23 DEF WriteFile, Goes, TypeOK, Jobs, Over, Transaction, Ops
  <2>2. file' \in Contents /\ saves' \in Contents /\ refs' \subseteq
        Contents /\ head' \in Contents \cup {None}
    BY <1>23 DEF WriteFile, Goes, TypeOK, store, Plans, PlanOf, Planned,
       Threads, ThreadOf, Jobs, Over, Transaction, Ops
  <2>. QED
    BY <1>23, <2>1, <2>2 DEF WriteFile, Goes, TypeOK, run, store, door
<1>24. ASSUME NEW b \in Actors, SetHead(b),
         UNCHANGED <<pc, op, run, door, timer, gathers, spoiled>>
      PROVE  TypeOK'
  <2>1. job' \in [Actors -> Jobs \cup Over \cup {"none"}]
    BY <1>24 DEF SetHead, Goes, TypeOK, Jobs, Over, Transaction, Ops
  <2>2. file' \in Contents /\ saves' \in Contents /\ refs' \subseteq
        Contents /\ head' \in Contents \cup {None}
    BY <1>24 DEF SetHead, Goes, TypeOK, store, Plans, PlanOf, Planned,
       Threads, ThreadOf, Jobs, Over, Transaction, Ops
  <2>. QED
    BY <1>24, <2>1, <2>2 DEF SetHead, Goes, TypeOK, run, store, door
<1>25. ASSUME NEW b \in Actors, Undo(b),
         UNCHANGED <<pc, op, run, door, timer, gathers, spoiled>>
      PROVE  TypeOK'
  <2>1. job' \in [Actors -> Jobs \cup Over \cup {"none"}]
    BY <1>25 DEF Undo, Goes, TypeOK, Jobs, Over, Transaction, Ops
  <2>2. file' \in Contents /\ saves' \in Contents /\ refs' \subseteq
        Contents /\ head' \in Contents \cup {None}
    BY <1>25 DEF Undo, Goes, TypeOK, store, Plans, PlanOf, Planned, Threads,
       ThreadOf, Jobs, Over, Transaction, Ops
  <2>. QED
    BY <1>25, <2>1, <2>2 DEF Undo, Goes, TypeOK, run, store, door
<1>26. ASSUME NEW b \in Actors, UndoHead(b),
         UNCHANGED <<pc, op, run, door, timer, gathers, spoiled>>
      PROVE  TypeOK'
  <2>1. job' \in [Actors -> Jobs \cup Over \cup {"none"}]
    BY <1>26 DEF UndoHead, Goes, TypeOK, Jobs, Over, Transaction, Ops
  <2>2. file' \in Contents /\ saves' \in Contents /\ refs' \subseteq
        Contents /\ head' \in Contents \cup {None}
    BY <1>26 DEF UndoHead, Goes, TypeOK, store, Plans, PlanOf, Planned,
       Threads, ThreadOf, Jobs, Over, Transaction, Ops
  <2>. QED
    BY <1>26, <2>1, <2>2 DEF UndoHead, Goes, TypeOK, run, store, door
<1>27. ASSUME NEW b \in Actors, Collect(b),
         UNCHANGED <<pc, op, run, door, timer, gathers, spoiled>>
      PROVE  TypeOK'
  <2>1. job' \in [Actors -> Jobs \cup Over \cup {"none"}]
    BY <1>27 DEF Collect, Goes, Heads, TypeOK, Jobs, Over, Transaction, Ops
  <2>2. file' \in Contents /\ saves' \in Contents /\ refs' \subseteq
        Contents /\ head' \in Contents \cup {None}
    BY <1>27 DEF Collect, Goes, Heads, TypeOK, store
  <2>. QED
    BY <1>27, <2>1, <2>2 DEF Collect, Goes, Heads, TypeOK, run, store, door
<1>28. ASSUME NEW b \in Actors, Erase(b),
         UNCHANGED <<pc, op, run, door, timer, gathers, spoiled>>
      PROVE  TypeOK'
  <2>1. job' \in [Actors -> Jobs \cup Over \cup {"none"}]
    BY <1>28 DEF Erase, Goes, TypeOK, Jobs, Over, Transaction, Ops
  <2>2. file' \in Contents /\ saves' \in Contents /\ refs' \subseteq
        Contents /\ head' \in Contents \cup {None}
    BY <1>28 DEF Erase, Goes, TypeOK, store
  <2>. QED
    BY <1>28, <2>1, <2>2 DEF Erase, Goes, TypeOK, run, store, door
<1>29. ASSUME NEW b \in Actors, Elsewhere(b),
         UNCHANGED <<pc, op, run, door, timer, gathers, spoiled>>
      PROVE  TypeOK'
  <2>1. job' \in [Actors -> Jobs \cup Over \cup {"none"}]
    BY <1>29 DEF Elsewhere, Goes, TypeOK, Jobs, Over, Transaction, Ops
  <2>2. file' \in Contents /\ saves' \in Contents /\ refs' \subseteq
        Contents /\ head' \in Contents \cup {None}
    BY <1>29 DEF Elsewhere, Goes, TypeOK, store
  <2>. QED
    BY <1>29, <2>1, <2>2 DEF Elsewhere, Goes, TypeOK, run, store, door
<1>30. ASSUME NEW r \in Runs, Finished(r)
      PROVE  TypeOK'
  BY <1>30, CheckpointsAssumption DEF Finished, run, store, door, TypeOK,
     Actors, Contents, Ops, NoPlan, Planned, None, Over, Transaction, Jobs,
     Talking, Adrift, Places, Plans, PlanOf, Threads, ThreadOf
<1>31. ASSUME NEW r \in Runs, Fails(r)
      PROVE  TypeOK'
  BY <1>31, CheckpointsAssumption DEF Fails, run, store, door, TypeOK,
     Actors, Contents, Ops, NoPlan, Planned, None, Over, Transaction, Jobs,
     Talking, Adrift, Places, Plans, PlanOf, Threads, ThreadOf
<1>32. ASSUME NEW r \in Runs, PersistFails(r)
      PROVE  TypeOK'
  BY <1>32, CheckpointsAssumption DEF PersistFails, Abandoned, run, store,
     door, TypeOK, Actors, Contents, Ops, NoPlan, Planned, None, Over,
     Transaction, Jobs, Talking, Adrift, Places, Plans, PlanOf, Threads,
     ThreadOf
<1>. QED
  BY <1>1, <1>2, <1>3, <1>4, <1>5, <1>6, <1>7, <1>8, <1>9, <1>10, <1>11,
     <1>12, <1>13, <1>14, <1>15, <1>16, <1>17, <1>18, <1>19, <1>20, <1>21,
     <1>22, <1>23, <1>24, <1>25, <1>26, <1>27, <1>28, <1>29, <1>30,
     <1>31, <1>32 DEF Next, Step, RunStep, OpStep, Thread, Actors

LEMMA LockStep ==
    ASSUME TypeOK, Lock, Threads, MaxStops <= 1, Next
    PROVE  Lock'
<1>1. ASSUME NEW r \in Runs, Message(r)
      PROVE  Lock'
  BY <1>1, CheckpointsAssumption DEF Message, Active, Adrift, run, store,
     door, Lock, Locked, Threads, ThreadOf, TypeOK, Actors
<1>2. ASSUME NEW r \in Runs, Load(r)
      PROVE  Lock'
  BY <1>2, CheckpointsAssumption DEF Load, run, store, door, Lock, Locked,
     Threads, ThreadOf, TypeOK, Actors
<1>3. ASSUME NEW r \in Runs, Command(r)
      PROVE  Lock'
  BY <1>3, CheckpointsAssumption DEF Command, run, store, door, Lock,
     Locked, Threads, ThreadOf, TypeOK, Actors
<1>4. ASSUME NEW r \in Runs, SaveBegins(r)
      PROVE  Lock'
  BY <1>4, CheckpointsAssumption DEF SaveBegins, run, store, door, Lock,
     Locked, Threads, ThreadOf, TypeOK, Actors
<1>5. ASSUME NEW r \in Runs, SaveEnds(r)
      PROVE  Lock'
  BY <1>5, CheckpointsAssumption DEF SaveEnds, Saved, run, store, door,
     Lock, Locked, Threads, ThreadOf, TypeOK, Actors
<1>6. ASSUME NEW r \in Runs, ChatEnds(r)
      PROVE  Lock'
  BY <1>6, CheckpointsAssumption DEF ChatEnds, run, store, door, Lock,
     Locked, Threads, ThreadOf, TypeOK, Actors
<1>7. ASSUME NEW r \in Runs, Stored(r)
      PROVE  Lock'
  BY <1>7, CheckpointsAssumption DEF Stored, Saved, run, store, door, Lock,
     Locked, Threads, ThreadOf, TypeOK, Actors
<1>8. ASSUME NEW r \in Runs, DrainEnds(r)
      PROVE  Lock'
  BY <1>8, CheckpointsAssumption DEF DrainEnds, run, store, door, Lock,
     Locked, Threads, ThreadOf, TypeOK, Actors
<1>9. ASSUME NEW r \in Runs, Rescued(r)
      PROVE  Lock'
  BY <1>9, CheckpointsAssumption DEF Rescued, Saved, run, store, door, Lock,
     Locked, Threads, ThreadOf, TypeOK, Actors
<1>10. ASSUME NEW r \in Runs, Stop(r)
      PROVE  Lock'
  BY <1>10, CheckpointsAssumption, EndsFacts DEF Stop, Talking, StopTalking,
     StopOutside, Abandoned, StopWorking, Active, Adrift, run, store, door,
     Lock, Locked, Threads, ThreadOf, TypeOK, Actors
<1>11. ASSUME NEW c \in Callers, Request(c)
      PROVE  Lock'
  BY <1>11, CheckpointsAssumption DEF Request, run, store, door, Lock,
     Locked, Threads, ThreadOf, TypeOK, Actors
<1>12. ASSUME NEW c \in Callers, Delete(c)
      PROVE  Lock'
  BY <1>12, CheckpointsAssumption DEF Delete, run, store, door, Lock,
     Locked, Threads, ThreadOf, TypeOK, Actors
<1>13. ASSUME NEW c \in Callers, Gathered(c)
      PROVE  Lock'
  BY <1>13, CheckpointsAssumption DEF Gathered, run, store, door, Lock,
     Locked, Threads, ThreadOf, TypeOK, Actors
<1>14. ASSUME NEW x \in Autos, Fires(x)
      PROVE  Lock'
  BY <1>14, CheckpointsAssumption DEF Fires, run, store, door, Lock, Locked,
     Threads, ThreadOf, TypeOK, Actors
<1>15. ASSUME NEW b \in Actors, Acquire(b)
      PROVE  Lock'
  BY <1>15, CheckpointsAssumption DEF Acquire, Begin, run, store, door,
     Lock, Locked, Threads, ThreadOf, TypeOK, Actors
<1>16. ASSUME NEW b \in Actors, Quiesced(b)
      PROVE  Lock'
  BY <1>16, CheckpointsAssumption DEF Quiesced, Idle, Active, Adrift, run,
     store, door, Lock, Locked, Threads, ThreadOf, TypeOK, Actors
<1>17. ASSUME NEW b \in Actors, QuiesceTimeout(b)
      PROVE  Lock'
  BY <1>17, CheckpointsAssumption, EndsFacts DEF QuiesceTimeout, run, store,
     door, Lock, Locked, Threads, ThreadOf, TypeOK, Actors
<1>18. ASSUME NEW b \in Actors, Prepared(b)
      PROVE  Lock'
  BY <1>18, CheckpointsAssumption, EndsFacts DEF Prepared, Stopped, run,
     store, door, Lock, Locked, Threads, ThreadOf, TypeOK, Actors
<1>19. ASSUME NEW b \in Actors, Finishes(b)
      PROVE  Lock'
  BY <1>19, CheckpointsAssumption, EndsFacts DEF Finishes, run, store, door,
     Lock, Locked, Threads, ThreadOf, TypeOK, Actors
<1>20. ASSUME NEW b \in Actors, Prepare(b),
         UNCHANGED <<pc, op, run, door, timer, gathers, spoiled>>
      PROVE  Lock'
  BY <1>20, CheckpointsAssumption DEF Prepare, Goes, Heads, run, store,
     door, Lock, Locked, Threads, ThreadOf, TypeOK, Actors
<1>21. ASSUME NEW b \in Actors, Snapshot(b),
         UNCHANGED <<pc, op, run, door, timer, gathers, spoiled>>
      PROVE  Lock'
  BY <1>21, CheckpointsAssumption DEF Snapshot, Goes, Snaps, run, store,
     door, Lock, Locked, Threads, ThreadOf, TypeOK, Actors
<1>22. ASSUME NEW b \in Actors, Capture(b),
         UNCHANGED <<pc, op, run, door, timer, gathers, spoiled>>
      PROVE  Lock'
  BY <1>22, CheckpointsAssumption DEF Capture, Goes, Snaps, run, store,
     door, Lock, Locked, Threads, ThreadOf, TypeOK, Actors
<1>23. ASSUME NEW b \in Actors, WriteFile(b),
         UNCHANGED <<pc, op, run, door, timer, gathers, spoiled>>
      PROVE  Lock'
  BY <1>23, CheckpointsAssumption DEF WriteFile, Goes, run, store, door,
     Lock, Locked, Threads, ThreadOf, TypeOK, Actors
<1>24. ASSUME NEW b \in Actors, SetHead(b),
         UNCHANGED <<pc, op, run, door, timer, gathers, spoiled>>
      PROVE  Lock'
  BY <1>24, CheckpointsAssumption DEF SetHead, Goes, run, store, door, Lock,
     Locked, Threads, ThreadOf, TypeOK, Actors
<1>25. ASSUME NEW b \in Actors, Undo(b),
         UNCHANGED <<pc, op, run, door, timer, gathers, spoiled>>
      PROVE  Lock'
  BY <1>25, CheckpointsAssumption DEF Undo, Goes, run, store, door, Lock,
     Locked, Threads, ThreadOf, TypeOK, Actors
<1>26. ASSUME NEW b \in Actors, UndoHead(b),
         UNCHANGED <<pc, op, run, door, timer, gathers, spoiled>>
      PROVE  Lock'
  BY <1>26, CheckpointsAssumption DEF UndoHead, Goes, run, store, door,
     Lock, Locked, Threads, ThreadOf, TypeOK, Actors
<1>27. ASSUME NEW b \in Actors, Collect(b),
         UNCHANGED <<pc, op, run, door, timer, gathers, spoiled>>
      PROVE  Lock'
  BY <1>27, CheckpointsAssumption DEF Collect, Goes, Heads, run, store,
     door, Lock, Locked, Threads, ThreadOf, TypeOK, Actors
<1>28. ASSUME NEW b \in Actors, Erase(b),
         UNCHANGED <<pc, op, run, door, timer, gathers, spoiled>>
      PROVE  Lock'
  BY <1>28, CheckpointsAssumption DEF Erase, Goes, run, store, door, Lock,
     Locked, Threads, ThreadOf, TypeOK, Actors
<1>29. ASSUME NEW b \in Actors, Elsewhere(b),
         UNCHANGED <<pc, op, run, door, timer, gathers, spoiled>>
      PROVE  Lock'
  BY <1>29, CheckpointsAssumption DEF Elsewhere, Goes, run, store, door,
     Lock, Locked, Threads, ThreadOf, TypeOK, Actors
<1>30. ASSUME NEW r \in Runs, Finished(r)
      PROVE  Lock'
  BY <1>30, CheckpointsAssumption DEF Finished, run, store, door, Lock,
     Locked, Threads, ThreadOf, TypeOK, Actors
<1>31. ASSUME NEW r \in Runs, Fails(r)
      PROVE  Lock'
  BY <1>31, CheckpointsAssumption DEF Fails, run, store, door, Lock, Locked,
     Threads, ThreadOf, TypeOK, Actors
<1>32. ASSUME NEW r \in Runs, PersistFails(r)
      PROVE  Lock'
  BY <1>32, CheckpointsAssumption DEF PersistFails, Abandoned, run, store,
     door, Lock, Locked, Threads, ThreadOf, TypeOK, Actors
<1>. QED
  BY <1>1, <1>2, <1>3, <1>4, <1>5, <1>6, <1>7, <1>8, <1>9, <1>10, <1>11,
     <1>12, <1>13, <1>14, <1>15, <1>16, <1>17, <1>18, <1>19, <1>20, <1>21,
     <1>22, <1>23, <1>24, <1>25, <1>26, <1>27, <1>28, <1>29, <1>30,
     <1>31, <1>32 DEF Next, Step, RunStep, OpStep, Thread, Actors

LEMMA ThreadStep ==
    ASSUME TypeOK, Lock, Threads, MaxStops <= 1, Next
    PROVE  Threads'
<1>. SUFFICES ASSUME NEW a \in Actors PROVE ThreadOf(a)'
  BY DEF Threads
<1>1. ASSUME NEW r \in Runs, Message(r)
      PROVE  ThreadOf(a)'
  BY <1>1, CheckpointsAssumption DEF Message, Active, Adrift, run, store,
     door, Lock, Locked, Threads, ThreadOf, TypeOK, Actors, Ops, OfSession,
     Over, Transaction, Jobs, Talking
<1>2. ASSUME NEW r \in Runs, Load(r)
      PROVE  ThreadOf(a)'
  BY <1>2, CheckpointsAssumption DEF Load, run, store, door, Lock, Locked,
     Threads, ThreadOf, TypeOK, Actors, Ops, OfSession, Over, Transaction,
     Jobs, Talking, Adrift
<1>3. ASSUME NEW r \in Runs, Command(r)
      PROVE  ThreadOf(a)'
  BY <1>3, CheckpointsAssumption DEF Command, run, store, door, Lock,
     Locked, Threads, ThreadOf, TypeOK, Actors, Ops, OfSession, Over,
     Transaction, Jobs, Talking, Adrift
<1>4. ASSUME NEW r \in Runs, SaveBegins(r)
      PROVE  ThreadOf(a)'
  BY <1>4, CheckpointsAssumption DEF SaveBegins, run, store, door, Lock,
     Locked, Threads, ThreadOf, TypeOK, Actors, Ops, OfSession, Over,
     Transaction, Jobs, Talking, Adrift
<1>5. ASSUME NEW r \in Runs, SaveEnds(r)
      PROVE  ThreadOf(a)'
  BY <1>5, CheckpointsAssumption DEF SaveEnds, Saved, run, store, door,
     Lock, Locked, Threads, ThreadOf, TypeOK, Actors, Ops, OfSession, Over,
     Transaction, Jobs, Talking, Adrift
<1>6. ASSUME NEW r \in Runs, ChatEnds(r)
      PROVE  ThreadOf(a)'
  BY <1>6, CheckpointsAssumption DEF ChatEnds, run, store, door, Lock,
     Locked, Threads, ThreadOf, TypeOK, Actors, Ops, OfSession, Over,
     Transaction, Jobs, Talking, Adrift
<1>7. ASSUME NEW r \in Runs, Stored(r)
      PROVE  ThreadOf(a)'
  BY <1>7, CheckpointsAssumption DEF Stored, Saved, run, store, door, Lock,
     Locked, Threads, ThreadOf, TypeOK, Actors, Ops, OfSession, Over,
     Transaction, Jobs, Talking, Adrift
<1>8. ASSUME NEW r \in Runs, DrainEnds(r)
      PROVE  ThreadOf(a)'
  BY <1>8, CheckpointsAssumption DEF DrainEnds, run, store, door, Lock,
     Locked, Threads, ThreadOf, TypeOK, Actors, Ops, OfSession, Over,
     Transaction, Jobs, Talking, Adrift
<1>9. ASSUME NEW r \in Runs, Rescued(r)
      PROVE  ThreadOf(a)'
  BY <1>9, CheckpointsAssumption DEF Rescued, Saved, run, store, door, Lock,
     Locked, Threads, ThreadOf, TypeOK, Actors, Ops, OfSession, Over,
     Transaction, Jobs, Talking, Adrift
<1>10. ASSUME NEW r \in Runs, Stop(r)
      PROVE  ThreadOf(a)'
  BY <1>10, CheckpointsAssumption, EndsFacts DEF Stop, StopTalking,
     StopOutside, Abandoned, StopWorking, Active, Adrift, run, store, door,
     Lock, Locked, Threads, ThreadOf, TypeOK, Actors, Ops, OfSession, Over,
     Transaction, Jobs, Talking
<1>11. ASSUME NEW c \in Callers, Request(c)
      PROVE  ThreadOf(a)'
  BY <1>11, CheckpointsAssumption DEF Request, run, store, door, Lock,
     Locked, Threads, ThreadOf, TypeOK, Actors, Ops, OfSession, Over,
     Transaction, Jobs, Talking, Adrift
<1>12. ASSUME NEW c \in Callers, Delete(c)
      PROVE  ThreadOf(a)'
  BY <1>12, CheckpointsAssumption DEF Delete, run, store, door, Lock,
     Locked, Threads, ThreadOf, TypeOK, Actors, Ops, OfSession, Over,
     Transaction, Jobs, Talking, Adrift
<1>13. ASSUME NEW c \in Callers, Gathered(c)
      PROVE  ThreadOf(a)'
  BY <1>13, CheckpointsAssumption DEF Gathered, run, store, door, Lock,
     Locked, Threads, ThreadOf, TypeOK, Actors, Ops, OfSession, Over,
     Transaction, Jobs, Talking, Adrift
<1>14. ASSUME NEW x \in Autos, Fires(x)
      PROVE  ThreadOf(a)'
  BY <1>14, CheckpointsAssumption DEF Fires, run, store, door, Lock, Locked,
     Threads, ThreadOf, TypeOK, Actors, Ops, OfSession, Over, Transaction,
     Jobs, Talking, Adrift
<1>15. ASSUME NEW b \in Actors, Acquire(b)
      PROVE  ThreadOf(a)'
  BY <1>15, CheckpointsAssumption DEF Acquire, Begin, run, store, door,
     Lock, Locked, Threads, ThreadOf, TypeOK, Actors, Ops, OfSession, Over,
     Transaction, Jobs, Talking, Adrift
<1>16. ASSUME NEW b \in Actors, Quiesced(b)
      PROVE  ThreadOf(a)'
  BY <1>16, CheckpointsAssumption DEF Quiesced, Idle, Active, Adrift, run,
     store, door, Lock, Locked, Threads, ThreadOf, TypeOK, Actors, Ops,
     OfSession, Over, Transaction, Jobs, Talking
<1>17. ASSUME NEW b \in Actors, QuiesceTimeout(b)
      PROVE  ThreadOf(a)'
  BY <1>17, CheckpointsAssumption, EndsFacts DEF QuiesceTimeout, run, store,
     door, Lock, Locked, Threads, ThreadOf, TypeOK, Actors, Ops, OfSession,
     Over, Transaction, Jobs, Talking, Adrift
<1>18. ASSUME NEW b \in Actors, Prepared(b)
      PROVE  ThreadOf(a)'
  BY <1>18, CheckpointsAssumption, EndsFacts DEF Prepared, Stopped, run,
     store, door, Lock, Locked, Threads, ThreadOf, TypeOK, Actors, Ops,
     OfSession, Over, Transaction, Jobs, Talking, Adrift
<1>19. ASSUME NEW b \in Actors, Finishes(b)
      PROVE  ThreadOf(a)'
  BY <1>19, CheckpointsAssumption, EndsFacts DEF Finishes, run, store, door,
     Lock, Locked, Threads, ThreadOf, TypeOK, Actors, Ops, OfSession, Over,
     Transaction, Jobs, Talking, Adrift
<1>20. ASSUME NEW b \in Actors, Prepare(b),
         UNCHANGED <<pc, op, run, door, timer, gathers, spoiled>>
      PROVE  ThreadOf(a)'
  BY <1>20, CheckpointsAssumption DEF Prepare, Goes, Heads, run, store,
     door, Lock, Locked, Threads, ThreadOf, TypeOK, Actors, Ops, OfSession,
     Over, Transaction, Jobs, Talking, Adrift
<1>21. ASSUME NEW b \in Actors, Snapshot(b),
         UNCHANGED <<pc, op, run, door, timer, gathers, spoiled>>
      PROVE  ThreadOf(a)'
  BY <1>21, CheckpointsAssumption DEF Snapshot, Goes, Snaps, run, store,
     door, Lock, Locked, Threads, ThreadOf, TypeOK, Actors, Ops, OfSession,
     Over, Transaction, Jobs, Talking, Adrift
<1>22. ASSUME NEW b \in Actors, Capture(b),
         UNCHANGED <<pc, op, run, door, timer, gathers, spoiled>>
      PROVE  ThreadOf(a)'
  BY <1>22, CheckpointsAssumption DEF Capture, Goes, Snaps, run, store,
     door, Lock, Locked, Threads, ThreadOf, TypeOK, Actors, Ops, OfSession,
     Over, Transaction, Jobs, Talking, Adrift
<1>23. ASSUME NEW b \in Actors, WriteFile(b),
         UNCHANGED <<pc, op, run, door, timer, gathers, spoiled>>
      PROVE  ThreadOf(a)'
  BY <1>23, CheckpointsAssumption DEF WriteFile, Goes, run, store, door,
     Lock, Locked, Threads, ThreadOf, TypeOK, Actors, Ops, OfSession, Over,
     Transaction, Jobs, Talking, Adrift
<1>24. ASSUME NEW b \in Actors, SetHead(b),
         UNCHANGED <<pc, op, run, door, timer, gathers, spoiled>>
      PROVE  ThreadOf(a)'
  BY <1>24, CheckpointsAssumption DEF SetHead, Goes, run, store, door, Lock,
     Locked, Threads, ThreadOf, TypeOK, Actors, Ops, OfSession, Over,
     Transaction, Jobs, Talking, Adrift
<1>25. ASSUME NEW b \in Actors, Undo(b),
         UNCHANGED <<pc, op, run, door, timer, gathers, spoiled>>
      PROVE  ThreadOf(a)'
  BY <1>25, CheckpointsAssumption DEF Undo, Goes, run, store, door, Lock,
     Locked, Threads, ThreadOf, TypeOK, Actors, Ops, OfSession, Over,
     Transaction, Jobs, Talking, Adrift
<1>26. ASSUME NEW b \in Actors, UndoHead(b),
         UNCHANGED <<pc, op, run, door, timer, gathers, spoiled>>
      PROVE  ThreadOf(a)'
  BY <1>26, CheckpointsAssumption DEF UndoHead, Goes, run, store, door,
     Lock, Locked, Threads, ThreadOf, TypeOK, Actors, Ops, OfSession, Over,
     Transaction, Jobs, Talking, Adrift
<1>27. ASSUME NEW b \in Actors, Collect(b),
         UNCHANGED <<pc, op, run, door, timer, gathers, spoiled>>
      PROVE  ThreadOf(a)'
  BY <1>27, CheckpointsAssumption DEF Collect, Goes, Heads, run, store,
     door, Lock, Locked, Threads, ThreadOf, TypeOK, Actors, Ops, OfSession,
     Over, Transaction, Jobs, Talking, Adrift
<1>28. ASSUME NEW b \in Actors, Erase(b),
         UNCHANGED <<pc, op, run, door, timer, gathers, spoiled>>
      PROVE  ThreadOf(a)'
  BY <1>28, CheckpointsAssumption DEF Erase, Goes, run, store, door, Lock,
     Locked, Threads, ThreadOf, TypeOK, Actors, Ops, OfSession, Over,
     Transaction, Jobs, Talking, Adrift
<1>29. ASSUME NEW b \in Actors, Elsewhere(b),
         UNCHANGED <<pc, op, run, door, timer, gathers, spoiled>>
      PROVE  ThreadOf(a)'
  BY <1>29, CheckpointsAssumption DEF Elsewhere, Goes, run, store, door,
     Lock, Locked, Threads, ThreadOf, TypeOK, Actors, Ops, OfSession, Over,
     Transaction, Jobs, Talking, Adrift
<1>30. ASSUME NEW r \in Runs, Finished(r)
      PROVE  ThreadOf(a)'
  BY <1>30, CheckpointsAssumption DEF Finished, run, store, door, Lock,
     Locked, Threads, ThreadOf, TypeOK, Actors, Ops, OfSession, Over,
     Transaction, Jobs, Talking, Adrift
<1>31. ASSUME NEW r \in Runs, Fails(r)
      PROVE  ThreadOf(a)'
  BY <1>31, CheckpointsAssumption DEF Fails, run, store, door, Lock, Locked,
     Threads, ThreadOf, TypeOK, Actors, Ops, OfSession, Over, Transaction,
     Jobs, Talking, Adrift
<1>32. ASSUME NEW r \in Runs, PersistFails(r)
      PROVE  ThreadOf(a)'
  BY <1>32, CheckpointsAssumption DEF PersistFails, Abandoned, run, store,
     door, Lock, Locked, Threads, ThreadOf, TypeOK, Actors, Ops, OfSession,
     Over, Transaction, Jobs, Talking, Adrift
<1>. QED
  BY <1>1, <1>2, <1>3, <1>4, <1>5, <1>6, <1>7, <1>8, <1>9, <1>10, <1>11,
     <1>12, <1>13, <1>14, <1>15, <1>16, <1>17, <1>18, <1>19, <1>20, <1>21,
     <1>22, <1>23, <1>24, <1>25, <1>26, <1>27, <1>28, <1>29, <1>30,
     <1>31, <1>32 DEF Next, Step, RunStep, OpStep, Thread, Actors

LEMMA SaveStep ==
    ASSUME TypeOK, Saves, MaxStops <= 1, Next
    PROVE  Saves'
<1>1. ASSUME NEW r \in Runs, Message(r)
      PROVE  Saves'
  BY <1>1, CheckpointsAssumption DEF Message, Active, Adrift, run, store,
     door, Saves, TypeOK, Actors
<1>2. ASSUME NEW r \in Runs, Load(r)
      PROVE  Saves'
  BY <1>2, CheckpointsAssumption DEF Load, run, store, door, Saves, TypeOK,
     Actors
<1>3. ASSUME NEW r \in Runs, Command(r)
      PROVE  Saves'
  BY <1>3, CheckpointsAssumption DEF Command, run, store, door, Saves,
     TypeOK, Actors
<1>4. ASSUME NEW r \in Runs, SaveBegins(r)
      PROVE  Saves'
  BY <1>4, CheckpointsAssumption DEF SaveBegins, run, store, door, Saves,
     TypeOK, Actors
<1>5. ASSUME NEW r \in Runs, SaveEnds(r)
      PROVE  Saves'
  BY <1>5, CheckpointsAssumption DEF SaveEnds, Saved, run, store, door,
     Saves, TypeOK, Actors
<1>6. ASSUME NEW r \in Runs, ChatEnds(r)
      PROVE  Saves'
  BY <1>6, CheckpointsAssumption DEF ChatEnds, run, store, door, Saves,
     TypeOK, Actors
<1>7. ASSUME NEW r \in Runs, Stored(r)
      PROVE  Saves'
  BY <1>7, CheckpointsAssumption DEF Stored, Saved, run, store, door, Saves,
     TypeOK, Actors
<1>8. ASSUME NEW r \in Runs, DrainEnds(r)
      PROVE  Saves'
  BY <1>8, CheckpointsAssumption DEF DrainEnds, run, store, door, Saves,
     TypeOK, Actors
<1>9. ASSUME NEW r \in Runs, Rescued(r)
      PROVE  Saves'
  BY <1>9, CheckpointsAssumption DEF Rescued, Saved, run, store, door,
     Saves, TypeOK, Actors
<1>10. ASSUME NEW r \in Runs, Stop(r)
      PROVE  Saves'
  BY <1>10, CheckpointsAssumption, EndsFacts DEF Stop, Talking, StopTalking,
     StopOutside, Abandoned, StopWorking, Active, Adrift, run, store, door,
     Saves, TypeOK, Actors
<1>11. ASSUME NEW c \in Callers, Request(c)
      PROVE  Saves'
  BY <1>11, CheckpointsAssumption DEF Request, run, store, door, Saves,
     TypeOK, Actors
<1>12. ASSUME NEW c \in Callers, Delete(c)
      PROVE  Saves'
  BY <1>12, CheckpointsAssumption DEF Delete, run, store, door, Saves,
     TypeOK, Actors
<1>13. ASSUME NEW c \in Callers, Gathered(c)
      PROVE  Saves'
  BY <1>13, CheckpointsAssumption DEF Gathered, run, store, door, Saves,
     TypeOK, Actors
<1>14. ASSUME NEW x \in Autos, Fires(x)
      PROVE  Saves'
  BY <1>14, CheckpointsAssumption DEF Fires, run, store, door, Saves,
     TypeOK, Actors
<1>15. ASSUME NEW b \in Actors, Acquire(b)
      PROVE  Saves'
  BY <1>15, CheckpointsAssumption DEF Acquire, Begin, run, store, door,
     Saves, TypeOK, Actors
<1>16. ASSUME NEW b \in Actors, Quiesced(b)
      PROVE  Saves'
  BY <1>16, CheckpointsAssumption DEF Quiesced, Idle, Active, Adrift, run,
     store, door, Saves, TypeOK, Actors
<1>17. ASSUME NEW b \in Actors, QuiesceTimeout(b)
      PROVE  Saves'
  BY <1>17, CheckpointsAssumption, EndsFacts DEF QuiesceTimeout, run, store,
     door, Saves, TypeOK, Actors
<1>18. ASSUME NEW b \in Actors, Prepared(b)
      PROVE  Saves'
  BY <1>18, CheckpointsAssumption, EndsFacts DEF Prepared, Stopped, run,
     store, door, Saves, TypeOK, Actors
<1>19. ASSUME NEW b \in Actors, Finishes(b)
      PROVE  Saves'
  BY <1>19, CheckpointsAssumption, EndsFacts DEF Finishes, run, store, door,
     Saves, TypeOK, Actors
<1>20. ASSUME NEW b \in Actors, Prepare(b),
         UNCHANGED <<pc, op, run, door, timer, gathers, spoiled>>
      PROVE  Saves'
  BY <1>20, CheckpointsAssumption DEF Prepare, Goes, Heads, run, store,
     door, Saves, TypeOK, Actors
<1>21. ASSUME NEW b \in Actors, Snapshot(b),
         UNCHANGED <<pc, op, run, door, timer, gathers, spoiled>>
      PROVE  Saves'
  BY <1>21, CheckpointsAssumption DEF Snapshot, Goes, Snaps, run, store,
     door, Saves, TypeOK, Actors
<1>22. ASSUME NEW b \in Actors, Capture(b),
         UNCHANGED <<pc, op, run, door, timer, gathers, spoiled>>
      PROVE  Saves'
  BY <1>22, CheckpointsAssumption DEF Capture, Goes, Snaps, run, store,
     door, Saves, TypeOK, Actors
<1>23. ASSUME NEW b \in Actors, WriteFile(b),
         UNCHANGED <<pc, op, run, door, timer, gathers, spoiled>>
      PROVE  Saves'
  BY <1>23, CheckpointsAssumption DEF WriteFile, Goes, run, store, door,
     Saves, TypeOK, Actors
<1>24. ASSUME NEW b \in Actors, SetHead(b),
         UNCHANGED <<pc, op, run, door, timer, gathers, spoiled>>
      PROVE  Saves'
  BY <1>24, CheckpointsAssumption DEF SetHead, Goes, run, store, door,
     Saves, TypeOK, Actors
<1>25. ASSUME NEW b \in Actors, Undo(b),
         UNCHANGED <<pc, op, run, door, timer, gathers, spoiled>>
      PROVE  Saves'
  BY <1>25, CheckpointsAssumption DEF Undo, Goes, run, store, door, Saves,
     TypeOK, Actors
<1>26. ASSUME NEW b \in Actors, UndoHead(b),
         UNCHANGED <<pc, op, run, door, timer, gathers, spoiled>>
      PROVE  Saves'
  BY <1>26, CheckpointsAssumption DEF UndoHead, Goes, run, store, door,
     Saves, TypeOK, Actors
<1>27. ASSUME NEW b \in Actors, Collect(b),
         UNCHANGED <<pc, op, run, door, timer, gathers, spoiled>>
      PROVE  Saves'
  BY <1>27, CheckpointsAssumption DEF Collect, Goes, Heads, run, store,
     door, Saves, TypeOK, Actors
<1>28. ASSUME NEW b \in Actors, Erase(b),
         UNCHANGED <<pc, op, run, door, timer, gathers, spoiled>>
      PROVE  Saves'
  BY <1>28, CheckpointsAssumption DEF Erase, Goes, run, store, door, Saves,
     TypeOK, Actors
<1>29. ASSUME NEW b \in Actors, Elsewhere(b),
         UNCHANGED <<pc, op, run, door, timer, gathers, spoiled>>
      PROVE  Saves'
  BY <1>29, CheckpointsAssumption DEF Elsewhere, Goes, run, store, door,
     Saves, TypeOK, Actors
<1>30. ASSUME NEW r \in Runs, Finished(r)
      PROVE  Saves'
  BY <1>30, CheckpointsAssumption DEF Finished, run, store, door, Saves,
     TypeOK, Actors
<1>31. ASSUME NEW r \in Runs, Fails(r)
      PROVE  Saves'
  BY <1>31, CheckpointsAssumption DEF Fails, run, store, door, Saves,
     TypeOK, Actors
<1>32. ASSUME NEW r \in Runs, PersistFails(r)
      PROVE  Saves'
  BY <1>32, CheckpointsAssumption DEF PersistFails, Abandoned, run, store,
     door, Saves, TypeOK, Actors
<1>. QED
  BY <1>1, <1>2, <1>3, <1>4, <1>5, <1>6, <1>7, <1>8, <1>9, <1>10, <1>11,
     <1>12, <1>13, <1>14, <1>15, <1>16, <1>17, <1>18, <1>19, <1>20, <1>21,
     <1>22, <1>23, <1>24, <1>25, <1>26, <1>27, <1>28, <1>29, <1>30,
     <1>31, <1>32 DEF Next, Step, RunStep, OpStep, Thread, Actors

LEMMA QuietStep ==
    ASSUME TypeOK, Lock, Quiet, Threads, MaxStops <= 1, Next
    PROVE  Quiet'
<1>1. ASSUME NEW r \in Runs, Message(r)
      PROVE  Quiet'
  BY <1>1, CheckpointsAssumption DEF Message, Active, Adrift, run, store,
     door, Quiet, Lock, Locked, Threads, ThreadOf, TypeOK, Actors
<1>2. ASSUME NEW r \in Runs, Load(r)
      PROVE  Quiet'
  BY <1>2, CheckpointsAssumption DEF Load, run, store, door, Quiet, Adrift,
     Lock, Locked, Threads, ThreadOf, TypeOK, Actors
<1>3. ASSUME NEW r \in Runs, Command(r)
      PROVE  Quiet'
  BY <1>3, CheckpointsAssumption DEF Command, run, store, door, Quiet,
     Adrift, Lock, Locked, Threads, ThreadOf, TypeOK, Actors
<1>4. ASSUME NEW r \in Runs, SaveBegins(r)
      PROVE  Quiet'
  BY <1>4, CheckpointsAssumption DEF SaveBegins, run, store, door, Quiet,
     Adrift, Lock, Locked, Threads, ThreadOf, TypeOK, Actors
<1>5. ASSUME NEW r \in Runs, SaveEnds(r)
      PROVE  Quiet'
  BY <1>5, CheckpointsAssumption DEF SaveEnds, Saved, run, store, door,
     Quiet, Adrift, Lock, Locked, Threads, ThreadOf, TypeOK, Actors
<1>6. ASSUME NEW r \in Runs, ChatEnds(r)
      PROVE  Quiet'
  BY <1>6, CheckpointsAssumption DEF ChatEnds, run, store, door, Quiet,
     Adrift, Lock, Locked, Threads, ThreadOf, TypeOK, Actors
<1>7. ASSUME NEW r \in Runs, Stored(r)
      PROVE  Quiet'
  BY <1>7, CheckpointsAssumption DEF Stored, Saved, run, store, door, Quiet,
     Adrift, Lock, Locked, Threads, ThreadOf, TypeOK, Actors
<1>8. ASSUME NEW r \in Runs, DrainEnds(r)
      PROVE  Quiet'
  BY <1>8, CheckpointsAssumption DEF DrainEnds, run, store, door, Quiet,
     Adrift, Lock, Locked, Threads, ThreadOf, TypeOK, Actors
<1>9. ASSUME NEW r \in Runs, Rescued(r)
      PROVE  Quiet'
  BY <1>9, CheckpointsAssumption DEF Rescued, Saved, run, store, door,
     Quiet, Adrift, Lock, Locked, Threads, ThreadOf, TypeOK, Actors
<1>10. ASSUME NEW r \in Runs, Stop(r)
      PROVE  Quiet'
  BY <1>10, CheckpointsAssumption, EndsFacts DEF Stop, Talking, StopTalking,
     StopOutside, Abandoned, StopWorking, Active, Adrift, run, store, door,
     Quiet, Lock, Locked, Threads, ThreadOf, TypeOK, Actors
<1>11. ASSUME NEW c \in Callers, Request(c)
      PROVE  Quiet'
  BY <1>11, CheckpointsAssumption DEF Request, run, store, door, Quiet,
     Adrift, Lock, Locked, Threads, ThreadOf, TypeOK, Actors
<1>12. ASSUME NEW c \in Callers, Delete(c)
      PROVE  Quiet'
  BY <1>12, CheckpointsAssumption DEF Delete, run, store, door, Quiet,
     Adrift, Lock, Locked, Threads, ThreadOf, TypeOK, Actors
<1>13. ASSUME NEW c \in Callers, Gathered(c)
      PROVE  Quiet'
  BY <1>13, CheckpointsAssumption DEF Gathered, run, store, door, Quiet,
     Adrift, Lock, Locked, Threads, ThreadOf, TypeOK, Actors
<1>14. ASSUME NEW x \in Autos, Fires(x)
      PROVE  Quiet'
  BY <1>14, CheckpointsAssumption DEF Fires, run, store, door, Quiet,
     Adrift, Lock, Locked, Threads, ThreadOf, TypeOK, Actors
<1>15. ASSUME NEW b \in Actors, Acquire(b)
      PROVE  Quiet'
  BY <1>15, CheckpointsAssumption DEF Acquire, Begin, run, store, door,
     Quiet, Adrift, Lock, Locked, Threads, ThreadOf, TypeOK, Actors
<1>16. ASSUME NEW b \in Actors, Quiesced(b)
      PROVE  Quiet'
  BY <1>16, CheckpointsAssumption DEF Quiesced, Idle, Active, Adrift, run,
     store, door, Quiet, Lock, Locked, Threads, ThreadOf, TypeOK, Actors
<1>17. ASSUME NEW b \in Actors, QuiesceTimeout(b)
      PROVE  Quiet'
  BY <1>17, CheckpointsAssumption, EndsFacts DEF QuiesceTimeout, run, store,
     door, Quiet, Adrift, Lock, Locked, Threads, ThreadOf, TypeOK, Actors
<1>18. ASSUME NEW b \in Actors, Prepared(b)
      PROVE  Quiet'
  BY <1>18, CheckpointsAssumption, EndsFacts DEF Prepared, Stopped, run,
     store, door, Quiet, Adrift, Lock, Locked, Threads, ThreadOf, TypeOK,
     Actors
<1>19. ASSUME NEW b \in Actors, Finishes(b)
      PROVE  Quiet'
  BY <1>19, CheckpointsAssumption, EndsFacts DEF Finishes, run, store, door,
     Quiet, Adrift, Lock, Locked, Threads, ThreadOf, TypeOK, Actors
<1>20. ASSUME NEW b \in Actors, Prepare(b),
         UNCHANGED <<pc, op, run, door, timer, gathers, spoiled>>
      PROVE  Quiet'
  BY <1>20, CheckpointsAssumption DEF Prepare, Goes, Heads, run, store,
     door, Quiet, Adrift, Lock, Locked, Threads, ThreadOf, TypeOK, Actors
<1>21. ASSUME NEW b \in Actors, Snapshot(b),
         UNCHANGED <<pc, op, run, door, timer, gathers, spoiled>>
      PROVE  Quiet'
  BY <1>21, CheckpointsAssumption DEF Snapshot, Goes, Snaps, run, store,
     door, Quiet, Adrift, Lock, Locked, Threads, ThreadOf, TypeOK, Actors
<1>22. ASSUME NEW b \in Actors, Capture(b),
         UNCHANGED <<pc, op, run, door, timer, gathers, spoiled>>
      PROVE  Quiet'
  BY <1>22, CheckpointsAssumption DEF Capture, Goes, Snaps, run, store,
     door, Quiet, Adrift, Lock, Locked, Threads, ThreadOf, TypeOK, Actors
<1>23. ASSUME NEW b \in Actors, WriteFile(b),
         UNCHANGED <<pc, op, run, door, timer, gathers, spoiled>>
      PROVE  Quiet'
  BY <1>23, CheckpointsAssumption DEF WriteFile, Goes, run, store, door,
     Quiet, Adrift, Lock, Locked, Threads, ThreadOf, TypeOK, Actors
<1>24. ASSUME NEW b \in Actors, SetHead(b),
         UNCHANGED <<pc, op, run, door, timer, gathers, spoiled>>
      PROVE  Quiet'
  BY <1>24, CheckpointsAssumption DEF SetHead, Goes, run, store, door,
     Quiet, Adrift, Lock, Locked, Threads, ThreadOf, TypeOK, Actors
<1>25. ASSUME NEW b \in Actors, Undo(b),
         UNCHANGED <<pc, op, run, door, timer, gathers, spoiled>>
      PROVE  Quiet'
  BY <1>25, CheckpointsAssumption DEF Undo, Goes, run, store, door, Quiet,
     Adrift, Lock, Locked, Threads, ThreadOf, TypeOK, Actors
<1>26. ASSUME NEW b \in Actors, UndoHead(b),
         UNCHANGED <<pc, op, run, door, timer, gathers, spoiled>>
      PROVE  Quiet'
  BY <1>26, CheckpointsAssumption DEF UndoHead, Goes, run, store, door,
     Quiet, Adrift, Lock, Locked, Threads, ThreadOf, TypeOK, Actors
<1>27. ASSUME NEW b \in Actors, Collect(b),
         UNCHANGED <<pc, op, run, door, timer, gathers, spoiled>>
      PROVE  Quiet'
  BY <1>27, CheckpointsAssumption DEF Collect, Goes, Heads, run, store,
     door, Quiet, Adrift, Lock, Locked, Threads, ThreadOf, TypeOK, Actors
<1>28. ASSUME NEW b \in Actors, Erase(b),
         UNCHANGED <<pc, op, run, door, timer, gathers, spoiled>>
      PROVE  Quiet'
  BY <1>28, CheckpointsAssumption DEF Erase, Goes, run, store, door, Quiet,
     Adrift, Lock, Locked, Threads, ThreadOf, TypeOK, Actors
<1>29. ASSUME NEW b \in Actors, Elsewhere(b),
         UNCHANGED <<pc, op, run, door, timer, gathers, spoiled>>
      PROVE  Quiet'
  BY <1>29, CheckpointsAssumption DEF Elsewhere, Goes, run, store, door,
     Quiet, Adrift, Lock, Locked, Threads, ThreadOf, TypeOK, Actors
<1>30. ASSUME NEW r \in Runs, Finished(r)
      PROVE  Quiet'
  BY <1>30, CheckpointsAssumption DEF Finished, run, store, door, Quiet,
     Adrift, Lock, Locked, Threads, ThreadOf, TypeOK, Actors
<1>31. ASSUME NEW r \in Runs, Fails(r)
      PROVE  Quiet'
  BY <1>31, CheckpointsAssumption DEF Fails, run, store, door, Quiet,
     Adrift, Lock, Locked, Threads, ThreadOf, TypeOK, Actors
<1>32. ASSUME NEW r \in Runs, PersistFails(r)
      PROVE  Quiet'
  BY <1>32, CheckpointsAssumption DEF PersistFails, Abandoned, run, store,
     door, Quiet, Adrift, Lock, Locked, Threads, ThreadOf, TypeOK, Actors
<1>. QED
  BY <1>1, <1>2, <1>3, <1>4, <1>5, <1>6, <1>7, <1>8, <1>9, <1>10, <1>11,
     <1>12, <1>13, <1>14, <1>15, <1>16, <1>17, <1>18, <1>19, <1>20, <1>21,
     <1>22, <1>23, <1>24, <1>25, <1>26, <1>27, <1>28, <1>29, <1>30,
     <1>31, <1>32 DEF Next, Step, RunStep, OpStep, Thread, Actors

\* Whoever saves while a restore of the session works was left behind.
LEMMA LeftSaves ==
    ASSUME TypeOK, Quiet, Saves, NEW a \in Actors, pc[a] = "applying", OfSession(a),
           job[a] # "capture", NEW r \in Runs, Saved(r),
           writes[r] > 0 \/ pc[r] \in {"storing", "rescuing", "salvaging"}
    PROVE  spoiled'
<1>1. pc[r] \in {"new", "waiting", "done", "applying"} \cup Adrift
  BY DEF Quiet
<1>2. pc[r] \in Adrift \/ (pc[r] = "done" /\ writes[r] > 0)
  BY <1>1 DEF Saves, Adrift
<1>3. LeftBehind(r)
  BY <1>2 DEF LeftBehind
<1>4. Restoring
  BY DEF Restoring
<1>. QED
  BY <1>3, <1>4 DEF Saved

LEMMA PlanStep ==
    ASSUME IInv, MaxStops <= 1, Next
    PROVE  Plans'
<1>. SUFFICES ASSUME NEW a \in Actors PROVE PlanOf(a)'
  BY DEF Plans
<1>1. ASSUME NEW r \in Runs, Message(r)
      PROVE  PlanOf(a)'
  BY <1>1, CheckpointsAssumption DEF Message, Active, Adrift, run, store,
     door, IInv, Plans, PlanOf, Quiet, Lock, Locked, Threads, ThreadOf, Saves,
     TypeOK, Actors, OfSession, NoPlan, None, Over, Transaction
<1>2. ASSUME NEW r \in Runs, Load(r)
      PROVE  PlanOf(a)'
  BY <1>2, CheckpointsAssumption DEF Load, run, store, door, IInv, Plans,
     PlanOf, Quiet, Adrift, Lock, Locked, Threads, ThreadOf, Saves, TypeOK,
     Actors, OfSession, NoPlan, None, Over, Transaction
<1>3. ASSUME NEW r \in Runs, Command(r)
      PROVE  PlanOf(a)'
  BY <1>3, CheckpointsAssumption DEF Command, run, store, door, IInv, Plans,
     PlanOf, Quiet, Adrift, Lock, Locked, Threads, ThreadOf, Saves, TypeOK,
     Actors, OfSession, NoPlan, None, Over, Transaction
<1>4. ASSUME NEW r \in Runs, SaveBegins(r)
      PROVE  PlanOf(a)'
  BY <1>4, CheckpointsAssumption DEF SaveBegins, run, store, door, IInv,
     Plans, PlanOf, Quiet, Adrift, Lock, Locked, Threads, ThreadOf, Saves,
     TypeOK, Actors, OfSession, NoPlan, None, Over, Transaction
<1>5. ASSUME NEW r \in Runs, SaveEnds(r)
      PROVE  PlanOf(a)'
  <2>1. Saved(r) \/ UNCHANGED store
    BY <1>5 DEF SaveEnds
  <2>2. /\ UNCHANGED <<job, plan, ours>>
        /\ "applying" \in {pc[a], pc'[a]} => pc'[a] = pc[a]
        /\ "preparing" \in {pc[a], pc'[a]} => pc'[a] = pc[a]
        /\ pc'[a] # pc[a] => plan[a].pre = None
    BY <1>5 DEF SaveEnds, run, IInv, TypeOK, Plans, PlanOf, Actors
  <2>3. UNCHANGED <<refs, head>>
    BY <2>1 DEF Saved, store
  <2>4. pc[a] = "applying" /\ OfSession(a) /\ job[a] # "capture" =>
          UNCHANGED <<file, spoiled>> \/ spoiled'
    <3>1. writes[r] > 0 \/ pc[r] \in {"storing", "rescuing", "salvaging"}
      BY <1>5 DEF SaveEnds
    <3>2. CASE Saved(r)
      BY <3>1, <3>2, LeftSaves DEF IInv
    <3>3. CASE UNCHANGED store
      BY <3>3 DEF store
    <3>. QED
      BY <2>1, <3>2, <3>3
  <2>. QED
    BY <2>2, <2>3, <2>4 DEF IInv, Plans, PlanOf, OfSession
<1>6. ASSUME NEW r \in Runs, ChatEnds(r)
      PROVE  PlanOf(a)'
  BY <1>6, CheckpointsAssumption DEF ChatEnds, run, store, door, IInv,
     Plans, PlanOf, Quiet, Adrift, Lock, Locked, Threads, ThreadOf, Saves,
     TypeOK, Actors, OfSession, NoPlan, None, Over, Transaction
<1>7. ASSUME NEW r \in Runs, Stored(r)
      PROVE  PlanOf(a)'
  <2>1. Saved(r) \/ UNCHANGED store
    BY <1>7 DEF Stored
  <2>2. /\ UNCHANGED <<job, plan, ours>>
        /\ "applying" \in {pc[a], pc'[a]} => pc'[a] = pc[a]
        /\ "preparing" \in {pc[a], pc'[a]} => pc'[a] = pc[a]
        /\ pc'[a] # pc[a] => plan[a].pre = None
    BY <1>7 DEF Stored, run, IInv, TypeOK, Plans, PlanOf, Actors
  <2>3. UNCHANGED <<refs, head>>
    BY <2>1 DEF Saved, store
  <2>4. pc[a] = "applying" /\ OfSession(a) /\ job[a] # "capture" =>
          UNCHANGED <<file, spoiled>> \/ spoiled'
    <3>1. writes[r] > 0 \/ pc[r] \in {"storing", "rescuing", "salvaging"}
      BY <1>7 DEF Stored
    <3>2. CASE Saved(r)
      BY <3>1, <3>2, LeftSaves DEF IInv
    <3>3. CASE UNCHANGED store
      BY <3>3 DEF store
    <3>. QED
      BY <2>1, <3>2, <3>3
  <2>. QED
    BY <2>2, <2>3, <2>4 DEF IInv, Plans, PlanOf, OfSession
<1>8. ASSUME NEW r \in Runs, DrainEnds(r)
      PROVE  PlanOf(a)'
  BY <1>8, CheckpointsAssumption DEF DrainEnds, run, store, door, IInv,
     Plans, PlanOf, Quiet, Adrift, Lock, Locked, Threads, ThreadOf, Saves,
     TypeOK, Actors, OfSession, NoPlan, None, Over, Transaction
<1>9. ASSUME NEW r \in Runs, Rescued(r)
      PROVE  PlanOf(a)'
  <2>1. Saved(r) \/ UNCHANGED store
    BY <1>9 DEF Rescued
  <2>2. /\ UNCHANGED <<job, plan, ours>>
        /\ "applying" \in {pc[a], pc'[a]} => pc'[a] = pc[a]
        /\ "preparing" \in {pc[a], pc'[a]} => pc'[a] = pc[a]
        /\ pc'[a] # pc[a] => plan[a].pre = None
    BY <1>9 DEF Rescued, run, IInv, TypeOK, Plans, PlanOf, Actors
  <2>3. UNCHANGED <<refs, head>>
    BY <2>1 DEF Saved, store
  <2>4. pc[a] = "applying" /\ OfSession(a) /\ job[a] # "capture" =>
          UNCHANGED <<file, spoiled>> \/ spoiled'
    <3>1. writes[r] > 0 \/ pc[r] \in {"storing", "rescuing", "salvaging"}
      BY <1>9 DEF Rescued
    <3>2. CASE Saved(r)
      BY <3>1, <3>2, LeftSaves DEF IInv
    <3>3. CASE UNCHANGED store
      BY <3>3 DEF store
    <3>. QED
      BY <2>1, <3>2, <3>3
  <2>. QED
    BY <2>2, <2>3, <2>4 DEF IInv, Plans, PlanOf, OfSession
<1>10. ASSUME NEW r \in Runs, Stop(r)
      PROVE  PlanOf(a)'
  BY <1>10, CheckpointsAssumption, EndsFacts DEF Stop, Talking, StopTalking,
     StopOutside, Abandoned, StopWorking, Active, Adrift, run, store, door,
     IInv, Plans, PlanOf, Quiet, Lock, Locked, Threads, ThreadOf, Saves,
     TypeOK, Actors, OfSession, NoPlan, None, Over, Transaction
<1>11. ASSUME NEW c \in Callers, Request(c)
      PROVE  PlanOf(a)'
  BY <1>11, CheckpointsAssumption DEF Request, run, store, door, IInv,
     Plans, PlanOf, Quiet, Adrift, Lock, Locked, Threads, ThreadOf, Saves,
     TypeOK, Actors, OfSession, NoPlan, None, Over, Transaction
<1>12. ASSUME NEW c \in Callers, Delete(c)
      PROVE  PlanOf(a)'
  BY <1>12, CheckpointsAssumption DEF Delete, run, store, door, IInv, Plans,
     PlanOf, Quiet, Adrift, Lock, Locked, Threads, ThreadOf, Saves, TypeOK,
     Actors, OfSession, NoPlan, None, Over, Transaction
<1>13. ASSUME NEW c \in Callers, Gathered(c)
      PROVE  PlanOf(a)'
  BY <1>13, CheckpointsAssumption DEF Gathered, run, store, door, IInv,
     Plans, PlanOf, Quiet, Adrift, Lock, Locked, Threads, ThreadOf, Saves,
     TypeOK, Actors, OfSession, NoPlan, None, Over, Transaction
<1>14. ASSUME NEW x \in Autos, Fires(x)
      PROVE  PlanOf(a)'
  BY <1>14, CheckpointsAssumption DEF Fires, run, store, door, IInv, Plans,
     PlanOf, Quiet, Adrift, Lock, Locked, Threads, ThreadOf, Saves, TypeOK,
     Actors, OfSession, NoPlan, None, Over, Transaction
<1>15. ASSUME NEW b \in Actors, Acquire(b)
      PROVE  PlanOf(a)'
  BY <1>15, CheckpointsAssumption DEF Acquire, Begin, run, store, door,
     IInv, Plans, PlanOf, Quiet, Adrift, Lock, Locked, Threads, ThreadOf,
     Saves, TypeOK, Actors, OfSession, NoPlan, None, Over, Transaction
<1>16. ASSUME NEW b \in Actors, Quiesced(b)
      PROVE  PlanOf(a)'
  BY <1>16, CheckpointsAssumption DEF Quiesced, Idle, Active, Adrift, run,
     store, door, IInv, Plans, PlanOf, Quiet, Lock, Locked, Threads, ThreadOf,
     Saves, TypeOK, Actors, OfSession, NoPlan, None, Over, Transaction
<1>17. ASSUME NEW b \in Actors, QuiesceTimeout(b)
      PROVE  PlanOf(a)'
  BY <1>17, CheckpointsAssumption, EndsFacts DEF QuiesceTimeout, run, store,
     door, IInv, Plans, PlanOf, Quiet, Adrift, Lock, Locked, Threads, ThreadOf,
     Saves, TypeOK, Actors, OfSession, NoPlan, None, Over, Transaction
<1>18. ASSUME NEW b \in Actors, Prepared(b)
      PROVE  PlanOf(a)'
  BY <1>18, CheckpointsAssumption, EndsFacts DEF Prepared, Stopped, run,
     store, door, IInv, Plans, PlanOf, Quiet, Adrift, Lock, Locked, Threads,
     ThreadOf, Saves, TypeOK, Actors, OfSession, NoPlan, None, Over,
     Transaction
<1>19. ASSUME NEW b \in Actors, Finishes(b)
      PROVE  PlanOf(a)'
  BY <1>19, CheckpointsAssumption, EndsFacts DEF Finishes, run, store, door,
     IInv, Plans, PlanOf, Quiet, Adrift, Lock, Locked, Threads, ThreadOf,
     Saves, TypeOK, Actors, OfSession, NoPlan, None, Over, Transaction
<1>20. ASSUME NEW b \in Actors, Prepare(b),
         UNCHANGED <<pc, op, run, door, timer, gathers, spoiled>>
      PROVE  PlanOf(a)'
  BY <1>20, CheckpointsAssumption DEF Prepare, Goes, Heads, run, store,
     door, IInv, Plans, PlanOf, Quiet, Adrift, Lock, Locked, Threads, ThreadOf,
     Saves, TypeOK, Actors, OfSession, NoPlan, None, Over, Transaction
<1>21. ASSUME NEW b \in Actors, Snapshot(b),
         UNCHANGED <<pc, op, run, door, timer, gathers, spoiled>>
      PROVE  PlanOf(a)'
  BY <1>21, CheckpointsAssumption DEF Snapshot, Goes, Snaps, run, store,
     door, IInv, Plans, PlanOf, Quiet, Adrift, Lock, Locked, Threads, ThreadOf,
     Saves, TypeOK, Actors, OfSession, NoPlan, None, Over, Transaction
<1>22. ASSUME NEW b \in Actors, Capture(b),
         UNCHANGED <<pc, op, run, door, timer, gathers, spoiled>>
      PROVE  PlanOf(a)'
  BY <1>22, CheckpointsAssumption DEF Capture, Goes, Snaps, run, store,
     door, IInv, Plans, PlanOf, Quiet, Adrift, Lock, Locked, Threads, ThreadOf,
     Saves, TypeOK, Actors, OfSession, NoPlan, None, Over, Transaction
<1>23. ASSUME NEW b \in Actors, WriteFile(b),
         UNCHANGED <<pc, op, run, door, timer, gathers, spoiled>>
      PROVE  PlanOf(a)'
  BY <1>23, CheckpointsAssumption DEF WriteFile, Goes, run, store, door,
     IInv, Plans, PlanOf, Quiet, Adrift, Lock, Locked, Threads, ThreadOf,
     Saves, TypeOK, Actors, OfSession, NoPlan, None, Over, Transaction
<1>24. ASSUME NEW b \in Actors, SetHead(b),
         UNCHANGED <<pc, op, run, door, timer, gathers, spoiled>>
      PROVE  PlanOf(a)'
  BY <1>24, CheckpointsAssumption DEF SetHead, Goes, run, store, door, IInv,
     Plans, PlanOf, Quiet, Adrift, Lock, Locked, Threads, ThreadOf, Saves,
     TypeOK, Actors, OfSession, NoPlan, None, Over, Transaction
<1>25. ASSUME NEW b \in Actors, Undo(b),
         UNCHANGED <<pc, op, run, door, timer, gathers, spoiled>>
      PROVE  PlanOf(a)'
  BY <1>25, CheckpointsAssumption DEF Undo, Goes, run, store, door, IInv,
     Plans, PlanOf, Quiet, Adrift, Lock, Locked, Threads, ThreadOf, Saves,
     TypeOK, Actors, OfSession, NoPlan, None, Over, Transaction
<1>26. ASSUME NEW b \in Actors, UndoHead(b),
         UNCHANGED <<pc, op, run, door, timer, gathers, spoiled>>
      PROVE  PlanOf(a)'
  BY <1>26, CheckpointsAssumption DEF UndoHead, Goes, run, store, door,
     IInv, Plans, PlanOf, Quiet, Adrift, Lock, Locked, Threads, ThreadOf,
     Saves, TypeOK, Actors, OfSession, NoPlan, None, Over, Transaction
<1>27. ASSUME NEW b \in Actors, Collect(b),
         UNCHANGED <<pc, op, run, door, timer, gathers, spoiled>>
      PROVE  PlanOf(a)'
  BY <1>27, CheckpointsAssumption DEF Collect, Goes, Heads, run, store,
     door, IInv, Plans, PlanOf, Quiet, Adrift, Lock, Locked, Threads, ThreadOf,
     Saves, TypeOK, Actors, OfSession, NoPlan, None, Over, Transaction
<1>28. ASSUME NEW b \in Actors, Erase(b),
         UNCHANGED <<pc, op, run, door, timer, gathers, spoiled>>
      PROVE  PlanOf(a)'
  BY <1>28, CheckpointsAssumption DEF Erase, Goes, run, store, door, IInv,
     Plans, PlanOf, Quiet, Adrift, Lock, Locked, Threads, ThreadOf, Saves,
     TypeOK, Actors, OfSession, NoPlan, None, Over, Transaction
<1>29. ASSUME NEW b \in Actors, Elsewhere(b),
         UNCHANGED <<pc, op, run, door, timer, gathers, spoiled>>
      PROVE  PlanOf(a)'
  BY <1>29, CheckpointsAssumption DEF Elsewhere, Goes, run, store, door,
     IInv, Plans, PlanOf, Quiet, Adrift, Lock, Locked, Threads, ThreadOf,
     Saves, TypeOK, Actors, OfSession, NoPlan, None, Over, Transaction
<1>30. ASSUME NEW r \in Runs, Finished(r)
      PROVE  PlanOf(a)'
  BY <1>30, CheckpointsAssumption DEF Finished, run, store, door, IInv,
     Plans, PlanOf, Quiet, Adrift, Lock, Locked, Threads, ThreadOf, Saves,
     TypeOK, Actors, OfSession, NoPlan, None, Over, Transaction
<1>31. ASSUME NEW r \in Runs, Fails(r)
      PROVE  PlanOf(a)'
  BY <1>31, CheckpointsAssumption DEF Fails, run, store, door, IInv, Plans,
     PlanOf, Quiet, Adrift, Lock, Locked, Threads, ThreadOf, Saves, TypeOK,
     Actors, OfSession, NoPlan, None, Over, Transaction
<1>32. ASSUME NEW r \in Runs, PersistFails(r)
      PROVE  PlanOf(a)'
  BY <1>32, CheckpointsAssumption DEF PersistFails, Abandoned, run, store,
     door, IInv, Plans, PlanOf, Quiet, Adrift, Lock, Locked, Threads, ThreadOf,
     Saves, TypeOK, Actors, OfSession, NoPlan, None, Over, Transaction
<1>. QED
  BY <1>1, <1>2, <1>3, <1>4, <1>5, <1>6, <1>7, <1>8, <1>9, <1>10, <1>11,
     <1>12, <1>13, <1>14, <1>15, <1>16, <1>17, <1>18, <1>19, <1>20, <1>21,
     <1>22, <1>23, <1>24, <1>25, <1>26, <1>27, <1>28, <1>29, <1>30,
     <1>31, <1>32 DEF Next, Step, RunStep, OpStep, Thread, Actors

LEMMA GateStep ==
    ASSUME TypeOK, Lock, Threads, GateIsHeld, MaxStops <= 1, Next
    PROVE  GateIsHeld'
<1>1. ASSUME NEW r \in Runs, Message(r)
      PROVE  GateIsHeld'
  BY <1>1, CheckpointsAssumption DEF Message, Active, Adrift, run, store,
     door, GateIsHeld, Lock, Locked, Threads, ThreadOf, TypeOK, Actors
<1>2. ASSUME NEW r \in Runs, Load(r)
      PROVE  GateIsHeld'
  BY <1>2, CheckpointsAssumption DEF Load, run, store, door, GateIsHeld,
     Lock, Locked, Threads, ThreadOf, TypeOK, Actors
<1>3. ASSUME NEW r \in Runs, Command(r)
      PROVE  GateIsHeld'
  BY <1>3, CheckpointsAssumption DEF Command, run, store, door, GateIsHeld,
     Lock, Locked, Threads, ThreadOf, TypeOK, Actors
<1>4. ASSUME NEW r \in Runs, SaveBegins(r)
      PROVE  GateIsHeld'
  BY <1>4, CheckpointsAssumption DEF SaveBegins, run, store, door,
     GateIsHeld, Lock, Locked, Threads, ThreadOf, TypeOK, Actors
<1>5. ASSUME NEW r \in Runs, SaveEnds(r)
      PROVE  GateIsHeld'
  BY <1>5, CheckpointsAssumption DEF SaveEnds, Saved, run, store, door,
     GateIsHeld, Lock, Locked, Threads, ThreadOf, TypeOK, Actors
<1>6. ASSUME NEW r \in Runs, ChatEnds(r)
      PROVE  GateIsHeld'
  BY <1>6, CheckpointsAssumption DEF ChatEnds, run, store, door, GateIsHeld,
     Lock, Locked, Threads, ThreadOf, TypeOK, Actors
<1>7. ASSUME NEW r \in Runs, Stored(r)
      PROVE  GateIsHeld'
  BY <1>7, CheckpointsAssumption DEF Stored, Saved, run, store, door,
     GateIsHeld, Lock, Locked, Threads, ThreadOf, TypeOK, Actors
<1>8. ASSUME NEW r \in Runs, DrainEnds(r)
      PROVE  GateIsHeld'
  BY <1>8, CheckpointsAssumption DEF DrainEnds, run, store, door,
     GateIsHeld, Lock, Locked, Threads, ThreadOf, TypeOK, Actors
<1>9. ASSUME NEW r \in Runs, Rescued(r)
      PROVE  GateIsHeld'
  BY <1>9, CheckpointsAssumption DEF Rescued, Saved, run, store, door,
     GateIsHeld, Lock, Locked, Threads, ThreadOf, TypeOK, Actors
<1>10. ASSUME NEW r \in Runs, Stop(r)
      PROVE  GateIsHeld'
  <2>1. CASE pc[r] \in {"quiescing", "preparing", "applying", "working"}
            /\ (pc[r] = "quiescing" \/ stops[r] > 0)
    <3>1. r \in Actors /\ owner = r
      BY <2>1 DEF Lock, Locked, Actors
    <3>2. Ends(r, "done", "none")
      BY <1>10, <2>1 DEF Stop, StopWorking
    <3>3. owner' = NoActor /\ gate' = TRUE /\ paused' = FALSE
      BY <3>1, <3>2, EndsFacts DEF GateIsHeld, TypeOK
    <3>. QED
      BY <3>3 DEF GateIsHeld
  <2>2. CASE pc[r] \in {"quiescing", "preparing", "applying", "working"}
            /\ ~(pc[r] = "quiescing" \/ stops[r] > 0)
    <3>1. UNCHANGED <<pc, op, door>>
      BY <1>10, <2>2 DEF Stop, StopWorking
    <3>. QED
      BY <3>1 DEF GateIsHeld, door
  <2>3. CASE pc[r] \notin {"quiescing", "preparing", "applying", "working"}
    <3>1. UNCHANGED door /\ \A b \in Actors \ {r} : op'[b] = op[b]
      <4>1. StopTalking(r) \/ StopOutside(r)
        BY <1>10, <2>3 DEF Stop
      <4>2. CASE StopTalking(r)
        BY <4>2 DEF StopTalking, TypeOK
      <4>3. CASE StopOutside(r)
        BY <4>3 DEF StopOutside
      <4>. QED
        BY <4>1, <4>2, <4>3
    <3>2. owner # NoActor => owner # r /\ op'[owner] = op[owner]
      BY <2>3, <3>1 DEF Lock, Locked, TypeOK, Actors
    <3>. QED
      BY <3>1, <3>2 DEF GateIsHeld, door
  <2>. QED
    BY <2>1, <2>2, <2>3
<1>11. ASSUME NEW c \in Callers, Request(c)
      PROVE  GateIsHeld'
  BY <1>11, CheckpointsAssumption DEF Request, run, store, door, GateIsHeld,
     Lock, Locked, Threads, ThreadOf, TypeOK, Actors
<1>12. ASSUME NEW c \in Callers, Delete(c)
      PROVE  GateIsHeld'
  BY <1>12, CheckpointsAssumption DEF Delete, run, store, door, GateIsHeld,
     Lock, Locked, Threads, ThreadOf, TypeOK, Actors
<1>13. ASSUME NEW c \in Callers, Gathered(c)
      PROVE  GateIsHeld'
  BY <1>13, CheckpointsAssumption DEF Gathered, run, store, door,
     GateIsHeld, Lock, Locked, Threads, ThreadOf, TypeOK, Actors
<1>14. ASSUME NEW x \in Autos, Fires(x)
      PROVE  GateIsHeld'
  BY <1>14, CheckpointsAssumption DEF Fires, run, store, door, GateIsHeld,
     Lock, Locked, Threads, ThreadOf, TypeOK, Actors
<1>15. ASSUME NEW b \in Actors, Acquire(b)
      PROVE  GateIsHeld'
  BY <1>15, CheckpointsAssumption DEF Acquire, Begin, run, store, door,
     GateIsHeld, Lock, Locked, Threads, ThreadOf, TypeOK, Actors
<1>16. ASSUME NEW b \in Actors, Quiesced(b)
      PROVE  GateIsHeld'
  BY <1>16, CheckpointsAssumption DEF Quiesced, Idle, Active, Adrift, run,
     store, door, GateIsHeld, Lock, Locked, Threads, ThreadOf, TypeOK, Actors
<1>17. ASSUME NEW b \in Actors, QuiesceTimeout(b)
      PROVE  GateIsHeld'
  BY <1>17, CheckpointsAssumption, EndsFacts DEF QuiesceTimeout, run, store,
     door, GateIsHeld, Lock, Locked, Threads, ThreadOf, TypeOK, Actors
<1>18. ASSUME NEW b \in Actors, Prepared(b)
      PROVE  GateIsHeld'
  BY <1>18, CheckpointsAssumption, EndsFacts DEF Prepared, Stopped, run,
     store, door, GateIsHeld, Lock, Locked, Threads, ThreadOf, TypeOK, Actors
<1>19. ASSUME NEW b \in Actors, Finishes(b)
      PROVE  GateIsHeld'
  <2>1. owner = b
    BY <1>19 DEF Finishes, Lock, Locked
  <2>2. Ends(b, "done", "none") \/ Ends(b, "queued", "gc")
    BY <1>19 DEF Finishes
  <2>3. owner' = NoActor /\ gate' = TRUE /\ paused' = FALSE
    BY <2>1, <2>2, EndsFacts DEF GateIsHeld, TypeOK
  <2>. QED
    BY <2>3 DEF GateIsHeld
<1>20. ASSUME NEW b \in Actors, Prepare(b),
         UNCHANGED <<pc, op, run, door, timer, gathers, spoiled>>
      PROVE  GateIsHeld'
  BY <1>20, CheckpointsAssumption DEF Prepare, Goes, Heads, run, store,
     door, GateIsHeld, Lock, Locked, Threads, ThreadOf, TypeOK, Actors
<1>21. ASSUME NEW b \in Actors, Snapshot(b),
         UNCHANGED <<pc, op, run, door, timer, gathers, spoiled>>
      PROVE  GateIsHeld'
  BY <1>21, CheckpointsAssumption DEF Snapshot, Goes, Snaps, run, store,
     door, GateIsHeld, Lock, Locked, Threads, ThreadOf, TypeOK, Actors
<1>22. ASSUME NEW b \in Actors, Capture(b),
         UNCHANGED <<pc, op, run, door, timer, gathers, spoiled>>
      PROVE  GateIsHeld'
  BY <1>22, CheckpointsAssumption DEF Capture, Goes, Snaps, run, store,
     door, GateIsHeld, Lock, Locked, Threads, ThreadOf, TypeOK, Actors
<1>23. ASSUME NEW b \in Actors, WriteFile(b),
         UNCHANGED <<pc, op, run, door, timer, gathers, spoiled>>
      PROVE  GateIsHeld'
  BY <1>23, CheckpointsAssumption DEF WriteFile, Goes, run, store, door,
     GateIsHeld, Lock, Locked, Threads, ThreadOf, TypeOK, Actors
<1>24. ASSUME NEW b \in Actors, SetHead(b),
         UNCHANGED <<pc, op, run, door, timer, gathers, spoiled>>
      PROVE  GateIsHeld'
  BY <1>24, CheckpointsAssumption DEF SetHead, Goes, run, store, door,
     GateIsHeld, Lock, Locked, Threads, ThreadOf, TypeOK, Actors
<1>25. ASSUME NEW b \in Actors, Undo(b),
         UNCHANGED <<pc, op, run, door, timer, gathers, spoiled>>
      PROVE  GateIsHeld'
  BY <1>25, CheckpointsAssumption DEF Undo, Goes, run, store, door,
     GateIsHeld, Lock, Locked, Threads, ThreadOf, TypeOK, Actors
<1>26. ASSUME NEW b \in Actors, UndoHead(b),
         UNCHANGED <<pc, op, run, door, timer, gathers, spoiled>>
      PROVE  GateIsHeld'
  BY <1>26, CheckpointsAssumption DEF UndoHead, Goes, run, store, door,
     GateIsHeld, Lock, Locked, Threads, ThreadOf, TypeOK, Actors
<1>27. ASSUME NEW b \in Actors, Collect(b),
         UNCHANGED <<pc, op, run, door, timer, gathers, spoiled>>
      PROVE  GateIsHeld'
  BY <1>27, CheckpointsAssumption DEF Collect, Goes, Heads, run, store,
     door, GateIsHeld, Lock, Locked, Threads, ThreadOf, TypeOK, Actors
<1>28. ASSUME NEW b \in Actors, Erase(b),
         UNCHANGED <<pc, op, run, door, timer, gathers, spoiled>>
      PROVE  GateIsHeld'
  BY <1>28, CheckpointsAssumption DEF Erase, Goes, run, store, door,
     GateIsHeld, Lock, Locked, Threads, ThreadOf, TypeOK, Actors
<1>29. ASSUME NEW b \in Actors, Elsewhere(b),
         UNCHANGED <<pc, op, run, door, timer, gathers, spoiled>>
      PROVE  GateIsHeld'
  BY <1>29, CheckpointsAssumption DEF Elsewhere, Goes, run, store, door,
     GateIsHeld, Lock, Locked, Threads, ThreadOf, TypeOK, Actors
<1>30. ASSUME NEW r \in Runs, Finished(r)
      PROVE  GateIsHeld'
  BY <1>30, CheckpointsAssumption DEF Finished, run, store, door,
     GateIsHeld, Lock, Locked, Threads, ThreadOf, TypeOK, Actors
<1>31. ASSUME NEW r \in Runs, Fails(r)
      PROVE  GateIsHeld'
  BY <1>31, CheckpointsAssumption DEF Fails, run, store, door, GateIsHeld,
     Lock, Locked, Threads, ThreadOf, TypeOK, Actors
<1>32. ASSUME NEW r \in Runs, PersistFails(r)
      PROVE  GateIsHeld'
  BY <1>32, CheckpointsAssumption DEF PersistFails, Abandoned, run, store,
     door, GateIsHeld, Lock, Locked, Threads, ThreadOf, TypeOK, Actors
<1>. QED
  BY <1>1, <1>2, <1>3, <1>4, <1>5, <1>6, <1>7, <1>8, <1>9, <1>10, <1>11,
     <1>12, <1>13, <1>14, <1>15, <1>16, <1>17, <1>18, <1>19, <1>20, <1>21,
     <1>22, <1>23, <1>24, <1>25, <1>26, <1>27, <1>28, <1>29, <1>30,
     <1>31, <1>32 DEF Next, Step, RunStep, OpStep, Thread, Actors

LEMMA Inductive == ASSUME MaxStops <= 1 PROVE Spec => []IInv
<1>1. Init => IInv
  <2>1. Init => TypeOK
    <3>1. NoPlan \in Planned
      BY DEF NoPlan, Planned
    <3>2. "new" \in Places
      BY DEF Places
    <3>3. 0 \in Contents
      BY CheckpointsAssumption DEF Contents
    <3>4. 0 \in 0..MaxStops
      BY CheckpointsAssumption
    <3>5. Init => /\ refs \subseteq Contents /\ head \in Contents \cup {None}
                  /\ gate \in BOOLEAN /\ paused \in BOOLEAN /\ timer \in BOOLEAN
                  /\ spoiled \in BOOLEAN
      BY <3>3 DEF Init
    <3>. QED
      BY <3>1, <3>2, <3>3, <3>4, <3>5 DEF Init, TypeOK
  <2>2. Init => Lock /\ Threads /\ Saves /\ Quiet /\ Plans /\ GateIsHeld
    BY CheckpointsAssumption DEF Init, Lock, Locked, Threads, ThreadOf,
       Saves, Quiet, Adrift, Plans, PlanOf, GateIsHeld, NoPlan, Actors,
       Transaction
  <2>. QED
    BY <2>1, <2>2 DEF IInv
<1>2. IInv /\ [Next]_vars => IInv'
  <2>1. ASSUME IInv, Next PROVE IInv'
    BY <2>1, TypeStep, LockStep, ThreadStep, SaveStep, QuietStep, PlanStep,
       GateStep DEF IInv
  <2>2. ASSUME IInv, UNCHANGED vars PROVE IInv'
    BY <2>2 DEF IInv, TypeOK, Lock, Threads, ThreadOf, Saves, Quiet, Adrift,
       Plans, PlanOf, GateIsHeld, OfSession, vars, run, store, door
  <2>. QED
    BY <2>1, <2>2
<1>. QED
  BY <1>1, <1>2, PTL DEF Spec

\* The type invariant holds for any number of actors and saves.
THEOREM TypeCorrect == ASSUME MaxStops <= 1 PROVE Spec => []TypeOK
BY Inductive, PTL DEF IInv

\* Repository jobs of a workspace never overlap when no run is stopped twice.
THEOREM JobsDoNotOverlap == ASSUME MaxStops <= 1 PROVE Spec => []OneJob
<1>1. IInv => OneJob
  BY DEF IInv, Lock, Locked, Threads, ThreadOf, OneJob, Running, Jobs,
     Transaction
<1>. QED
  BY <1>1, Inductive, PTL

\* While a restore's transaction works, the tracker runs nothing of the
\* session that could still save, and what is left saves that nobody waits for.
THEOREM RestoresWorkAlone == ASSUME MaxStops <= 1 PROVE Spec => []RestoreAlone
<1>1. IInv => RestoreAlone
  <2>. SUFFICES ASSUME IInv, NEW a \in Actors, job[a] \in Transaction,
                       NEW r \in Runs, Holds(r)
                PROVE  LeftBehind(r) /\ ~Active(r)
    BY DEF RestoreAlone
  <2>1. pc[a] = "applying"
    BY DEF IInv, Threads, ThreadOf, Transaction, Over
  <2>2. pc[r] \in {"new", "waiting", "done", "applying"} \cup Adrift
    BY <2>1 DEF IInv, Quiet
  <2>3. pc[r] \in Adrift \/ (pc[r] = "done" /\ writes[r] > 0)
    BY <2>2 DEF IInv, Saves, Holds, Talking, Adrift
  <2>. QED
    BY <2>3 DEF LeftBehind, Active, Adrift
<1>. QED
  BY <1>1, Inductive, PTL

\* A restore changes both the file and the head, or neither; only a save that
\* was left behind can spoil the file.
THEOREM RestoresAreAtomic == ASSUME MaxStops <= 1 PROVE Spec => []AllOrNothing
<1>1. IInv => AllOrNothing
  BY DEF IInv, Plans, PlanOf, AllOrNothing
<1>. QED
  BY <1>1, Inductive, PTL

\* The gate is closed, and cron paused, only by the lock's owner.
THEOREM GatesAreHeld == ASSUME MaxStops <= 1 PROVE Spec => []GateIsHeld
BY Inductive, PTL DEF IInv

LEMMA NetStep ==
    ASSUME IInv, Next, file' # file, saves' = saves
    PROVE  file \in refs \/ spoiled
<1>0. \/ UNCHANGED file
      \/ \E r \in Runs : Saved(r)
      \/ \E a \in Actors : WriteFile(a) \/ Undo(a)
  <2>1. ASSUME NEW r \in Runs,
               \/ Message(r) \/ SaveBegins(r) \/ SaveEnds(r)
               \/ Fails(r) \/ PersistFails(r) \/ Stop(r) \/ RunStep(r)
        PROVE  UNCHANGED file \/ Saved(r)
    BY <2>1 DEF RunStep, Message, Load, Command, SaveBegins, SaveEnds, ChatEnds,
       Stored, Finished, Fails, PersistFails, DrainEnds, Rescued, Stop, store
  <2>2. ASSUME NEW c \in Callers, Request(c) \/ Delete(c) \/ Gathered(c)
        PROVE  UNCHANGED file
    BY <2>2 DEF Request, Delete, Gathered, store
  <2>3. ASSUME NEW x \in Autos, Fires(x)
        PROVE  UNCHANGED file
    BY <2>3 DEF Fires, store
  <2>4. ASSUME NEW a \in Actors, OpStep(a)
        PROVE  UNCHANGED file \/ WriteFile(a) \/ Undo(a)
    BY <2>4 DEF OpStep, Acquire, Quiesced, QuiesceTimeout, Prepared, Finishes,
       Thread, Prepare, Snapshot, Capture, SetHead, UndoHead, Collect, Erase,
       Elsewhere, store
  <2>. QED
    BY <2>1, <2>2, <2>3, <2>4 DEF Next, Step
<1>1. PICK a \in Actors : WriteFile(a) \/ Undo(a)
  <2>1. \A r \in Runs : ~Saved(r)
    BY DEF Saved, IInv, TypeOK, Contents
  <2>. QED
    BY <1>0, <2>1
<1>2. job[a] \in {"write", "undo"}
  BY <1>1 DEF WriteFile, Undo
<1>3. pc[a] = "applying" /\ OfSession(a)
  BY <1>2 DEF IInv, Threads, ThreadOf, Transaction, Over
<1>. QED
  BY <1>2, <1>3 DEF IInv, Plans, PlanOf

\* Whatever replaces the session file but a save, a checkpoint holds what it
\* replaces, unless a save that was left behind landed in the transaction.
THEOREM NothingIsLost == ASSUME MaxStops <= 1 PROVE Spec => SafetyNet
<1>1. IInv /\ [Next]_vars =>
        [file' # file /\ saves' = saves => file \in refs \/ spoiled]_vars
  BY NetStep
<1>. QED
  BY <1>1, Inductive, PTL DEF Spec, SafetyNet
=============================================================================
