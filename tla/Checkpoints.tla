---------------------------- MODULE Checkpoints ----------------------------
(***************************************************************************)
(* The checkpoints of one workspace, seen from one session of it: the file *)
(* of its conversation, the checkpoints that hold earlier contents of that *)
(* file, and everything that changes either.                               *)
(*   - Runs: messages the task tracker runs.  Each passes the query gate,  *)
(*     then talks to the agent, whose memory was loaded from the file and  *)
(*     is saved to it, or is a /checkpoint command.                        *)
(*   - Callers: requests of the Console, which no tracker knows.           *)
(*   - Autos: tasks of the debounce timer a saved answer starts.           *)
(* A maintenance operation takes the workspace's lock and does its work in *)
(* a thread (a job), which a cancellation cannot stop.  A restore closes   *)
(* the gate, pauses cron and waits until no other run is active; a restart *)
(* of the repository (reset) closes the gate and waits for nobody.         *)
(*                                                                         *)
(* Contents are numbered in the order they are first saved; 0 is the one   *)
(* the file starts with.  Runs of other chats (ours[r] = FALSE) are kept   *)
(* for what they do to the lock, the gate and the idle check: how they     *)
(* end, what they save and what their commands change lies outside it.     *)
(***************************************************************************)
EXTENDS Integers, FiniteSets

CONSTANTS
    Runs,       \* tracked runs, one life each
    Callers,    \* Console requests, one operation each
    Autos,      \* firings of the auto-snapshot timer
    NoActor,    \* holds the lock when nobody does
    MaxSaves,   \* bound: saves that succeed
    MaxStops    \* bound: stop requests that meet one run's operation

ASSUME CheckpointsAssumption ==
    /\ NoActor \notin Runs \cup Callers \cup Autos
    /\ Runs \cap Callers = {} /\ Runs \cap Autos = {} /\ Callers \cap Autos = {}
    /\ MaxSaves \in Nat
    /\ MaxStops \in Nat

VARIABLES
    pc,         \* where each actor is
    op,         \* its maintenance operation
    job,        \* what its thread does: the next step, or how it ended
    plan,       \* what a restore prepared: the target, the head it found, the
                \* content its own checkpoint holds
    ours,       \* the runs of this session's chat
    writes,     \* saves of each run's memory a thread has still to finish
    stops,      \* stop requests that met each run's operation
    owner,      \* CheckpointService.maintenance_lock and lock
    gate,       \* CheckpointService.query_gate is set
    paused,     \* the cron scheduler is paused
    timer,      \* Debouncer._pending for this session
    gathers,    \* the auto snapshots each deletion waits for
    file,       \* the content of the session file
    saves,      \* contents saved so far
    refs,       \* contents some checkpoint ref of the session holds
    head,       \* heads.json: the content of the stored head, or None
    spoiled     \* history: a save left behind landed in the restore's transaction

None == -1
Actors == Runs \cup Callers \cup Autos
Contents == 0..MaxSaves
Ops == {"snapshot", "restore", "reset", "gc", "delete"}
Planned == [target : Contents \cup {None}, head : Contents \cup {None}, pre : Contents \cup {None}]
NoPlan == [target |-> None, head |-> None, pre |-> None]
\* Places of a run whose task is done while its generator is still finalised.
Adrift == {"adrift", "salvaging"}
Talking == {"chatting", "closing", "storing", "finishing", "draining", "rescuing"} \cup Adrift
Places == {"new", "waiting", "through", "queued", "quiescing", "preparing", "applying", "working",
           "gathering", "done"} \cup Talking
Over == {"ok", "failed", "broken"}
Transaction == {"capture", "write", "sethead", "undo", "undohead"}
Jobs == {"prepare", "snapshot", "reset", "gc", "delete", "other"} \cup Transaction

run == <<ours, writes, stops>>
store == <<file, saves, refs, head, spoiled>>
door == <<owner, gate, paused>>
vars == <<pc, op, job, plan, run, door, timer, gathers, store>>

Init ==
    /\ pc = [a \in Actors |-> "new"]
    /\ op = [a \in Actors |-> "none"]
    /\ job = [a \in Actors |-> "none"]
    /\ plan = [a \in Actors |-> NoPlan]
    /\ ours \in SUBSET Runs
    /\ writes = [r \in Runs |-> 0]
    /\ stops = [r \in Runs |-> 0]
    /\ owner = NoActor /\ gate = TRUE /\ paused = FALSE
    /\ timer = FALSE
    /\ gathers = [c \in Callers |-> {}]
    /\ file = 0 /\ saves = 0 /\ spoiled = FALSE
    /\ \/ refs = {} /\ head = None
       \/ refs = {0} /\ head = 0

(* The run's task is not done. *)
Active(r) == pc[r] \notin {"new", "done"} \cup Adrift

(* The run, or a save it left behind, may still write its memory. *)
Holds(r) ==
    r \in ours /\ (writes[r] > 0 \/ pc[r] \in Talking)

(* Nobody waits for the save: the run was cut off outside its generator, or *)
(* was stopped while it drained or saved after a failure or a stop.         *)
LeftBehind(r) ==
    \/ pc[r] \in Adrift
    \/ pc[r] \in {"rescuing", "done"} /\ writes[r] > 0

Running(a) == job[a] \in Jobs
OfSession(a) == a \in Runs => a \in ours

(* A restore of the session is past its own checkpoint, and did not return. *)
Restoring ==
    \E a \in Actors : pc[a] = "applying" /\ OfSession(a) /\ job[a] # "capture"

(* The head: the stored one when a ref holds it, else the newest ref, which *)
(* may be any.                                                              *)
Heads == IF head \in refs THEN {head} ELSE refs

----------------------------------------------------------------------------
(* Runs *)

\* mutant: the gate hook is not there
MessageUngated(r) ==
    /\ pc[r] = "new"
    /\ r \in ours => \A q \in ours : ~Active(q)
    /\ pc' = [pc EXCEPT ![r] = "through"]
    /\ UNCHANGED <<op, job, plan, run, door, timer, gathers, store>>

(* A message: the tracker runs one task per chat, whose first hook waits at *)
(* the gate when it is closed.                                              *)
Message(r) ==
    /\ pc[r] = "new"
    /\ r \in ours => \A q \in ours : ~Active(q)
    /\ pc' = [pc EXCEPT ![r] = IF gate THEN "through" ELSE "waiting"]
    /\ UNCHANGED <<op, job, plan, run, door, timer, gathers, store>>

(* The agent is built from the session as it was loaded. *)
Load(r) ==
    /\ pc[r] = "through"
    /\ pc' = [pc EXCEPT ![r] = "chatting"]
    /\ UNCHANGED <<op, job, plan, run, door, timer, gathers, store>>

(* The message is a slash command. *)
Command(r) ==
    /\ pc[r] = "through"
    /\ \E k \in Ops \ {"delete"} : op' = [op EXCEPT ![r] = k]
    /\ pc' = [pc EXCEPT ![r] = "queued"]
    /\ UNCHANGED <<job, plan, run, door, timer, gathers, store>>

(* An incremental save starts between two events of the answer. *)
SaveBegins(r) ==
    /\ pc[r] = "chatting" /\ r \in ours /\ writes[r] = 0
    /\ writes' = [writes EXCEPT ![r] = 1]
    /\ UNCHANGED <<pc, op, job, plan, ours, stops, door, timer, gathers, store>>

(* A save succeeds, with a content the file never had, or fails. *)
Saved(r) ==
    /\ saves < MaxSaves
    /\ saves' = saves + 1 /\ file' = saves + 1
    /\ spoiled' = (spoiled \/ (LeftBehind(r) /\ Restoring))
    /\ UNCHANGED <<refs, head>>

SaveEnds(r) ==
    /\ writes[r] > 0
    /\ writes' = [writes EXCEPT ![r] = @ - 1]
    /\ Saved(r) \/ UNCHANGED store
    /\ UNCHANGED <<pc, op, job, plan, ours, stops, door, timer, gathers>>

(* The answer is over: an incremental save in flight is awaited, then *)
(* POST_RESPONSE saves the session.                                   *)
ChatEnds(r) ==
    /\ \/ /\ pc[r] = "chatting"
          /\ pc' = [pc EXCEPT ![r] = IF r \in ours THEN "closing" ELSE "done"]
       \/ /\ pc[r] = "closing" /\ writes[r] = 0
          /\ pc' = [pc EXCEPT ![r] = "storing"]
    /\ UNCHANGED <<op, job, plan, run, door, timer, gathers, store>>

(* A session that was saved schedules an auto snapshot, when they are on. *)
Stored(r) ==
    /\ pc[r] = "storing"
    /\ pc' = [pc EXCEPT ![r] = "finishing"]
    /\ \/ Saved(r) /\ timer' \in {timer, TRUE}
       \/ UNCHANGED <<store, timer>>
    /\ UNCHANGED <<op, job, plan, run, door, gathers>>

(* The envelope is finalised, the agent closed and the task done. *)
Finished(r) ==
    /\ pc[r] = "finishing"
    /\ pc' = [pc EXCEPT ![r] = "done"]
    /\ UNCHANGED <<op, job, plan, run, door, timer, gathers, store>>

(* The agent, a hook or the envelope raises.  Once there is an agent, the   *)
(* run does what a stopped one does: it drains and saves.                   *)
Fails(r) ==
    /\ \/ pc[r] = "through" /\ pc' = [pc EXCEPT ![r] = "done"]
       \/ /\ pc[r] \in {"chatting", "closing", "finishing"} /\ r \in ours
          /\ pc' = [pc EXCEPT ![r] = "draining"]
    /\ UNCHANGED <<op, job, plan, run, door, timer, gathers, store>>

(* The run's generator is left at a yield: nobody waits for the task that   *)
(* finalises it, which drains and saves like any other end.                 *)
Abandoned(r) ==
    /\ pc[r] \in {"chatting", "finishing"} /\ r \in ours
    /\ pc' = [pc EXCEPT ![r] = "adrift"]

(* So it is when the replay write between two events fails, which the       *)
(* tracker's producer awaits outside the generator.                         *)
PersistFails(r) ==
    /\ Abandoned(r)
    /\ UNCHANGED <<op, job, plan, ours, writes, stops, door, timer, gathers, store>>

(* A run that was stopped, or failed, waits for the save in flight, *)
DrainEnds(r) ==
    /\ writes[r] = 0
    /\ \/ pc[r] = "draining" /\ pc' = [pc EXCEPT ![r] = "rescuing"]
       \/ pc[r] = "adrift" /\ pc' = [pc EXCEPT ![r] = "salvaging"]
    /\ UNCHANGED <<op, job, plan, run, door, timer, gathers, store>>

(* then saves what it has, and waits for that. *)
Rescued(r) ==
    /\ pc[r] \in {"rescuing", "salvaging"}
    /\ pc' = [pc EXCEPT ![r] = "done"]
    /\ Saved(r) \/ UNCHANGED store
    /\ UNCHANGED <<op, job, plan, run, door, timer, gathers>>

----------------------------------------------------------------------------
(* Maintenance operations *)

(* What the finally blocks and the lock's release do: cron runs again, the *)
(* gate opens for everyone who waits at it, and the lock is free.  The     *)
(* actor goes on to next, with the operation then.                         *)
Ends(a, next, then) ==
    /\ op' = [op EXCEPT ![a] = then]
    /\ owner' = NoActor
    /\ paused' = IF op[a] = "restore" THEN FALSE ELSE paused
    /\ gate' = (gate \/ op[a] \in {"restore", "reset"})
    /\ pc' = [b \in Actors |->
                CASE b = a -> next
                  [] b # a /\ pc[b] = "waiting" /\ gate' -> "through"
                  [] OTHER -> pc[b]]

Request(c) ==
    /\ pc[c] = "new"
    /\ \E k \in Ops \ {"delete"} : op' = [op EXCEPT ![c] = k]
    /\ pc' = [pc EXCEPT ![c] = "queued"]
    /\ UNCHANGED <<job, plan, run, door, timer, gathers, store>>

(* The chat is deleted: its timer is cancelled, and the snapshots already *)
(* running are waited for before the lock is asked for.                   *)
Delete(c) ==
    /\ pc[c] = "new"
    /\ op' = [op EXCEPT ![c] = "delete"]
    /\ pc' = [pc EXCEPT ![c] = "gathering"]
    /\ timer' = FALSE
    /\ gathers' = [gathers EXCEPT ![c] = {x \in Autos : pc[x] \notin {"new", "done"}}]
    /\ UNCHANGED <<job, plan, run, door, store>>

Gathered(c) ==
    /\ pc[c] = "gathering"
    /\ \A x \in gathers[c] : pc[x] = "done"
    /\ pc' = [pc EXCEPT ![c] = "queued"]
    /\ gathers' = [gathers EXCEPT ![c] = {}]
    /\ UNCHANGED <<op, job, plan, run, door, timer, store>>

(* The timer fires; the task finds auto snapshots on or off. *)
Fires(x) ==
    /\ timer /\ pc[x] = "new"
    /\ timer' = FALSE
    /\ \/ pc' = [pc EXCEPT ![x] = "queued"] /\ op' = [op EXCEPT ![x] = "snapshot"]
       \/ pc' = [pc EXCEPT ![x] = "done"] /\ UNCHANGED op
    /\ UNCHANGED <<job, plan, run, door, gathers, store>>

(* The lock is granted.  A restore goes on to quiesce the workspace, the    *)
(* other operations to their thread.                                        *)
Begin(a) ==
    IF op[a] = "restore"
    THEN /\ pc' = [pc EXCEPT ![a] = "quiescing"]
         /\ gate' = FALSE /\ paused' = TRUE
         /\ UNCHANGED job
    ELSE /\ pc' = [pc EXCEPT ![a] = "working"]
         /\ gate' = (gate /\ op[a] # "reset")
         /\ job' = [job EXCEPT ![a] = IF OfSession(a) THEN op[a] ELSE "other"]
         /\ UNCHANGED paused

Acquire(a) ==
    /\ pc[a] = "queued" /\ owner = NoActor
    /\ owner' = a
    /\ Begin(a)
    /\ UNCHANGED <<op, plan, run, timer, gathers, store>>

(* No other tracked run is active. *)
Idle(a) == \A r \in Runs \ {a} : ~Active(r)

\* mutant: a restore of the Console, which is no tracked task, waits for nobody
QuiescedAtOnce(a) ==
    /\ pc[a] = "quiescing"
    /\ a \in Runs => Idle(a)
    /\ pc' = [pc EXCEPT ![a] = "preparing"]
    /\ job' = [job EXCEPT ![a] = IF OfSession(a) THEN "prepare" ELSE "other"]
    /\ UNCHANGED <<op, plan, run, door, timer, gathers, store>>

Quiesced(a) ==
    /\ pc[a] = "quiescing"
    /\ Idle(a)
    /\ pc' = [pc EXCEPT ![a] = "preparing"]
    /\ job' = [job EXCEPT ![a] = IF OfSession(a) THEN "prepare" ELSE "other"]
    /\ UNCHANGED <<op, plan, run, door, timer, gathers, store>>

\* mutant: quiesce fails before the try whose finally opens the gate
TimeoutKeepsGate(a) ==
    /\ pc[a] = "quiescing"
    /\ op' = [op EXCEPT ![a] = "none"] /\ pc' = [pc EXCEPT ![a] = "done"]
    /\ owner' = NoActor /\ paused' = FALSE
    /\ UNCHANGED <<gate, job, plan, run, timer, gathers, store>>

\* mutant: only a request is timed out, a run waits as long as it takes
TimeoutOfRequests(a) ==
    /\ pc[a] = "quiescing" /\ a \in Callers
    /\ Ends(a, "done", "none")
    /\ UNCHANGED <<job, plan, run, timer, gathers, store>>

QuiesceTimeout(a) ==
    /\ pc[a] = "quiescing"
    /\ Ends(a, "done", "none")
    /\ UNCHANGED <<job, plan, run, timer, gathers, store>>

(* The plan is made; unless that failed, or the run was stopped meanwhile, *)
(* the transaction starts.                                                 *)
Stopped(a) == a \in Runs /\ stops[a] > 0

Prepared(a) ==
    /\ pc[a] = "preparing" /\ job[a] \in Over
    /\ IF job[a] = "ok" /\ ~Stopped(a)
       THEN /\ pc' = [pc EXCEPT ![a] = "applying"]
            /\ job' = [job EXCEPT ![a] = IF OfSession(a) THEN "capture" ELSE "other"]
            /\ spoiled' = FALSE
            /\ UNCHANGED <<op, door, plan>>
       ELSE /\ Ends(a, "done", "none")
            /\ plan' = [plan EXCEPT ![a] = NoPlan]
            /\ job' = [job EXCEPT ![a] = "none"]
            /\ UNCHANGED spoiled
    /\ UNCHANGED <<run, timer, gathers, file, saves, refs, head>>

(* The job is over.  An auto snapshot may go on to collect old refs. *)
Finishes(a) ==
    /\ pc[a] \in {"applying", "working"} /\ job[a] \in Over
    /\ \/ Ends(a, "done", "none")
       \/ a \in Autos /\ op[a] = "snapshot" /\ job[a] = "ok" /\ Ends(a, "queued", "gc")
    /\ plan' = [plan EXCEPT ![a] = NoPlan]
    /\ job' = [job EXCEPT ![a] = "none"]
    /\ UNCHANGED <<run, timer, gathers, store>>

----------------------------------------------------------------------------
(* Jobs *)

Goes(a, next) == job' = [job EXCEPT ![a] = next]

(* The target is a checkpoint of the session. *)
Prepare(a) ==
    /\ job[a] = "prepare"
    /\ \/ \E t \in refs, h \in Heads :
            plan' = [plan EXCEPT ![a] = [target |-> t, head |-> h, pre |-> None]]
          /\ Goes(a, "ok")
       \/ Goes(a, "failed") /\ UNCHANGED plan
    /\ UNCHANGED store

(* create_snapshot_unlocked: the ref, then the head; it may fail before or *)
(* after the ref exists.                                                   *)
Snaps(a, next) ==
    \/ /\ refs' = refs \cup {file} /\ head' = file
       /\ Goes(a, next)
    \/ /\ refs' \in {refs, refs \cup {file}} /\ UNCHANGED head
       /\ Goes(a, "failed")

Snapshot(a) ==
    /\ job[a] = "snapshot"
    /\ Snaps(a, "ok")
    /\ UNCHANGED <<file, saves, plan>>

(* The transaction: a checkpoint of what is there, the file, the head. *)
Capture(a) ==
    /\ job[a] = "capture"
    /\ Snaps(a, "write")
    /\ plan' = IF job'[a] = "write" THEN [plan EXCEPT ![a].pre = file] ELSE plan
    /\ UNCHANGED <<file, saves>>

WriteFile(a) ==
    /\ job[a] = "write"
    /\ \/ file' = plan[a].target /\ Goes(a, "sethead")
       \/ UNCHANGED file /\ Goes(a, "undo")
    /\ UNCHANGED <<saves, refs, head, plan>>

SetHead(a) ==
    /\ job[a] = "sethead"
    /\ \/ head' = plan[a].target /\ Goes(a, "ok")
       \/ UNCHANGED head /\ Goes(a, "undo")
    /\ UNCHANGED <<file, saves, refs, plan>>

(* The rollback, which may fail too. *)
Undo(a) ==
    /\ job[a] = "undo"
    /\ \/ file' = plan[a].pre /\ Goes(a, "undohead")
       \/ UNCHANGED file /\ Goes(a, "broken")
    /\ UNCHANGED <<saves, refs, head, plan>>

\* mutant: the rollback leaves the head where the transaction's own
\* checkpoint put it
UndoHeadForgotten(a) ==
    /\ job[a] = "undohead"
    /\ Goes(a, "failed")
    /\ UNCHANGED <<store, plan>>

UndoHead(a) ==
    /\ job[a] = "undohead"
    /\ \/ head' = plan[a].head /\ Goes(a, "failed")
       \/ UNCHANGED head /\ Goes(a, "broken")
    /\ UNCHANGED <<file, saves, refs, plan>>

(* Old refs go, never the head's; git deletes all of them or none.  A dry   *)
(* run, a preview and a timeline take the lock as well and collect nothing. *)
Collect(a) ==
    /\ job[a] = "gc"
    /\ Goes(a, "ok")
    /\ \/ \E h \in Heads : \E old \in SUBSET (refs \ {h}) : refs' = refs \ old
       \/ UNCHANGED refs
    /\ UNCHANGED <<file, saves, head, plan>>

(* The refs go, then the heads; a failure may come before either. *)
Erase(a) ==
    /\ job[a] \in {"delete", "reset"}
    /\ Goes(a, "ok")
    /\ \/ refs' = {} /\ head' = None
       \/ refs' \in {refs, {}} /\ UNCHANGED head
    /\ UNCHANGED <<file, saves, plan>>

(* What the commands of other chats do. *)
Elsewhere(a) ==
    /\ job[a] = "other"
    /\ \E end \in {"ok", "failed"} : Goes(a, end)
    /\ UNCHANGED <<plan, store>>

Thread(a) ==
    /\ \/ Prepare(a) \/ Snapshot(a) \/ Capture(a) \/ WriteFile(a) \/ SetHead(a)
       \/ Undo(a) \/ UndoHead(a) \/ Collect(a) \/ Erase(a) \/ Elsewhere(a)
    /\ UNCHANGED <<pc, op, run, door, timer, gathers, spoiled>>

----------------------------------------------------------------------------
(* Stop requests *)

(* The run's task is cancelled.  Waiting at the gate or for the lock, it    *)
(* ends; talking, it drains and saves; waiting for a thread, it goes on     *)
(* waiting and ends when the thread does.  A run that already drains or     *)
(* saves gives up what it was waiting for, which goes on alone: it was      *)
(* stopped before, or failed by itself.                                     *)
StopTalking(r) ==
    /\ pc' = [pc EXCEPT ![r] =
                CASE pc[r] = "draining" -> "rescuing"
                  [] pc[r] \in Talking \ {"draining", "rescuing"} /\ r \in ours -> "draining"
                  [] OTHER -> "done"]
    /\ writes' = [writes EXCEPT ![r] = IF pc[r] \in {"storing", "rescuing"} THEN @ + 1 ELSE @]
    /\ op' = [op EXCEPT ![r] = "none"]
    /\ UNCHANGED <<door, plan, job>>

(* The cancellation may meet the producer outside the generator; and in the *)
(* finally block nothing is saved any more.                                 *)
StopOutside(r) ==
    /\ \/ Abandoned(r)
       \/ /\ pc[r] = "finishing" /\ pc' = [pc EXCEPT ![r] = "done"]
    /\ UNCHANGED <<writes, op, door, plan, job>>

\* mutant: a cancelled operation does not wait for its thread
StopLeavesThread(r) ==
    /\ Ends(r, "done", "none")
    /\ UNCHANGED <<writes, plan, job>>

StopWorking(r) ==
    /\ IF pc[r] = "quiescing" \/ stops[r] > 0
       THEN Ends(r, "done", "none")
       ELSE UNCHANGED <<pc, op, door>>
    /\ UNCHANGED <<writes, plan, job>>

Stop(r) ==
    /\ Active(r)
    /\ \/ /\ pc[r] \in {"quiescing", "preparing", "applying", "working"}
          /\ stops[r] < MaxStops
          /\ stops' = [stops EXCEPT ![r] = @ + 1]
          /\ StopWorking(r)
       \/ /\ pc[r] \notin {"quiescing", "preparing", "applying", "working"}
          /\ StopTalking(r) \/ StopOutside(r)
          /\ UNCHANGED stops
    /\ UNCHANGED <<ours, timer, gathers, store>>

----------------------------------------------------------------------------
RunStep(r) ==
    \/ Load(r) \/ Command(r) \/ ChatEnds(r) \/ Stored(r) \/ Finished(r)
    \/ DrainEnds(r) \/ Rescued(r)

OpStep(a) ==
    Acquire(a) \/ Quiesced(a) \/ QuiesceTimeout(a) \/ Prepared(a) \/ Finishes(a) \/ Thread(a)

(* What an actor does of itself, once it was asked. *)
Step(a) ==
    \/ a \in Runs /\ RunStep(a)
    \/ a \in Callers /\ Gathered(a)
    \/ OpStep(a)

Next ==
    \/ \E r \in Runs : \/ Message(r) \/ SaveBegins(r) \/ SaveEnds(r)
                       \/ Fails(r) \/ PersistFails(r) \/ Stop(r)
    \/ \E c \in Callers : Request(c) \/ Delete(c)
    \/ \E x \in Autos : Fires(x)
    \/ \E a \in Actors : Step(a)

Spec == Init /\ [][Next]_vars

(* Tasks and threads go on, a provider ends its answer and a save ends. *)
(* Nobody has to send a message, ask for an operation or stop a run.    *)
Fairness ==
    /\ \A a \in Actors : WF_vars(Step(a))
    /\ \A r \in Runs : WF_vars(SaveEnds(r))

FairSpec == Spec /\ Fairness

----------------------------------------------------------------------------
(* Type correctness. *)
TypeOK ==
    /\ pc \in [Actors -> Places]
    /\ op \in [Actors -> Ops \cup {"none"}]
    /\ job \in [Actors -> Jobs \cup Over \cup {"none"}]
    /\ plan \in [Actors -> Planned]
    /\ ours \subseteq Runs
    /\ writes \in [Runs -> Nat]
    /\ stops \in [Runs -> 0..MaxStops]
    /\ owner \in Actors \cup {NoActor}
    /\ gate \in BOOLEAN /\ paused \in BOOLEAN /\ timer \in BOOLEAN
    /\ gathers \in [Callers -> SUBSET Autos]
    /\ file \in Contents /\ saves \in Contents /\ spoiled \in BOOLEAN
    /\ refs \subseteq Contents /\ head \in Contents \cup {None}

(* Repository jobs of a workspace never overlap (the comment at             *)
(* io_pools.py:303 promises it of cancelled operations too).                *)
OneJob == \A a, b \in Actors : Running(a) /\ Running(b) => a = b

(* While a restore works on the session file, no run of the session is     *)
(* talking from a memory it loaded before, and none has a save in flight,  *)
(* that could overwrite what was restored with what it replaced; unless    *)
(* the run is over, for the tracker, and has left that save behind.        *)
RestoreAlone ==
    \A a \in Actors : job[a] \in Transaction =>
        \A r \in Runs : Holds(r) => LeftBehind(r) /\ ~Active(r)

(* A restore whose thread ended has put both the file and the head where  *)
(* the target says, or has left both as it found them, unless its own     *)
(* rollback failed; a save left behind that lands meanwhile can spoil the  *)
(* file, not the head.                                                     *)
AllOrNothing ==
    \A a \in Actors :
        pc[a] = "applying" /\ OfSession(a) =>
            /\ job[a] = "ok" => /\ head = plan[a].target
                               /\ (file = plan[a].target \/ spoiled)
            /\ (job[a] = "failed" /\ plan[a].pre # None) =>
                    /\ head = plan[a].head
                    /\ (file = plan[a].pre \/ spoiled)

(* The gate is closed, and cron paused, only by the operation that holds *)
(* the lock: however it ends, messages and cron jobs go on.              *)
GateIsHeld ==
    /\ ~gate => owner # NoActor /\ op[owner] \in {"restore", "reset"}
    /\ paused => owner # NoActor /\ op[owner] = "restore"

(* Only a save brings new contents; whatever else replaces the session     *)
(* file, a checkpoint holds what it replaces, unless a save left behind    *)
(* landed after the restore's checkpoint and before its file.              *)
SafetyNet ==
    [][file' # file /\ saves' = saves => file \in refs \/ spoiled]_vars

(* An operation that asked for the lock ends, even when a run waits at the *)
(* gate that the operation closed and the operation waits for the run.     *)
OperationsEnd == \A a \in Actors : pc[a] = "queued" ~> pc[a] = "done"
=============================================================================
