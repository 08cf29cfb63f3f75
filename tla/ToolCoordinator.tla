-------------------------- MODULE ToolCoordinator --------------------------
(***************************************************************************)
(* Tool calls in flight (tool_calls/_coordinator.py).  The agent's run     *)
(* iterates over execute, here the caller of a call.  The tool runs in a   *)
(* background task of its own.  When the offload deadline passes, or the   *)
(* user asks for it, the caller returns a placeholder and a watcher task   *)
(* (_supervise) takes over; when the tool ends, the watcher leaves a hint  *)
(* for the session's next reasoning step.  Requests to cancel a call, move *)
(* it to the background or change its deadlines come from other tasks.     *)
(*                                                                         *)
(* Everything runs on one event loop and the code between two awaits is a  *)
(* step.  The two asyncio locks are never held across an await, so they    *)
(* are never contended and take no step.  Times are abstract: a deadline   *)
(* is unset, ahead or past, and a kill deadline ahead is far while at      *)
(* least MIN_BACKGROUND_WINDOW_SECS remain and near after that.            *)
(*                                                                         *)
(* No before or after hook is registered by the repository, and no handler *)
(* of on_offloaded or on_completion; they are left out.                    *)
(***************************************************************************)
EXTENDS Naturals

CONSTANTS
    Calls,      \* tool calls
    Sessions,   \* sessions
    SessionOf,  \* call -> the session it belongs to
    Capped,     \* calls of tools with max_internal_timeout_secs
    MaxChunks,  \* bound: chunks a tool produces
    MaxAsks     \* bound: interventions, over all calls, a shutdown included

ASSUME CallsAssumption ==
    /\ SessionOf \in [Calls -> Sessions]
    /\ Capped \subseteq Calls
    /\ MaxChunks \in Nat /\ MaxAsks \in Nat

VARIABLES
    status,       \* call -> ToolCallEntry.status; "new" before execute
    caller,       \* call -> where its execute is
    watcher,      \* call -> where its _supervise task is
    bg,           \* call -> where its background task is
    stopping,     \* calls whose background task has a cancel() to deliver
    chunks,       \* call -> chunks in the caller's queue
    produced,     \* call -> chunks its tool has produced
    closed,       \* calls whose stream has put the sentinel in that queue
    offload,      \* call -> offload_deadline
    kill,         \* call -> kill_deadline
    changed,      \* calls whose deadline_changed_event is set
    cancelled,    \* calls whose cancel_event is set
    byUser,       \* calls whose offload_reason is USER
    hints,        \* calls with a hint in _pending_hints
    seen,         \* calls whose hint reached the agent's context
    offloadOnDeadline,
    bounded,      \* whether the tools' timeout resolves to a number
    down,         \* whether shutdown was called
    toStop,       \* calls it has yet to wait for
    asks

taskVars == <<bg, stopping, produced>>
queueVars == <<chunks, closed>>
deadlineVars == <<offload, kill, changed>>
hintVars == <<hints, seen>>
settingVars == <<offloadOnDeadline, bounded>>
ctxVars == <<deadlineVars, cancelled, byUser>>
envVars == <<settingVars, down, toStop, asks>>
vars == <<status, caller, watcher, taskVars, queueVars, ctxVars,
          hintVars, envVars>>

None == "none"
Ended == {"done", "dead"}       \* dead: the task itself ended as cancelled
InTable(c) == status[c] \in {"running", "offloaded"}    \* _entries

\* The wait has no timeout, one for a deadline, one for a deadline since moved.
Waiting == {"untimed", "timed", "outdated"}
Looping == {"looping", "fired"} \cup Waiting
Subscribed == {"grace"} \cup Looping
Callers == {"idle", "joining", "answered", "placeholder", "gone", "broken"}
               \cup Subscribed
Watchers == {"idle", "watching", "grace", "joining", "reporting", "done",
             "broken"}
Tasks == {"idle", "new", "running", "closing", "unwinding"} \cup Ended

TypeOK ==
    /\ status \in [Calls -> {"new", "running", "offloaded", "completed"}]
    /\ caller \in [Calls -> Callers]
    /\ watcher \in [Calls -> Watchers]
    /\ bg \in [Calls -> Tasks]
    /\ stopping \in SUBSET Calls
    /\ chunks \in [Calls -> 0 .. MaxChunks]
    /\ produced \in [Calls -> 0 .. MaxChunks]
    /\ \A c \in Calls : chunks[c] <= produced[c]
    /\ closed \in SUBSET Calls
    /\ offload \in [Calls -> {None, "ahead", "past"}]
    /\ kill \in [Calls -> {None, "far", "near", "past"}]
    /\ changed \in SUBSET Calls
    /\ cancelled \in SUBSET Calls
    /\ byUser \in SUBSET Calls
    /\ hints \in SUBSET Calls /\ seen \in SUBSET Calls
    /\ offloadOnDeadline \in BOOLEAN /\ bounded \in BOOLEAN
    /\ down \in BOOLEAN /\ toStop \in SUBSET Calls
    /\ asks \in 0 .. MaxAsks

Init ==
    /\ status = [c \in Calls |-> "new"]
    /\ caller = [c \in Calls |-> "idle"]
    /\ watcher = [c \in Calls |-> "idle"]
    /\ bg = [c \in Calls |-> "idle"]
    /\ stopping = {}
    /\ chunks = [c \in Calls |-> 0] /\ produced = [c \in Calls |-> 0]
    /\ closed = {}
    /\ offload = [c \in Calls |-> None] /\ kill = [c \in Calls |-> None]
    /\ changed = {} /\ cancelled = {} /\ byUser = {}
    /\ hints = {} /\ seen = {}
    /\ offloadOnDeadline \in BOOLEAN /\ bounded \in BOOLEAN
    /\ down = FALSE /\ toStop = {} /\ asks = 0

-----------------------------------------------------------------------------
(* The caller: execute and _await_next_event. *)

\* execute, up to its loop: the entry is in the table, the task is created.
Execute(c) ==
    /\ status[c] = "new"
    /\ status' = [status EXCEPT ![c] = "running"]
    /\ caller' = [caller EXCEPT ![c] = "looping"]
    /\ bg' = [bg EXCEPT ![c] = "new"]
    /\ offload' = [offload EXCEPT ![c] = IF bounded THEN "ahead" ELSE None]
    /\ UNCHANGED <<watcher, stopping, produced, queueVars, kill,
                   changed, cancelled, byUser, hintVars, envVars>>

\* mutant: waits for the task without grace and force
JoinAtOnce(c) == "joining"

\* Where _await_grace_or_force_cancel leaves its caller at first.
AfterGraceCall(c) == IF bg[c] \in Ended THEN "joining" ELSE "grace"

\* cancel_event and TIMEOUT, then time to stop: the tool exceeded a deadline.
CancelForTimeout(c) ==
    /\ cancelled' = cancelled \cup {c}
    /\ caller' = [caller EXCEPT ![c] = AfterGraceCall(c)]

\* mutant: refuses nothing and seeds nothing
SeedNothing(c) == UNCHANGED <<kill, changed>>

\* _ensure_kill_deadline_for_offload: what it returns, and what it leaves.
CanBound(c) == kill[c] = "far" \/ bounded
SeedKill(c) ==
    /\ kill' = [kill EXCEPT ![c] = "far"]
    /\ changed' = IF kill[c] = "far" THEN changed ELSE changed \cup {c}

\* mutant: the caller does not return, it joins the tool as well
OffloadAndJoin(c) ==
    /\ status' = [status EXCEPT ![c] = "offloaded"]
    /\ offload' = [offload EXCEPT ![c] = None]
    /\ watcher' = [watcher EXCEPT ![c] = "watching"]
    /\ caller' = [caller EXCEPT ![c] = "joining"]

\* _begin_offload: a watcher takes over, the caller yields the placeholder.
BeginOffload(c) ==
    /\ status' = [status EXCEPT ![c] = "offloaded"]
    /\ offload' = [offload EXCEPT ![c] = None]
    /\ watcher' = [watcher EXCEPT ![c] = "watching"]
    /\ caller' = [caller EXCEPT ![c] = "placeholder"]

WantsOffload(c) == offloadOnDeadline \/ c \in byUser

\* The branches of deadline_reached.
DeadlineReached(c) ==
    \/ /\ WantsOffload(c) /\ CanBound(c)
       /\ SeedKill(c) /\ BeginOffload(c)
       /\ UNCHANGED cancelled
    \/ /\ ~WantsOffload(c) /\ kill[c] # None
       /\ offload' = [offload EXCEPT ![c] = None]
       /\ changed' = changed \cup {c}
       /\ caller' = [caller EXCEPT ![c] = "looping"]
       /\ UNCHANGED <<status, watcher, kill, cancelled>>
    \/ /\ IF WantsOffload(c) THEN ~CanBound(c) ELSE kill[c] = None
       /\ CancelForTimeout(c)
       /\ UNCHANGED <<status, watcher, deadlineVars>>

\* A deadline fired: kill_deadline_reached wins over deadline_reached.
DeadlineEvent(c) ==
    IF kill[c] = "past"
    THEN /\ CancelForTimeout(c)
         /\ UNCHANGED <<status, watcher, deadlineVars>>
    ELSE DeadlineReached(c)

\* The loop calls _await_next_event and a deadline has passed already.
CallerFindsDeadline(c) ==
    /\ caller[c] = "looping"
    /\ kill[c] = "past" \/ offload[c] = "past"
    /\ DeadlineEvent(c)
    /\ UNCHANGED <<taskVars, queueVars, byUser, hintVars, envVars>>

\* Otherwise it waits, with the nearest deadline as the wait's timeout.
CallerWaits(c) ==
    /\ caller[c] = "looping"
    /\ kill[c] # "past" /\ offload[c] # "past"
    /\ caller' = [caller EXCEPT ![c] =
                      IF offload[c] = None /\ kill[c] = None
                      THEN "untimed" ELSE "timed"]
    /\ UNCHANGED <<status, watcher, taskVars, queueVars, ctxVars, hintVars,
                   envVars>>

\* A chunk goes to the agent; it wins over the end of the stream, that over
\* cancel_event, and that over deadline_changed_event.
CallerChunk(c) ==
    /\ caller[c] \in Waiting /\ chunks[c] > 0
    /\ chunks' = [chunks EXCEPT ![c] = @ - 1]
    /\ caller' = [caller EXCEPT ![c] = "looping"]
    /\ UNCHANGED <<status, watcher, taskVars, closed, ctxVars,
                   hintVars, envVars>>

CallerStreamClosed(c) ==
    /\ caller[c] \in Waiting /\ chunks[c] = 0 /\ c \in closed
    /\ caller' = [caller EXCEPT ![c] = "joining"]
    /\ UNCHANGED <<status, watcher, taskVars, queueVars, ctxVars,
                   hintVars, envVars>>

CallerSeesCancel(c) ==
    /\ caller[c] \in Waiting /\ chunks[c] = 0 /\ c \notin closed
    /\ c \in cancelled
    /\ caller' = [caller EXCEPT ![c] = AfterGraceCall(c)]
    /\ UNCHANGED <<status, watcher, taskVars, queueVars, ctxVars,
                   hintVars, envVars>>

CallerSeesChange(c) ==
    /\ caller[c] \in Waiting /\ chunks[c] = 0 /\ c \notin closed
    /\ c \notin cancelled /\ c \in changed
    /\ changed' = changed \ {c}
    /\ caller' = [caller EXCEPT ![c] = "looping"]
    /\ UNCHANGED <<status, watcher, taskVars, queueVars, offload, kill,
                   cancelled, byUser, hintVars, envVars>>

\* The wait times out.  The other waiters are cancelled and gathered before
\* the deadlines are read again, so what they were may have changed.
CallerTimeout(c) ==
    /\ \/ caller[c] = "timed" /\ (offload[c] = "past" \/ kill[c] = "past")
       \/ caller[c] = "outdated"
    /\ caller' = [caller EXCEPT ![c] = "fired"]
    /\ UNCHANGED <<status, watcher, taskVars, queueVars, ctxVars,
                   hintVars, envVars>>

CallerFired(c) ==
    /\ caller[c] = "fired"
    /\ DeadlineEvent(c)
    /\ UNCHANGED <<taskVars, queueVars, byUser, hintVars, envVars>>

-----------------------------------------------------------------------------
(* Time to stop, force, and the end: the caller in the foreground, the      *)
(* watcher in the background.                                               *)

\* _apply_force_cancel.
ForceCancel(c) ==
    /\ cancelled' = cancelled \cup {c}
    /\ stopping' = IF bg[c] \in Ended THEN stopping ELSE stopping \cup {c}

\* The task ended in time.  When it ended as cancelled, the shielded wait
\* raises CancelledError in the caller, which nothing there catches.
CallerGraceEnds(c) ==
    /\ caller[c] = "grace" /\ bg[c] \in Ended
    /\ caller' = [caller EXCEPT ![c] =
                      IF bg[c] = "done" THEN "joining" ELSE "broken"]
    /\ UNCHANGED <<status, watcher, taskVars, queueVars, ctxVars,
                   hintVars, envVars>>

CallerGraceTimeout(c) ==
    /\ caller[c] = "grace" /\ bg[c] \notin Ended
    /\ ForceCancel(c)
    /\ caller' = [caller EXCEPT ![c] = "joining"]
    /\ UNCHANGED <<status, watcher, bg, produced, queueVars,
                   deadlineVars, byUser, hintVars, envVars>>

\* _await_background_task and _finalize_completed; the response is yielded.
CallerFinishes(c) ==
    /\ caller[c] = "joining" /\ bg[c] \in Ended
    /\ status' = [status EXCEPT ![c] = "completed"]
    /\ caller' = [caller EXCEPT ![c] = "answered"]
    /\ UNCHANGED <<watcher, taskVars, queueVars, ctxVars, hintVars,
                   envVars>>

\* The agent's run is cancelled inside execute: it only unsubscribes.
CallerGone(c) ==
    /\ caller[c] \in Subscribed \cup {"joining"}
    /\ caller' = [caller EXCEPT ![c] = "gone"]
    /\ UNCHANGED <<status, watcher, taskVars, queueVars, ctxVars,
                   hintVars, envVars>>

\* _supervise_loop: the kill deadline first, then cancel_event; an end of the
\* task leaves the loop, a changed deadline goes around it.
WatcherKill(c) ==
    /\ watcher[c] = "watching" /\ kill[c] = "past"
    /\ cancelled' = cancelled \cup {c}
    /\ watcher' = [watcher EXCEPT ![c] = AfterGraceCall(c)]
    /\ UNCHANGED <<status, caller, taskVars, queueVars, deadlineVars,
                   byUser, hintVars, envVars>>

WatcherSeesCancel(c) ==
    /\ watcher[c] = "watching" /\ c \in cancelled
    /\ watcher' = [watcher EXCEPT ![c] = AfterGraceCall(c)]
    /\ UNCHANGED <<status, caller, taskVars, queueVars, ctxVars,
                   hintVars, envVars>>

WatcherSeesEnd(c) ==
    /\ watcher[c] = "watching" /\ bg[c] \in Ended
    /\ watcher' = [watcher EXCEPT ![c] = "joining"]
    /\ UNCHANGED <<status, caller, taskVars, queueVars, ctxVars,
                   hintVars, envVars>>

WatcherSeesChange(c) ==
    /\ watcher[c] = "watching" /\ c \in changed
    /\ kill[c] # "past" /\ c \notin cancelled
    /\ changed' = changed \ {c}
    /\ UNCHANGED <<status, caller, watcher, taskVars, queueVars,
                   offload, kill, cancelled, byUser, hintVars, envVars>>

WatcherGraceEnds(c) ==
    /\ watcher[c] = "grace" /\ bg[c] \in Ended
    /\ watcher' = [watcher EXCEPT ![c] =
                       IF bg[c] = "done" THEN "joining" ELSE "broken"]
    /\ UNCHANGED <<status, caller, taskVars, queueVars, ctxVars,
                   hintVars, envVars>>

WatcherGraceTimeout(c) ==
    /\ watcher[c] = "grace" /\ bg[c] \notin Ended
    /\ ForceCancel(c)
    /\ watcher' = [watcher EXCEPT ![c] = "joining"]
    /\ UNCHANGED <<status, caller, bg, produced, queueVars,
                   deadlineVars, byUser, hintVars, envVars>>

WatcherFinishes(c) ==
    /\ watcher[c] = "joining" /\ bg[c] \in Ended
    /\ status' = [status EXCEPT ![c] = "completed"]
    /\ watcher' = [watcher EXCEPT ![c] = "reporting"]
    /\ UNCHANGED <<caller, taskVars, queueVars, ctxVars, hintVars,
                   envVars>>

\* The result processor has run: the hint is queued for the session.
WatcherReports(c) ==
    /\ watcher[c] = "reporting"
    /\ hints' = hints \cup {c}
    /\ watcher' = [watcher EXCEPT ![c] = "done"]
    /\ UNCHANGED <<status, caller, taskVars, queueVars, ctxVars, seen,
                   envVars>>

\* mutant: the hints stay where they are
PeekPendingHints(s) ==
    /\ \E c \in hints : SessionOf[c] = s
    /\ seen' = seen \cup {c \in hints : SessionOf[c] = s}
    /\ UNCHANGED <<status, caller, watcher, taskVars, queueVars, ctxVars, hints,
                   envVars>>

\* The next reasoning step of a run of the session takes its hints.
PopPendingHints(s) ==
    LET mine == {c \in hints : SessionOf[c] = s}
    IN  /\ mine # {}
        /\ seen' = seen \cup mine
        /\ hints' = hints \ mine
        /\ UNCHANGED <<status, caller, watcher, taskVars, queueVars,
                       ctxVars, envVars>>

-----------------------------------------------------------------------------
(* The background task: _run_tool_with_hooks and _drain. *)

\* The tool begins, and may arm its own kill deadline; a call cancelled before
\* that is answered at once, one whose task was told to stop never runs.
BgStart(c) ==
    /\ bg[c] = "new" /\ c \notin stopping
    /\ IF c \in cancelled
       THEN /\ bg' = [bg EXCEPT ![c] = "unwinding"]
            /\ UNCHANGED deadlineVars
       ELSE /\ bg' = [bg EXCEPT ![c] = "running"]
            /\ \/ UNCHANGED deadlineVars
               \/ \E k \in {"far", "near"} : \* arm_kill_deadline
                    /\ kill[c] = None
                    /\ kill' = [kill EXCEPT ![c] = k]
                    /\ changed' = changed \cup {c}
                    /\ UNCHANGED offload
    /\ UNCHANGED <<status, caller, watcher, stopping, produced, queueVars, cancelled, byUser, hintVars, envVars>>

\* A chunk, for the caller's queue while the caller is subscribed.
BgChunk(c) ==
    /\ bg[c] = "running" /\ c \notin stopping
    /\ produced[c] < MaxChunks
    /\ caller[c] \in Subscribed
    /\ produced' = [produced EXCEPT ![c] = @ + 1]
    /\ chunks' = [chunks EXCEPT ![c] = @ + 1]
    /\ UNCHANGED <<status, caller, watcher, bg, stopping, closed,
                   ctxVars, hintVars, envVars>>

\* The tool responds, or reports an error or an interruption in a chunk: the
\* stream is closed inside _drain's try.
BgResponds(c) ==
    /\ bg[c] = "running" /\ c \notin stopping
    /\ bg' = [bg EXCEPT ![c] = "closing"]
    /\ UNCHANGED <<status, caller, watcher, stopping, produced,
                   queueVars, ctxVars, hintVars, envVars>>

\* It raises, or its generator is exhausted: closed in the finally block.
BgRaises(c) ==
    /\ bg[c] = "running" /\ c \notin stopping
    /\ bg' = [bg EXCEPT ![c] = "unwinding"]
    /\ UNCHANGED <<status, caller, watcher, stopping, produced,
                   queueVars, ctxVars, hintVars, envVars>>

\* A cooperative tool raises CancelledError when cancel_event is set.
BgCooperates(c) ==
    /\ bg[c] = "running" /\ c \notin stopping /\ c \in cancelled
    /\ bg' = [bg EXCEPT ![c] = "unwinding"]
    /\ UNCHANGED <<status, caller, watcher, stopping, produced, queueVars, ctxVars, hintVars, envVars>>

\* A cancel() reaches the task.  Outside _drain's try it ends the task as
\* cancelled; inside, the response becomes the cancel message, unless the
\* tool turns it into an interrupted chunk of its own.
BgStopped(c) ==
    /\ c \in stopping
    /\ stopping' = stopping \ {c}
    /\ \E next \in CASE bg[c] \in {"new", "unwinding"} -> {"dead"}
                      [] bg[c] = "running" -> {"unwinding", "closing"}
                      [] bg[c] = "closing" -> {"done"}
                      [] OTHER -> {bg[c]} :
         bg' = [bg EXCEPT ![c] = next]
    /\ UNCHANGED <<status, caller, watcher, produced, queueVars,
                   ctxVars, hintVars, envVars>>

\* close: the sentinel is put in every subscriber's queue, then the task ends.
BgPutsSentinel(c) ==
    /\ bg[c] \in {"closing", "unwinding"} /\ c \notin stopping
    /\ c \notin closed
    /\ closed' = closed \cup {c}
    /\ UNCHANGED <<status, caller, watcher, taskVars, chunks, ctxVars,
                   hintVars, envVars>>

BgEnds(c) ==
    /\ bg[c] \in {"closing", "unwinding"} /\ c \notin stopping
    /\ c \in closed
    /\ bg' = [bg EXCEPT ![c] = "done"]
    /\ UNCHANGED <<status, caller, watcher, stopping, produced,
                   queueVars, ctxVars, hintVars, envVars>>

-----------------------------------------------------------------------------
(* Interventions: the router's handlers, the commands, TaskStop. *)

Ask == asks < MaxAsks /\ asks' = asks + 1

\* A wait already under way keeps the timeout it was given.
Outdate(c) ==
    caller' = [caller EXCEPT ![c] = IF @ = "timed" THEN "outdated" ELSE @]

RequestOffload(c) ==
    /\ status[c] = "running" /\ CanBound(c) /\ Ask
    /\ kill' = [kill EXCEPT ![c] = "far"]
    /\ byUser' = byUser \cup {c}
    /\ offload' = [offload EXCEPT ![c] = "past"]
    /\ changed' = changed \cup {c}
    /\ Outdate(c)
    /\ UNCHANGED <<status, watcher, taskVars, queueVars, cancelled,
                   hintVars, settingVars, down, toStop>>

\* mutant: force cancels the task without the cancel event
ForceUnsignalled(c, force) ==
    /\ InTable(c) /\ Ask
    /\ cancelled' = IF force THEN cancelled ELSE cancelled \cup {c}
    /\ stopping' = IF force /\ bg[c] \notin Ended
                   THEN stopping \cup {c} ELSE stopping
    /\ UNCHANGED <<status, caller, watcher, bg, produced, queueVars,
                   deadlineVars, byUser, hintVars, settingVars, down, toStop>>

\* cancel: TaskStop and the command leave out force.
Cancel(c, force) ==
    /\ InTable(c) /\ Ask
    /\ cancelled' = cancelled \cup {c}
    /\ stopping' = IF force /\ bg[c] \notin Ended
                   THEN stopping \cup {c} ELSE stopping
    /\ UNCHANGED <<status, caller, watcher, bg, produced, queueVars, deadlineVars, byUser, hintVars, settingVars, down,
                   toStop>>

\* extend_offload_deadline by some seconds, or no_deadline; seconds added to
\* a deadline long past may leave it in the past.
ExtendOffload(c) ==
    /\ status[c] = "running" /\ Ask
    /\ \E d \in {None, "ahead", "past"} :
         /\ d = "past" => offload[c] = "past"
         /\ offload' = [offload EXCEPT ![c] = d]
    /\ changed' = changed \cup {c}
    /\ Outdate(c)
    /\ UNCHANGED <<status, watcher, taskVars, queueVars, kill,
                   cancelled, byUser, hintVars, settingVars, down, toStop>>

\* extend_kill_deadline: no_deadline is refused to a capped tool and in the
\* background.  Seconds past the cap are refused: then nothing happens.
ExtendKill(c) ==
    /\ InTable(c) /\ Ask
    /\ \/ /\ c \notin Capped /\ status[c] # "offloaded"
          /\ kill' = [kill EXCEPT ![c] = None]
       \/ \E k \in {"far", "near", "past"} :
            /\ k = "past" => kill[c] = "past"
            /\ k = "near" => kill[c] # "far"
            /\ kill' = [kill EXCEPT ![c] = k]
    /\ changed' = changed \cup {c}
    /\ Outdate(c)
    /\ UNCHANGED <<status, watcher, taskVars, queueVars, offload,
                   cancelled, byUser, hintVars, settingVars, down, toStop>>

\* The settings page and set_agent_tool_timeout, at run time.
ChangeSettings ==
    /\ Ask
    /\ \/ /\ offloadOnDeadline' = ~offloadOnDeadline
          /\ UNCHANGED bounded
       \/ /\ bounded' = ~bounded
          /\ UNCHANGED offloadOnDeadline
    /\ UNCHANGED <<status, caller, watcher, taskVars, queueVars,
                   ctxVars, hintVars, down, toStop>>

\* Time passes, for deadlines that somebody still watches.
OffloadPasses(c) ==
    /\ offload[c] = "ahead" /\ caller[c] \in Looping
    /\ offload' = [offload EXCEPT ![c] = "past"]
    /\ UNCHANGED <<status, caller, watcher, taskVars, queueVars, kill,
                   changed, cancelled, byUser, hintVars, envVars>>

KillNears(c) ==
    /\ kill[c] \in {"far", "near"}
    /\ caller[c] \in Looping \/ watcher[c] = "watching"
    /\ kill' = [kill EXCEPT ![c] = IF @ = "far" THEN "near" ELSE "past"]
    /\ UNCHANGED <<status, caller, watcher, taskVars, queueVars,
                   offload, changed, cancelled, byUser, hintVars, envVars>>

-----------------------------------------------------------------------------
(* shutdown *)

Shutdown ==
    LET all == {c \in Calls : InTable(c)}
    IN  /\ ~down /\ Ask
        /\ down' = TRUE /\ toStop' = all
        /\ cancelled' = cancelled \cup all
        /\ UNCHANGED <<status, caller, watcher, taskVars, queueVars,
                       deadlineVars, byUser, hintVars, settingVars>>

\* One task ended in time, or its grace is over and it is told to stop.
ShutdownWaits(c) ==
    /\ c \in toStop
    /\ toStop' = toStop \ {c}
    /\ stopping' = IF bg[c] \in Ended THEN stopping ELSE stopping \cup {c}
    /\ UNCHANGED <<status, caller, watcher, bg, produced, queueVars, ctxVars, hintVars, settingVars, down, asks>>

-----------------------------------------------------------------------------
CallerStep(c) ==
    \/ CallerFindsDeadline(c) \/ CallerWaits(c) \/ CallerChunk(c)
    \/ CallerStreamClosed(c) \/ CallerSeesCancel(c) \/ CallerSeesChange(c)
    \/ CallerTimeout(c) \/ CallerFired(c)
    \/ CallerGraceEnds(c) \/ CallerGraceTimeout(c) \/ CallerFinishes(c)

WatcherStep(c) ==
    \/ WatcherKill(c) \/ WatcherSeesCancel(c) \/ WatcherSeesEnd(c)
    \/ WatcherSeesChange(c) \/ WatcherGraceEnds(c) \/ WatcherGraceTimeout(c)
    \/ WatcherFinishes(c) \/ WatcherReports(c)

\* What the task does without the tool's help.
TaskStep(c) ==
    BgStart(c) \/ BgStopped(c) \/ BgPutsSentinel(c) \/ BgEnds(c)

ToolStep(c) == BgChunk(c) \/ BgResponds(c) \/ BgRaises(c) \/ BgCooperates(c)

TimePasses(c) == OffloadPasses(c) \/ KillNears(c)

Intervention(c) ==
    \/ RequestOffload(c) \/ ExtendOffload(c) \/ ExtendKill(c)
    \/ \E force \in BOOLEAN : Cancel(c, force)

Next ==
    \/ \E c \in Calls :
         \/ Execute(c) \/ CallerGone(c) \/ CallerStep(c) \/ WatcherStep(c)
         \/ TaskStep(c) \/ ToolStep(c) \/ TimePasses(c) \/ Intervention(c)
         \/ ShutdownWaits(c)
    \/ \E s \in Sessions : PopPendingHints(s)
    \/ ChangeSettings \/ Shutdown

Spec == Init /\ [][Next]_vars

\* The event loop runs every task that can run, timers fire and clocks go on.
\* Nothing is assumed of tools, of users or of the agent's next turn.
FairSpec ==
    /\ Spec
    /\ \A c \in Calls :
         /\ WF_vars(CallerStep(c)) /\ WF_vars(WatcherStep(c))
         /\ WF_vars(TaskStep(c))
         /\ WF_vars(OffloadPasses(c)) /\ WF_vars(KillNears(c))

-----------------------------------------------------------------------------
(* Properties *)

\* Nobody is left who ends the call: its caller was cancelled, or its task
\* ended as cancelled under somebody who gave it time to stop.
Lost(c) == caller[c] \in {"gone", "broken"} \/ watcher[c] = "broken"

\* Work in the background always has a kill deadline, whatever the user does
\* to the deadlines between asking for the move and the move itself ("Offload
\* must not create unbounded background work", _coordinator.py:137).
BackgroundBounded ==
    \A c \in Calls : status[c] = "offloaded" => kill[c] # None

\* A caller never waits for a task that is over without something that wakes
\* it: the sentinel, or the cancel event that every cancel() of the task sets
\* first.  The caller's wait does not look at the task.
CallerIsWoken ==
    \A c \in Calls :
        (caller[c] \in Waiting /\ bg[c] \in Ended) => c \in closed \cup cancelled

\* Nobody joins a tool that still runs unless it has been told to stop: the
\* join has no timeout.
JoinIsShort ==
    \A c \in Calls :
        (caller[c] = "joining" \/ watcher[c] = "joining")
            => (bg[c] \notin {"new", "running"} \/ c \in stopping)

\* A call moved to the background leaves one hint, once its watcher is done,
\* and a hint that reached the agent is not pending any more.
HintOnce ==
    /\ \A c \in Calls : watcher[c] = "done" <=> c \in hints \cup seen
    /\ hints \cap seen = {}

\* Each call has one outcome: the steps of the code are those of CallOutcome.
Outcome(c) ==
    CASE status[c] = "new" -> "none"
      [] status[c] # "new" /\ Lost(c) -> "lost"
      [] caller[c] = "answered" /\ watcher[c] = "idle" -> "answered"
      [] caller[c] = "placeholder" /\ watcher[c] = "done" -> "reported"
      [] /\ caller[c] = "placeholder"
         /\ watcher[c] \in {"watching", "grace", "joining", "reporting"}
         -> "background"
      [] caller[c] \in Subscribed \cup {"joining"} /\ watcher[c] = "idle"
         -> "open"
      [] OTHER -> "both"
Abstract == INSTANCE CallOutcome WITH outcome <- [c \in Calls |-> Outcome(c)]
OneOutcome == Abstract!Spec

\* Whoever cancels a call, and whether its tool cooperates or not, the call
\* ends; so does one past its kill deadline, unless that is extended.
StopsAreServed ==
    \A c \in Calls :
        (InTable(c) /\ (c \in cancelled \/ kill[c] = "past"))
            ~> (\/ ~InTable(c) \/ Lost(c)
                \/ (c \notin cancelled /\ kill[c] # "past"))

\* Work in the background ends and is reported.
BackgroundReports ==
    \A c \in Calls :
        status[c] = "offloaded" ~> watcher[c] \in {"done", "broken"}
=============================================================================
