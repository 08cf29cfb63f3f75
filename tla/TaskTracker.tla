---------------------------- MODULE TaskTracker ----------------------------
(***************************************************************************)
(* The per-agent TaskTracker (src/qwenpaw/app/task_tracker.py): background *)
(* runs of a chat, their event buffers, the clients that stream from them, *)
(* the stop request, and the replay file that survives a process restart.  *)
(*                                                                         *)
(* Everything runs on one event loop, so the code between two awaits is    *)
(* one step.  The tracker's FIFO asyncio lock is explicit: it is held      *)
(* across an await in one place only (attach_or_start, while a worker      *)
(* thread deletes the old replay file), and that is what makes the other   *)
(* operations queue up behind it.  File writes run in worker threads,      *)
(* which cannot be cancelled: a coroutine that is cancelled while it       *)
(* awaits one first waits for the thread (_IoPool.run drains it), and only *)
(* a second cancellation makes it go on and leave the write in flight.     *)
(*                                                                         *)
(* A run's events are its numbers 1, 2, ...; the `internal server error'   *)
(* event is simply the last of them.                                       *)
(***************************************************************************)
EXTENDS Integers, Sequences, FiniteSets

CONSTANTS
    Keys,          \* run keys (chat ids)
    Clients,       \* HTTP requests: chat, reconnect, stop
    Nobody,        \* the holder of a free lock
    NoFile,        \* no replay file on disk
    MaxRuns,       \* bound: runs ever started
    BufferCap,     \* _MAX_RUN_BUFFER_EVENTS
    MaxCompleted,  \* _MAX_COMPLETED_RUNS
    MaxEvents,     \* bound: events one stream_fn yields
    MaxStops,      \* bound: stop requests
    MaxFaults,     \* bound: file operations that raise or find their pool
                   \* full, streams that raise
    MaxCrashes,    \* bound: process restarts
    TTLElapses     \* may the retention window of a completed run pass?

Runs == 1..MaxRuns

AnyKey == CHOOSE k \in Keys : TRUE

ASSUME BoundsAssumption ==
    /\ MaxRuns \in Nat \ {0} /\ BufferCap \in Nat \ {0}
    /\ MaxCompleted \in Nat \ {0}
    /\ MaxEvents \in Nat /\ MaxStops \in Nat /\ MaxFaults \in Nat
    /\ MaxCrashes \in Nat /\ TTLElapses \in BOOLEAN

ASSUME IdsAssumption ==
    Keys # {} /\ Nobody \notin Clients /\ Clients \cap Runs = {}

VARIABLES
    holder,      \* who holds the lock across an await
    waiters,     \* FIFO of clients and producers waiting for the lock
    runs,        \* _runs: key -> registered run, 0 when absent
    key,         \* run -> its run_key
    phase,       \* run -> where its producer task is
    cancelling,  \* run -> task.cancel() called, CancelledError not raised yet
    cancels,     \* run -> CancelledErrors its producer met (history)
    buffer,      \* run -> replay buffer
    retained,    \* run -> rank of its retained_until, 0 while it is None
    subs,        \* run -> subscribed clients (_RunState.queues)
    at,          \* client -> where its request is
    target,      \* client -> run_key of the request
    from,        \* client -> the run it streams from or stops, 0 for the disk
    queue,       \* client -> everything ever put on its queue
    disk,        \* key -> replay file
    writes,      \* replay writes in flight in worker threads
    stops, faults, crashes

vars == <<holder, waiters, runs, key, phase, cancelling, cancels, buffer,
          retained, subs, at, target, from, queue, disk, writes, stops, faults, crashes>>

lockVars   == <<holder, waiters>>
runVars    == <<key, phase, cancelling, cancels, buffer, retained, subs>>
clientVars == <<at, target, from, queue>>
diskVars   == <<disk, writes>>
budgets    == <<stops, faults, crashes>>

SENTINEL   == -1
REPLAY_END == -2

\* Producer phases.  `entering', `emitting', `erroring' and `finishing' wait
\* for the lock; `persisting' and `flushing' wait for a worker thread, as do,
\* once they are cancelled, `draining' and `sealing'.  A `dropped' run is a
\* placeholder that was cancelled.
Finished  == {"done", "killed", "dropped", "lost"}
Producing == {"created", "entering", "streaming", "emitting", "persisting",
              "draining", "erroring", "finishing", "flushing", "sealing"}
Phases    == {"unused", "placeholder", "stuck"} \cup Producing \cup Finished

Waiting == {"attaching", "starting", "stopping", "detaching"}
Places  == {"idle", "deleting", "reading", "unlinking", "streaming",
            "awaiting"} \cup Waiting

\* mutant: a run that has left its loop counts as done
EndingIsDone(r) == phase[r] \in Finished \cup {"finishing", "flushing", "sealing"}

\* task.done()
Done(r) == phase[r] \in Finished

Used == {r \in Runs : phase[r] # "unused"}
-----------------------------------------------------------------------------
(* The lock *)

\* asyncio.Lock is FIFO: whoever finds it free and nobody queued goes on at
\* once, otherwise the queue's head is the next to run.  A new producer takes
\* its first step before a waiter is woken: create_task precedes the release.
MyTurn(a) ==
    /\ holder = Nobody
    /\ waiters # <<>> => /\ Head(waiters) = a
                         /\ \A r \in Runs : phase[r] # "created"

Served == IF waiters = <<>> THEN <<>> ELSE Tail(waiters)

Contended == holder # Nobody \/ waiters # <<>>

\* a cancelled waiter leaves the queue
Without(s, a) ==
    IF \E i \in DOMAIN s : s[i] = a
    THEN LET i == CHOOSE j \in DOMAIN s : s[j] = a
         IN  SubSeq(s, 1, i - 1) \o SubSeq(s, i + 1, Len(s))
    ELSE s
-----------------------------------------------------------------------------
(* The registry and the buffers *)

\* mutant: sorted the other way round
KeptShorter(q, r) == retained[q] < retained[r]

\* completed runs sort by `retained_until or 0'; ties keep the older first
KeptLonger(q, r) == retained[q] > retained[r] \/ (retained[q] = retained[r] /\ q > r)

\* _purge_completed_locked when the retention of the first `cut' completed
\* runs has passed
Purged(cut) ==
    LET expired(k) == /\ runs[k] # 0 /\ Done(runs[k])
                      /\ retained[runs[k]] \in 1..cut
        completed  == {k \in Keys : runs[k] # 0 /\ Done(runs[k]) /\ ~expired(k)}
        excess(k)  == /\ k \in completed
                      /\ Cardinality({j \in completed : KeptLonger(runs[j], runs[k])})
                           >= MaxCompleted
    IN  [k \in Keys |-> IF expired(k) \/ excess(k) THEN 0 ELSE runs[k]]

Cuts == IF TTLElapses THEN 0..MaxRuns ELSE {0}

LastEvent(r) == IF buffer[r] = <<>> THEN 0 ELSE buffer[r][Len(buffer[r])]

\* mutant: the newest events are cut, not the oldest
TrimNewest(s) == IF Len(s) > BufferCap THEN SubSeq(s, 1, BufferCap) ELSE s


Trim(s) == IF Len(s) > BufferCap
           THEN SubSeq(s, Len(s) - BufferCap + 1, Len(s)) ELSE s

\* put_nowait on every queue of the run
Broadcast(r, item) ==
    [c \in Clients |-> IF c \in subs[r] THEN Append(queue[c], item) ELSE queue[c]]

\* mutant: the snapshot misses the newest event
SnapshotEarly(r, s, final) ==
    [run |-> r, events |-> SubSeq(s, 1, Len(s) - 1), final |-> final]


Snapshot(r, s, final) == [run |-> r, events |-> s, final |-> final]

\* mutant: the queue is filled but not added to the run's queues
SubscribeNot(c, k, r, items) ==
    /\ at' = [at EXCEPT ![c] = "streaming"]
    /\ target' = [target EXCEPT ![c] = k]
    /\ from' = [from EXCEPT ![c] = r]
    /\ queue' = [queue EXCEPT ![c] = items]
    /\ UNCHANGED subs


Subscribe(c, k, r, items) ==
    /\ subs' = [subs EXCEPT ![r] = @ \cup {c}]
    /\ at' = [at EXCEPT ![c] = "streaming"]
    /\ target' = [target EXCEPT ![c] = k]
    /\ from' = [from EXCEPT ![c] = r]
    /\ queue' = [queue EXCEPT ![c] = items]
\* The request is over; nothing of it is left.
Ends(c) ==
    /\ at' = [at EXCEPT ![c] = "idle"]
    /\ target' = [target EXCEPT ![c] = AnyKey]
    /\ from' = [from EXCEPT ![c] = 0]
    /\ queue' = [queue EXCEPT ![c] = <<>>]
-----------------------------------------------------------------------------
Init ==
    /\ holder = Nobody /\ waiters = <<>>
    /\ runs = [k \in Keys |-> 0]
    /\ key = [r \in Runs |-> AnyKey]
    /\ phase = [r \in Runs |-> "unused"]
    /\ cancelling = [r \in Runs |-> FALSE]
    /\ cancels = [r \in Runs |-> 0]
    /\ buffer = [r \in Runs |-> <<>>]
    /\ retained = [r \in Runs |-> 0]
    /\ subs = [r \in Runs |-> {}]
    /\ at = [c \in Clients |-> "idle"]
    /\ target = [c \in Clients |-> AnyKey]
    /\ from = [c \in Clients |-> 0]
    /\ queue = [c \in Clients |-> <<>>]
    /\ disk = [k \in Keys |-> NoFile]
    /\ writes = {}
    /\ stops = 0 /\ faults = 0 /\ crashes = 0
-----------------------------------------------------------------------------
(* Client requests *)

StartsPending == Cardinality({c \in Clients : at[c] = "starting"})

\* Bounds of the instance: a new request is made only while they last.
MayCall(op) ==
    /\ op = "starting" => Cardinality(Used) + StartsPending < MaxRuns
    /\ op = "stopping" => stops < MaxStops

\* The request is made now, or was made earlier and has waited for the lock.
Requested(c, op, k) ==
    \/ at[c] = "idle" /\ MayCall(op)
    \/ at[c] = op /\ target[c] = k

Call(c, op, k) ==
    /\ at[c] = "idle" /\ MayCall(op) /\ Contended
    /\ at' = [at EXCEPT ![c] = op]
    /\ target' = [target EXCEPT ![c] = k]
    /\ waiters' = Append(waiters, c)
    /\ stops' = IF op = "stopping" THEN stops + 1 ELSE stops
    /\ UNCHANGED <<holder, runs, runVars, from, queue, diskVars, faults, crashes>>

\* attach: a registered run, live or completed
Attach(c, k) ==
    /\ MyTurn(c) /\ Requested(c, "attaching", k)
    /\ waiters' = Served
    /\ \E cut \in Cuts :
         /\ runs' = Purged(cut)
         /\ runs'[k] # 0
         /\ LET r == runs'[k] IN
            Subscribe(c, k, r, buffer[r] \o <<REPLAY_END>>
                               \o (IF Done(r) THEN <<SENTINEL>> ELSE <<>>))
    /\ UNCHANGED <<holder, key, phase, cancelling, cancels, buffer, retained,
                   diskVars, budgets>>

\* attach: no run in memory, the replay file is read outside the lock
AttachMisses(c, k) ==
    /\ MyTurn(c) /\ Requested(c, "attaching", k)
    /\ waiters' = Served
    /\ \E cut \in Cuts : runs' = Purged(cut) /\ runs'[k] = 0
    /\ at' = [at EXCEPT ![c] = "reading"]
    /\ target' = [target EXCEPT ![c] = k]
    /\ UNCHANGED <<holder, runVars, from, queue, diskVars, budgets>>

ReadReplay(c) ==
    /\ at[c] = "reading" /\ disk[target[c]] # NoFile
    /\ at' = [at EXCEPT ![c] = "streaming"]
    /\ from' = [from EXCEPT ![c] = 0]
    /\ queue' = [queue EXCEPT ![c] = disk[target[c]].events \o <<REPLAY_END, SENTINEL>>]
    /\ UNCHANGED <<lockVars, runs, runVars, target, diskVars, budgets>>

\* no file: attach returns None and the request ends with an empty stream
ReadNothing(c) ==
    /\ at[c] = "reading" /\ disk[target[c]] = NoFile
    /\ Ends(c)
    /\ UNCHANGED <<lockVars, runs, runVars, diskVars, budgets>>

\* _read_replay reads an expired file and then unlinks whatever is there
ReadExpired(c) ==
    /\ TTLElapses /\ at[c] = "reading" /\ disk[target[c]] # NoFile
    /\ at' = [at EXCEPT ![c] = "unlinking"]
    /\ UNCHANGED <<lockVars, runs, runVars, target, from, queue, diskVars, budgets>>

UnlinkExpired(c) ==
    /\ at[c] = "unlinking"
    /\ disk' = [disk EXCEPT ![target[c]] = NoFile]
    /\ Ends(c)
    /\ UNCHANGED <<lockVars, runs, runVars, writes, budgets>>

\* attach_or_start finds a live run: replay without the replay_end marker
Join(c, k) ==
    /\ MyTurn(c) /\ Requested(c, "starting", k)
    /\ waiters' = Served
    /\ \E cut \in Cuts :
         /\ runs' = Purged(cut)
         /\ runs'[k] # 0 /\ ~Done(runs'[k])
         /\ Subscribe(c, k, runs'[k], buffer[runs'[k]])
    /\ UNCHANGED <<holder, key, phase, cancelling, cancels, buffer, retained,
                   diskVars, budgets>>

\* attach_or_start registers a placeholder and keeps the lock while the old
\* replay file is deleted
Start(c, k) ==
    /\ MyTurn(c) /\ Requested(c, "starting", k)
    /\ waiters' = Served
    /\ holder' = c
    /\ \E r \in Runs \ Used :
         /\ \A q \in Runs \ Used : r <= q
         /\ \E cut \in Cuts :
              /\ Purged(cut)[k] # 0 => Done(runs[k])
              /\ runs' = [Purged(cut) EXCEPT ![k] = r]
         /\ key' = [key EXCEPT ![r] = k]
         /\ phase' = [phase EXCEPT ![r] = "placeholder"]
         /\ subs' = [subs EXCEPT ![r] = {c}]
         /\ from' = [from EXCEPT ![c] = r]
    /\ at' = [at EXCEPT ![c] = "deleting"]
    /\ target' = [target EXCEPT ![c] = k]
    /\ queue' = [queue EXCEPT ![c] = <<>>]
    /\ UNCHANGED <<cancelling, cancels, buffer, retained, diskVars, budgets>>

\* mutant: the old replay file is kept
DeleteNothing(c) ==
    /\ at[c] = "deleting"
    /\ phase' = [phase EXCEPT ![from[c]] = "created"]
    /\ at' = [at EXCEPT ![c] = "streaming"]
    /\ holder' = Nobody
    /\ UNCHANGED <<waiters, runs, key, cancelling, cancels, buffer, retained, subs,
                   target, from, queue, diskVars, budgets>>


DeleteReplay(c) ==
    /\ at[c] = "deleting"
    /\ disk' = [disk EXCEPT ![target[c]] = NoFile]
    /\ phase' = [phase EXCEPT ![from[c]] = "created"]
    /\ at' = [at EXCEPT ![c] = "streaming"]
    /\ holder' = Nobody
    /\ UNCHANGED <<waiters, runs, key, cancelling, cancels, buffer, retained, subs,
                   target, from, queue, writes, budgets>>

\* mutant: the error path does not release the lock
DeleteFailsLocked(c) ==
    /\ at[c] = "deleting" /\ faults < MaxFaults
    /\ faults' = faults + 1
    /\ phase' = [phase EXCEPT ![from[c]] = "stuck"]
    /\ Ends(c)
    /\ UNCHANGED <<lockVars, runs, key, cancelling, cancels, buffer, retained, subs,
                   diskVars, stops, crashes>>

\* the unlink raises, or the request is cancelled while it waits for it: the
\* request fails and the placeholder stays registered
DeleteFails(c) ==
    /\ at[c] = "deleting" /\ faults < MaxFaults
    /\ faults' = faults + 1
    /\ disk' \in {disk, [disk EXCEPT ![target[c]] = NoFile]}
    /\ phase' = [phase EXCEPT ![from[c]] = "stuck"]
    /\ Ends(c)
    /\ holder' = Nobody
    /\ UNCHANGED <<waiters, runs, key, cancelling, cancels, buffer, retained, subs,
                   writes, stops, crashes>>

\* stream_from_queue ends, at the sentinel or because the client went away,
\* and takes the lock to detach
Leave(c) ==
    /\ at[c] = "streaming" /\ Contended
    /\ at' = [at EXCEPT ![c] = "detaching"]
    /\ waiters' = Append(waiters, c)
    /\ UNCHANGED <<holder, runs, runVars, target, from, queue, diskVars, budgets>>

\* detach_subscriber removes the queue from whatever run the key has now
Detach(c) ==
    /\ at[c] \in {"streaming", "detaching"} /\ MyTurn(c)
    /\ waiters' = Served
    /\ subs' = IF runs[target[c]] = 0 THEN subs
               ELSE [subs EXCEPT ![runs[target[c]]] = @ \ {c}]
    /\ Ends(c)
    /\ UNCHANGED <<holder, runs, key, phase, cancelling, cancels, buffer, retained,
                   diskVars, budgets>>

\* request_stop: nothing to stop, or task.cancel() and then await the task
\* outside the lock.  Cancelling the Future of a stuck placeholder ends it.
Stop(c, k) ==
    LET r == runs[k] IN
    /\ MyTurn(c) /\ Requested(c, "stopping", k)
    /\ stops' = IF at[c] = "idle" THEN stops + 1 ELSE stops
    /\ \/ /\ r # 0 => Done(r)
          /\ Ends(c)
          /\ waiters' = Served
          /\ UNCHANGED <<phase, cancelling>>
       \/ /\ r # 0 /\ phase[r] \in Producing
          /\ cancelling' = [cancelling EXCEPT ![r] = TRUE]
          /\ waiters' = Without(Served, r)
          /\ at' = [at EXCEPT ![c] = "awaiting"]
          /\ target' = [target EXCEPT ![c] = k]
          /\ from' = [from EXCEPT ![c] = r]
          /\ UNCHANGED <<phase, queue>>
       \/ /\ r # 0 /\ phase[r] = "stuck"
          /\ phase' = [phase EXCEPT ![r] = "dropped"]
          /\ Ends(c)
          /\ waiters' = Served
          /\ UNCHANGED cancelling
    /\ UNCHANGED <<holder, runs, key, cancels, buffer, retained, subs, diskVars,
                   faults, crashes>>

\* mutant: waits for a completion only the finally block signals
StopWaitsForFinally(c) ==
    /\ at[c] = "awaiting" /\ phase[from[c]] = "done"
    /\ Ends(c)
    /\ UNCHANGED <<lockVars, runs, runVars, diskVars, budgets>>


StopReturns(c) ==
    /\ at[c] = "awaiting" /\ Done(from[c])
    /\ Ends(c)
    /\ UNCHANGED <<lockVars, runs, runVars, diskVars, budgets>>

\* get_status purges too
GetStatus ==
    /\ holder = Nobody /\ waiters = <<>>
    /\ \E cut \in Cuts : runs' = Purged(cut)
    /\ UNCHANGED <<lockVars, runVars, clientVars, diskVars, budgets>>
-----------------------------------------------------------------------------
(* The producer task of a run *)

\* A producer that finds the lock taken queues for it.
Block(r) ==
    /\ Contended /\ ~cancelling[r]
    /\ \/ /\ phase[r] = "created"
          /\ phase' = [phase EXCEPT ![r] = "entering"]
       \/ /\ phase[r] = "streaming" /\ LastEvent(r) < MaxEvents
          /\ phase' = [phase EXCEPT ![r] = "emitting"]
    /\ waiters' = Append(waiters, r)
    /\ UNCHANGED <<holder, runs, key, cancelling, cancels, buffer, retained, subs,
                   clientVars, diskVars, budgets>>

\* first step of the task: record start_time under the lock
Enter(r) ==
    /\ phase[r] \in {"created", "entering"} /\ ~cancelling[r] /\ MyTurn(r)
    /\ waiters' = Served
    /\ phase' = [phase EXCEPT ![r] = "streaming"]
    /\ UNCHANGED <<holder, runs, key, cancelling, cancels, buffer, retained, subs,
                   clientVars, diskVars, budgets>>

\* one event of stream_fn: buffer it, broadcast it, and take a snapshot to
\* persist when two seconds have passed (always at the first event)
Emit(r) ==
    LET e == LastEvent(r) + 1 IN
    /\ phase[r] \in {"streaming", "emitting"} /\ ~cancelling[r] /\ MyTurn(r)
    /\ e <= MaxEvents
    /\ waiters' = Served
    /\ buffer' = [buffer EXCEPT ![r] = Trim(Append(@, e))]
    /\ queue' = Broadcast(r, e)
    /\ \/ /\ phase' = [phase EXCEPT ![r] = "persisting"]
          /\ writes' = writes \cup {Snapshot(r, buffer'[r], FALSE)}
       \/ /\ e > 1
          /\ phase' = [phase EXCEPT ![r] = "streaming"]
          /\ UNCHANGED writes
    /\ UNCHANGED <<holder, runs, key, cancelling, cancels, retained, subs, at, target,
                   from, disk, budgets>>

\* stream_fn is exhausted: into the finally block, which takes the lock
StreamEnds(r) ==
    /\ phase[r] = "streaming" /\ ~cancelling[r]
    /\ phase' = [phase EXCEPT ![r] = "finishing"]
    /\ waiters' = Append(waiters, r)
    /\ UNCHANGED <<holder, runs, key, cancelling, cancels, buffer, retained, subs,
                   clientVars, diskVars, budgets>>

\* stream_fn raises: the handler takes the lock to report the error
StreamRaises(r) ==
    /\ phase[r] = "streaming" /\ ~cancelling[r] /\ faults < MaxFaults
    /\ faults' = faults + 1
    /\ phase' = [phase EXCEPT ![r] = "erroring"]
    /\ waiters' = Append(waiters, r)
    /\ UNCHANGED <<holder, runs, key, cancelling, cancels, buffer, retained, subs,
                   clientVars, diskVars, stops, crashes>>

\* the error event is broadcast and buffered, without trimming; the finally
\* block then takes the lock again
ReportError(r) ==
    /\ phase[r] = "erroring" /\ ~cancelling[r] /\ MyTurn(r)
    /\ buffer' = [buffer EXCEPT ![r] = Append(@, LastEvent(r) + 1)]
    /\ queue' = Broadcast(r, LastEvent(r) + 1)
    /\ phase' = [phase EXCEPT ![r] = "finishing"]
    /\ waiters' = Append(Served, r)
    /\ UNCHANGED <<holder, runs, key, cancelling, cancels, retained, subs, at, target,
                   from, diskVars, budgets>>

\* the finally block: sentinel to every subscriber, retention starts, purge,
\* and the final snapshot is handed to a worker thread
Finalise(r) ==
    /\ phase[r] = "finishing" /\ ~cancelling[r] /\ MyTurn(r)
    /\ waiters' = Served
    /\ queue' = Broadcast(r, SENTINEL)
    /\ retained' = [retained EXCEPT ![r] =
                      Cardinality({q \in Runs : retained[q] # 0}) + 1]
    /\ \E cut \in Cuts : runs' = Purged(cut)
    /\ \/ /\ buffer[r] # <<>>
          /\ phase' = [phase EXCEPT ![r] = "flushing"]
          /\ writes' = writes \cup {Snapshot(r, buffer[r], TRUE)}
       \/ /\ buffer[r] = <<>>
          /\ phase' = [phase EXCEPT ![r] = "done"]
          /\ UNCHANGED writes
    /\ UNCHANGED <<holder, key, cancelling, cancels, buffer, subs, at, target, from,
                   disk, budgets>>

\* the replay write the producer of r waits for, if the thread still has it
Unwritten(r) ==
    {w \in writes : w.run = r /\ w.final = (phase[r] \in {"flushing", "sealing"})}

\* where a cancelled producer goes once no write holds it: before its first
\* step it just dies; from the body it goes to the finally block; inside the
\* finally block it ends
Unwound(r) ==
    IF phase[r] \in {"created", "finishing"} THEN "killed"
    ELSE IF phase[r] \in {"flushing", "sealing"} THEN "done"
    ELSE "finishing"

\* mutant: the first CancelledError does not wait for the thread
RaiseCancelledAtOnce(r) ==
    /\ cancelling[r]
    /\ cancelling' = [cancelling EXCEPT ![r] = FALSE]
    /\ cancels' = [cancels EXCEPT ![r] = @ + 1]
    /\ phase' = [phase EXCEPT ![r] = Unwound(r)]
    /\ waiters' = IF Unwound(r) = "finishing" THEN Append(waiters, r) ELSE waiters
    /\ UNCHANGED <<holder, runs, key, buffer, retained, subs, clientVars,
                   diskVars, budgets>>

\* CancelledError reaches the task.  The first one waits for the thread it
\* finds writing, the next one leaves it behind.
RaiseCancelled(r) ==
    /\ cancelling[r] /\ phase[r] \in Producing
    /\ cancelling' = [cancelling EXCEPT ![r] = FALSE]
    /\ cancels' = [cancels EXCEPT ![r] = @ + 1]
    /\ IF phase[r] \in {"persisting", "flushing"} /\ Unwritten(r) # {}
       THEN /\ phase' = [phase EXCEPT ![r] = IF @ = "persisting" THEN "draining"
                                                              ELSE "sealing"]
            /\ UNCHANGED waiters
       ELSE /\ phase' = [phase EXCEPT ![r] = Unwound(r)]
            /\ waiters' = IF Unwound(r) = "finishing" THEN Append(waiters, r)
                                                       ELSE waiters
    /\ UNCHANGED <<holder, runs, key, buffer, retained, subs, clientVars,
                   diskVars, budgets>>

\* The pool is full: a write that still waits for its thread is given up by
\* the CancelledError.
GiveUpWrite(r) ==
    /\ cancelling[r] /\ Unwritten(r) # {} /\ faults < MaxFaults
    /\ phase[r] \in {"persisting", "flushing", "draining", "sealing"}
    /\ faults' = faults + 1
    /\ cancelling' = [cancelling EXCEPT ![r] = FALSE]
    /\ cancels' = [cancels EXCEPT ![r] = @ + 1]
    /\ writes' = writes \ Unwritten(r)
    /\ phase' = [phase EXCEPT ![r] = Unwound(r)]
    /\ waiters' = IF Unwound(r) = "finishing" THEN Append(waiters, r) ELSE waiters
    /\ UNCHANGED <<holder, runs, key, buffer, retained, subs, clientVars, disk,
                   stops, crashes>>
-----------------------------------------------------------------------------
(* Worker threads, housekeeping, restarts *)

\* is the producer waiting for this write?
Awaited(w) ==
    /\ ~cancelling[w.run]
    /\ phase[w.run] \in IF w.final THEN {"flushing", "sealing"}
                                   ELSE {"persisting", "draining"}

\* the producer, if it still waits for the write, goes on: with the result
\* `next' in its body, in its finally block or at its end
GoesOn(w, next) ==
    LET to == IF w.final THEN "done"
              ELSE IF phase[w.run] = "draining" THEN "finishing" ELSE next
    IN  IF Awaited(w)
        THEN /\ phase' = [phase EXCEPT ![w.run] = to]
             /\ waiters' = IF to \in {"finishing", "erroring"}
                           THEN Append(waiters, w.run) ELSE waiters
        ELSE UNCHANGED <<phase, waiters>>

\* _write_replay replaces the file
WriteLands(w) ==
    /\ w \in writes
    /\ writes' = writes \ {w}
    /\ disk' = [disk EXCEPT ![key[w.run]] = [run |-> w.run, events |-> w.events]]
    /\ GoesOn(w, "streaming")
    /\ UNCHANGED <<holder, runs, key, cancelling, cancels, buffer, retained, subs,
                   clientVars, budgets>>

\* the write raises: a final one ends the task, a periodic one ends the run
\* through the error handler; whoever was cancelled does not hear of it
WriteFails(w) ==
    /\ w \in writes /\ faults < MaxFaults
    /\ faults' = faults + 1
    /\ writes' = writes \ {w}
    /\ GoesOn(w, "erroring")
    /\ UNCHANGED <<holder, runs, key, cancelling, cancels, buffer, retained, subs,
                   clientVars, disk, stops, crashes>>

\* prune_replay_directory: a file older than the TTL is removed
PruneReplay(k) ==
    /\ TTLElapses /\ disk[k] # NoFile
    /\ disk' = [disk EXCEPT ![k] = NoFile]
    /\ UNCHANGED <<lockVars, runs, runVars, clientVars, writes, budgets>>

\* The process restarts: everything in memory is gone, the files stay.
Crash ==
    /\ crashes < MaxCrashes
    /\ crashes' = crashes + 1
    /\ holder' = Nobody /\ waiters' = <<>>
    /\ runs' = [k \in Keys |-> 0]
    /\ phase' = [r \in Runs |-> IF phase[r] = "unused" THEN "unused"
                                ELSE IF Done(r) THEN phase[r] ELSE "lost"]
    /\ cancelling' = [r \in Runs |-> FALSE]
    /\ subs' = [r \in Runs |-> {}]
    /\ at' = [c \in Clients |-> "idle"]
    /\ target' = [c \in Clients |-> AnyKey] /\ from' = [c \in Clients |-> 0]
    /\ queue' = [c \in Clients |-> <<>>]
    /\ writes' = {}
    /\ UNCHANGED <<key, cancels, buffer, retained, disk, stops, faults>>
-----------------------------------------------------------------------------
RunSteps(r) == \/ Block(r) \/ Enter(r) \/ Emit(r) \/ StreamEnds(r)
               \/ StreamRaises(r) \/ ReportError(r) \/ Finalise(r)
               \/ RaiseCancelled(r) \/ GiveUpWrite(r)

ClientSteps(c) ==
    \/ \E k \in Keys : \/ \E op \in {"attaching", "starting", "stopping"} : Call(c, op, k)
                       \/ Attach(c, k) \/ AttachMisses(c, k)
                       \/ Join(c, k) \/ Start(c, k) \/ Stop(c, k)
    \/ ReadReplay(c) \/ ReadNothing(c) \/ ReadExpired(c) \/ UnlinkExpired(c)
    \/ DeleteReplay(c) \/ DeleteFails(c)
    \/ Leave(c) \/ Detach(c) \/ StopReturns(c)

Next ==
    \/ \E c \in Clients : ClientSteps(c)
    \/ \E r \in Runs : RunSteps(r)
    \/ \E w \in writes : WriteLands(w) \/ WriteFails(w)
    \/ \E k \in Keys : PruneReplay(k)
    \/ GetStatus
    \/ Crash

Spec == Init /\ [][Next]_vars

\* The event loop runs every task that can run, worker threads end, a
\* stream_fn ends, and a client reads its queue to the sentinel.  Nothing
\* obliges a client to make a request, to disconnect, or the process to stop,
\* and a write nobody waits for may stay in flight.
Fairness ==
    /\ \A r \in Runs :
         /\ WF_vars(RunSteps(r))
         /\ WF_vars(\E w \in writes : /\ w.run = r /\ Awaited(w)
                                      /\ WriteLands(w) \/ WriteFails(w))
    /\ \A c \in Clients :
         /\ WF_vars(DeleteReplay(c) \/ DeleteFails(c))
         /\ WF_vars(ReadReplay(c) \/ ReadNothing(c) \/ UnlinkExpired(c))
         /\ WF_vars(at[c] \in Waiting /\ ClientSteps(c))
         /\ WF_vars(StopReturns(c))
         /\ WF_vars(SENTINEL \in {queue[c][i] : i \in DOMAIN queue[c]}
                    /\ (Leave(c) \/ Detach(c)))

FairSpec == Spec /\ Fairness
-----------------------------------------------------------------------------
(* Properties *)

\* Type correctness; the error event may exceed the buffer cap by one.
TypeOK ==
    /\ holder \in Clients \cup {Nobody}
    /\ waiters \in Seq(Clients \cup Runs)
    /\ runs \in [Keys -> Runs \cup {0}]
    /\ key \in [Runs -> Keys]
    /\ phase \in [Runs -> Phases]
    /\ cancelling \in [Runs -> BOOLEAN]
    /\ cancels \in [Runs -> Nat]
    /\ buffer \in [Runs -> Seq(Nat)]
    /\ \A r \in Runs : Len(buffer[r]) <= BufferCap + 1
    /\ retained \in [Runs -> Nat]
    /\ subs \in [Runs -> SUBSET Clients]
    /\ at \in [Clients -> Places]
    /\ target \in [Clients -> Keys]
    /\ from \in [Clients -> Runs \cup {0}]
    /\ queue \in [Clients -> Seq(Int)]
    /\ disk \in [Keys -> [run : Runs, events : Seq(Nat)] \cup {NoFile}]
    /\ writes \subseteq [run : Runs, events : Seq(Nat), final : BOOLEAN]
    /\ stops \in Nat /\ faults \in Nat /\ crashes \in Nat

Live(r) == phase[r] \in {"placeholder", "stuck"} \cup Producing

\* its producer was created in this process
Started(r) == phase[r] \notin {"unused", "placeholder", "stuck", "dropped", "lost"}

Unfinalised(r) == phase[r] \in Producing \ {"flushing", "sealing"}

\* a second cancellation may have made its producer leave a write behind
LeftBehind(r) == cancels[r] > 1

\* Every live run is the registered run of its key: a chat never has two
\* producers at once, and neither a purge nor a new question loses a live run.
LiveRunIsRegistered == \A r \in Runs : Live(r) => runs[key[r]] = r

\* Where the events of a run stand among all that was put on a client's queue.
Sent(c) == {i \in DOMAIN queue[c] : queue[c][i] > 0}

\* Replay and live events join without a gap or a repetition: what a
\* subscriber has been sent are events in their order, each once, without a gap
\* up to the newest event of its run, the whole replay buffer among them.
Contiguous ==
    \A c \in Clients :
        at[c] = "streaming" /\ from[c] # 0 /\ c \in subs[from[c]]
          => /\ \A i, j \in Sent(c) : i < j => queue[c][i] < queue[c][j]
             /\ \A i \in Sent(c) :
                  /\ queue[c][i] <= LastEvent(from[c])
                  /\ \A e \in queue[c][i] .. LastEvent(from[c]) :
                       \E j \in Sent(c) : queue[c][j] = e
             /\ \A n \in DOMAIN buffer[from[c]] :
                  \E j \in Sent(c) : queue[c][j] = buffer[from[c]][n]

\* A stream ends once: nothing follows the sentinel on a subscriber's queue,
\* whatever order attach, error report, finalisation and detach run in.
NothingAfterSentinel ==
    \A c \in Clients : \A i \in DOMAIN queue[c] :
        queue[c][i] = SENTINEL => i = Len(queue[c])

\* A new question supersedes the replay of earlier turns: while or after a run
\* is served, the file of its chat never shows an older run, be runs stopped,
\* fail or be lost in a restart; unless that older one was stopped, and stopped
\* again while it waited for its thread.
NoStaleReplay ==
    \A r \in Runs : Started(r) /\ disk[key[r]] # NoFile
      => disk[key[r]].run >= r \/ LeftBehind(disk[key[r]].run)

\* When file operations succeed and no time passes, the newest run of a chat
\* that got to its end can be replayed in full from disk, after a stop and
\* after a restart too; unless a run of the chat was stopped twice.
ReplayIsDurable ==
    faults = 0 /\ ~TTLElapses => \A r \in Runs :
        (/\ phase[r] = "done" /\ buffer[r] # <<>>
         /\ \A q \in Used : key[q] = key[r] => q <= r /\ ~LeftBehind(q))
          => disk[key[r]] = [run |-> r, events |-> buffer[r]]

\* While its retention lasts, a completed run leaves memory only for a new run
\* of its chat, at a restart, or for the runs of MaxCompleted other chats that
\* completed later; each of those chats keeps that run or starts its next one.
RecentRunsStay ==
    [][\A k \in Keys :
         runs[k] # 0 /\ retained[runs[k]] # 0 /\ runs'[k] = 0 /\ crashes' = crashes
           /\ ~TTLElapses
           => MaxCompleted <= Cardinality(
                {j \in Keys : /\ runs[j] # 0 /\ Done(runs[j])
                              /\ retained[runs[j]] > retained[runs[k]]
                              /\ runs'[j] # 0})]_vars

\* The requests and producers that wait for the lock.
InLine == {c \in Clients : at[c] \in Waiting}
            \cup {r \in Runs : /\ phase[r] \in {"entering", "emitting", "erroring", "finishing"}
                               /\ ~cancelling[r]}

\* The lock's queue is who waits for it, each once, and whoever keeps the lock
\* over an await is a request that deletes a replay file: nobody who waits is
\* passed over, whatever is cancelled or fails while it queues, and the lock
\* is never with, nor next for, somebody who is gone.
LockIsPassedOn ==
    /\ holder # Nobody => holder \in Clients /\ at[holder] = "deleting"
    /\ \A i, j \in DOMAIN waiters : waiters[i] = waiters[j] => i = j
    /\ {waiters[i] : i \in DOMAIN waiters} = InLine

\* Nobody waits for the lock for ever: in particular request_stop does not
\* hold it while it awaits a task whose finally block needs it.
LockIsServed ==
    \A c \in Clients : at[c] \in Waiting ~> at[c] \notin Waiting

\* request_stop returns: the cancelled task ends whatever it was waiting for.
StopEnds ==
    \A c \in Clients : at[c] = "awaiting" ~> at[c] # "awaiting"

\* A client that subscribes before its run finalises gets the end of stream,
\* unless a stop cancels a run.
EarlySubscriberEnds ==
    \A c \in Clients :
        at[c] = "streaming" /\ from[c] # 0 /\ Unfinalised(from[c])
          ~> at[c] # "streaming" \/ stops > 0

\* Every stream ends: attach promises a queue only while a run is active (or
\* has something to replay), and the stream runs until the sentinel.
EveryStreamEnds ==
    \A c \in Clients : at[c] = "streaming" ~> at[c] # "streaming"
=============================================================================
