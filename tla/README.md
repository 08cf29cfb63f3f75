# A verification development for myCoPaw (QwenPaw)

TLA+ modules that model the parts of the program whose correctness depends on
interleavings, failures and ordering; TLC configurations that check them on
small instances; and theorems about them, proved with TLAPS for every value of
the constants. Paths below are relative to the repository; `qwenpaw/` stands
for `src/qwenpaw/`.

- [1. The system](#1-the-system): components, state, operations, hard parts
- [2. The modules](#2-the-modules): what each models and how it maps to code
- [3. The runs](#3-the-runs): what each shows, bounds, fairness
- [4. The proofs](#4-the-proofs)
- [5. Where the code and its promises part](#5-where-the-code-and-its-promises-part)
- [6. What is not modelled](#6-what-is-not-modelled)
- [7. The plan](#7-the-plan)

To repeat a run: `tlc -workers 2 -config TaskTracker_stream.cfg MCTaskTracker.tla`
(`PROJECT.json` names the module of every run). To repeat the proofs:
`tlapm TaskTrackerProofs.tla`, and likewise for the other `*Proofs.tla`.

## 1. The system

myCoPaw is a personal-assistant server. One asyncio process serves several
agents over HTTP and over messaging channels, and calls models and tools for
them; a second service ingests documents into a knowledge base, with worker
processes of its own and PostgreSQL between them and the API; a React console
and a Tauri shell are the user interface.

```
 console / desktop ──HTTP──▶ routers ─────────────┐
 DingTalk, Feishu, … ──▶ channel queues ──────────┤  attach_or_start
 cron jobs ───────────────────────────────────────┤
                                                  ▼
                       workspace (one per agent): TaskTracker ──▶ replay files
                                                  │ one producer per chat
                                                  ▼
                        agent reasoning loop ──▶ retrying chat model, rate limiter
                                    │
                                    ├──▶ tool coordinator ──▶ approval service
                                    ├──▶ checkpoints (query gate, maintenance lock)
                                    └──▶ drivers / MCP clients

 knowledge API ──▶ documents, jobs (PostgreSQL) ◀── worker processes
```

### Components with a concurrent state machine of their own

| component | state | operations | what is hard | what makes it correct |
|---|---|---|---|---|
| **TaskTracker** `qwenpaw/app/task_tracker.py` | `_runs` (chat → run), replay buffers, subscribers' queues, completed runs with a retention time, replay files | `attach_or_start`, `attach`, `request_stop`, `detach_subscriber`, `get_status`, the producer task | one lock held across a file deletion; file writes in threads that a second cancellation leaves behind; reconnects between two broadcasts; restarts | one live producer per chat; replay and live events join without gap or repetition; every stream ends, once; the replay file is never another turn's |
| **Knowledge queue and worker** `knowledge-service/app/{worker,store,processing,main}.py` | rows of `documents`, `jobs`, `worker_heartbeats`, advisory locks; one main and one heartbeat thread per process | upload, reprocess, delete; claim, run, finish, fail; start-up recovery, orphan recovery, stale sweep | several processes and the database between them; crashes, retries, lost bookkeeping, database restarts | one worker per document at a time; attempts bounded; outcomes final; content follows its document; every document settles |
| **Channel queues** `qwenpaw/app/channels/{unified_queue_manager,manager,base}.py` | `_queues` (channel, session, priority → queue + consumer), idle times | `enqueue`, consumer loop, batch drain, `clear_queue`, idle cleanup, `stop_all` | queues made and removed while tasks hold them; consumers cancelled in the middle of a batch; full queues | a session's messages run one at a time, in order, and none is dropped silently |
| **Tool coordinator** `qwenpaw/tool_calls/` | entries in flight, each with a status, two deadlines, a cancel event and a background task; pending hints; completed cache | `execute`, `request_offload`, `cancel`, `extend_*_deadline`, the watcher `_supervise`, `shutdown` | a call ends, is cancelled, moved and timed out at once; deadlines change under a wait | one terminal outcome per call; its hint reaches its session once; background work is bounded; nobody waits for ever |
| **Approval service** `qwenpaw/app/approvals/` | pending approvals with a future each | create, wait, resolve, cancel stale, cancel all, garbage collection | a timeout races the user's answer; a new request supersedes an old one; a table at its limit | nothing but consent lets a tool through; an answer the user saw accepted is the one the waiter gets |
| **Agents and workspaces** `qwenpaw/app/multi_agent_manager.py`, `app/workspace/` | agent → workspace, start-up events, cleanup tasks; services of a workspace | lazy `get_agent`, `reload_agent` with an atomic swap, delayed stop, service reuse | two reloads; a reload that fails half-way; runs that still use the old workspace | one instance serves; no run loses its services; a reused service is never stopped |
| **Rate limiter and retrying model** `qwenpaw/providers/{rate_limiter,retry_chat_model}.py` | semaphore, sliding window, pause, quarantine of a model | acquire, release, report a 429, retry, stream, close | who owns the permit across retries and streams; cancellation inside `wait_for` | permits are conserved; a pause and a quarantine are respected; every call ends |
| **Checkpoints** `qwenpaw/checkpoints/` | query gate, maintenance lock, session files, git repository with refs and heads | snapshot, automatic snapshot, restore, collection, deletion, reset | a restore waits for runs that wait for the gate; threads that outlive their coroutine; a rollback | a restore works alone, does all or nothing, and loses nothing; nobody waits on everybody |
| **Data table import** `qwenpaw/data_tables/` | import jobs, set of running ones | upload, process, retry, recovery scan | the scan resets running jobs | each file is loaded once |
| **Cron** `qwenpaw/app/crons/` | jobs, semaphores, states, history | add, update, delete, run | a run that outlives its job or its semaphore | `max_concurrency` holds; a deleted job stays deleted |
| **Drivers / MCP** `qwenpaw/drivers/` | cards, handlers, pool | register, update, delete, reload | build and publish are separated by awaits | the published handler is the one of the saved card |
| **Chats, sessions** `qwenpaw/app/chats/` | chat records, session files | create, update, prune | read–modify–write under per-path locks | no update is lost |

### Everything else

The reasoning loop, context and memory, tools and skills, model and channel
adapters, routers, providers, storage of settings, backup, governance and
sandbox, browser and desktop automation, plugins, command line, console front
end, website and deployment. `PROJECT.json` lists each with its principal
files and the reason why it is left out; section 6 groups them.

### How the parts interact

- *Chat over HTTP.* `POST /console/chat` calls `attach_or_start` and streams
  from the returned queue; a reconnect calls `attach`; the stop button calls
  `request_stop`; a client that goes away is `detach_subscriber`.
- *Chat over a channel.* An adapter calls the channel manager's `enqueue`; the
  session's consumer takes a batch, merges it to one request and calls
  `attach_or_start` on the same tracker. If the chat has a live run, the message
  is *dropped* (`base.py:589`), so the queue's serialization is what protects it.
- *A run* passes the checkpoint gate when it starts, calls models through the rate
  limiter and tools through the coordinator, and a guarded tool asks for an
  approval from inside its call; every few seconds, at its end and when it is
  stopped the run's memory is saved to the session file.
- *A restore* of a checkpoint asks the tracker whether other runs are active, and
  writes the session file that runs load and save.
- *A reload* builds a new workspace next to the old one, hands over the services
  that can be reused, swaps the entry and stops the old workspace when the
  tracker has no active runs left.
- *A document* is uploaded to the API, which writes a document and a job row;
  from there on the API and the workers share nothing but the database.

The hazards of each part, with the line where they bite and the properties that
would catch them, are in `PROJECT.json` under `hazards`; those that no property
covers yet say what is missing. Further ones to take up with their modules: a
failed reload that has already stopped the old configuration watcher
(`qwenpaw/app/multi_agent_manager.py:449`); a cron run that ends after its job was
deleted (`qwenpaw/app/crons/manager.py:824`).

## 2. The modules

| module | role |
|---|---|
| `TaskTracker` | the tracker: lock, registry, producers, clients, replay files |
| `MCTaskTracker` | its TLC instances (client symmetry) |
| `TaskTrackerProofs` | theorems about its registry: the lock, live runs, eviction |
| `TaskTrackerStreamProofs` | theorems about its streams and replay files |
| `KnowledgeJobs` | the ingestion queue and its workers |
| `DocumentLifecycle` | abstract specification: what the queue promises of a document |
| `MCKnowledgeJobs` | its TLC instances (who runs under which worker id) |
| `KnowledgeJobsProofs` | theorems about it, refinement included |
| `ChannelQueues` | the channels' queues, consumers and idle cleanup |
| `MCChannelQueues` | its TLC instances |
| `ChannelQueuesProofs` | theorems about it |
| `ToolCoordinator` | tool calls: caller, watcher, background task, interventions |
| `CallOutcome` | abstract specification: what becomes of a call |
| `MCToolCoordinator` | its TLC instance |
| `ToolCoordinatorProofs` | theorems about it, refinement included |
| `Approvals` | requests for approval, their waiters and the answers |
| `MCApprovals`, `ApprovalsProofs` | its TLC instance; theorems about it |
| `LLMCalls` | calls of a model: semaphore, window, pause, retries, streams, quarantine |
| `MCLLMCalls`, `LLMCallsProofs` | its TLC instance; theorems about it |
| `Checkpoints` | maintenance of a workspace's checkpoints beside its runs |
| `MCCheckpoints`, `CheckpointsProofs` | its TLC instances; theorems about it |

Definitions introduced by a comment that begins with `mutant:` are not part of
a specification: each is a plausible wrong version of the definition it precedes,
and putting it in that definition's place must break the property `PROJECT.json`
names with it. They show that the properties depend on the code.

### TaskTracker

**Granularity.** Everything runs on one event loop, so the code between two
awaits is one action. The tracker's asyncio lock is FIFO and explicit
(`holder`, `waiters`). It is held across an await in one place only:
`attach_or_start` keeps it while a worker thread deletes the chat's old replay
file (`task_tracker.py:442`). That is what makes everybody else queue up behind
it, and why a request is *made* (`Call`) before it is *served* (`MyTurn`).
`_write_replay` runs in a worker thread (`writes`). A producer that is cancelled
while it awaits one first waits for the thread (`_IoPool.run`, `io_pools.py:296-306`:
phases `draining` and `sealing`); a second cancellation interrupts that wait and
leaves the write in flight. The pool's own queue may be full, in which case the
write is given up before a thread has it.

| code | module |
|---|---|
| `_runs`, `_RunState.{task, buffer, queues, retained_until}` | `runs`, `phase` + `cancelling`, `buffer`, `subs`, `retained` |
| where a request or a producer is suspended | `at`, `phase` |
| a subscriber's `asyncio.Queue` | `queue`: everything ever put on it, because the properties speak of the whole stream |
| replay files, writes in threads | `disk`, `writes` |
| `attach` | `Attach`, `AttachMisses`, `ReadReplay`, `ReadNothing`, `ReadExpired`, `UnlinkExpired` |
| `attach_or_start` | `Join`, `Start`, `DeleteReplay`, `DeleteFails` |
| `request_stop` | `Stop`, `StopReturns` |
| `stream_from_queue` ending, `detach_subscriber` | `Leave`, `Detach` |
| `get_status` (it purges) | `GetStatus` |
| `_producer` | `Enter`, `Emit`, `StreamEnds`, `StreamRaises`, `ReportError`, `Finalise`, `Block`; cancelled: `RaiseCancelled`, `GiveUpWrite` |
| `_purge_completed_locked` | `Purged`, inside every action that calls it |
| `_write_replay`, `prune_replay_directory` | `WriteLands`, `WriteFails`, `PruneReplay` |
| process restart | `Crash` |

**Abstractions.** Events are numbers 1, 2, …, which is enough to see a gap, a
repetition or a reordering. `retained` is the rank of a run's completion instead
of a clock; which runs' retention has passed is chosen when a purge looks. The
two-second persistence interval is a choice at every event but the first.
`cancels` is a history variable: how many cancellations a run's producer met.

### KnowledgeJobs and DocumentLifecycle

**Granularity.** One transaction of the `Store` is one action; what a worker
does between two transactions is in its program counter. A document and its job
are inserted together and every transaction gives both rows the same status, so
they are one entry of `status`. Time is abstract: the end of a retry delay
(`RetryDue`), a heartbeat that leaves the grace window (`Silence`) and a row that
outlives the stale threshold (`Age`) are actions.

| code | module |
|---|---|
| `jobs.status`/`documents.status`, `attempts`, `owner_worker_id`, `next_retry_at`, `updated_at` | `status`, `attempts`, `owner`, `due`, `old` |
| chunks of a document | `stored` |
| `worker_heartbeats`, the advisory lock of `InstanceLock` | `fresh`, `lock` |
| the worker's loop | `pc`, `doc`, `tries` |
| `create_document`, `requeue_document`, `delete_document` (two transactions) | `Upload`, `Reprocess`, `DeleteCheck` then `DeleteRows` |
| `InstanceLock.acquire`, `still_held` | `Start`, `StillHeld`, `AssumeHeld`, `HeldElsewhere` |
| `recover_interrupted_jobs`, with and without `reclaim_owner` | `StartupRecovery`, `RecoverOrphans` |
| `requeue_stale_jobs` | `StaleSweep` |
| `claim_job` | `Claim`, `NothingToClaim` |
| `process_job` | `ReadDocument`, `Prepare`, `Store`, `Finish`, `AttemptRaises` |
| the worker's `except` branch, `fail_job` | `FailJob`, `FailJobLost` |
| a process dies, the database restarts | `Crash`, `Outage` |

`finish_job` and `fail_job` update a row by its id *whatever the row says by
then*; the actions do the same. `StartupRecovery` joins the recovery transaction
and `heartbeat.start()`: the worker does nothing in between.

`DocumentLifecycle` is the promise: a document waits, is held by at most one
worker, who alone decides what becomes of the run; what nobody holds any more
goes back to the queue or is given up; an outcome stays. `KnowledgeJobs` maps to
it with `Phase` (the status) and `Holder` (the worker that has the job in hand).

### ChannelQueues

**Granularity.** One event loop again; the manager's lock is never held across
an await, so it is never contended and takes no step. A queue is named by the
message it was made for.

| code | module |
|---|---|
| `_queues`, `QueueState.{queue, consumer_task, last_activity}` | `queues`, `content`, `consumer`, `idle` |
| the task `_enqueue_one` makes per message | `fate`, `at` |
| `enqueue`, `_get_or_create_queue`, `wait_for(queue.put, 30)` | `Receive`, `Locate`, `Put`, `Block`, `PutBlocked`, `PutTimesOut` |
| `_consume_queue`, `_process_batch` | `Take`, `Drain`, `Fail` |
| `_consume_with_tracker` with the tracker's `attach_or_start` | `Open`, then `Submit` or `OpenFails`; `Ignore` |
| `stream_from_queue` reaches the sentinel, or is cancelled | `Finish`, `Survive` |
| a consumer cancelled anywhere else | `Exit` |
| `_cleanup_idle_queues` | `Scan`, then `CleanNext` per remaining session (`Remove`, `Struck`) |
| `/stop`: `request_stop`, `clear_queue` | `Kill`, `Dismiss`, `StreamEnds`; `ClearQueue` |
| the tracker's run of the session's chat | `run`, `stage`: `StreamEnds`, `RunDone` |
| `idle_timeout` passing | `GrowIdle` |

*The end of a run.* The tracker broadcasts the sentinel, writes the replay file
once more and only then is the task done (`task_tracker.py:506-517`). `StreamEnds`
is the first of these, `RunDone` the last, and between them (`flushing`) the
consumer may already `Finish` and meet the run again with its next message.

*A cancelled consumer.* Where the cancellation meets it decides (`Struck`). While it
reads a stream, `stream_from_queue` takes the `CancelledError` for the end of the
stream (`task_tracker.py:552-553`): the consumer goes back to a queue that is no
longer registered (`interrupted`, `Survive`), and the cleanup, which awaits that
consumer (`unified_queue_manager.py:410`), never goes on. Everywhere else it ends,
and its `finally` block pops the session's entry (`Exit`).

`disturbed` and `late` are history variables: sessions whose cleanup took a queue
that was not at rest (or whose next queue was made while a cancelled consumer
still lived), or whose run a `/stop` killed before it could send a sentinel; and
messages that found their queue full. They say under which condition the
guarantees hold, which is the point: the code keeps its promises *except* there
(section 5 tells what happens there).

### ToolCoordinator and CallOutcome

**Granularity.** One event loop; the two asyncio locks are never held across an
await and take no step. Three tasks share a call: the agent's run that iterates
over `execute` (`caller`), the tool's background task (`bg`), and, once the call
was moved, the watcher (`watcher`). A `task.cancel()` takes effect when the task
next runs: `stopping` holds the calls with one to deliver.

| code | module |
|---|---|
| `ToolCallEntry.status`, `_entries` | `status`, `InTable` |
| `cancel_event`, `deadline_changed_event`, `offload_reason` | `cancelled`, `changed`, `byUser` |
| `offload_deadline`, `kill_deadline` | `offload`, `kill` |
| the caller's subscriber queue | `chunks`, `closed` |
| `execute`, `_await_next_event` | `Execute`, `CallerWaits`, `CallerChunk`, `CallerStreamClosed`, `CallerSeesCancel`, `CallerSeesChange`, `CallerTimeout` then `CallerFired`, `CallerFindsDeadline` |
| the branches of a deadline, `_begin_offload` | `DeadlineEvent`, `DeadlineReached`, `BeginOffload`, `SeedKill` |
| `_await_grace_or_force_cancel`, `_await_background_task` | `CallerGrace…`, `CallerFinishes`, `WatcherGrace…`, `WatcherFinishes` |
| `_supervise`, `_supervise_loop` | `WatcherKill`, `WatcherSees…`, `WatcherReports` |
| `_run_tool_with_hooks`, `_drain` | `BgStart`, `BgChunk`, `BgResponds`, `BgRaises`, `BgCooperates`, `BgStopped`, `BgPutsSentinel`, `BgEnds` |
| `request_offload`, `cancel`, `extend_offload_deadline`, `extend_kill_deadline` | `RequestOffload`, `Cancel`, `ExtendOffload`, `ExtendKill` |
| `pop_pending_hints`, `shutdown` | `PopPendingHints`, `Shutdown`, `ShutdownWaits` |

**Abstractions.** A deadline is unset, ahead or past (the kill deadline ahead is
far or near, by the minimum window `request_offload` requires). A wait remembers
whether the deadlines it was started with still stand (`timed`, `outdated`),
because the code reads them again only after the wait. `CallOutcome` is the
promise: a call is answered, or moved and later reported, or lost, never two.

### Approvals

**Granularity.** One event loop, one lock never held across an await: creating a
record and starting to wait is one step, answering is one step. Steps of their
own are a waiter that its future, its timer or a cancellation has woken.

| code | module |
|---|---|
| `_pending`, `PendingApproval.{created_at, status, future, scope}` | `table`, `born` + `aged`, `status`, `future`, `scope` |
| `wait_for_approval` and what its caller records | `wait`, `rule` |
| what the API or the command tells the user | `told` |
| `cancel_stale_pending_for_tool_call`, `create_pending`, `_gc_pending_locked` | `Ask` (`Stale`, `Collected`) |
| `resolve_request` | `Approve`, `Deny`, `Expires` |
| `cancel_all_pending_by_root_session` | `CancelAll` |
| `asyncio.wait_for` ending | `Resumes`, `TimerFires`, `Break` (in `CancelTool`, `CancelRun`) |

Python 3.11 and 3.12 differ in whether a waiter whose future is already set may
still time out; `TimerFires` and `CancelRun` allow both.

### LLMCalls

**Granularity.** One event loop. `asyncio.Semaphore` is not in the repository but
everything rests on it, so its queue, its handing of permits to waiters and what
it does when a waiter is cancelled are modelled from how the limiter uses it
(`Woken`, `Released`, `GaveUp`; marked external).

| code | module |
|---|---|
| where a call is, what ended its stream | `pc`, `why` |
| `_wrap_stream` is in charge; `attempt`; `reasoning_content` was added | `streamed`, `attempt`, `injected` |
| the semaphore | `value`, `ahead` (who is in front of whom), `permits` |
| `_request_times`, `_pause_until` | `stamps`, `pause` |
| `LLMRateLimiter.acquire`, `_acquire_qpm_slot`, the timeout around them | `Acquire`, `CoolingOver`, `WindowOver` (`LooksWithPermit`), `Served`, `AcquireTimeout` |
| `on_success`, `report_rate_limit` | `OnSuccess`, `Report` |
| `__call__` | `Answers`, `Fails`, `Thoughtless`, `BackoffOver`, `Streams` |
| `_consume_stream_with_slot`, `_wrap_stream` | `FirstChunk`, `StreamEnds`, `ReadHangs`, `Closed`, `HandsOver` |
| `_track_provider_cleanup`, `_clear_quarantine`, `_ensure_provider_available` | `Quarantine`, `CleanupEnds`, `DeadlinePasses`, `Looks` |

`met` is a history variable: the calls that know of the present pause, because
they reported it or found it when they acquired.

### Checkpoints

**Granularity.** One workspace, seen from one session of it. The coroutine parts
of an operation are steps of the actor (`pc`); its work in the I/O pool is a *job*
of one or more steps that a cancellation cannot stop, which is what the code's
locks are about. The five steps of a restore's transaction are apart, since a
save of a run could come between any two.

| code | module |
|---|---|
| `CheckpointService.{maintenance_lock, lock, query_gate}` | `owner`, `gate` |
| the scheduler's `pause`/`resume` | `paused` |
| `Debouncer._pending`, the tasks a deletion gathers | `timer`, `gathers` |
| the session file; checkpoint refs; `heads.json` | `file`, `refs`, `head` |
| the gate hook, the slash command, the agent's build | `Message`, `Command`, `Load` |
| incremental save, final save, save on cancel | `SaveBegins`, `SaveEnds`, `ChatEnds`, `Stored`, `Finished`, `DrainEnds`, `Rescued` |
| a run that raises; a replay write that raises | `Fails`; `PersistFails` (`Abandoned`) |
| `quiesce` | `Quiesced`, `QuiesceTimeout` |
| `_prepare_restore`, `_apply_restore_transaction_sync`, its rollback | `Prepare`; `Capture`, `WriteFile`, `SetHead`; `Undo`, `UndoHead` |
| `make_snapshot_result`, `gc`, `delete_sessions`, `reset` | `Snapshot`, `Collect`, `Erase` |
| `finally` blocks and the lock's release | `Ends` |
| `request_stop`, in and outside the generator; `_IoPool.run` cancelled | `Stop`: `StopTalking`, `StopOutside`; `StopWorking` |

*Saves that nobody waits for* (`LeftBehind`). A run that fails or is stopped drains
the save in flight and saves what it has (`draining`, `rescuing`). A stop that
comes then is swallowed, and the save goes on in the background
(`qwenpaw/runtime/runtime.py:201-226`, `379-396`). And a run cut off while its producer is *outside*
the generator, between two events (`task_tracker.py:461`, `477`; `runtime.py:252-253`
names the case), or whose replay write fails there, is done for the tracker while an
untracked task still finalises the generator, which drains and saves like any other
end (`Adrift`). One stop is enough for either, so a restore may find the workspace
idle and such a save pending. `spoiled`, a history variable, says that one
landed after the present restore's own checkpoint (`Restoring`).

**Abstractions.** `stops` counts the stops that meet a run's maintenance operation,
which is where their number matters; a run that talks may be stopped any number of
times. A content of the session file is a number in the order of its
first save. Commands of other chats' runs (`ours` chooses which) keep all they do
to the lock, the gate and the idle check, and their repository work is the job
`other`. The memory and file scopes of a restore are restored by the same
transaction as the conversation; the conversation stands for them.

## 3. The runs

A run that *passes* is exhaustive over its instance. A run that ends in a
*violation* checks one statement made by a docstring, a comment or the user
interface of the repository, and TLC finds a behaviour of the code that breaks
it; section 5 tells what happens. Each invariant and action property below needs several
steps, mostly of several actors, to break. What section 4 proves for every instance
and says little by itself (`TypeOK` of every module, `RunningJobIsOwned`,
`BackgroundBounded`, `JoinIsShort`, `OwnersHold`) no run repeats, nor `LockIsPassedOn`
and `NoPermitIdles`, whose consequences `LockIsServed` and `CallsEnd` the runs check;
each was checked on these instances before it was proved.

### The tracker

| run | instance | checks |
|---|---|---|
| `tracker_stream` | 1 chat, 2 clients, 2 runs, cap 1, up to 3 events, 1 stop, retention may pass (666,000 states up to client symmetry) | `LiveRunIsRegistered`, `Contiguous`, `NothingAfterSentinel` |
| `tracker_replay` | 2 chats, 2 clients, 2 runs, 1 event, 2 stops, 1 restart (1,430,000 states up to client symmetry) | `NoStaleReplay`, `ReplayIsDurable`, `RecentRunsStay` |
| `tracker_live` | 1 chat, 2 clients, 2 runs, 1 event, 1 stop, 1 failing file operation or stream, with fairness (153,000 states) | `StopEnds`, `EarlySubscriberEnds`, `LockIsServed` |
| `tracker_flush_window` | 1 chat, 2 clients, 1 run, with fairness | **violation** of `EveryStreamEnds` |

*Bounds.* Two clients are enough for every race between requests: one that
holds the lock and one that waits, one that streams and one that stops, a
reconnect and a question. Two runs are enough for a turn and the next one, and for
a late reader of the first (supersession); with two chats and a cap of 1 completed
run, the second completion evicts the first. What runs, writes and deletes leave
behind goes on beside the clients' next requests. A buffer cap of 1 with three
events makes trimming happen at the second event and lets a subscriber join
before, between and after. One event per stream is enough where files matter: it
is the one that is always persisted, and the final write follows it.

*Stops.* In `tracker_stream` and `tracker_live` one stop meets the run wherever it
is, in `tracker_live` also while it waits for the thread that writes an event's
replay, or has failed. `tracker_replay` needs two: the first is drained, the second
gives the drain up. `NoStaleReplay` and `ReplayIsDurable` hold whatever one stop
meets, because of the drain (the mutant `RaiseCancelledAtOnce` has none and breaks
the first), and name the run that was cancelled twice (`LeftBehind`) as the one
exception; section 5 tells what a second stop does.

### The knowledge queue

| run | instance | checks |
|---|---|---|
| `jobs_own` | 2 workers with ids of their own, 2 documents, `MAX_ATTEMPTS` 2, 1 crash, 1 lost bookkeeping call, 1 delete (426,000 states) | `OneWorkerPerDocument`, `AttemptsAreBounded`, `KeepsPromise` (refinement) |
| `jobs_storm` | 2 processes under one id, 1 document; a crash, a fault, a database restart, a reprocess and a delete, stages longer than the stale threshold, one process that never comes back; with fairness (161,000) | `ContentFollowsDocument`, `EveryDocumentSettles` |

*Bounds.* Two workers: every conflict is between one worker and another's claim,
recovery or sweep. Two documents, so that one can be claimed while another waits,
is recovered or is deleted. `MAX_ATTEMPTS` is 2 instead of 4: a first attempt, a
retry, and a last attempt that may not be retried are all there. What holds in
`jobs_own` holds because of what that instance excludes (shared ids, database
restarts, reprocess requests, slow stages: the predicate `Isolated`);
`jobs_storm` has all of them and shows what survives.

### The channel queues

| run | instance | checks |
|---|---|---|
| `queues_serve` | 2 sessions, 3 messages, queues of 1 place, runs that may outlast `idle_timeout`, 1 `/stop`, failing batches and replay deletions, with fairness (267,000 states) | `RegisteredIsServed`, `OneConsumer`, `OnlyEndedRunsRefuse`, `InOrder`, `EveryMessageIsHandled` |

*Bounds.* Three messages with one place per queue: one in the consumer's hands,
one queued, one that waits for a place or makes the session's next queue. Two
sessions, so that the cleanup has a second entry on its list while it awaits
the first one's consumer. Which message belongs to which session is chosen in
`Init`; as sessions are interchangeable, the first message is one of the first
session (`FirstInit`). One `/stop` kills a run, dismisses a stuck placeholder or
clears a queue.

### Tool calls

| run | instance | checks |
|---|---|---|
| `tool_calls` | 1 call, 1 chunk, 2 interventions of any kind, with fairness (201,000 states) | `CallerIsWoken`, `HintOnce`, `OneOutcome` (refinement), `StopsAreServed`, `BackgroundReports` |

*Bounds.* Calls meet only in their session's hints and in a shutdown, so one call
shows every race of its three tasks; the theorems cover several. One chunk stands
for an event that wins over the others. Two interventions: one that moves, stops
or extends the call, and one that comes while the first is being served.

### Approvals

| run | instance | checks |
|---|---|---|
| `approval_answers` | 2 requests, 2 sessions under one root, 1 tool call id, a table of 1 or 2 records, no fairness (154,000 states) | `OnlyWhatWasGranted`, `StillAnswerable`, `OneRecordPerCall`, `PromisesKept`, `FirstDecisionStands` |

*Bounds.* Two requests are one replay that supersedes, one eviction at the limit,
or two entries in a session's queue; which of these is chosen in `Init`, with the
requests' sessions (a session and its spawned child) and call ids.

### Model calls

| run | instance | checks |
|---|---|---|
| `llm_permits` | 2 calls, one of them streaming, 1 permit, 2 places in the window, 2 attempts, with fairness (140,000 states) | `PermitsConserved`, `PauseIsServed`, `RequestsBounded`, `HoldIsKept`, `CallsEnd` |

*Bounds.* Two calls for one permit: one owns it and one waits, is granted it, gives
up. A window of two places fills up with retries. A first attempt and a last one;
with the fallback that adds reasoning content a call sends up to five requests.

### Checkpoints

| run | instance | checks |
|---|---|---|
| `checkpoint_restore` | 2 runs (messages or commands, of this session or of others), 1 Console request, 1 automatic snapshot, 1 save, runs that fail, any number of stops of a run that talks and 1 of its operation, with fairness (216,000 states) | `OneJob`, `RestoreAlone`, `AllOrNothing`, `GateIsHeld`, `SafetyNet`, `OperationsEnd` |
| `checkpoint_two_stops` | 1 run, 1 Console request, 2 stops of the run's operation | **violation** of `OneJob` |

*Bounds.* Two runs: one that restores and one that talks, waits at the gate or
restores too. The Console's request is the actor no tracker knows. One save beyond
the content the file starts with is enough to tell what was restored from what was
replaced, and one that is left behind is enough to spoil it. The instance starts with
a checkpoint of that content, and one of the runs is of this session
(`RestoreInit`), as nothing else lets a restore meet a save. An operation is
stopped once at most, because with two stops the properties fail
(`checkpoint_two_stops`); a run that talks may be stopped as often as there is
something to stop.

### Deadlock

`KnowledgeJobs`' runs check for deadlock (in `jobs_own` live workers always have
a step). The other runs say `CHECK_DEADLOCK FALSE`: when the instance's requests
are used up and everything has ended, the server idles and the model stops. What
must not block is stated as liveness there.

### Fairness

- *Tracker.* A task that can run is run by the event loop (`RunSteps`, a request
  at its turn for the lock); worker threads end; a stream function ends, as the
  agent's run has timeouts of its own; a client reads its queue up to the
  sentinel. There is no fairness for making requests, disconnecting, restarting,
  or for a write nobody waits for.
- *Knowledge queue.* A live process runs its loop. Clocks advance (`RetryDue`,
  `Silence`, `Age`). The sweep and the recovery are throttled to 300 s and 60 s, so
  an attempt may be skipped, but not for ever: strong fairness of `StaleSweep` and
  `RecoverOrphans`. The containers are configured `restart: unless-stopped`, so
  the workers in `Restarted` start again; the constant leaves others down for good.
  Nothing obliges a user, a failure or a worker that is gone.
- *Channel queues.* The event loop runs tasks that can run; an agent run ends;
  the cleanup goes on with its list once it has begun. When it begins is up to
  it, and nobody has to write a message.
- *Tool calls.* Callers, watchers and background tasks that can run are run, and
  deadlines pass. Nothing is assumed of a tool: one that neither produces nor
  cooperates is what `StopsAreServed` is about.
- *Approvals.* None: what is checked is safety, for any schedule of users, timers
  and waiters.
- *Model calls.* Tasks that can run are run, a pause ends and the window slides; a
  provider answers, fails, or its stream ends or stalls, for which the code has
  timeouts. The acquire timeout is not assumed to help: `CallsEnd` is about permits.
- *Checkpoints.* Tasks and threads go on, an answer ends, a save ends, and the
  quiesce timeout is one of the steps a restore may be owed. Nobody has to send,
  ask or stop.

## 4. The proofs

TLC's instances are small; the theorems hold for every number of chats,
clients, runs, workers, documents, sessions and messages and every size and
bound, under the assumptions on the constants the modules name
(`BoundsAssumption`, `IdsAssumption`, `SizesAssumption`, `CallsAssumption`,
`RequestsAssumption`, `LimitsAssumption`, `CheckpointsAssumption`).

| module | theorem | says |
|---|---|---|
| `TaskTrackerProofs` | `TypeCorrect` | `Spec => []TypeOK` (a buffer exceeds its cap by the error event at most) |
| | `OneLiveRunPerKey` | `Spec => []LiveRunIsRegistered` |
| | `RecentRunsAreKept` | `RecentRunsStay`, stops included |
| | `LockReachesWaiters` | `LockIsPassedOn` (the lock's queue is who waits for it) |
| `TaskTrackerStreamProofs` | `StreamsAreContiguous`, `StreamsEndOnce` | `Contiguous`, `NothingAfterSentinel` |
| | `ReplayIsNeverStale`, `CompletedRunsAreDurable` | `NoStaleReplay`, `ReplayIsDurable`, for any number of stops |
| `KnowledgeJobsProofs` | `TypeCorrect` | `Spec => []TypeOK` |
| | `ContentIsConsistent` | `Spec => []ContentFollowsDocument`, with every disturbance allowed |
| | `OneWorker`, `RunningOwned`, `AttemptsBounded` | assuming `Isolated`: `OneWorkerPerDocument`, `RunningJobIsOwned`, `AttemptsAreBounded` |
| | `PromiseKept` | assuming `Isolated`: `KnowledgeJobs` implements `DocumentLifecycle` |
| `ChannelQueuesProofs` | `TypeCorrect` | `Spec => []TypeOK` (queue sizes included) |
| | `RegisteredServed`, `OneConsumerPerSession`, `OnlyEndedRunsTurnAway` | `RegisteredIsServed`, `OneConsumer`, `OnlyEndedRunsRefuse` |
| | `MessagesKeepOrder` | `InOrder` |
| `ToolCoordinatorProofs` | `TypeCorrect` | `Spec => []TypeOK` |
| | `OffloadIsBounded`, `CallersAreWoken`, `JoinsAreShort`, `OneHint` | `BackgroundBounded`, `CallerIsWoken`, `JoinIsShort`, `HintOnce` |
| | `Refinement` | `ToolCoordinator` implements `CallOutcome` |
| `ApprovalsProofs` | `TypeCorrect` | `Spec => []TypeOK` |
| | `Granted`, `Answerable`, `OneRecord`, `Promises`, `DecisionsStand` | `OnlyWhatWasGranted`, `StillAnswerable`, `OneRecordPerCall`, `PromisesKept`, `FirstDecisionStands` |
| `LLMCallsProofs` | `TypeCorrect` | `Spec => []TypeOK` (the window never overflows) |
| | `PermitsAreConserved`, `OwnersHoldPermits`, `PausesAreServed`, `RequestsAreBounded`, `HoldsAreKept` | `PermitsConserved`, `OwnersHold`, `PauseIsServed`, `RequestsBounded`, `HoldIsKept` |
| | `PermitsAreNeverIdle`, `WaitersHaveAnOwner` | `NoPermitIdles`; who waits does not wait alone |
| `CheckpointsProofs` | `TypeCorrect` | assuming `MaxStops <= 1`: `Spec => []TypeOK` |
| | `JobsDoNotOverlap`, `RestoresWorkAlone`, `RestoresAreAtomic`, `GatesAreHeld`, `NothingIsLost` | assuming `MaxStops <= 1`: `OneJob`, `RestoreAlone`, `AllOrNothing`, `GateIsHeld`, `SafetyNet` |

**TaskTracker.** `LiveRunIsRegistered` is not inductive: `DeleteReplay` turns the
placeholder of the lock's holder into a producer, which is only right if that
placeholder is still registered and nobody else registered a run meanwhile.
`IInv` therefore adds `DeletingHolds` (only the lock's holder is deleting, and
its run is a placeholder) and `RegisteredIsUsed` (a registered run was started,
under its own key). The core lemma is `PurgeKeepsLive`: no choice of expired and
excess runs removes a live one. The buffer bound in `TypeOK` needs `BufferShort`:
only the error handler may append without trimming, and it runs once per run.

*Streams.* `Contiguous` speaks of queues and buffers, but rests on who is
subscribed to what. The key fact of `StreamInv` is `ServedBySender`: whoever is
subscribed to a run that can still send is served by that run and has not been told
the end. It survives a client's leaving, which takes its queue off the run
*registered* under its key, whichever that is: a run that can still send is the
registered one. `BufferIsWindow` says that a buffer is the events of its
run without gaps, ending at the newest; so the copy a subscriber starts from joins
up with the broadcasts that follow (`JoinedFromStart`). `NothingAfterSentinel` is
inductive with `FreshBuffer`: the sentinel goes to the subscribers of a run that
sends nothing any more.

*Replay files.* `ReplayInv` says what keeps an old run's write away from a new
run's file: runs of a key start in order and the registered one is the newest
(`UsedIsPrefix`, `NewestRegistered`), the file deleted is the one of the deleter's
key (`DeletesOwnFile`), and every write in flight is attended by its producer
(`WritesAttended`), which waits for it, cancelled or not, and is live until it has
landed, so that the next question does not delete the file before. The exception is
a producer that met two cancellations: it was draining, and whoever drains has met
one already (`DrainsOnceCancelled`). `ReplayIsDurable` becomes inductive as
`EndedIsDurable`, which adds the time between the final write's start and its end.

*Eviction.* `RecentRunsStay` compares a step with the cap. Its invariant is
`RankInv`: completed runs in the registry have distinct ranks in the order of
completion. The purge keeps the newest `MaxCompleted` of them, so a run it drops for
excess has that many completed ones above it, and `KeptAbove` says that as many of
these are kept themselves: the highest one that is not would have only kept ones
above it, and too few of them to be dropped. (Arguing by induction on the rank would
take a theorem that the provers cannot instantiate.) A run that a stop killed before
its `finally` block has no rank (`RetainedWhenEnding`): such runs are at the bottom
of the order, so they cannot push a ranked one out.

*Lock.* `LockIsPassedOn` is carried as `Held /\ Line`: who waits is read off the state of
the clients and producers (`InLine`), and every action joins the queue at its end, is
served at its head, or is taken out of it when it is cancelled (`JoiningLine`,
`HeadingLine`, `LeavingLine`). It is what `LockIsServed` rests on: a fair step of the
head is a step of somebody who is there. `IdsAssumption` keeps clients and runs
apart, as a request and a producer are never the same task.

**KnowledgeJobs.** `HoldInv` explains why the queue is safe under `Isolated`: a
live process's heartbeat is in the grace window (`Beating`), so recovery passes
over its rows; a row in progress is not older than the threshold
(`RunningIsRecent`), so the sweep does too; the row of a running job is
`processing` (`RunningJobIsOwned`), so nobody claims it; hence
`OneWorkerPerDocument`. Without `Isolated` the induction fails in `Outage`, `Age`,
`Reprocess` and `StartupRecovery` and nowhere else; section 5 tells what they lead
to. `AttemptsAreBounded` needs a budget argument (`Affordable`):
a waiting job has an attempt left, or its last claimant crashed and that crash is
counted; `LockIsOwn` carries it through start-up, where a process can only find
rows of its id that a crash or a lost call left. The refinement needs
`DoomedExist` and lemmas on how `Holder` changes when a worker begins or ends
(`HolderStays`, `Abandons`, `LetsGo`, `Unseen`). `ContentIsConsistent` needs no
assumption: chunks are written in one transaction behind a foreign key, and a
worker about to finish has stored its document (`IndexedIsStored`).

**ChannelQueues.** `QueueInv` joins what each task may rely on: a queue is made
once and for its own session (`MadeOnce`, `OwnQueue`), holds each message once
(`InQueue`), is in the dict exactly while its consumer serves as long as the
cleanup has met no message (`TheConsumer`), and only a consumer that is about to
submit has messages in hand (`InHand`), while a run that still streams is awaited by
who started it (`RunIsAwaited`): that is why only a run past its sentinel, or a
placeholder without a run, can turn a message away. `RegisteredIsServed` needs none of the `disturbed` provisos: it
is the fact that makes a `get` of a registered queue safe at any time.
`InOrder` needs `OrderInv` on top of it: of two messages of a session, the earlier
is always in a later stage of its way (blocked in a put, queued, in the consumer's
hand, submitted), and within one stage in front of the other (`Precedes`, over
`Stages` and `Places`). A put that waits for room has found its queue full (`BlockedIsLate`), and
for its message the property promises nothing.

**ToolCoordinator.** `Shape` ties a call's status to where its caller and watcher
are: only one of the two is in charge at any time, which is what makes the outcome
unique. `Signals` says that a task is told to stop only after the cancel event was
set, and that one which is over has closed its stream or was cancelled; without it
neither `CallerIsWoken` nor `JoinIsShort` is inductive. The refinement takes one
lemma per task on how an outcome may change.

**Approvals.** `ShapeOf` says of each record that being listed is being pending,
that an open future has its waiter and its place in the table, and that what a user
was told is what the future holds; the properties are consequences of it.
`OneRecordPerCall` and `OnlyWhatWasGranted` are carried along as they are.

**LLMCalls.** The semaphore is proved first, as operators on its state: waking,
releasing and giving up keep value and permits in balance (`Sound`) and touch only
the waiter that is served (`Untouched`). Every action is then one of these moves
(`Moves`), and `CallInv` gives each call what it holds, what it has sent and where
a pause it knows of can find it. `RequestsBounded` is strengthened with the
attempt and the phase: twice the attempts so far, and one for the fallback. `NoPermitIdles` adds an
order to it: who is ahead of a waiter is a strict order on the waiters (`Ordered`), so
one of them is first (the least number of calls ahead, by well-foundedness), and
whatever frees a permit wakes that one; a granted call that is cancelled or times out before
it runs wakes the next (`WakingServes`).

**Checkpoints.** `Lock` (who works has the lock), `Threads` (a thread works for an
actor that waits for it), `Saves` (a save in flight belongs to a run that is
talking, or to one that gave it up), `Quiet` (past its idle check, a restore is
among runs that wait or are over for the tracker) and `Plans` (what head and refs
are at each step of the transaction, and the file too unless a save that was left
behind landed). `MaxStops <= 1` is needed by `Lock` and `Threads`, where a second
stop meets an operation, and nowhere else; the finding below is what happens
without it. `RestoresWorkAlone`, `RestoresAreAtomic` and `NothingIsLost` name the
saves that nobody waits for as their one exception, since the code lets one stop
leave such a save (section 5); what remains is that the restore's own steps, the
head, and every run the tracker still knows keep the promise.

**Model-checked only.** Liveness (`StopEnds`, `LockIsServed`,
`EarlySubscriberEnds`, `EveryDocumentSettles`, `EveryMessageIsHandled`,
`StopsAreServed`, `BackgroundReports`, `CallsEnd`, `OperationsEnd`): temporal proofs under fairness need `ENABLED`, which the prover
does not handle. Of `LockIsServed` and `CallsEnd` the safety half is proved: nobody
who waits is forgotten (`LockReachesWaiters`, `PermitsAreNeverIdle`). Every invariant and action property the passing runs check is
stated by a theorem above.

## 5. Where the code and its promises part

Shown by a run:

1. *A stream without an end* (`tracker_flush_window`). The producer's `finally`
   block broadcasts the sentinel and then awaits the last replay write. A client
   that attaches in between finds a task that is not done, is subscribed, and
   never gets a sentinel; a question sent then joins the finished run and is
   never asked. `EarlySubscriberEnds` shows that everyone who came earlier is safe.
2. *Two threads in one repository* (`checkpoint_two_stops`). A coroutine cancelled
   while its work runs in a thread waits for the thread before it lets go of its
   lock, as the comment in `io_pools.py:299` says. A second cancellation interrupts
   that wait and is re-raised: the lock is free and the thread goes on. The tracker
   cancels a run at every stop request, so stopping a `/checkpoint` command twice is
   enough.

Seen while modelling, present in the modules, without a run of its own:

*Tracker, knowledge queue, channel queues*

- *A stale replay.* A stop that meets the producer while a thread writes the replay
  file is drained. A second one in the same wait (the button pressed twice) leaves
  the write behind; it may land after the next question deleted the file, so a
  reconnect after a restart shows the stopped turn, or after the turn's own final
  write, which it replaces by a shorter one. `NoStaleReplay` and `ReplayIsDurable`
  name such a run.
- *Two workers on one document.* A database restart frees the advisory lock of a
  worker that is busy; it checks again only between jobs. A second process under
  the same id starts, takes the lock and reclaims the running job as its own former
  life's. `OneWorkerPerDocument` fails with an `Outage` and shared ids.
- *A reprocess request that is overwritten.* `finish_job` updates by id, whatever
  the row's status: a document that was queued again during its run is completed
  with the old result.
- *A message ignored after the answer.* The consumer sees the end of the stream
  before the last replay write is done. If the session's next message is already
  queued, `attach_or_start` still finds the run and the message is "ignored (task
  already running)" (`base.py:585-590`, whose comment says "This should not happen
  with UnifiedQueueManager"). It takes no cleanup and no failure;
  `OnlyEndedRunsRefuse` says that it happens in this window (`flushing`) and, until a
  `/stop` dismisses it, before a placeholder whose deletion failed (`stuck`).
- *A consumer that survives its cancellation.* A run longer than 600 s looks like an
  idle queue. The cleanup removes the queue and cancels its consumer, but
  `stream_from_queue` swallows the cancellation (`task_tracker.py:552-553`): the
  consumer goes back to a queue that nobody can find and waits there for ever,
  and the cleanup loop waits for the consumer (`unified_queue_manager.py:410`), so no
  queue of any channel is cleaned up again. The session's next message makes a new
  queue, and is ignored if the run still streams (`disturbed`).
- *A consumer cancelled elsewhere* (fetching its channel, opening the run, in line
  for the tracker's lock) ends, and the batch in its hands is lost.
- *A killed run.* A `/stop` that ends the run's task before its first step or in its
  `finally` block leaves its consumer reading a stream that has no end (`deaf`): the
  session's later messages queue up behind it.
- *A cancelled `finally` block.* A stop that arrives while the producer's
  `finally` block waits for the lock ends the task without sentinel, retention
  and final write (phase `killed`): its subscribers wait for ever. `StopEnds`
  still holds.
- *A placeholder that stays.* If deleting the old replay file raises, the
  placeholder stays registered (phase `stuck`): the chat accepts no new question
  until a stop cancels it.
- *A fifth attempt.* `worker.py:21` says four attempts in total, but recovery
  does not look at `attempts`: a crash in the last attempt buys one more, and a
  document that kills its worker is claimed again and again, before younger
  ones. `AttemptsAreBounded` is stated with the crashes for that reason.
- *Recovery after an outage* may run before the live workers' heartbeats have
  ticked and take their jobs.
- *The delete's check* and the delete are two transactions; a claim can come
  between, and the worker then runs a document that is gone. It fails cleanly
  (`ContentFollowsDocument`).
- *A stage longer than the stale threshold* has its row requeued under it.
- *The consumer's "channel not found" return* is unreachable: channels are
  replaced in the manager's list, never removed.

*Tool calls*

- *A cancelled caller* only unsubscribes: the tool goes on with nobody to watch its
  kill deadline, and its entry stays in the table. `request_offload` on such an
  entry answers yes, and nothing happens.
- *A task that ended as cancelled* makes the shielded wait of the grace period
  raise in the caller or the watcher, which then never finishes the call (`broken`).
- *A stale timer.* A deadline extended while the timed-out wait is being unwound is
  seen; one extended by the time the deadlines were read is too late.
- *A chatty tool* whose chunks always come first keeps its caller from seeing the
  cancel event; only a forced cancel or its end stops it.
- *The reason of a cancellation.* A kill in the foreground writes `TIMEOUT` over a
  reason the user gave earlier; the watcher's does not.

*Approvals*

- *"Approved, executing"* is told to a user whose answer arrives after the timer has
  fired and before its waiter has run, or after the waiter was cancelled; the tool
  does not run (`PromisesKept` names both cases).
- *A cancelled waiter's record* stays in the table, at the head of what `/approve`
  answers first, until the session is cancelled or the record collected: nothing
  removes it when the coordinator force-cancels the tool.

*Model calls*

- *The window* is stamped before the wait for a permit, so requests can go out later
  than their stamps, and more than `max_qpm` of them within a minute.
- *`on_success`* can only clear a pause that has ended already; it changes nothing.
- *A retried stream* starts again from its beginning, whether or not chunks were
  handed out: `emitted` in `_wrap_stream` is never used.

*Checkpoints*

- *A save left behind by one stop.* A run that failed by itself is saving what it has
  when the stop comes: the cancellation is swallowed and the save goes on alone
  (`qwenpaw/runtime/runtime.py:201-226`, `379-396`). Or the stop meets the producer
  between two events, outside the generator (`runtime.py:252-253`,
  `task_tracker.py:461`, `477`), or the replay write raises there: the generator is
  finalised in a task that nobody waits for. The tracker counts the run as over,
  `quiesce` finds the workspace idle, and the save may land in the middle of the
  restore or after it: it replaces what was restored, or is replaced without being in
  a checkpoint. `RestoreAlone`, `AllOrNothing` and `SafetyNet` name such saves; all
  three fail without that exception. A run stopped twice, once to cancel it and once
  while it drains or saves, leaves one too.
- *A message that arrives while a restore waits* stops at the gate, is active in the
  tracker's eyes and so makes the restore fail at its timeout; two restore commands
  do that to each other. `OperationsEnd` rests on the timeout.
- *A cron job that already runs* is neither tracked nor stopped by pausing the
  scheduler, so a restore does not wait for it.
- *A run that ends after its session was deleted* schedules a snapshot that creates
  refs for it again.
- `flush_and_close_all` is never called.

## 6. What is not modelled

*Inside the modelled parts.* TaskTracker: the read-only snapshots change no
state. Knowledge queue: rows written before owners existed, the `stage` column,
graph indexing (best effort), vector backfill, moving a document between spaces,
retrieval. Channel queues: control commands other than `/stop`, debouncing,
access control, metrics, `start_all`/`stop_all`, and replacing a channel beyond
the wait it causes; on Python 3.12 `wait_for(put)` no longer runs in a task of
its own, which removes behaviours of the model and adds none.

Tool coordinator: the cache of completed calls, hooks and completion handlers (the
repository registers none), further subscribers, the text of results. Approvals:
who may answer, notifications, what the policy engine does with a rule. Model
calls: durations, the capability cache, statistics, and a stream that nobody ever
iterates. Checkpoints: requests for other sessions, the contents of the memory and
file scopes, a cron run's own saves, settings and the git plumbing.

*Whole components, planned:* agents and workspaces, data import, cron, drivers,
chats and sessions.

*Whole components, left out:* the reasoning loop, loop gates and modes are
sequential per run, and what they share is in other components; prompts, context,
memory, parsers, retrieval and providers transform data; tools, browser, desktop,
tunnels, local models and backup drive external processes or files; governance
and sandbox apply rules to single calls; routers are thin; the inbox and push
stores are bounded lists whose operations are one critical section each; front
end, website, scripts and deployment are not part of the running server's state.

## 7. The plan

Built, in this order: `TaskTracker` (everything else starts or observes its
runs), `KnowledgeJobs` with `DocumentLifecycle` (the only part with several
processes and a database), `ChannelQueues` (the tracker's main customer),
`ToolCoordinator` with `CallOutcome`, `Approvals`, `LLMCalls` (what a run does while
it lasts), `Checkpoints` (what must not happen while it lasts).

Next, most important first:

1. `AgentReload` — the manager's swap with service reuse, composed with the
   tracker's ownership snapshots: no run loses its workspace's services.
2. `DataImport` — import jobs against their recovery scan.
3. Abstract `RunStream` (what a subscriber is promised), refined by
   `TaskTracker`; `TaskTracker` and `ChannelQueues` composed, so that `run` in the
   second is the registry of the first; `stop_all`.
4. `CronJobs`, `Drivers`, chats and sessions.
5. Proofs: an abstract permit pool that `LLMCalls` implements, and the refinement
   of item 3.

The project keeps to twelve runs, so that checking it stays affordable. Room for a
further module comes from proving what a run checks and joining it with another of
the same module, as `tracker_live` was.
