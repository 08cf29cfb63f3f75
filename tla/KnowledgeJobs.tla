--------------------------- MODULE KnowledgeJobs ---------------------------
(***************************************************************************)
(* The knowledge service's ingestion queue: the jobs table, the documents  *)
(* it serves and the worker processes that claim, run, retry and recover   *)
(* jobs (knowledge-service/app/worker.py, store.py, processing.py), with   *)
(* the API's upload, reprocess and delete requests (main.py).              *)
(*                                                                         *)
(* One transaction of the Store is one step.  A document has exactly one   *)
(* job (create_document inserts both, nothing else inserts a job) and      *)
(* every transaction gives both rows the same status, so a document and    *)
(* its job are one entry here.  Time is abstract: a retry delay that       *)
(* expires, a heartbeat that leaves the grace window and a job row that    *)
(* outlives the stale threshold are steps of their own.                    *)
(***************************************************************************)
EXTENDS Integers, FiniteSets

CONSTANTS
    Workers,        \* worker processes
    Ids,            \* the KNOWLEDGE_WORKER_IDs they run under
    IdOf,           \* [Workers -> Ids]; two processes may share one
    Nobody,         \* not a worker: a free instance lock
    NumDocs,        \* bound: documents ever uploaded, numbered by created_at
    MaxAttempts,    \* MAX_ATTEMPTS
    Deletable,      \* documents a user may delete
    Restarted,      \* workers whose container is restarted after an exit
    SlowStages,     \* whether one stage may outlast the stale threshold
    MaxCrashes,     \* bound: process crashes
    MaxFaults,      \* bound: failed bookkeeping calls
    MaxOutages,     \* bound: database restarts
    MaxReprocesses  \* bound: reprocess requests

Docs == 1 .. NumDocs
NoDoc == 0

ASSUME IdsAssumption == IdOf \in [Workers -> Ids] /\ Nobody \notin Workers
ASSUME BoundsAssumption ==
    /\ NumDocs \in Nat /\ MaxAttempts \in Nat \ {0}
    /\ SlowStages \in BOOLEAN
    /\ MaxCrashes \in Nat /\ MaxFaults \in Nat
    /\ MaxOutages \in Nat /\ MaxReprocesses \in Nat

VARIABLES
    status,    \* document -> status of its document and job rows
    attempts,  \* document -> jobs.attempts
    owner,     \* document -> jobs.owner_worker_id; meaningful once claimed
    due,       \* documents whose next_retry_at is NULL or past
    old,       \* documents whose job's updated_at is behind the stale cutoff
    stored,    \* documents that have chunks
    doomed,    \* documents a delete request has found not processing
    fresh,     \* ids whose heartbeat row is inside the grace window
    lock,      \* id -> process whose session holds its advisory lock
    pc,        \* worker -> where its main thread is
    doc,       \* worker -> document of the job it claimed
    tries,     \* worker -> attempts in the row it claimed
    crashes, faults, outages, reprocesses

rowVars == <<status, attempts, owner, due, old, stored>>
workVars == <<pc, doc, tries>>
budgets == <<crashes, faults, outages, reprocesses>>
vars == <<rowVars, doomed, fresh, lock, workVars, budgets>>

\* `none' before the upload, `deleted' after it: the rows do not exist
Statuses == {"none", "queued", "processing", "completed", "failed", "deleted"}
Rows == {d \in Docs : status[d] \notin {"none", "deleted"}}

AtWork == {"claimed", "parsing", "storing", "indexing", "failing"}
Places == {"down", "recovering", "idle", "checked", "sweep", "orphans"} \cup AtWork

Working(w) == pc[w] \in AtWork
WorksOn(w, d) == Working(w) /\ doc[w] = d
Alive(w) == pc[w] \notin {"down", "recovering"}

TypeOK ==
    /\ status \in [Docs -> Statuses]
    /\ attempts \in [Docs -> Nat]
    /\ owner \in [Docs -> Ids \cup {Nobody}]
    /\ due \in SUBSET Docs /\ old \in SUBSET Docs
    /\ stored \in SUBSET Docs /\ doomed \in SUBSET Docs
    /\ fresh \in SUBSET Ids
    /\ lock \in [Ids -> Workers \cup {Nobody}]
    /\ pc \in [Workers -> Places]
    /\ doc \in [Workers -> Docs \cup {NoDoc}]
    /\ tries \in [Workers -> Nat]
    /\ \A w \in Workers : Working(w) => doc[w] \in Docs
    /\ crashes \in 0 .. MaxCrashes /\ faults \in 0 .. MaxFaults
    /\ outages \in 0 .. MaxOutages /\ reprocesses \in 0 .. MaxReprocesses

Init ==
    /\ status = [d \in Docs |-> "none"]
    /\ attempts = [d \in Docs |-> 0]
    /\ owner = [d \in Docs |-> Nobody]
    /\ due = Docs /\ old = {} /\ stored = {} /\ doomed = {}
    /\ fresh = {}
    /\ lock = [i \in Ids |-> Nobody]
    /\ pc = [w \in Workers |-> "down"]
    /\ doc = [w \in Workers |-> NoDoc]
    /\ tries = [w \in Workers |-> 0]
    /\ crashes = 0 /\ faults = 0 /\ outages = 0 /\ reprocesses = 0
-----------------------------------------------------------------------------
(* Updates shared by several transactions *)

\* UPDATE jobs, documents SET status = s for the rows of S; updated_at = now
SetStatus(S, s) ==
    /\ status' = [d \in Docs |-> IF d \in S THEN s ELSE status[d]]
    /\ old' = old \ S

\* ... and next_retry_at = NULL
Requeue(S) ==
    /\ SetStatus(S, "queued")
    /\ due' = due \cup S
    /\ UNCHANGED <<attempts, owner, stored>>

\* the main thread goes to p with no job in hand
GoTo(w, p) ==
    /\ pc' = [pc EXCEPT ![w] = p]
    /\ doc' = [doc EXCEPT ![w] = NoDoc]
    /\ tries' = [tries EXCEPT ![w] = 0]

\* ... or stays with its job
Advance(w, p) == pc' = [pc EXCEPT ![w] = p] /\ UNCHANGED <<doc, tries>>

\* mutant: the heartbeat runs under a private id, not the id of the claims
TouchPrivateId(w) == fresh' = fresh

\* heartbeat.set(...), or a tick of the heartbeat thread
Touch(w) == fresh' = fresh \cup {IdOf[w]}

\* report(stage): update_job_stage moves updated_at of a row that still exists,
\* then the heartbeat is touched
Report(w) == old' = old \ {doc[w]} /\ Touch(w)

Processing == {d \in Docs : status[d] = "processing"}

\* the rows recover_interrupted_jobs takes when it sees no reclaim_owner
OfDeadOwners == {d \in Processing : owner[d] \notin fresh}

\* what reclaim_owner adds
OwnedBy(i) == {d \in Processing : owner[d] = i}
-----------------------------------------------------------------------------
(* Requests to the API *)

Upload(d) ==
    /\ status[d] = "none"
    /\ \A e \in Docs : e < d => status[e] # "none"
    /\ SetStatus({d}, "queued")
    /\ attempts' = [attempts EXCEPT ![d] = 0]
    /\ due' = due \cup {d}
    /\ UNCHANGED <<owner, stored, doomed, fresh, lock, workVars, budgets>>

\* requeue_document looks at no status and leaves next_retry_at as it is
Reprocess(d) ==
    /\ reprocesses < MaxReprocesses
    /\ d \in Rows
    /\ SetStatus({d}, "queued")
    /\ attempts' = [attempts EXCEPT ![d] = 0]
    /\ reprocesses' = reprocesses + 1
    /\ UNCHANGED <<owner, due, stored, doomed, fresh, lock, workVars,
                   crashes, faults, outages>>

\* delete_document reads the status in one transaction ...
DeleteCheck(d) ==
    /\ d \in Deletable \cap (Rows \ Processing)
    /\ doomed' = doomed \cup {d}
    /\ UNCHANGED <<rowVars, fresh, lock, workVars, budgets>>

\* ... and deletes the rows in another
DeleteRows(d) ==
    /\ d \in doomed
    /\ doomed' = doomed \ {d}
    /\ SetStatus({d}, "deleted")
    /\ stored' = stored \ {d}
    /\ UNCHANGED <<attempts, owner, due, fresh, lock, workVars, budgets>>
-----------------------------------------------------------------------------
(* A worker process: start-up *)

\* acquire(): a process that finds the lock taken exits, which is no step
Start(w) ==
    /\ pc[w] = "down"
    /\ lock[IdOf[w]] = Nobody
    /\ lock' = [lock EXCEPT ![IdOf[w]] = w]
    /\ GoTo(w, "recovering")
    /\ UNCHANGED <<rowVars, doomed, fresh, budgets>>

\* recover_interrupted_jobs(reclaim_owner=worker_id), then heartbeat.start()
StartupRecovery(w) ==
    /\ pc[w] = "recovering"
    /\ Requeue(OfDeadOwners \cup OwnedBy(IdOf[w]))
    /\ Touch(w)
    /\ GoTo(w, "idle")
    /\ UNCHANGED <<doomed, lock, budgets>>

StartupRecoveryFails(w) ==
    /\ pc[w] = "recovering" /\ faults < MaxFaults
    /\ faults' = faults + 1
    /\ Touch(w)
    /\ GoTo(w, "idle")
    /\ UNCHANGED <<rowVars, doomed, lock, crashes, outages, reprocesses>>
-----------------------------------------------------------------------------
(* A worker process: the idle half of the loop *)

\* still_held(): the session lives, or a new one gets the lock again
StillHeld(w) ==
    /\ pc[w] = "idle"
    /\ lock[IdOf[w]] \in {w, Nobody}
    /\ lock' = [lock EXCEPT ![IdOf[w]] = w]
    /\ Advance(w, "checked")
    /\ UNCHANGED <<rowVars, doomed, fresh, budgets>>

\* the database stays away for all the attempts: True without the lock
AssumeHeld(w) ==
    /\ pc[w] = "idle" /\ lock[IdOf[w]] # w /\ faults < MaxFaults
    /\ faults' = faults + 1
    /\ Advance(w, "checked")
    /\ UNCHANGED <<rowVars, doomed, fresh, lock, crashes, outages, reprocesses>>

\* LockHeldByAnotherInstance: the process exits
HeldElsewhere(w) ==
    /\ pc[w] = "idle"
    /\ lock[IdOf[w]] \notin {w, Nobody}
    /\ GoTo(w, "down")
    /\ UNCHANGED <<rowVars, doomed, fresh, lock, budgets>>

\* mutant: the oldest document that is not finished, claimed or not
TakesProcessing == {d \in due : status[d] \in {"queued", "processing"}}

\* status = 'queued' AND (next_retry_at IS NULL OR next_retry_at <= now())
Claimable == {d \in due : status[d] = "queued"}

\* claim_job: the oldest row, its owner and the heartbeat in one transaction
Claim(w) ==
    /\ pc[w] = "checked"
    /\ \E d \in Claimable :
        /\ \A e \in Claimable : d <= e
        /\ SetStatus({d}, "processing")
        /\ attempts' = [attempts EXCEPT ![d] = @ + 1]
        /\ owner' = [owner EXCEPT ![d] = IdOf[w]]
        /\ pc' = [pc EXCEPT ![w] = "claimed"]
        /\ doc' = [doc EXCEPT ![w] = d]
        /\ tries' = [tries EXCEPT ![w] = attempts'[d]]
    /\ Touch(w)
    /\ UNCHANGED <<due, stored, doomed, lock, budgets>>

NothingToClaim(w) ==
    /\ pc[w] = "checked" /\ Claimable = {}
    /\ Touch(w)
    /\ Advance(w, "sweep")
    /\ UNCHANGED <<rowVars, doomed, lock, budgets>>

\* mutant: the stale rows are requeued before the exhausted ones are failed
RequeuesAll(w) ==
    /\ pc[w] = "sweep"
    /\ Requeue(old \cap Processing)
    /\ Advance(w, "orphans")
    /\ UNCHANGED <<doomed, fresh, lock, budgets>>

\* mutant: only the exhausted rows are looked at
SweepsExhaustedOnly(w) ==
    /\ pc[w] = "sweep"
    /\ SetStatus({d \in old \cap Processing : attempts[d] >= MaxAttempts}, "failed")
    /\ Advance(w, "orphans")
    /\ UNCHANGED <<attempts, owner, due, stored, doomed, fresh, lock, budgets>>

\* requeue_stale_jobs: exhausted rows fail, the other stale rows are requeued
StaleSweep(w) ==
    /\ pc[w] = "sweep"
    /\ LET stale     == old \cap Processing
           exhausted == {d \in stale : attempts[d] >= MaxAttempts}
       IN  /\ status' = [d \in Docs |-> IF d \in exhausted THEN "failed"
                                        ELSE IF d \in stale THEN "queued"
                                        ELSE status[d]]
           /\ old' = old \ stale
           /\ due' = due \cup stale
    /\ Advance(w, "orphans")
    /\ UNCHANGED <<attempts, owner, stored, doomed, fresh, lock, budgets>>

\* the 300 s throttle
SweepNotDue(w) ==
    /\ pc[w] = "sweep"
    /\ Advance(w, "orphans")
    /\ UNCHANGED <<rowVars, doomed, fresh, lock, budgets>>

RecoverOrphans(w) ==
    /\ pc[w] = "orphans"
    /\ Requeue(OfDeadOwners)
    /\ Advance(w, "idle")
    /\ UNCHANGED <<doomed, fresh, lock, budgets>>

\* the 60 s throttle
RecoveryNotDue(w) ==
    /\ pc[w] = "orphans"
    /\ Advance(w, "idle")
    /\ UNCHANGED <<rowVars, doomed, fresh, lock, budgets>>
-----------------------------------------------------------------------------
(* A worker process: one job *)

\* report("parsing"), then the document is read; a missing one raises
ReadDocument(w) ==
    /\ pc[w] = "claimed"
    /\ Report(w)
    /\ Advance(w, IF doc[w] \in Rows THEN "parsing" ELSE "failing")
    /\ UNCHANGED <<status, attempts, owner, due, stored, doomed, lock, budgets>>

\* parsing, vision, extraction and embedding end; report("storing")
Prepare(w) ==
    /\ pc[w] = "parsing"
    /\ Report(w)
    /\ Advance(w, "storing")
    /\ UNCHANGED <<status, attempts, owner, due, stored, doomed, lock, budgets>>

\* mutant: chunks may be written for a document that is gone
StoreAnyway(w) ==
    /\ pc[w] = "storing"
    /\ Report(w)
    /\ stored' = stored \cup {doc[w]}
    /\ Advance(w, "indexing")
    /\ UNCHANGED <<status, attempts, owner, due, doomed, lock, budgets>>

\* replace_document_content; the chunks' foreign key refuses a deleted document
Store(w) ==
    /\ pc[w] = "storing"
    /\ Report(w)
    /\ stored' = stored \cup ({doc[w]} \cap Rows)
    /\ Advance(w, IF doc[w] \in Rows THEN "indexing" ELSE "failing")
    /\ UNCHANGED <<status, attempts, owner, due, doomed, lock, budgets>>

\* parsing, a model call, the graph or any Store call raises
AttemptRaises(w) ==
    /\ pc[w] \in {"claimed", "parsing", "storing", "indexing"}
    /\ Advance(w, "failing")
    /\ UNCHANGED <<rowVars, doomed, fresh, lock, budgets>>

\* graph indexing ends and finish_job updates the row by id, whatever it says
Finish(w) ==
    /\ pc[w] = "indexing"
    /\ SetStatus({doc[w]} \cap Rows, "completed")
    /\ Touch(w)
    /\ GoTo(w, "idle")
    /\ UNCHANGED <<attempts, owner, due, stored, doomed, lock, budgets>>

\* retry = (job.get("attempts") or 0) < MAX_ATTEMPTS
Retry(w) == tries[w] < MaxAttempts

\* fail_job: queued again in an hour, or failed; by id, whatever the row says
FailJob(w) ==
    /\ pc[w] = "failing"
    /\ LET row == {doc[w]} \cap Rows
       IN  /\ SetStatus(row, IF Retry(w) THEN "queued" ELSE "failed")
           /\ due' = IF Retry(w) THEN due \ row ELSE due \cup row
    /\ Touch(w)
    /\ GoTo(w, "idle")
    /\ UNCHANGED <<attempts, owner, stored, doomed, lock, budgets>>

\* fail_job raises: the job stays in processing
FailJobLost(w) ==
    /\ pc[w] = "failing" /\ faults < MaxFaults
    /\ faults' = faults + 1
    /\ Touch(w)
    /\ GoTo(w, "idle")
    /\ UNCHANGED <<rowVars, doomed, lock, crashes, outages, reprocesses>>
-----------------------------------------------------------------------------
(* Failures and the passage of time *)

\* the process dies; the server ends its session and with it the lock
Crash(w) ==
    /\ pc[w] # "down" /\ crashes < MaxCrashes
    /\ crashes' = crashes + 1
    /\ lock' = [i \in Ids |-> IF lock[i] = w THEN Nobody ELSE lock[i]]
    /\ GoTo(w, "down")
    /\ UNCHANGED <<rowVars, doomed, fresh, faults, outages, reprocesses>>

\* the database restarts: every session and its lock is gone; if it is away
\* for longer than the grace window, no heartbeat is fresh when it returns
Outage ==
    /\ outages < MaxOutages
    /\ outages' = outages + 1
    /\ lock' = [i \in Ids |-> Nobody]
    /\ \E long \in BOOLEAN : fresh' = IF long THEN {} ELSE fresh
    /\ UNCHANGED <<rowVars, doomed, workVars, crashes, faults, reprocesses>>

\* the heartbeat thread of a live process ticks
Beat(w) ==
    /\ Alive(w) /\ IdOf[w] \notin fresh
    /\ Touch(w)
    /\ UNCHANGED <<rowVars, doomed, lock, workVars, budgets>>

\* sixty seconds without a beat: only a process that is gone stops beating
Silence(i) ==
    /\ i \in fresh /\ \A w \in Workers : IdOf[w] = i => ~Alive(w)
    /\ fresh' = fresh \ {i}
    /\ UNCHANGED <<rowVars, doomed, lock, workVars, budgets>>

\* the hour of a retry is over
RetryDue(d) ==
    /\ status[d] = "queued" /\ d \notin due
    /\ due' = due \cup {d}
    /\ UNCHANGED <<status, attempts, owner, old, stored, doomed, fresh, lock,
                   workVars, budgets>>

\* a processing row gets older than the stale threshold
Age(d) ==
    /\ status[d] = "processing" /\ d \notin old
    /\ SlowStages \/ \A w \in Workers : ~WorksOn(w, d)
    /\ old' = old \cup {d}
    /\ UNCHANGED <<status, attempts, owner, due, stored, doomed, fresh, lock,
                   workVars, budgets>>
-----------------------------------------------------------------------------
Request == \E d \in Docs :
    Upload(d) \/ Reprocess(d) \/ DeleteCheck(d) \/ DeleteRows(d)

Loop(w) ==
    \/ StillHeld(w) \/ HeldElsewhere(w)
    \/ Claim(w) \/ NothingToClaim(w)
    \/ StaleSweep(w) \/ SweepNotDue(w) \/ RecoverOrphans(w) \/ RecoveryNotDue(w)
    \/ ReadDocument(w) \/ Prepare(w) \/ Store(w) \/ AttemptRaises(w)
    \/ Finish(w) \/ FailJob(w)

Failure == Outage \/ \E w \in Workers :
    Crash(w) \/ StartupRecoveryFails(w) \/ AssumeHeld(w) \/ FailJobLost(w)

Time == \/ \E w \in Workers : Beat(w)
        \/ \E i \in Ids : Silence(i)
        \/ \E d \in Docs : RetryDue(d) \/ Age(d)

Next ==
    \/ Request \/ Failure \/ Time
    \/ \E w \in Workers : Start(w) \/ StartupRecovery(w) \/ Loop(w)

Spec == Init /\ [][Next]_vars

\* A live process runs; the container runtime starts the workers of Restarted
\* again (restart: unless-stopped); clocks advance; a throttle that is tried
\* again and again is not always in force.  Nothing obliges a user or a failure.
FairSpec ==
    /\ Spec
    /\ \A w \in Workers : /\ WF_vars(StartupRecovery(w))
                          /\ WF_vars(Loop(w))
                          /\ SF_vars(StaleSweep(w))
                          /\ SF_vars(RecoverOrphans(w))
    /\ \A w \in Restarted : WF_vars(Start(w))
    /\ \A i \in Ids : WF_vars(Silence(i))
    /\ \A d \in Docs : WF_vars(RetryDue(d)) /\ WF_vars(Age(d))
-----------------------------------------------------------------------------
(* Inductive strengthenings *)

\* A live process's heartbeat row is inside the grace window.
Beating == \A w \in Workers : Alive(w) => IdOf[w] \in fresh

\* A job that is being worked on has not outlived the stale threshold.
RunningIsRecent == \A w \in Workers : Working(w) => doc[w] \notin old

\* A lock is held by a process that runs under its id.
LockIsOwn == \A i \in Ids : lock[i] # Nobody => IdOf[lock[i]] = i

\* A worker about to finish has stored what it finished, unless it is deleted.
IndexedIsStored == \A w \in Workers :
    pc[w] = "indexing" => doc[w] \in stored \/ status[doc[w]] = "deleted"

\* A delete request is made for a document that was there.
DoomedExist == \A d \in doomed : status[d] # "none"

\* A job that waits can be claimed within its bound, and so can a job in
\* processing whose owner is dead: a crash has been counted for it.
Affordable == \A d \in Docs :
    \/ attempts[d] < MaxAttempts + crashes
    \/ status[d] \notin {"queued", "processing"}
    \/ /\ status[d] = "processing"
       /\ \E w \in Workers : Alive(w) /\ owner[d] = IdOf[w]
-----------------------------------------------------------------------------
(* The promise: each document's lifecycle, as DocumentLifecycle states it *)

PhaseOf(s) == CASE s = "none"       -> "new"
                [] s = "queued"     -> "waiting"
                [] s = "processing" -> "running"
                [] s = "completed"  -> "done"
                [] s = "failed"     -> "failed"
                [] s = "deleted"    -> "gone"

Phase == [d \in Docs |-> PhaseOf(status[d])]

Holder == [d \in Docs |->
    IF status[d] = "processing" /\ \E w \in Workers : WorksOn(w, d)
    THEN CHOOSE w \in Workers : WorksOn(w, d) ELSE Nobody]

Lifecycle == INSTANCE DocumentLifecycle WITH phase <- Phase, holder <- Holder
-----------------------------------------------------------------------------
(* Properties *)

\* While no id is shared, the database stays up, nobody reprocesses and no
\* stage outlasts the threshold, the queue keeps the promise: only the worker
\* that holds a document settles it, and recovery takes only what no one holds.
KeepsPromise == Lifecycle!Spec

\* What the safety of the queue rests on: every process has an id of its own,
\* no database restart, no reprocess request, no stage beyond the threshold.
Isolated ==
    /\ \A v, w \in Workers : IdOf[v] = IdOf[w] => v = w
    /\ MaxOutages = 0 /\ MaxReprocesses = 0 /\ SlowStages = FALSE

\* No two processes ever work on one document: claim_job is "safe across
\* multiple worker processes", and neither recovery nor a retry may hand a job
\* to a second worker while the first one runs it.
OneWorkerPerDocument ==
    \A v, w \in Workers :
        Working(v) /\ Working(w) /\ doc[v] = doc[w] => v = w

\* While a process runs a job, the row says so: it is processing, owned by the
\* process's id, and counts the attempt the process is making -- unless a
\* delete that had passed its check took the rows away.
RunningJobIsOwned ==
    \A w \in Workers : Working(w) =>
        \/ status[doc[w]] = "deleted"
        \/ /\ status[doc[w]] = "processing"
           /\ owner[doc[w]] = IdOf[w]
           /\ attempts[doc[w]] = tries[w]

\* Chunks exist only for a document that exists, and a completed document has
\* its chunks, whatever the order of deletes, crashes and recoveries.
ContentFollowsDocument ==
    \A d \in Docs : /\ d \in stored => d \in Rows
                    /\ status[d] = "completed" => d \in stored

\* Only failures that are not the document's own are paid for with an extra
\* attempt: no document is claimed more than MAX_ATTEMPTS times, plus once for
\* every crash.  A lost bookkeeping call buys none: the stale sweep gives up.
AttemptsAreBounded ==
    \A d \in Docs : attempts[d] <= MaxAttempts + crashes

Unsettled(d) == status[d] \in {"queued", "processing"}

\* Every uploaded document is completed, given up or deleted in the end, also
\* when its worker dies and never comes back, or loses the failure's record.
EveryDocumentSettles == \A d \in Docs : Unsettled(d) ~> ~Unsettled(d)
=============================================================================
