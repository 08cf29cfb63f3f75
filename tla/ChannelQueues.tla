--------------------------- MODULE ChannelQueues ---------------------------
(***************************************************************************)
(* The channels' message queues (app/channels/unified_queue_manager.py,    *)
(* manager.py, base.py): one queue with one consumer task per session,     *)
(* made for the first message and removed again by the idle cleanup.       *)
(*                                                                         *)
(* A message that is not a control command has the default priority, so a  *)
(* session has one such queue; commands, which bypass the task tracker,    *)
(* are left out except for what /stop does to the queue and the run.  Of   *)
(* the tracker (module TaskTracker) a chat's run is seen as its consumer   *)
(* sees it: the placeholder, the stream up to the sentinel, and the rest   *)
(* of the task after it; runs that other clients start are left out.       *)
(*                                                                         *)
(* Everything runs on one event loop and the code between two awaits is a  *)
(* step.  The manager's asyncio lock is never held across an await, so it  *)
(* is never contended and takes no step; the tracker's lock is taken while *)
(* a placeholder is opened.  A queue is named by the message it was made   *)
(* for.                                                                    *)
(***************************************************************************)
EXTENDS Integers, Sequences, FiniteSets

CONSTANTS
    Sessions,   \* sessions; each has one chat
    NumMsgs,    \* bound: messages ever received, numbered by arrival
    MaxSize,    \* queue_maxsize
    LongRuns,   \* whether an agent run may last longer than idle_timeout
    MaxStops    \* bound: /stop commands

Msgs == 1 .. NumMsgs
None == 0

ASSUME SizesAssumption ==
    /\ NumMsgs \in Nat /\ MaxSize \in Nat \ {0} /\ MaxStops \in Nat
    /\ LongRuns \in BOOLEAN /\ Sessions # {}

VARIABLES
    session,    \* message -> its session, once it is received
    fate,       \* message -> what became of it
    at,         \* message -> queue its enqueue task was given
    content,    \* queue -> the messages in it
    consumer,   \* queue -> where its consumer task is
    queues,     \* _queues: session -> registered queue
    idle,       \* queues whose last_activity is older than idle_timeout
    run,        \* session -> queue whose consumer started the tracker's run
    stage,      \* session -> how far that run is
    todo,       \* to_cleanup: sessions the cleanup loop has yet to remove
    awaiting,   \* queue whose cancelled consumer the cleanup loop awaits
    stops,
    late,       \* history: messages that found their queue full
    disturbed   \* history: sessions whose cleanup met a message, or whose run
                \* a /stop killed before it could end its stream

msgVars == <<session, fate, at, late>>
runVars == <<run, stage>>
cleanVars == <<todo, awaiting>>
vars == <<msgVars, content, consumer, queues, idle, runVars, cleanVars, stops,
          disturbed>>

Waiting == {"routed", "putting", "blocked", "queued"}
Handed == {"taken", "submitted", "ignored", "failed", "lost"}
Fates == {"new", "cleared", "timeout"} \cup Waiting \cup Handed

\* A consumer is `opening' while the old replay file is deleted, `deaf' when its
\* stream has no end any more, `interrupted' when it is cancelled on the stream.
Serving == {"waiting", "fetching", "starting", "opening", "working"}
Tasks == {"none", "deaf", "interrupted", "cancelled", "gone"} \cup Serving

\* `flushing': the sentinel is out, the task is not done; `stuck': a placeholder
\* whose task was never created.
Stages == {"none", "opening", "streaming", "flushing", "stuck"}

TypeOK ==
    /\ session \in [Msgs -> Sessions]
    /\ fate \in [Msgs -> Fates]
    /\ at \in [Msgs -> Msgs \cup {None}]
    /\ content \in [Msgs -> Seq(Msgs)]
    /\ \A q \in Msgs : Len(content[q]) <= MaxSize
    /\ consumer \in [Msgs -> Tasks]
    /\ queues \in [Sessions -> Msgs \cup {None}]
    /\ idle \in SUBSET Msgs
    /\ run \in [Sessions -> Msgs \cup {None}]
    /\ stage \in [Sessions -> Stages]
    /\ todo \in SUBSET Sessions /\ awaiting \in Msgs \cup {None}
    /\ stops \in 0 .. MaxStops
    /\ late \in SUBSET Msgs /\ disturbed \in SUBSET Sessions

Init ==
    /\ session \in [Msgs -> Sessions]
    /\ fate = [m \in Msgs |-> "new"]
    /\ at = [m \in Msgs |-> None]
    /\ content = [q \in Msgs |-> <<>>]
    /\ consumer = [q \in Msgs |-> "none"]
    /\ queues = [s \in Sessions |-> None]
    /\ idle = {}
    /\ run = [s \in Sessions |-> None]
    /\ stage = [s \in Sessions |-> "none"]
    /\ todo = {} /\ awaiting = None
    /\ stops = 0
    /\ late = {} /\ disturbed = {}
-----------------------------------------------------------------------------
(* The way of a message into a queue: one task per message *)

\* messages of queue q in a given state, and the first of them
Those(q, f) == {m \in Msgs : at[m] = q /\ fate[m] = f}
IsFirst(m, S) == m \in S /\ \A n \in S : m <= n

Move(m, f) == fate' = [fate EXCEPT ![m] = f]

\* _enqueue_one: a task is created for the message
Receive(m) ==
    /\ IsFirst(m, {n \in Msgs : fate[n] = "new"})
    /\ Move(m, "routed")
    /\ UNCHANGED <<session, at, late, content, consumer, queues, idle, runVars,
                   cleanVars, stops, disturbed>>

\* mutant: the lookup misses a queue that is registered
LocateAnew(m) ==
    /\ IsFirst(m, {n \in Msgs : fate[n] = "routed"})
    /\ Move(m, "putting")
    /\ at' = [at EXCEPT ![m] = m]
    /\ queues' = [queues EXCEPT ![session[m]] = m]
    /\ consumer' = [consumer EXCEPT ![m] = "waiting"]
    /\ UNCHANGED <<session, late, content, idle, runVars, cleanVars, stops, disturbed>>

\* _get_or_create_queue and the new last_activity
Locate(m) ==
    LET s == session[m]
        new == queues[s] = None
        q == IF new THEN m ELSE queues[s]
    IN  /\ IsFirst(m, {n \in Msgs : fate[n] = "routed"})
        /\ Move(m, "putting")
        /\ at' = [at EXCEPT ![m] = q]
        /\ queues' = [queues EXCEPT ![s] = q]
        /\ consumer' = IF new THEN [consumer EXCEPT ![q] = "waiting"] ELSE consumer
        /\ idle' = idle \ {q}
        /\ disturbed' = IF \E p \in Msgs : consumer[p] = "cancelled" /\ session[p] = s
                        THEN disturbed \cup {s} ELSE disturbed
        /\ UNCHANGED <<session, late, content, runVars, cleanVars, stops>>

\* mutant: something is awaited between the lookup and the put
PutAfterAwait(m) ==
    /\ fate[m] = "putting" /\ Len(content[at[m]]) < MaxSize
    /\ content' = [content EXCEPT ![at[m]] = Append(@, m)]
    /\ Move(m, "queued")
    /\ UNCHANGED <<session, at, late, consumer, queues, idle, runVars, cleanVars,
                   stops, disturbed>>

\* queue.put, in the order of the calls ...
Put(m) ==
    /\ IsFirst(m, Those(at[m], "putting"))
    /\ Len(content[at[m]]) < MaxSize
    /\ content' = [content EXCEPT ![at[m]] = Append(@, m)]
    /\ Move(m, "queued")
    /\ UNCHANGED <<session, at, late, consumer, queues, idle, runVars, cleanVars,
                   stops, disturbed>>

\* ... unless the queue is full: a putter waits ...
Block(m) ==
    /\ IsFirst(m, Those(at[m], "putting"))
    /\ Len(content[at[m]]) >= MaxSize
    /\ Move(m, "blocked")
    /\ late' = late \cup {m}
    /\ UNCHANGED <<session, at, content, consumer, queues, idle, runVars, cleanVars,
                   stops, disturbed>>

\* ... is woken in its turn, when a later message may have been faster ...
PutBlocked(m) ==
    /\ IsFirst(m, Those(at[m], "blocked"))
    /\ Len(content[at[m]]) < MaxSize
    /\ content' = [content EXCEPT ![at[m]] = Append(@, m)]
    /\ Move(m, "queued")
    /\ UNCHANGED <<session, at, late, consumer, queues, idle, runVars, cleanVars,
                   stops, disturbed>>

\* ... or gives up after 30 s
PutTimesOut(m) ==
    /\ fate[m] = "blocked"
    /\ Move(m, "timeout")
    /\ UNCHANGED <<session, at, late, content, consumer, queues, idle, runVars,
                   cleanVars, stops, disturbed>>
-----------------------------------------------------------------------------
(* The consumer of queue q *)

Goes(q, p) == consumer' = [consumer EXCEPT ![q] = p]

\* the batch of q: what it took from its queue and has not handed on
Batch(q) == Those(q, "taken")
MoveBatch(q, f) == fate' = [m \in Msgs |-> IF m \in Batch(q) THEN f ELSE fate[m]]

\* increment_processed: of the queue registered now
Touched(q) == idle \ {queues[session[q]]}

\* queue.get; then get_channel may wait for a channel that is being replaced.
\* It is found: no channel ever leaves the list that the enqueue found it in.
Take(q) ==
    /\ consumer[q] = "waiting" /\ content[q] # <<>>
    /\ Move(Head(content[q]), "taken")
    /\ content' = [content EXCEPT ![q] = Tail(@)]
    /\ Goes(q, "fetching")
    /\ UNCHANGED <<session, at, late, queues, idle, runVars, cleanVars, stops, disturbed>>

\* get_nowait until the queue is empty: one merged request
Drain(q) ==
    /\ consumer[q] = "fetching"
    /\ fate' = [m \in Msgs |-> IF m \in Those(q, "queued") THEN "taken" ELSE fate[m]]
    /\ content' = [content EXCEPT ![q] = <<>>]
    /\ Goes(q, "starting")
    /\ UNCHANGED <<session, at, late, queues, idle, runVars, cleanVars, stops, disturbed>>

\* the tracker's lock
LockFree == \A s \in Sessions : stage[s] # "opening"

SetRun(s, q, p) == /\ run' = [run EXCEPT ![s] = q]
                   /\ stage' = [stage EXCEPT ![s] = p]

\* attach_or_start of the chat, which has no live run: a placeholder is
\* registered and the old replay file deleted, under the tracker's lock
Open(q) ==
    /\ consumer[q] = "starting" /\ LockFree /\ stage[session[q]] = "none"
    /\ SetRun(session[q], q, "opening")
    /\ Goes(q, "opening")
    /\ UNCHANGED <<msgVars, content, queues, idle, cleanVars, stops, disturbed>>

\* ... and the run's task created; the consumer reads its stream
Submit(q) ==
    /\ consumer[q] = "opening"
    /\ SetRun(session[q], q, "streaming")
    /\ MoveBatch(q, "submitted")
    /\ Goes(q, "working")
    /\ UNCHANGED <<session, at, late, content, queues, idle, cleanVars, stops, disturbed>>

\* ... or the deletion raises, and the placeholder stays
OpenFails(q) ==
    /\ consumer[q] = "opening"
    /\ SetRun(session[q], q, "stuck")
    /\ MoveBatch(q, "failed")
    /\ Goes(q, "waiting")
    /\ UNCHANGED <<session, at, late, content, queues, idle, cleanVars, stops, disturbed>>

\* attach_or_start of a chat whose run is not done: "Message ignored (task
\* already running)"
Ignore(q) ==
    /\ consumer[q] = "starting" /\ LockFree /\ stage[session[q]] # "none"
    /\ MoveBatch(q, "ignored")
    /\ Goes(q, "waiting")
    /\ idle' = Touched(q)
    /\ UNCHANGED <<session, at, late, content, queues, runVars, cleanVars, stops,
                   disturbed>>

\* mutant: the consumer does not survive an exception
FailEnds(q) ==
    /\ consumer[q] = "starting"
    /\ MoveBatch(q, "failed")
    /\ Goes(q, "gone")
    /\ UNCHANGED <<session, at, late, content, queues, idle, runVars, cleanVars,
                   stops, disturbed>>

\* _process_batch raises; the loop goes on
Fail(q) ==
    /\ consumer[q] = "starting"
    /\ MoveBatch(q, "failed")
    /\ Goes(q, "waiting")
    /\ UNCHANGED <<session, at, late, content, queues, idle, runVars, cleanVars,
                   stops, disturbed>>

\* the sentinel of q's run is out
Told(q) == run[session[q]] # q \/ stage[session[q]] = "flushing"

\* mutant: the stream is not read to its end
FinishEarly(q) ==
    /\ consumer[q] = "working"
    /\ Goes(q, "waiting")
    /\ idle' = Touched(q)
    /\ UNCHANGED <<msgVars, content, queues, runVars, cleanVars, stops, disturbed>>

\* stream_from_queue reaches the sentinel and detaches; the task of the run may
\* not be done yet
Finish(q) ==
    /\ consumer[q] = "working" /\ Told(q) /\ LockFree
    /\ Goes(q, "waiting")
    /\ idle' = Touched(q)
    /\ UNCHANGED <<msgVars, content, queues, runVars, cleanVars, stops, disturbed>>

\* stream_from_queue takes the CancelledError for the end of the stream: the
\* consumer goes back to its queue, which nobody finds any more, and whoever
\* awaits its task waits on
Survive(q) ==
    /\ consumer[q] = "interrupted" /\ LockFree
    /\ Goes(q, "waiting")
    /\ idle' = Touched(q)
    /\ UNCHANGED <<msgVars, content, queues, runVars, cleanVars, stops, disturbed>>

\* Elsewhere the CancelledError ends the loop: the finally block pops the
\* session's entry, whichever queue it holds.  A placeholder stays.
Exit(q) ==
    /\ consumer[q] = "cancelled"
    /\ Goes(q, "gone")
    /\ MoveBatch(q, "lost")
    /\ queues' = [queues EXCEPT ![session[q]] = None]
    /\ awaiting' = IF awaiting = q THEN None ELSE awaiting
    /\ stage' = [stage EXCEPT ![session[q]] =
                   IF @ = "opening" /\ run[session[q]] = q THEN "stuck" ELSE @]
    /\ UNCHANGED <<session, at, late, content, idle, run, todo, stops, disturbed>>
-----------------------------------------------------------------------------
(* The idle cleanup *)

\* mutant: the entry stays while its consumer is cancelled
CancelOnly(s) ==
    LET q == queues[s]
    IN  IF q = None
        THEN UNCHANGED <<queues, consumer, disturbed>> /\ awaiting' = None
        ELSE /\ Goes(q, "cancelled")
             /\ awaiting' = q
             /\ UNCHANGED <<queues, disturbed>>

\* Where the CancelledError meets the consumer: on the stream, or anywhere else,
\* as in the line for the tracker's lock after the sentinel.
Struck(q) ==
    IF consumer[q] \notin {"working", "deaf"} THEN {"cancelled"}
    ELSE IF consumer[q] = "deaf" \/ ~Told(q) \/ LockFree THEN {"interrupted"}
    ELSE {"interrupted", "cancelled"}

\* the entry is popped, if it is still there, and its consumer cancelled
Remove(s) ==
    LET q == queues[s]
        atRest == consumer[q] = "waiting" /\ ~\E m \in Msgs :
                      at[m] = q /\ fate[m] \in {"putting", "blocked", "queued"}
    IN  IF q = None
        THEN UNCHANGED <<queues, consumer, disturbed>> /\ awaiting' = None
        ELSE /\ queues' = [queues EXCEPT ![s] = None]
             /\ \E p \in Struck(q) : Goes(q, p)
             /\ awaiting' = q
             /\ disturbed' = IF atRest THEN disturbed ELSE disturbed \cup {s}

Expired == {s \in Sessions : /\ queues[s] # None
                             /\ queues[s] \in idle /\ content[queues[s]] = <<>>}

\* the scan, and the first session of the list without a pause
Scan(s) ==
    /\ awaiting = None /\ todo = {}
    /\ s \in Expired
    /\ todo' = Expired \ {s}
    /\ Remove(s)
    /\ UNCHANGED <<msgVars, content, idle, runVars, stops>>

\* the next one, once the cancelled consumer has ended, if it ever does: it is
\* not asked again whether it is idle
CleanNext(s) ==
    /\ awaiting = None /\ s \in todo
    /\ todo' = todo \ {s}
    /\ Remove(s)
    /\ UNCHANGED <<msgVars, content, idle, runVars, stops>>
-----------------------------------------------------------------------------
(* /stop, the agent, time *)

\* the finally block of the run, at its end or after a request_stop: the
\* sentinel, then the last replay write, if there is anything to write
StreamEnds(s) ==
    /\ stage[s] = "streaming" /\ LockFree
    /\ \/ SetRun(s, run[s], "flushing")
       \/ SetRun(s, None, "none")
    /\ UNCHANGED <<msgVars, content, consumer, queues, idle, cleanVars, stops, disturbed>>

\* the task of the run is done
RunDone(s) ==
    /\ stage[s] = "flushing"
    /\ SetRun(s, None, "none")
    /\ UNCHANGED <<msgVars, content, consumer, queues, idle, cleanVars, stops, disturbed>>

\* request_stop, which /stop calls first: it may kill the task before its first
\* step or in its finally block, and then no sentinel comes
Kill(s) ==
    LET q == run[s]
    IN  /\ stage[s] = "streaming" /\ LockFree /\ stops < MaxStops
        /\ stops' = stops + 1
        /\ SetRun(s, None, "none")
        /\ consumer' = IF consumer[q] = "working" THEN [consumer EXCEPT ![q] = "deaf"]
                                                   ELSE consumer
        /\ disturbed' = disturbed \cup {s}
        /\ UNCHANGED <<msgVars, content, queues, idle, cleanVars>>

\* ... and it cancels a stuck placeholder
Dismiss(s) ==
    /\ stage[s] = "stuck" /\ LockFree /\ stops < MaxStops
    /\ stops' = stops + 1
    /\ SetRun(s, None, "none")
    /\ UNCHANGED <<msgVars, content, consumer, queues, idle, cleanVars, disturbed>>

\* clear_queue, which /stop calls after request_stop
ClearQueue(s) ==
    /\ stops < MaxStops /\ queues[s] # None
    /\ stops' = stops + 1
    /\ fate' = [m \in Msgs |-> IF m \in Those(queues[s], "queued") THEN "cleared"
                               ELSE fate[m]]
    /\ content' = [content EXCEPT ![queues[s]] = <<>>]
    /\ UNCHANGED <<session, at, late, consumer, queues, idle, runVars, cleanVars, disturbed>>

\* idle_timeout passes for a queue: its consumer waits, or waits for a long run
GrowIdle(q) ==
    /\ queues[session[q]] = q /\ q \notin idle
    /\ Those(q, "putting") = {}
    /\ \/ consumer[q] = "waiting" /\ content[q] = <<>>
       \/ consumer[q] = "working" /\ LongRuns
    /\ idle' = idle \cup {q}
    /\ UNCHANGED <<msgVars, content, consumer, queues, runVars, cleanVars, stops, disturbed>>
-----------------------------------------------------------------------------
Enqueue(m) ==
    \/ Receive(m) \/ Locate(m) \/ Put(m) \/ Block(m) \/ PutBlocked(m)
    \/ PutTimesOut(m)

Consume(q) ==
    \/ Take(q) \/ Drain(q) \/ Open(q) \/ Submit(q) \/ OpenFails(q) \/ Ignore(q)
    \/ Fail(q) \/ Finish(q) \/ Survive(q) \/ Exit(q)

RunSteps(s) == StreamEnds(s) \/ RunDone(s)

Next ==
    \/ \E m \in Msgs : Enqueue(m) \/ Consume(m) \/ GrowIdle(m)
    \/ \E s \in Sessions : \/ Scan(s) \/ CleanNext(s) \/ RunSteps(s)
                           \/ Kill(s) \/ Dismiss(s) \/ ClearQueue(s)

Spec == Init /\ [][Next]_vars

\* The event loop runs every task that can run, and an agent run ends.  The
\* cleanup comes at its own times; nothing obliges a user to write.
Fairness ==
    /\ \A m \in Msgs : /\ WF_vars(Locate(m))
                       /\ WF_vars(Put(m) \/ Block(m))
                       /\ WF_vars(PutBlocked(m))
                       /\ WF_vars(Consume(m))
    /\ \A s \in Sessions : WF_vars(RunSteps(s)) /\ WF_vars(CleanNext(s))

FairSpec == Spec /\ Fairness
-----------------------------------------------------------------------------
(* Inductive strengthenings *)

\* A queue is made for a message when its enqueue task asks for one.
MadeOnce == \A q \in Msgs : fate[q] \in {"new", "routed"} => consumer[q] = "none"

\* While a session is undisturbed: its consumer is the one of the registered
\* queue, and a cancelled one has left none behind.
TheConsumer ==
    \A q \in Msgs : session[q] \notin disturbed =>
        /\ consumer[q] \notin {"deaf", "interrupted"}
        /\ consumer[q] \in Serving => queues[session[q]] = q
        /\ consumer[q] = "cancelled" => queues[session[q]] = None

\* An enqueue task got the queue of its message's session.
OwnQueue ==
    \A m \in Msgs :
        /\ fate[m] \in {"new", "routed"} <=> at[m] = None
        /\ at[m] # None => session[at[m]] = session[m]

\* A queue holds messages that were put on it, each once.
InQueue ==
    \A q \in Msgs : \A i, j \in DOMAIN content[q] :
        /\ fate[content[q][i]] = "queued" /\ at[content[q][i]] = q
        /\ content[q][i] = content[q][j] => i = j

\* Only a consumer that is about to submit has messages in hand.
InHand == \A m \in Msgs : fate[m] = "taken" =>
    consumer[at[m]] \in {"fetching", "starting", "opening"} \/ session[m] \in disturbed

\* A run has a consumer of its session to thank, which waits while it streams.
RunIsAwaited == \A s \in Sessions :
    /\ stage[s] # "none" => run[s] # None /\ session[run[s]] = s
    /\ stage[s] = "streaming" => consumer[run[s]] = "working" \/ s \in disturbed
-----------------------------------------------------------------------------
(* Properties *)

\* Whatever the cleanup, the consumers and new messages do to the dict: a
\* queue that can be found there has a consumer that will serve it, unless that
\* waits for the stream of a run that a /stop killed.
RegisteredIsServed ==
    \A s \in Sessions : queues[s] # None =>
        consumer[queues[s]] \in Serving \cup {"deaf"} /\ session[queues[s]] = s

\* "Strict serialization for messages with the same QueueKey": a session has
\* one consumer at a time, as long as no cleanup has met a message of it.
OneConsumer ==
    \A p, q \in Msgs :
        (/\ session[p] = session[q] /\ session[p] \notin disturbed
         /\ consumer[p] \in Serving /\ consumer[q] \in Serving \cup {"cancelled"})
            => p = q

\* Serialization keeps a message from a chat that is still answering the one
\* before: in an undisturbed session nothing is lost in a consumer's hands, and
\* a message is ignored only for a run that has ended its stream and not its
\* task, or for a placeholder that a failed deletion left.
OnlyEndedRunsRefuse ==
    [][\A m \in Msgs : session[m] \notin disturbed' /\ fate'[m] # fate[m] =>
         /\ fate'[m] # "lost"
         /\ fate'[m] = "ignored" => stage[session[m]] \in {"flushing", "stuck"}]_vars

\* A message overtakes an earlier one of its session only if that one found
\* the queue full.
InOrder ==
    \A m, n \in Msgs :
        (/\ m < n /\ session[m] = session[n]
         /\ session[m] \notin disturbed /\ m \notin late)
          => /\ fate[n] \in Handed => fate[m] \notin Waiting
             /\ \A q \in Msgs : \A i, j \in DOMAIN content[q] :
                    content[q][i] = n /\ content[q][j] = m => j < i

\* A message that has been received is handed to the agent, turned away, reported
\* as failed, cleared by /stop or timed out -- or its session is disturbed.
EveryMessageIsHandled ==
    \A m \in Msgs :
        fate[m] = "routed" ~> \/ fate[m] \notin {"new", "taken"} \cup Waiting
                              \/ session[m] \in disturbed
=============================================================================
