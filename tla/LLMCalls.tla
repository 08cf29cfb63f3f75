------------------------------ MODULE LLMCalls ------------------------------
(***************************************************************************)
(* Calls of one model through RetryChatModel and its LLMRateLimiter        *)
(* (providers/retry_chat_model.py, providers/rate_limiter.py): the 429     *)
(* pause, the window of requests per minute, the semaphore, retries of     *)
(* plain and of streamed answers, and the quarantine of a model whose      *)
(* stream would not close.                                                 *)
(*                                                                         *)
(* Everything runs on one event loop; the code between two awaits is a     *)
(* step, and the limiter's locks are never contended.  Time is abstract:   *)
(* a pause is active or over, a request is in the window or not, a         *)
(* quarantine has passed its deadline or not.  on_success clears a pause   *)
(* only if it had ended before the call began, so it changes nothing here. *)
(***************************************************************************)
EXTENDS Naturals, FiniteSets

CONSTANTS
    Calls,          \* calls of the model
    Streamers,      \* those the provider answers with a stream, if it will;
                    \* generate_structured_output never gets one
    MaxConcurrent,  \* permits of the semaphore
    MaxQpm,         \* requests in the window
    MaxAttempts     \* max_retries + 1

ASSUME LimitsAssumption ==
    /\ IsFiniteSet(Calls) /\ Streamers \subseteq Calls
    /\ MaxConcurrent \in Nat \ {0} /\ MaxQpm \in Nat \ {0}
    /\ MaxAttempts \in Nat \ {0}

VARIABLES
    pc,        \* call -> where it is
    why,       \* call -> what ended the stream it is closing
    streamed,  \* calls whose answer is a stream: _wrap_stream is in charge
    attempt,   \* call -> attempt
    injected,  \* calls whose stream was retried with reasoning_content added
    value,     \* Semaphore._value
    ahead,     \* call -> the calls before it in Semaphore._waiters
    permits,   \* the calls the semaphore has granted a permit not yet returned
    stamps,    \* requests in the window, _request_times
    pause,     \* whether _pause_until is ahead
    met,       \* calls that reported the pause or found it when they acquired
    cleaning,  \* cleanups of streams running in the background
    hold,      \* those of them in the quarantine set registered for the model
    overdue,   \* whether that set's deadline has passed
    sent       \* call -> requests it has sent

callVars == <<why, streamed, attempt, injected>>
semVars == <<value, ahead, permits>>
pauseVars == <<pause, met>>
holdVars == <<cleaning, hold, overdue>>
vars == <<pc, callVars, semVars, stamps, pauseVars, holdVars, sent>>

Final == {"done", "failed", "cancelled"}
Acquiring == {"cooling", "windowed", "queued", "granted"}
Asking == {"calling", "recalling"}
Streaming == {"reading", "streaming"}
\* again: about to acquire; backoff: with the permit of its attempt; rebackoff:
\* without one; handing: the consumer has the plain answer of a stream's retry.
PCs == Final \cup Acquiring \cup Asking \cup Streaming
           \cup {"idle", "again", "closing", "backoff", "rebackoff", "handing"}
\* Where a call owns a permit; a call that closes does if nothing has arrived.
Owning == Asking \cup {"granted", "reading", "backoff", "handing"}

\* thoughtless: the 400 of a model that wants reasoning_content.
Errors == {"rate", "transient", "fatal"}
Causes == Errors \cup {"done", "thoughtless", "cancelled"}

TypeOK ==
    /\ pc \in [Calls -> PCs]
    /\ why \in [Calls -> Causes]
    /\ streamed \in SUBSET Calls /\ injected \in SUBSET Calls
    /\ attempt \in [Calls -> 1 .. MaxAttempts]
    /\ value \in 0 .. MaxConcurrent
    /\ ahead \in [Calls -> SUBSET Calls]
    /\ permits \in SUBSET Calls
    /\ stamps \in 0 .. MaxQpm
    /\ pause \in BOOLEAN /\ met \in SUBSET Calls
    /\ cleaning \in SUBSET (Calls \X Nat) /\ hold \in SUBSET cleaning
    /\ overdue \in BOOLEAN
    /\ sent \in [Calls -> Nat]

Init ==
    /\ pc = [c \in Calls |-> "idle"]
    /\ why = [c \in Calls |-> "done"]
    /\ streamed = {} /\ injected = {}
    /\ attempt = [c \in Calls |-> 1]
    /\ value = MaxConcurrent
    /\ ahead = [c \in Calls |-> {}]
    /\ permits = {}
    /\ stamps = 0
    /\ pause = FALSE /\ met = {}
    /\ cleaning = {} /\ hold = {} /\ overdue = FALSE
    /\ sent = [c \in Calls |-> 0]

-----------------------------------------------------------------------------
(* The semaphore (asyncio.Semaphore, external), as functions of its state  *)
(* and of where the calls are.                                             *)

Now == [pc |-> pc, ahead |-> ahead, value |-> value, permits |-> permits]
Becomes(s) ==
    /\ pc' = s.pc /\ ahead' = s.ahead
    /\ value' = s.value /\ permits' = s.permits

Waiters(s) == {c \in Calls : s.pc[c] = "queued"}
First(s) == {c \in Waiters(s) : s.ahead[c] = {}}

\* _wake_up_next: the first waiter, if any, is granted a permit, if any.
Woken(s) ==
    IF s.value > 0 /\ First(s) # {}
    THEN LET d == CHOOSE d \in First(s) : TRUE
         IN  [pc |-> [s.pc EXCEPT ![d] = "granted"],
              ahead |-> [c \in Calls |-> s.ahead[c] \ {d}],
              value |-> s.value - 1,
              permits |-> s.permits \cup {d}]
    ELSE s

Moved(s, c, to) == [s EXCEPT !.pc = [s.pc EXCEPT ![c] = to]]

\* release by a call that goes on to the place to.
Released(s, c, to) ==
    Woken([pc |-> [s.pc EXCEPT ![c] = to], ahead |-> s.ahead,
           value |-> s.value + 1, permits |-> s.permits \ {c}])

\* mutant: a permit granted to a call that has given up is lost
LeftGranted(s, c, to) ==
    [s EXCEPT !.pc = [s.pc EXCEPT ![c] = to],
              !.ahead = [d \in Calls |-> IF d = c THEN {} ELSE s.ahead[d] \ {c}]]

\* acquire is cancelled, by the caller or by wait_for's timer.  A permit just
\* granted goes back and to the next; a waiter leaves the queue.
GaveUp(s, c, to) ==
    IF s.pc[c] = "granted" THEN Released(s, c, to)
    ELSE [s EXCEPT !.pc = [s.pc EXCEPT ![c] = to],
                   !.ahead = [d \in Calls |->
                                IF d = c THEN {} ELSE s.ahead[d] \ {c}]]

-----------------------------------------------------------------------------
(* The quarantine. *)

\* _ensure_provider_available raises; a hold past its deadline is dropped by
\* the first call that looks.
Quarantined == hold # {} /\ ~overdue
Looks ==
    /\ hold' = IF overdue THEN {} ELSE hold
    /\ overdue' = FALSE
    /\ UNCHANGED cleaning

\* _track_provider_cleanup: the first of a set sets the deadline.
Quarantine(c) ==
    /\ cleaning' = cleaning \cup {<<c, sent[c]>>}
    /\ hold' = hold \cup {<<c, sent[c]>>}
    /\ UNCHANGED overdue

\* mutant: the end of any cleanup clears what is registered for the model
CleanupEndsHold(t) ==
    /\ t \in cleaning
    /\ cleaning' = cleaning \ {t}
    /\ hold' = {} /\ overdue' = FALSE
    /\ UNCHANGED <<pc, callVars, semVars, stamps, pauseVars, sent>>

\* _clear_quarantine: only the set the task was added to shrinks.
CleanupEnds(t) ==
    /\ t \in cleaning
    /\ cleaning' = cleaning \ {t}
    /\ hold' = hold \ {t}
    /\ overdue' = (overdue /\ hold # {t})
    /\ UNCHANGED <<pc, callVars, semVars, stamps, pauseVars, sent>>

DeadlinePasses ==
    /\ hold # {} /\ ~overdue
    /\ overdue' = TRUE
    /\ UNCHANGED <<pc, callVars, semVars, stamps, pauseVars, cleaning, hold,
                   sent>>

-----------------------------------------------------------------------------
(* LLMRateLimiter.acquire, under wait_for. *)

Send(c) == sent' = [sent EXCEPT ![c] = @ + 1]

\* What a waiter that was granted a permit finds when it runs.
Granted(c) == Woken(Moved(Now, c, "calling"))

\* The semaphore's turn: a free permit, unless somebody waits, or the queue.
Slot(c) ==
    \/ /\ value > 0 /\ \A d \in Calls : pc[d] \notin {"queued", "granted"}
       /\ \/ /\ Quarantined
             /\ Becomes(Moved(Now, c, "failed")) /\ UNCHANGED sent
          \/ /\ ~Quarantined
             /\ pc' = [pc EXCEPT ![c] = "calling"] /\ UNCHANGED ahead
             /\ value' = value - 1 /\ permits' = permits \cup {c}
             /\ Send(c)
    \/ /\ value = 0 \/ \E d \in Calls : pc[d] \in {"queued", "granted"}
       /\ pc' = [pc EXCEPT ![c] = "queued"]
       /\ ahead' = [ahead EXCEPT ![c] = Waiters(Now)]
       /\ UNCHANGED <<value, permits, sent>>

\* _acquire_qpm_slot: a stamp if the window has room, or sleep.
Window(c) ==
    \/ /\ stamps < MaxQpm
       /\ stamps' = stamps + 1
       /\ Slot(c)
    \/ /\ stamps = MaxQpm
       /\ Becomes(Moved(Now, c, "windowed"))
       /\ UNCHANGED <<stamps, sent>>

\* With its permit, a call looks at the quarantine once more.
LooksWithPermit(c) ==
    IF pc'[c] \in {"queued", "windowed"} THEN UNCHANGED holdVars ELSE Looks

\* An attempt begins: the quarantine, then the pause.
Acquire(c) ==
    /\ pc[c] \in {"idle", "again"}
    /\ UNCHANGED <<callVars, pause>>
    /\ \/ /\ Quarantined
          /\ Becomes(Moved(Now, c, "failed"))
          /\ UNCHANGED <<stamps, met, holdVars, sent>>
       \/ /\ ~Quarantined /\ Looks /\ pause
          /\ Becomes(Moved(Now, c, "cooling"))
          /\ met' = met \cup {c}
          /\ UNCHANGED <<stamps, sent>>
       \/ /\ ~Quarantined /\ Looks /\ ~pause
          /\ Window(c) /\ UNCHANGED met

CoolingOver(c) ==
    /\ pc[c] = "cooling" /\ ~pause
    /\ Window(c) /\ LooksWithPermit(c)
    /\ UNCHANGED <<callVars, pauseVars>>

WindowOver(c) ==
    /\ pc[c] = "windowed" /\ stamps < MaxQpm
    /\ Window(c) /\ LooksWithPermit(c)
    /\ UNCHANGED <<callVars, pauseVars>>

\* The waiter runs with its permit; a quarantine makes it give the permit back.
Served(c) ==
    /\ pc[c] = "granted"
    /\ Looks
    /\ \/ Quarantined /\ Becomes(Released(Granted(c), c, "failed")) /\ UNCHANGED sent
       \/ ~Quarantined /\ Becomes(Granted(c)) /\ Send(c)
    /\ UNCHANGED <<callVars, stamps, pauseVars>>

\* The acquire timeout: not a 429 and not retried.
AcquireTimeout(c) ==
    /\ pc[c] \in Acquiring
    /\ Becomes(GaveUp(Now, c, "failed"))
    /\ UNCHANGED <<callVars, stamps, pauseVars, holdVars, sent>>

PauseEnds ==
    /\ pause
    /\ pause' = FALSE /\ met' = {}
    /\ UNCHANGED <<pc, callVars, semVars, stamps, holdVars, sent>>

WindowSlides ==
    /\ stamps > 0
    /\ stamps' = stamps - 1
    /\ UNCHANGED <<pc, callVars, semVars, pauseVars, holdVars, sent>>

-----------------------------------------------------------------------------
(* Requests without a stream: __call__, and _wrap_stream's own requests. *)

\* mutant: any success ends the pause
SuccessEndsPause == pause' = FALSE /\ UNCHANGED met

\* on_success: the pause it may clear, one that ended before, has ended.
OnSuccess == UNCHANGED pauseVars

\* _handle_rate_limit_exc: a 429 within the cap pauses the model.
Report(c, cause) ==
    IF cause = "rate" THEN pause' = TRUE /\ met' = met \cup {c}
                      ELSE UNCHANGED pauseVars

Retries(c, cause) == cause \in {"rate", "transient"} /\ attempt[c] < MaxAttempts

\* A plain answer.  A stream's retry yields it before it returns the permit.
Answers(c) ==
    /\ pc[c] \in Asking
    /\ Becomes(IF c \in streamed THEN Moved(Now, c, "handing")
                                 ELSE Released(Now, c, "done"))
    /\ OnSuccess
    /\ UNCHANGED <<callVars, stamps, holdVars, sent>>

HandsOver(c) ==
    /\ pc[c] = "handing"
    /\ Becomes(Released(Now, c, "done"))
    /\ UNCHANGED <<callVars, stamps, pauseVars, holdVars, sent>>

\* The request fails.  __call__ backs off with the permit, _wrap_stream without.
Fails(c, cause) ==
    /\ pc[c] \in Asking
    /\ Becomes(IF ~Retries(c, cause) THEN Released(Now, c, "failed")
               ELSE IF c \in streamed THEN Released(Now, c, "rebackoff")
               ELSE Moved(Now, c, "backoff"))
    /\ Report(c, cause)
    /\ UNCHANGED <<callVars, stamps, holdVars, sent>>

\* The model wants reasoning_content: __call__ asks again with it under the
\* same permit, _wrap_stream once more from the start.
Thoughtless(c) ==
    /\ pc[c] = "calling"
    /\ \/ /\ c \notin streamed /\ Looks
          /\ \/ /\ Quarantined /\ Becomes(Released(Now, c, "failed"))
                /\ UNCHANGED sent
             \/ ~Quarantined /\ Becomes(Moved(Now, c, "recalling")) /\ Send(c)
          /\ UNCHANGED injected
       \/ /\ c \in streamed \ injected
          /\ Becomes(Released(Now, c, "again"))
          /\ injected' = injected \cup {c}
          /\ UNCHANGED <<holdVars, sent>>
    /\ UNCHANGED <<why, streamed, attempt, stamps, pauseVars>>

\* mutant: the stream's retries are counted afresh
BackoffRestarts(c) ==
    /\ pc[c] \in {"backoff", "rebackoff"}
    /\ Becomes(IF pc[c] = "backoff" THEN Released(Now, c, "again")
                                    ELSE Moved(Now, c, "again"))
    /\ attempt' = [attempt EXCEPT ![c] = IF pc[c] = "backoff" THEN @ + 1 ELSE 1]
    /\ UNCHANGED <<why, streamed, injected, stamps, pauseVars, holdVars, sent>>

BackoffOver(c) ==
    /\ pc[c] \in {"backoff", "rebackoff"}
    /\ Becomes(IF pc[c] = "backoff" THEN Released(Now, c, "again")
                                    ELSE Moved(Now, c, "again"))
    /\ attempt' = [attempt EXCEPT ![c] = @ + 1]
    /\ UNCHANGED <<why, streamed, injected, stamps, pauseVars, holdVars, sent>>

-----------------------------------------------------------------------------
(* Streams: _wrap_stream and _consume_stream_with_slot. *)

\* The answer is a stream; it takes the permit over.
Streams(c) ==
    /\ pc[c] \in Asking /\ c \in Streamers
    /\ Becomes(Moved(Now, c, "reading"))
    /\ streamed' = streamed \cup {c}
    /\ UNCHANGED <<why, attempt, injected, stamps, pauseVars, holdVars, sent>>

\* The first chunk returns the permit.
FirstChunk(c) ==
    /\ pc[c] = "reading"
    /\ Becomes(Released(Now, c, "streaming"))
    /\ OnSuccess
    /\ UNCHANGED <<callVars, stamps, holdVars, sent>>

\* The stream ends, fails or stalls, or the consumer leaves: it is closed.
StreamEnds(c, cause) ==
    /\ pc[c] \in Streaming
    /\ cause = "thoughtless" => pc[c] = "reading"
    /\ Becomes(Moved(Now, c, "closing"))
    /\ why' = [why EXCEPT ![c] = cause]
    /\ UNCHANGED <<streamed, attempt, injected, stamps, pauseVars, holdVars,
                   sent>>

\* mutant: the permit is returned whether or not the first chunk did already
ReturnedAgain(c, to) == Released(Now, c, to)

\* The finally of _consume_stream_with_slot.
Returned(c, to) ==
    IF c \in permits THEN Released(Now, c, to) ELSE Moved(Now, c, to)

\* A read that ignores its cancellation: its cleanup goes on without the call.
ReadHangs(c, cause) ==
    /\ pc[c] \in Streaming
    /\ Quarantine(c)
    /\ Becomes(Returned(c, IF cause = "cancelled" THEN "cancelled" ELSE "failed"))
    /\ UNCHANGED <<callVars, stamps, pauseVars, sent>>

AfterClose(c) ==
    CASE why[c] \in {"done", "cancelled"} -> why[c]
      [] why[c] = "thoughtless" /\ c \notin injected -> "again"
      [] Retries(c, why[c]) -> "rebackoff"
      [] OTHER -> "failed"

\* aclose has ended, or is left to the background after its grace period.
Closed(c) ==
    /\ pc[c] = "closing"
    /\ Quarantine(c) \/ UNCHANGED holdVars
    /\ Becomes(Returned(c, AfterClose(c)))
    /\ Report(c, why[c])
    /\ injected' = IF why[c] = "thoughtless" THEN injected \cup {c} ELSE injected
    /\ why' = [why EXCEPT ![c] = "done"]
    /\ UNCHANGED <<streamed, attempt, stamps, sent>>

\* The task is cancelled; in a stream it reads or closes first (StreamEnds,
\* ReadHangs), and a second cancellation leaves the close to the background.
Cancel(c) ==
    \/ /\ pc[c] \in Acquiring
       /\ Becomes(GaveUp(Now, c, "cancelled"))
       /\ UNCHANGED <<callVars, stamps, pauseVars, holdVars, sent>>
    \/ /\ pc[c] \in {"again", "rebackoff", "backoff", "handing"} \cup Asking
       /\ Becomes(Returned(c, "cancelled"))
       /\ UNCHANGED <<callVars, stamps, pauseVars, holdVars, sent>>
    \/ /\ pc[c] = "closing"
       /\ Quarantine(c)
       /\ Becomes(Returned(c, "cancelled"))
       /\ why' = [why EXCEPT ![c] = "done"]
       /\ UNCHANGED <<streamed, attempt, injected, stamps, pauseVars, sent>>

-----------------------------------------------------------------------------
LimiterStep(c) == CoolingOver(c) \/ WindowOver(c) \/ Served(c)

ProviderStep(c) ==
    \/ Answers(c) \/ Streams(c) \/ Thoughtless(c) \/ FirstChunk(c)
    \/ \E cause \in Errors : Fails(c, cause)
    \/ \E cause \in Causes : StreamEnds(c, cause)

CallStep(c) ==
    \/ Acquire(c) \/ HandsOver(c) \/ BackoffOver(c) \/ Closed(c)

TimePasses == PauseEnds \/ WindowSlides \/ DeadlinePasses

Next ==
    \/ \E c \in Calls :
         \/ LimiterStep(c) \/ ProviderStep(c) \/ CallStep(c)
         \/ AcquireTimeout(c) \/ Cancel(c)
         \/ \E cause \in {"fatal", "cancelled"} : ReadHangs(c, cause)
    \/ \E t \in cleaning : CleanupEnds(t)
    \/ TimePasses

Spec == Init /\ [][Next]_vars

\* The loop runs what is ready, timers fire, and the provider answers, fails or
\* is timed out.  No call is owed its acquire timeout or a cancellation.
FairSpec ==
    /\ Spec
    /\ WF_vars(PauseEnds) /\ WF_vars(WindowSlides)
    /\ \A c \in Calls :
         /\ WF_vars(LimiterStep(c)) /\ WF_vars(ProviderStep(c))
         /\ WF_vars(CallStep(c) /\ pc[c] # "idle")

-----------------------------------------------------------------------------
(* Properties. *)

\* Every permit is free or with one call, over every exit of a call: the flags
\* acquired, owns_semaphore and first_chunk never return a permit twice and
\* never lose one (retry_chat_model.py 15-25).
PermitsConserved == value + Cardinality(permits) = MaxConcurrent

\* A call owns a permit exactly while it is sending, backing off in __call__
\* or waiting for its first chunk: none that is over or that acquires does.
OwnersHold ==
    \A c \in Calls :
        /\ pc[c] \in Owning => c \in permits
        /\ c \in permits => pc[c] \in Owning \cup {"closing"}

\* No wake-up is lost: a call waits only while every permit is taken, or while
\* another waiter has been granted one and, when it runs, wakes the next.
NoPermitIdles ==
    value = 0 \/ Waiters(Now) = {} \/ \E c \in Calls : pc[c] = "granted"

\* "Every subsequent acquire() on the same model waits until the pause expires"
\* (rate_limiter.py 18): a call that reported a 429, or began to acquire while
\* the model was paused, sends nothing before that pause is over.
PauseIsServed == \A c \in met : pause /\ pc[c] \notin Asking \cup Streaming

\* Attempts of __call__ and of the stream it returned are counted together: a
\* call sends at most max_attempts requests, one more for each attempt of
\* __call__ or stream that had to add reasoning_content.
RequestsBounded == \A c \in Calls : sent[c] <= 2 * MaxAttempts + 1

\* The quarantine of a model is lifted by its deadline or by the end of every
\* cleanup in it, and not by one left over from a quarantine that was dropped.
HoldIsKept ==
    [][\A t \in hold : t \notin hold' => t \notin cleaning' \/ overdue]_vars

\* Every call that has begun ends, though its wait for a permit has a timeout
\* of its own: permits come back and the semaphore passes them on.
CallsEnd == \A c \in Calls : pc[c] # "idle" ~> pc[c] \in Final
=============================================================================
