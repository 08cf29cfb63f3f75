--------------------------- MODULE LLMCallsProofs ---------------------------
(***************************************************************************)
(* Proofs about LLMCalls, for any number of calls and permits, any window  *)
(* and any number of attempts.  The semaphore's operators are functions of *)
(* its state, so what they do to the permits is said of any state first    *)
(* (Waking to GivingUp); a step of a call then leaves every other call     *)
(* where it was or grants it the permit it queued for (Moves).             *)
(***************************************************************************)
EXTENDS LLMCalls, FiniteSetTheorems, WellFoundedInduction, TLAPS

Shape ==
    [pc : [Calls -> PCs], ahead : [Calls -> SUBSET Calls], value : Nat,
     permits : SUBSET Calls]

\* A state of the semaphore in which no permit is lost or made.
Sound(s) ==
    /\ s \in Shape
    /\ s.value + Cardinality(s.permits) = MaxConcurrent
    /\ \A d \in Calls : s.pc[d] = "queued" => d \notin s.permits

\* Calls other than c stay, or are granted the permit they queued for.
Untouched(s, r, c) ==
    \A d \in Calls \ {c} :
        \/ r.pc[d] = s.pc[d] /\ (d \in r.permits <=> d \in s.permits)
        \/ s.pc[d] = "queued" /\ r.pc[d] = "granted" /\ d \in r.permits

Effect(s, r, c, to) == Sound(r) /\ Untouched(s, r, c) /\ r.pc[c] = to

\* The same, of a step.
Moves(c, to) ==
    /\ Sound(Now)'
    /\ \A d \in Calls \ {c} :
        \/ pc'[d] = pc[d] /\ (d \in permits' <=> d \in permits)
        \/ pc[d] = "queued" /\ pc'[d] = "granted" /\ d \in permits'
    /\ pc'[c] = to

Before == Acquiring \cup {"idle", "again"}
Extra(c) == IF c \in injected THEN 1 ELSE 0

\* What holds of a call: what it holds, what it has sent, whether it may try
\* again, and where it can be while a pause it knows of lasts.
CallInv(c) ==
    /\ pc[c] \in Owning => c \in permits
    /\ c \in permits => pc[c] \in Owning \cup {"closing"}
    /\ pc[c] \in Streaming \cup {"closing"} => c \in streamed
    /\ c \in injected => c \in streamed
    /\ pc[c] \in {"backoff", "rebackoff"} => attempt[c] < MaxAttempts
    /\ sent[c] <= 2 * attempt[c] + Extra(c)
    /\ pc[c] \in Before => sent[c] <= 2 * attempt[c] - 2 + 2 * Extra(c)
    /\ pc[c] = "calling" => sent[c] <= 2 * attempt[c] - 1 + 2 * Extra(c)
    /\ c \in met =>
         pause /\ pc[c] \in Final \cup {"again", "backoff", "rebackoff", "cooling"}

\* What TypeOK says of the variables but the semaphore's.
Types ==
    /\ why \in [Calls -> Causes]
    /\ streamed \in SUBSET Calls /\ injected \in SUBSET Calls
    /\ attempt \in [Calls -> 1 .. MaxAttempts]
    /\ stamps \in 0 .. MaxQpm
    /\ pause \in BOOLEAN /\ met \in SUBSET Calls
    /\ cleaning \in SUBSET (Calls \X Nat) /\ hold \in SUBSET cleaning
    /\ overdue \in BOOLEAN
    /\ sent \in [Calls -> Nat]

IInv == Types /\ Sound(Now) /\ \A c \in Calls : CallInv(c)

-----------------------------------------------------------------------------
(* The semaphore. *)

\* _wake_up_next moves a permit from value to the first waiter.
LEMMA Waking ==
    ASSUME NEW s, Sound(s), NEW c \in Calls, s.pc[c] # "queued"
    PROVE  /\ Effect(s, Woken(s), c, s.pc[c])
           /\ c \in Woken(s).permits <=> c \in s.permits
<1>1. CASE ~(s.value > 0 /\ First(s) # {})
  BY <1>1 DEF Woken, Effect, Untouched
<1>2. CASE s.value > 0 /\ First(s) # {}
  <2>. DEFINE d == CHOOSE d \in First(s) : TRUE
              r == [pc |-> [s.pc EXCEPT ![d] = "granted"],
                    ahead |-> [b \in Calls |-> s.ahead[b] \ {d}],
                    value |-> s.value - 1,
                    permits |-> s.permits \cup {d}]
  <2>1. d \in Calls /\ s.pc[d] = "queued"
    BY <1>2 DEF First, Waiters
  <2>2. Woken(s) = r
    BY <1>2 DEF Woken
  <2>3. s \in Shape /\ d \notin s.permits /\ IsFiniteSet(s.permits)
    BY <2>1, FS_Subset, LimitsAssumption DEF Sound, Shape
  <2>. HIDE DEF d
  <2>4. Cardinality(r.permits) = Cardinality(s.permits) + 1
    BY <2>3, FS_AddElement
  <2>5. Cardinality(s.permits) \in Nat
    BY <2>3, FS_CardinalityType
  <2>6. r \in Shape
    BY <1>2, <2>1, <2>3 DEF Shape, PCs, Acquiring
  <2>7. r.value + Cardinality(r.permits) = MaxConcurrent
    BY <1>2, <2>3, <2>4, <2>5, LimitsAssumption DEF Sound, Shape
  <2>8. \A b \in Calls : r.pc[b] = IF b = d THEN "granted" ELSE s.pc[b]
    BY <2>3 DEF Shape
  <2>. QED
    BY <2>1, <2>2, <2>6, <2>7, <2>8 DEF Effect, Sound, Untouched
<1>. QED
  BY <1>1, <1>2

LEMMA Moving ==
    ASSUME NEW s, Sound(s), NEW c \in Calls, NEW to \in PCs \ {"queued"}
    PROVE  /\ Effect(s, Moved(s, c, to), c, to)
           /\ c \in Moved(s, c, to).permits <=> c \in s.permits
BY DEF Effect, Sound, Untouched, Moved, Shape

\* release puts the permit back and wakes the next waiter.
LEMMA Releasing ==
    ASSUME NEW s, Sound(s), NEW c \in Calls, NEW to \in PCs \ {"queued"},
           c \in s.permits
    PROVE  /\ Effect(s, Released(s, c, to), c, to)
           /\ c \notin Released(s, c, to).permits
<1>. DEFINE t == [pc |-> [s.pc EXCEPT ![c] = to], ahead |-> s.ahead,
                  value |-> s.value + 1, permits |-> s.permits \ {c}]
<1>1. IsFiniteSet(s.permits)
  BY FS_Subset, LimitsAssumption DEF Sound, Shape
<1>2. Cardinality(t.permits) = Cardinality(s.permits) - 1
  BY <1>1, FS_RemoveElement
<1>3. Cardinality(s.permits) \in Nat
  BY <1>1, FS_CardinalityType
<1>4. t.value + Cardinality(t.permits) = MaxConcurrent
  BY <1>2, <1>3, LimitsAssumption DEF Sound, Shape
<1>5. t \in Shape
  BY DEF Sound, Shape
<1>6. \A b \in Calls : t.pc[b] = IF b = c THEN to ELSE s.pc[b]
  BY DEF Sound, Shape
<1>7. Sound(t)
  BY <1>4, <1>5, <1>6 DEF Sound
<1>8. Released(s, c, to) = Woken(t)
  BY DEF Released
<1>. HIDE DEF t
<1>9. Effect(t, Woken(t), c, to) /\ (c \in Woken(t).permits <=> c \in t.permits)
  BY <1>6, <1>7, Waking
<1>10. c \notin t.permits /\ \A b \in Calls \ {c} : b \in t.permits <=> b \in s.permits
  BY DEF t
<1>. QED
  BY <1>6, <1>8, <1>9, <1>10 DEF Effect, Untouched

\* A call that gives up has no permit, granted or not.
LEMMA GivingUp ==
    ASSUME NEW s, Sound(s), NEW c \in Calls, NEW to \in PCs \ {"queued"},
           c \in s.permits <=> s.pc[c] = "granted"
    PROVE  /\ Effect(s, GaveUp(s, c, to), c, to)
           /\ c \notin GaveUp(s, c, to).permits
<1>1. CASE s.pc[c] = "granted"
  BY <1>1, Releasing DEF GaveUp
<1>2. CASE s.pc[c] # "granted"
  BY <1>2 DEF GaveUp, Effect, Untouched, Sound, Shape
<1>. QED
  BY <1>1, <1>2

\* A step to a state of that kind is such a step.
LEMMA Becoming ==
    ASSUME NEW r, NEW c \in Calls, NEW to, Effect(Now, r, c, to), Becomes(r)
    PROVE  Moves(c, to) /\ (c \in permits' <=> c \in r.permits)
BY DEF Effect, Becomes, Moves, Sound, Untouched, Shape, Now

LEMMA ByMove ==
    ASSUME Sound(Now), NEW c \in Calls, NEW to \in PCs \ {"queued"},
           Becomes(Moved(Now, c, to))
    PROVE  Moves(c, to) /\ (c \in permits' <=> c \in permits)
BY Moving, Becoming DEF Now

LEMMA ByRelease ==
    ASSUME Sound(Now), NEW c \in Calls, NEW to \in PCs \ {"queued"},
           c \in permits, Becomes(Released(Now, c, to))
    PROVE  Moves(c, to) /\ c \notin permits'
BY Releasing, Becoming DEF Now

LEMMA ByReturn ==
    ASSUME Sound(Now), NEW c \in Calls, NEW to \in PCs \ {"queued"},
           Becomes(Returned(c, to))
    PROVE  Moves(c, to) /\ c \notin permits'
BY ByMove, ByRelease DEF Returned

LEMMA ByGivingUp ==
    ASSUME Sound(Now), NEW c \in Calls, NEW to \in PCs \ {"queued"},
           c \in permits <=> pc[c] = "granted", Becomes(GaveUp(Now, c, to))
    PROVE  Moves(c, to) /\ c \notin permits'
BY GivingUp, Becoming DEF Now

\* A granted call that runs, and goes on with the permit or gives it back.
LEMMA ByGrant ==
    ASSUME Sound(Now), NEW c \in Calls, c \in permits
    PROVE  /\ Becomes(Granted(c)) => Moves(c, "calling") /\ c \in permits'
           /\ Becomes(Released(Granted(c), c, "failed")) =>
                Moves(c, "failed") /\ c \notin permits'
<1>. DEFINE m == Moved(Now, c, "calling")
            g == Granted(c)
            f == Released(g, c, "failed")
<1>1. Effect(Now, m, c, "calling") /\ c \in m.permits
  BY Moving DEF Now, PCs, Asking
<1>2. Effect(m, g, c, "calling") /\ c \in g.permits
  <2>1. Sound(m) /\ m.pc[c] = "calling"
    BY <1>1 DEF Effect
  <2>2. g = Woken(m)
    BY DEF Granted
  <2>. HIDE DEF m, g
  <2>. QED
    BY <1>1, <2>1, <2>2, Waking
<1>3. Effect(Now, g, c, "calling")
  <2>. HIDE DEF m, g
  <2>. QED
    BY <1>1, <1>2 DEF Effect, Untouched
<1>4. Effect(g, f, c, "failed") /\ c \notin f.permits
  <2>1. Sound(g)
    BY <1>2 DEF Effect
  <2>. HIDE DEF g
  <2>. QED
    BY <1>2, <2>1, Releasing DEF PCs, Final
<1>5. Effect(Now, f, c, "failed")
  <2>. HIDE DEF g, f
  <2>. QED
    BY <1>3, <1>4 DEF Effect, Untouched
<1>. QED
  BY <1>2, <1>3, <1>4, <1>5, Becoming

-----------------------------------------------------------------------------
(* Steps of a call. *)

\* What a step of c may not do to the others.
OthersStay(c) ==
    /\ \A d \in Calls \ {c} :
        /\ attempt'[d] = attempt[d] /\ sent'[d] = sent[d]
        /\ d \in streamed' <=> d \in streamed
        /\ d \in injected' <=> d \in injected
        /\ d \in met' => d \in met
    /\ pause => pause'

LEMMA Others ==
    ASSUME IInv, NEW c \in Calls, NEW to, Moves(c, to), OthersStay(c)
    PROVE  \A d \in Calls \ {c} : CallInv(d)'
<1>. SUFFICES ASSUME NEW d \in Calls \ {c} PROVE CallInv(d)'
  OBVIOUS
<1>1. CallInv(d)
  BY DEF IInv
<1>2. Extra(d)' = Extra(d)
  BY DEF Extra, OthersStay
<1>3. CASE pc'[d] = pc[d] /\ (d \in permits' <=> d \in permits)
  BY <1>1, <1>2, <1>3 DEF CallInv, OthersStay
<1>4. CASE pc[d] = "queued" /\ pc'[d] = "granted" /\ d \in permits'
  BY <1>1, <1>2, <1>4 DEF CallInv, OthersStay, Owning, Asking, Before,
     Acquiring, Final, Streaming
<1>. QED
  BY <1>3, <1>4 DEF Moves

Kept == Sound(Now) /\ \A c \in Calls : CallInv(c)

\* A step of c keeps the invariant if c's own part of it is kept.
LEMMA Keeps ==
    ASSUME IInv, NEW c \in Calls, NEW to, Moves(c, to), OthersStay(c), CallInv(c)'
    PROVE  Kept'
BY Others DEF Kept, Moves

\* Where a call goes when it has passed the pause.
WindowMoves(c) ==
    \/ Moves(c, "windowed") /\ c \notin permits' /\ UNCHANGED sent
    \/ Moves(c, "queued") /\ c \notin permits' /\ UNCHANGED sent
    \/ Moves(c, "calling") /\ c \in permits' /\ Send(c)
    \/ Moves(c, "failed") /\ c \notin permits' /\ UNCHANGED sent

LEMMA Windowing ==
    ASSUME Sound(Now), NEW c \in Calls, c \notin permits, Window(c)
    PROVE  WindowMoves(c)
<1>1. CASE Becomes(Moved(Now, c, "windowed")) /\ UNCHANGED sent
  BY <1>1, ByMove DEF WindowMoves, PCs, Acquiring
<1>2. CASE Becomes(Moved(Now, c, "failed")) /\ UNCHANGED sent
  BY <1>2, ByMove DEF WindowMoves, PCs, Final
<1>3. ASSUME value > 0, Send(c), pc' = [pc EXCEPT ![c] = "calling"],
             ahead' = ahead, value' = value - 1, permits' = permits \cup {c}
      PROVE  WindowMoves(c)
  <2>1. IsFiniteSet(permits) /\ Cardinality(permits) \in Nat
    BY FS_Subset, FS_CardinalityType, LimitsAssumption DEF Sound, Shape, Now
  <2>2. Cardinality(permits') = Cardinality(permits) + 1
    BY <1>3, <2>1, FS_AddElement
  <2>3. value \in Nat /\ value + Cardinality(permits) = MaxConcurrent
    BY DEF Sound, Shape, Now
  <2>4. value' \in Nat /\ value' + Cardinality(permits') = MaxConcurrent
    BY <1>3, <2>1, <2>2, <2>3
  <2>5. Moves(c, "calling")
    BY <1>3, <2>4 DEF Moves, Sound, Shape, Now, PCs, Asking
  <2>. QED
    BY <1>3, <2>5 DEF WindowMoves
<1>4. ASSUME UNCHANGED <<value, permits, sent>>,
             pc' = [pc EXCEPT ![c] = "queued"],
             ahead' = [ahead EXCEPT ![c] = Waiters(Now)]
      PROVE  WindowMoves(c)
  <2>1. Waiters(Now) \subseteq Calls
    BY DEF Waiters
  <2>2. Moves(c, "queued")
    BY <1>4, <2>1 DEF Moves, Sound, Shape, Now, PCs, Acquiring
  <2>. QED
    BY <1>4, <2>2 DEF WindowMoves
<1>. QED
  BY <1>1, <1>2, <1>3, <1>4 DEF Window, Slot

\* What a call that has just passed the pause has sent.
LEMMA Sending ==
    ASSUME IInv, NEW c \in Calls, Send(c)
    PROVE  sent'[c] = sent[c] + 1 /\ \A d \in Calls \ {c} : sent'[d] = sent[d]
BY DEF IInv, Types, Send

\* That part of the step which the calls' own invariant needs.
LEMMA WindowKeeps ==
    ASSUME IInv, NEW c \in Calls, WindowMoves(c), pc[c] \in Before, c \notin met,
           UNCHANGED <<callVars, pauseVars>>
    PROVE  Kept'
<1>0. CallInv(c) /\ attempt[c] \in Nat /\ sent[c] \in Nat
  BY DEF IInv, Types
<1>1. OthersStay(c)
  BY Sending DEF WindowMoves, OthersStay, callVars, pauseVars
<1>2. CASE Send(c) /\ Moves(c, "calling") /\ c \in permits'
  <2>1. CallInv(c)'
    BY <1>0, <1>2, Sending DEF Moves, callVars, pauseVars, CallInv, Extra, Owning,
       Asking, Streaming, Before, Acquiring, Final
  <2>. QED
    BY <1>1, <1>2, <2>1, Keeps
<1>3. ASSUME NEW to \in {"windowed", "queued", "failed"}, Moves(c, to),
             c \notin permits', UNCHANGED sent
      PROVE  Kept'
  <2>1. CallInv(c)'
    BY <1>0, <1>3 DEF Moves, callVars, pauseVars, CallInv, Extra, Owning,
       Asking, Streaming, Before, Acquiring, Final
  <2>. QED
    BY <1>1, <1>3, <2>1, Keeps
<1>. QED
  BY <1>2, <1>3 DEF WindowMoves

\* A call acquires without a permit.
LEMMA AcquireKeeps ==
    ASSUME IInv, NEW c \in Calls,
           Acquire(c) \/ CoolingOver(c) \/ WindowOver(c)
    PROVE  Kept'
<1>0. CallInv(c) /\ Sound(Now) /\ pc[c] \in Before \ {"granted", "queued"}
  BY DEF IInv, Acquire, CoolingOver, WindowOver, Before, Acquiring
<1>1. c \notin permits
  BY <1>0 DEF CallInv, Before, Acquiring, Owning, Asking
<1>2. CASE Window(c) /\ c \notin met /\ UNCHANGED <<callVars, pauseVars>>
  BY <1>0, <1>1, <1>2, Windowing, WindowKeeps
<1>3. ASSUME NEW to \in {"failed", "cooling"}, Becomes(Moved(Now, c, to)),
             UNCHANGED <<callVars, pause, sent>>,
             \/ UNCHANGED met
             \/ to = "cooling" /\ pause /\ met' = met \cup {c}
      PROVE  Kept'
  <2>1. Moves(c, to) /\ c \notin permits'
    BY <1>0, <1>1, <1>3, ByMove DEF PCs, Final, Acquiring
  <2>2. CallInv(c)'
    BY <1>0, <1>3, <2>1 DEF Moves, callVars, CallInv, Extra, Owning,
       Asking, Streaming, Before, Acquiring, Final
  <2>3. OthersStay(c)
    BY <1>3 DEF OthersStay, callVars
  <2>. QED
    BY <2>1, <2>2, <2>3, Keeps
<1>. QED
  <2>1. CASE Acquire(c)
    <3>1. CASE Quarantined
      BY <1>3, <2>1, <3>1 DEF Acquire, holdVars
    <3>2. CASE ~Quarantined /\ pause
      BY <1>3, <2>1, <3>2 DEF Acquire, holdVars
    <3>3. CASE ~Quarantined /\ ~pause
      BY <1>0, <1>2, <2>1, <3>3 DEF Acquire, pauseVars, CallInv
    <3>. QED
      BY <3>1, <3>2, <3>3
  <2>2. CASE CoolingOver(c)
    BY <1>0, <1>2, <2>2 DEF CoolingOver, CallInv
  <2>3. CASE WindowOver(c)
    BY <1>0, <1>2, <2>3 DEF WindowOver, CallInv, Final
  <2>. QED
    BY <2>1, <2>2, <2>3
-----------------------------------------------------------------------------
(* Every action. *)

LEMMA Own ==
    ASSUME IInv, NEW c \in Calls
    PROVE  /\ CallInv(c) /\ Sound(Now) /\ pc[c] \in PCs
           /\ attempt[c] \in 1 .. MaxAttempts /\ sent[c] \in Nat
           /\ why[c] \in Causes
BY DEF IInv, Types, Sound, Shape, Now

LEMMA ServedKeeps ==
    ASSUME IInv, NEW c \in Calls, Served(c)
    PROVE  Kept'
<1>0. CallInv(c) /\ Sound(Now) /\ attempt[c] \in 1 .. MaxAttempts /\ sent[c] \in Nat
  BY Own
<1>1. c \in permits
  BY <1>0 DEF Served, CallInv, Owning
<1>2. CASE Becomes(Granted(c)) /\ Send(c)
  <2>1. Moves(c, "calling") /\ c \in permits'
    BY <1>0, <1>1, <1>2, ByGrant
  <2>2. CallInv(c)'
    BY <1>0, <1>2, <2>1, Own, Sending DEF Moves, Served, callVars, pauseVars,
       CallInv, Extra, Owning, Asking, Streaming, Before, Acquiring, Final
  <2>3. OthersStay(c)
    BY <1>2, Sending DEF OthersStay, Served, callVars, pauseVars
  <2>. QED
    BY <2>1, <2>2, <2>3, Keeps
<1>3. CASE Becomes(Released(Granted(c), c, "failed")) /\ UNCHANGED sent
  <2>1. Moves(c, "failed") /\ c \notin permits'
    BY <1>0, <1>1, <1>3, ByGrant
  <2>2. CallInv(c)'
    BY <1>0, <1>3, <2>1, Own DEF Moves, Served, callVars, pauseVars,
       CallInv, Extra, Owning, Asking, Streaming, Before, Acquiring, Final
  <2>3. OthersStay(c)
    BY <1>3 DEF OthersStay, Served, callVars, pauseVars
  <2>. QED
    BY <2>1, <2>2, <2>3, Keeps
<1>. QED
  BY <1>2, <1>3 DEF Served

LEMMA AcquireTimeoutKeeps ==
    ASSUME IInv, NEW c \in Calls, AcquireTimeout(c)
    PROVE  Kept'
<1>0. CallInv(c) /\ Sound(Now) /\ attempt[c] \in 1 .. MaxAttempts /\ sent[c] \in Nat
  BY Own
<1>1. Moves(c, "failed") /\ (c \notin permits') /\ UNCHANGED sent
  BY <1>0, ByGivingUp, Own DEF AcquireTimeout, CallInv, PCs, Final, Asking,
     Streaming, Acquiring, Owning
<1>2. CallInv(c)'
  BY <1>0, <1>1, Own, Sending, LimitsAssumption DEF Moves, AcquireTimeout,
     callVars, pauseVars, CallInv, Extra, Owning, Asking, Streaming, Before,
     Acquiring, Final
<1>3. OthersStay(c)
  BY <1>1, Own, Sending DEF OthersStay, AcquireTimeout, callVars, pauseVars
<1>. QED
  BY <1>1, <1>2, <1>3, Keeps

LEMMA AnswersKeeps ==
    ASSUME IInv, NEW c \in Calls, Answers(c)
    PROVE  Kept'
<1>0. CallInv(c) /\ Sound(Now) /\ attempt[c] \in 1 .. MaxAttempts /\ sent[c] \in Nat
  BY Own
<1>1. PICK to \in {"handing", "done"} :
        /\ Moves(c, to) /\ (c \in permits' <=> to = "handing")
        /\ UNCHANGED sent
  BY <1>0, ByMove, ByRelease, Own DEF Answers, OnSuccess, CallInv, PCs,
     Final, Asking, Streaming, Acquiring, Owning
<1>2. CallInv(c)'
  BY <1>0, <1>1, Own, Sending, LimitsAssumption DEF Moves, Answers,
     OnSuccess, callVars, pauseVars, CallInv, Extra, Owning, Asking,
     Streaming, Before, Acquiring, Final
<1>3. OthersStay(c)
  BY <1>1, Own, Sending DEF OthersStay, Answers, OnSuccess, callVars,
     pauseVars
<1>. QED
  BY <1>1, <1>2, <1>3, Keeps

LEMMA HandsOverKeeps ==
    ASSUME IInv, NEW c \in Calls, HandsOver(c)
    PROVE  Kept'
<1>0. CallInv(c) /\ Sound(Now) /\ attempt[c] \in 1 .. MaxAttempts /\ sent[c] \in Nat
  BY Own
<1>1. Moves(c, "done") /\ (c \notin permits') /\ UNCHANGED sent
  BY <1>0, ByRelease, Own DEF HandsOver, CallInv, PCs, Final, Asking,
     Streaming, Acquiring, Owning
<1>2. CallInv(c)'
  BY <1>0, <1>1, Own, Sending, LimitsAssumption DEF Moves, HandsOver,
     callVars, pauseVars, CallInv, Extra, Owning, Asking, Streaming, Before,
     Acquiring, Final
<1>3. OthersStay(c)
  BY <1>1, Own, Sending DEF OthersStay, HandsOver, callVars, pauseVars
<1>. QED
  BY <1>1, <1>2, <1>3, Keeps

LEMMA FailsKeeps ==
    ASSUME IInv, NEW c \in Calls, NEW cause \in Errors, Fails(c, cause)
    PROVE  Kept'
<1>0. CallInv(c) /\ Sound(Now) /\ attempt[c] \in 1 .. MaxAttempts /\ sent[c] \in Nat
  BY Own
<1>1. PICK to \in {"failed", "rebackoff", "backoff"} :
        /\ Moves(c, to) /\ (c \in permits' <=> to = "backoff")
        /\ UNCHANGED sent /\ (to # "failed" => attempt[c] < MaxAttempts)
  BY <1>0, ByMove, ByRelease, Own DEF Fails, Retries, CallInv, PCs, Final,
     Asking, Streaming, Acquiring, Owning
<1>2. CallInv(c)'
  BY <1>0, <1>1, Own, Sending, LimitsAssumption DEF Moves, Fails, Retries,
     Report, callVars, pauseVars, CallInv, Extra, Owning, Asking, Streaming,
     Before, Acquiring, Final
<1>3. OthersStay(c)
  BY <1>1, Own, Sending DEF OthersStay, Fails, Retries, Report, callVars,
     pauseVars
<1>. QED
  BY <1>1, <1>2, <1>3, Keeps

LEMMA ThoughtlessKeeps ==
    ASSUME IInv, NEW c \in Calls, Thoughtless(c)
    PROVE  Kept'
<1>0. CallInv(c) /\ Sound(Now) /\ attempt[c] \in 1 .. MaxAttempts /\ sent[c] \in Nat
  BY Own
<1>1. PICK to \in {"failed", "recalling", "again"} :
        /\ Moves(c, to) /\ (c \in permits' <=> to = "recalling")
        /\ \/ to = "recalling" /\ Send(c) /\ c \notin streamed /\ UNCHANGED injected
           \/ to = "failed" /\ UNCHANGED <<sent, injected>>
           \/ /\ to = "again" /\ UNCHANGED sent /\ c \in streamed \ injected
              /\ injected' = injected \cup {c}
  BY <1>0, ByMove, ByRelease, Own DEF Thoughtless, CallInv, PCs, Final,
     Asking, Streaming, Acquiring, Owning
<1>2. CallInv(c)'
  BY <1>0, <1>1, Own, Sending, LimitsAssumption DEF Moves, Thoughtless,
     callVars, pauseVars, CallInv, Extra, Owning, Asking, Streaming, Before,
     Acquiring, Final
<1>3. OthersStay(c)
  BY <1>1, Own, Sending DEF OthersStay, Thoughtless, callVars, pauseVars
<1>. QED
  BY <1>1, <1>2, <1>3, Keeps

LEMMA BackoffOverKeeps ==
    ASSUME IInv, NEW c \in Calls, BackoffOver(c)
    PROVE  Kept'
<1>0. CallInv(c) /\ Sound(Now) /\ attempt[c] \in 1 .. MaxAttempts /\ sent[c] \in Nat
  BY Own
<1>1. Moves(c, "again") /\ (c \notin permits') /\ UNCHANGED sent
  BY <1>0, ByMove, ByRelease, Own DEF BackoffOver, CallInv, PCs, Final,
     Asking, Streaming, Acquiring, Owning
<1>a. attempt'[c] = attempt[c] + 1
  BY DEF BackoffOver, IInv, Types
<1>2. CallInv(c)'
  BY <1>0, <1>1, <1>a, Own, Sending, LimitsAssumption DEF Moves,
     BackoffOver, callVars, pauseVars, CallInv, Extra, Owning, Asking,
     Streaming, Before, Acquiring, Final
<1>3. OthersStay(c)
  BY <1>1, Own, Sending DEF OthersStay, BackoffOver, callVars, pauseVars
<1>. QED
  BY <1>1, <1>2, <1>3, Keeps

LEMMA StreamsKeeps ==
    ASSUME IInv, NEW c \in Calls, Streams(c)
    PROVE  Kept'
<1>0. CallInv(c) /\ Sound(Now) /\ attempt[c] \in 1 .. MaxAttempts /\ sent[c] \in Nat
  BY Own
<1>1. Moves(c, "reading") /\ (c \in permits') /\ UNCHANGED sent
  BY <1>0, ByMove, Own DEF Streams, CallInv, PCs, Final, Asking, Streaming,
     Acquiring, Owning
<1>2. CallInv(c)'
  BY <1>0, <1>1, Own, Sending, LimitsAssumption DEF Moves, Streams,
     callVars, pauseVars, CallInv, Extra, Owning, Asking, Streaming, Before,
     Acquiring, Final
<1>3. OthersStay(c)
  BY <1>1, Own, Sending DEF OthersStay, Streams, callVars, pauseVars
<1>. QED
  BY <1>1, <1>2, <1>3, Keeps

LEMMA FirstChunkKeeps ==
    ASSUME IInv, NEW c \in Calls, FirstChunk(c)
    PROVE  Kept'
<1>0. CallInv(c) /\ Sound(Now) /\ attempt[c] \in 1 .. MaxAttempts /\ sent[c] \in Nat
  BY Own
<1>1. Moves(c, "streaming") /\ (c \notin permits') /\ UNCHANGED sent
  BY <1>0, ByRelease, Own DEF FirstChunk, OnSuccess, CallInv, PCs, Final,
     Asking, Streaming, Acquiring, Owning
<1>2. CallInv(c)'
  BY <1>0, <1>1, Own, Sending, LimitsAssumption DEF Moves, FirstChunk,
     OnSuccess, callVars, pauseVars, CallInv, Extra, Owning, Asking,
     Streaming, Before, Acquiring, Final
<1>3. OthersStay(c)
  BY <1>1, Own, Sending DEF OthersStay, FirstChunk, OnSuccess, callVars,
     pauseVars
<1>. QED
  BY <1>1, <1>2, <1>3, Keeps

LEMMA StreamEndsKeeps ==
    ASSUME IInv, NEW c \in Calls, NEW cause \in Causes, StreamEnds(c, cause)
    PROVE  Kept'
<1>0. CallInv(c) /\ Sound(Now) /\ attempt[c] \in 1 .. MaxAttempts /\ sent[c] \in Nat
  BY Own
<1>1. Moves(c, "closing") /\ (c \in permits' <=> c \in permits) /\ UNCHANGED sent
  BY <1>0, ByMove, Own DEF StreamEnds, CallInv, PCs, Final, Asking,
     Streaming, Acquiring, Owning
<1>2. CallInv(c)'
  BY <1>0, <1>1, Own, Sending, LimitsAssumption DEF Moves, StreamEnds,
     callVars, pauseVars, CallInv, Extra, Owning, Asking, Streaming, Before,
     Acquiring, Final
<1>3. OthersStay(c)
  BY <1>1, Own, Sending DEF OthersStay, StreamEnds, callVars, pauseVars
<1>. QED
  BY <1>1, <1>2, <1>3, Keeps

LEMMA ReadHangsKeeps ==
    ASSUME IInv, NEW c \in Calls, NEW cause \in {"fatal", "cancelled"}, ReadHangs(c, cause)
    PROVE  Kept'
<1>0. CallInv(c) /\ Sound(Now) /\ attempt[c] \in 1 .. MaxAttempts /\ sent[c] \in Nat
  BY Own
<1>1. PICK to \in {"failed", "cancelled"} :
        /\ Moves(c, to) /\ (c \notin permits')
        /\ UNCHANGED sent
  BY <1>0, ByReturn, Own DEF ReadHangs, CallInv, PCs, Final, Asking,
     Streaming, Acquiring, Owning
<1>2. CallInv(c)'
  BY <1>0, <1>1, Own, Sending, LimitsAssumption DEF Moves, ReadHangs,
     callVars, pauseVars, CallInv, Extra, Owning, Asking, Streaming, Before,
     Acquiring, Final
<1>3. OthersStay(c)
  BY <1>1, Own, Sending DEF OthersStay, ReadHangs, callVars, pauseVars
<1>. QED
  BY <1>1, <1>2, <1>3, Keeps

LEMMA ClosedKeeps ==
    ASSUME IInv, NEW c \in Calls, Closed(c)
    PROVE  Kept'
<1>0. CallInv(c) /\ Sound(Now) /\ attempt[c] \in 1 .. MaxAttempts /\ sent[c] \in Nat
  BY Own
<1>1. PICK to \in {"done", "cancelled", "again", "rebackoff", "failed"} :
        /\ Moves(c, to) /\ (c \notin permits')
        /\ UNCHANGED sent
           /\ (to = "rebackoff" => attempt[c] < MaxAttempts)
           /\ (to = "again" => injected' = injected \cup {c} /\ c \notin injected)
  BY <1>0, ByReturn, Own DEF Closed, AfterClose, Retries, CallInv, PCs,
     Final, Asking, Streaming, Acquiring, Owning
<1>2. CallInv(c)'
  BY <1>0, <1>1, Own, Sending, LimitsAssumption DEF Moves, Closed,
     AfterClose, Retries, Report, Quarantine, callVars, pauseVars, CallInv,
     Extra, Owning, Asking, Streaming, Before, Acquiring, Final
<1>3. OthersStay(c)
  BY <1>1, Own, Sending DEF OthersStay, Closed, AfterClose, Retries, Report,
     Quarantine, callVars, pauseVars
<1>. QED
  BY <1>1, <1>2, <1>3, Keeps

LEMMA CancelKeeps ==
    ASSUME IInv, NEW c \in Calls, Cancel(c)
    PROVE  Kept'
<1>0. CallInv(c) /\ Sound(Now) /\ attempt[c] \in 1 .. MaxAttempts /\ sent[c] \in Nat
  BY Own
<1>1. Moves(c, "cancelled") /\ (c \notin permits') /\ UNCHANGED sent
  BY <1>0, ByGivingUp, ByReturn, Own DEF Cancel, CallInv, PCs, Final,
     Asking, Streaming, Acquiring, Owning
<1>2. CallInv(c)'
  BY <1>0, <1>1, Own, Sending, LimitsAssumption DEF Moves, Cancel, callVars,
     pauseVars, CallInv, Extra, Owning, Asking, Streaming, Before,
     Acquiring, Final
<1>3. OthersStay(c)
  BY <1>1, Own, Sending DEF OthersStay, Cancel, callVars, pauseVars
<1>. QED
  BY <1>1, <1>2, <1>3, Keeps
\* The quarantine and the requests sent keep their types.
HoldTypes ==
    /\ cleaning \in SUBSET (Calls \X Nat) /\ hold \in SUBSET cleaning
    /\ overdue \in BOOLEAN
SentTypes == sent \in [Calls -> Nat]

LEMMA HoldTypesKept ==
    ASSUME Types, NEW c \in Calls
    PROVE  /\ Looks => HoldTypes'
           /\ Quarantine(c) => HoldTypes'
           /\ UNCHANGED holdVars => HoldTypes'
<1>1. Looks => HoldTypes'
  BY DEF Types, HoldTypes, Looks
<1>2. ASSUME Quarantine(c) PROVE HoldTypes'
  <2>1. <<c, sent[c]>> \in Calls \X Nat
    BY DEF Types
  <2>. QED
    BY <1>2, <2>1 DEF Types, HoldTypes, Quarantine
<1>3. UNCHANGED holdVars => HoldTypes'
  BY DEF Types, HoldTypes, holdVars
<1>. QED
  BY <1>1, <1>2, <1>3

LEMMA SentTypesKept ==
    ASSUME Types, NEW c \in Calls
    PROVE  /\ Send(c) => SentTypes'
           /\ UNCHANGED sent => SentTypes'
BY DEF Types, SentTypes, Send

LEMMA WindowTypes ==
    ASSUME Types, NEW c \in Calls, Window(c)
    PROVE  SentTypes' /\ stamps' \in 0 .. MaxQpm
<1>1. stamps' \in 0 .. MaxQpm
  BY LimitsAssumption DEF Types, Window
<1>2. Send(c) \/ UNCHANGED sent
  BY DEF Window, Slot
<1>. QED
  BY <1>1, <1>2, SentTypesKept

LEMMA TypesStep ==
    ASSUME IInv, Next
    PROVE  Types'
<1>0. Types
  BY DEF IInv
<1>1. ASSUME NEW c \in Calls, Acquire(c) PROVE Types'
  <2>1. HoldTypes' /\ SentTypes' /\ stamps' \in 0 .. MaxQpm
    <3>1. CASE Quarantined
      BY <1>0, <1>1, <3>1, HoldTypesKept, SentTypesKept DEF Acquire, Types
    <3>2. CASE ~Quarantined /\ pause
      BY <1>0, <1>1, <3>2, HoldTypesKept, SentTypesKept DEF Acquire, Types
    <3>3. CASE ~Quarantined /\ ~pause
      BY <1>0, <1>1, <3>3, WindowTypes, HoldTypesKept DEF Acquire
    <3>. QED
      BY <3>1, <3>2, <3>3
  <2>2. met' \in SUBSET Calls
    BY <1>0, <1>1 DEF Acquire, Types
  <2>. QED
    BY <1>0, <1>1, <2>1, <2>2 DEF Acquire, callVars, Types, HoldTypes, SentTypes
<1>2. ASSUME NEW c \in Calls, CoolingOver(c) PROVE Types'
  <2>1. HoldTypes' /\ SentTypes' /\ stamps' \in 0 .. MaxQpm
    BY <1>0, <1>2, WindowTypes, HoldTypesKept DEF CoolingOver, LooksWithPermit
  <2>. QED
    BY <1>0, <1>2, <2>1 DEF CoolingOver, callVars, pauseVars, Types, HoldTypes, SentTypes
<1>3. ASSUME NEW c \in Calls, WindowOver(c) PROVE Types'
  <2>1. HoldTypes' /\ SentTypes' /\ stamps' \in 0 .. MaxQpm
    BY <1>0, <1>3, WindowTypes, HoldTypesKept DEF WindowOver, LooksWithPermit
  <2>. QED
    BY <1>0, <1>3, <2>1 DEF WindowOver, callVars, pauseVars, Types, HoldTypes, SentTypes
<1>4. ASSUME NEW c \in Calls, Served(c) PROVE Types'
  <2>1. HoldTypes'
    BY <1>0, <1>4, HoldTypesKept DEF Served
  <2>2. SentTypes'
    BY <1>0, <1>4, SentTypesKept DEF Served
  <2>3. /\ why' \in [Calls -> Causes] /\ attempt' \in [Calls -> 1 .. MaxAttempts]
        /\ streamed' \in SUBSET Calls /\ injected' \in SUBSET Calls
        /\ stamps' \in 0 .. MaxQpm /\ pause' \in BOOLEAN /\ met' \in SUBSET Calls
    BY <1>0, <1>4 DEF Served, callVars, pauseVars, Types, Causes, Errors
  <2>. QED
    BY <2>1, <2>2, <2>3 DEF Types, HoldTypes, SentTypes
<1>5. ASSUME NEW c \in Calls, AcquireTimeout(c) PROVE Types'
  BY <1>0, <1>5, LimitsAssumption DEF AcquireTimeout, callVars, pauseVars,
     holdVars, Types, Causes, Errors
<1>6. ASSUME NEW c \in Calls, Answers(c) PROVE Types'
  BY <1>0, <1>6, LimitsAssumption DEF Answers, OnSuccess, callVars,
     pauseVars, holdVars, Types, Causes, Errors
<1>7. ASSUME NEW c \in Calls, HandsOver(c) PROVE Types'
  BY <1>0, <1>7, LimitsAssumption DEF HandsOver, callVars, pauseVars,
     holdVars, Types, Causes, Errors
<1>8. ASSUME NEW c \in Calls, NEW cause \in Errors, Fails(c, cause)
      PROVE  Types'
  BY <1>0, <1>8, LimitsAssumption DEF Fails, Report, callVars, pauseVars,
     holdVars, Types, Causes, Errors
<1>9. ASSUME NEW c \in Calls, Thoughtless(c) PROVE Types'
  <2>1. HoldTypes'
    BY <1>0, <1>9, HoldTypesKept DEF Thoughtless
  <2>2. SentTypes'
    BY <1>0, <1>9, SentTypesKept DEF Thoughtless
  <2>3. /\ why' \in [Calls -> Causes] /\ attempt' \in [Calls -> 1 .. MaxAttempts]
        /\ streamed' \in SUBSET Calls /\ injected' \in SUBSET Calls
        /\ stamps' \in 0 .. MaxQpm /\ pause' \in BOOLEAN /\ met' \in SUBSET Calls
    BY <1>0, <1>9 DEF Thoughtless, callVars, pauseVars, Types, Causes,
       Errors
  <2>. QED
    BY <2>1, <2>2, <2>3 DEF Types, HoldTypes, SentTypes
<1>10. ASSUME NEW c \in Calls, BackoffOver(c) PROVE Types'
  <2>1. attempt[c] + 1 \in 1 .. MaxAttempts
    BY <1>10, Own, LimitsAssumption DEF BackoffOver, CallInv
  <2>. QED
    BY <1>0, <1>10, <2>1 DEF BackoffOver, callVars, pauseVars, holdVars,
       Types
<1>11. ASSUME NEW c \in Calls, Streams(c) PROVE Types'
  BY <1>0, <1>11, LimitsAssumption DEF Streams, callVars, pauseVars,
     holdVars, Types, Causes, Errors
<1>12. ASSUME NEW c \in Calls, FirstChunk(c) PROVE Types'
  BY <1>0, <1>12, LimitsAssumption DEF FirstChunk, OnSuccess, callVars,
     pauseVars, holdVars, Types, Causes, Errors
<1>13. ASSUME NEW c \in Calls, NEW cause \in Causes, StreamEnds(c, cause)
      PROVE  Types'
  BY <1>0, <1>13, LimitsAssumption DEF StreamEnds, callVars, pauseVars,
     holdVars, Types, Causes, Errors
<1>14. ASSUME NEW c \in Calls, NEW cause \in {"fatal", "cancelled"}, ReadHangs(c, cause)
      PROVE  Types'
  BY <1>0, <1>14, LimitsAssumption DEF ReadHangs, Quarantine, callVars,
     pauseVars, holdVars, Types, Causes, Errors
<1>15. ASSUME NEW c \in Calls, Closed(c) PROVE Types'
  <2>1. HoldTypes'
    BY <1>0, <1>15, HoldTypesKept DEF Closed
  <2>2. SentTypes'
    BY <1>0, <1>15, SentTypesKept DEF Closed
  <2>3. /\ why' \in [Calls -> Causes] /\ attempt' \in [Calls -> 1 .. MaxAttempts]
        /\ streamed' \in SUBSET Calls /\ injected' \in SUBSET Calls
        /\ stamps' \in 0 .. MaxQpm /\ pause' \in BOOLEAN /\ met' \in SUBSET Calls
    BY <1>0, <1>15 DEF Closed, Report, callVars, pauseVars, Types, Causes,
       Errors
  <2>. QED
    BY <2>1, <2>2, <2>3 DEF Types, HoldTypes, SentTypes
<1>16. ASSUME NEW c \in Calls, Cancel(c) PROVE Types'
  <2>1. HoldTypes'
    BY <1>0, <1>16, HoldTypesKept DEF Cancel
  <2>2. SentTypes'
    BY <1>0, <1>16, SentTypesKept DEF Cancel
  <2>3. /\ why' \in [Calls -> Causes] /\ attempt' \in [Calls -> 1 .. MaxAttempts]
        /\ streamed' \in SUBSET Calls /\ injected' \in SUBSET Calls
        /\ stamps' \in 0 .. MaxQpm /\ pause' \in BOOLEAN /\ met' \in SUBSET Calls
    BY <1>0, <1>16 DEF Cancel, callVars, pauseVars, Types, Causes, Errors
  <2>. QED
    BY <2>1, <2>2, <2>3 DEF Types, HoldTypes, SentTypes
<1>17. ASSUME NEW t \in cleaning, CleanupEnds(t) PROVE Types'
  BY <1>0, <1>17, LimitsAssumption DEF CleanupEnds, callVars, pauseVars,
     holdVars, Types, Causes, Errors
<1>18. ASSUME PauseEnds PROVE Types'
  BY <1>0, <1>18, LimitsAssumption DEF PauseEnds, callVars, pauseVars,
     holdVars, Types, Causes, Errors
<1>19. ASSUME WindowSlides PROVE Types'
  BY <1>0, <1>19, LimitsAssumption DEF WindowSlides, callVars, pauseVars,
     holdVars, Types, Causes, Errors
<1>20. ASSUME DeadlinePasses PROVE Types'
  BY <1>0, <1>20, LimitsAssumption DEF DeadlinePasses, callVars, pauseVars,
     holdVars, Types, Causes, Errors
<1>. QED
  BY <1>1, <1>2, <1>3, <1>4, <1>5, <1>6, <1>7, <1>8, <1>9, <1>10, <1>11,
     <1>12, <1>13, <1>14, <1>15, <1>16, <1>17, <1>18, <1>19, <1>20 DEF Next,
     LimiterStep, ProviderStep, CallStep, TimePasses

LEMMA KeptStep ==
    ASSUME IInv, Next
    PROVE  Kept'
<1>1. ASSUME NEW c \in Calls, Acquire(c) PROVE Kept'
  BY <1>1, AcquireKeeps
<1>2. ASSUME NEW c \in Calls, CoolingOver(c) PROVE Kept'
  BY <1>2, AcquireKeeps
<1>3. ASSUME NEW c \in Calls, WindowOver(c) PROVE Kept'
  BY <1>3, AcquireKeeps
<1>4. ASSUME NEW c \in Calls, Served(c) PROVE Kept'
  BY <1>4, ServedKeeps
<1>5. ASSUME NEW c \in Calls, AcquireTimeout(c) PROVE Kept'
  BY <1>5, AcquireTimeoutKeeps
<1>6. ASSUME NEW c \in Calls, Answers(c) PROVE Kept'
  BY <1>6, AnswersKeeps
<1>7. ASSUME NEW c \in Calls, HandsOver(c) PROVE Kept'
  BY <1>7, HandsOverKeeps
<1>8. ASSUME NEW c \in Calls, NEW cause \in Errors, Fails(c, cause)
      PROVE  Kept'
  BY <1>8, FailsKeeps
<1>9. ASSUME NEW c \in Calls, Thoughtless(c) PROVE Kept'
  BY <1>9, ThoughtlessKeeps
<1>10. ASSUME NEW c \in Calls, BackoffOver(c) PROVE Kept'
  BY <1>10, BackoffOverKeeps
<1>11. ASSUME NEW c \in Calls, Streams(c) PROVE Kept'
  BY <1>11, StreamsKeeps
<1>12. ASSUME NEW c \in Calls, FirstChunk(c) PROVE Kept'
  BY <1>12, FirstChunkKeeps
<1>13. ASSUME NEW c \in Calls, NEW cause \in Causes, StreamEnds(c, cause)
      PROVE  Kept'
  BY <1>13, StreamEndsKeeps
<1>14. ASSUME NEW c \in Calls, NEW cause \in {"fatal", "cancelled"}, ReadHangs(c, cause)
      PROVE  Kept'
  BY <1>14, ReadHangsKeeps
<1>15. ASSUME NEW c \in Calls, Closed(c) PROVE Kept'
  BY <1>15, ClosedKeeps
<1>16. ASSUME NEW c \in Calls, Cancel(c) PROVE Kept'
  BY <1>16, CancelKeeps
<1>17. ASSUME NEW t \in cleaning, CleanupEnds(t) PROVE Kept'
  BY <1>17 DEF CleanupEnds, callVars, pauseVars, holdVars, semVars, IInv,
     Kept, Sound, Shape, Now, CallInv, Extra
<1>18. ASSUME PauseEnds PROVE Kept'
  BY <1>18 DEF PauseEnds, callVars, pauseVars, holdVars, semVars, IInv,
     Kept, Sound, Shape, Now, CallInv, Extra
<1>19. ASSUME WindowSlides PROVE Kept'
  BY <1>19 DEF WindowSlides, callVars, pauseVars, holdVars, semVars, IInv,
     Kept, Sound, Shape, Now, CallInv, Extra
<1>20. ASSUME DeadlinePasses PROVE Kept'
  BY <1>20 DEF DeadlinePasses, callVars, pauseVars, holdVars, semVars, IInv,
     Kept, Sound, Shape, Now, CallInv, Extra
<1>. QED
  BY <1>1, <1>2, <1>3, <1>4, <1>5, <1>6, <1>7, <1>8, <1>9, <1>10, <1>11,
     <1>12, <1>13, <1>14, <1>15, <1>16, <1>17, <1>18, <1>19, <1>20 DEF Next,
     LimiterStep, ProviderStep, CallStep, TimePasses

LEMMA Inductive == Spec => []IInv
<1>1. Init => IInv
  <2>. SUFFICES ASSUME Init PROVE IInv
    OBVIOUS
  <2>1. Types
    <3>1. attempt \in [Calls -> 1 .. MaxAttempts] /\ stamps \in 0 .. MaxQpm
      BY LimitsAssumption DEF Init
    <3>2. why \in [Calls -> Causes] /\ sent \in [Calls -> Nat]
      BY DEF Init, Causes
    <3>. QED
      BY <3>1, <3>2 DEF Init, Types
  <2>2. Sound(Now)
    <3>1. Cardinality({}) = 0
      BY FS_EmptySet
    <3>2. Now = [pc |-> [c \in Calls |-> "idle"], ahead |-> [c \in Calls |-> {}],
                 value |-> MaxConcurrent, permits |-> {}]
      BY DEF Init, Now
    <3>3. Now \in Shape
      BY <3>2, LimitsAssumption DEF Shape, PCs
    <3>. QED
      BY <3>1, <3>2, <3>3, LimitsAssumption DEF Sound
  <2>3. \A c \in Calls : CallInv(c)
    BY LimitsAssumption DEF Init, CallInv, Extra, Owning, Asking, Streaming,
       Before, Acquiring, Final
  <2>. QED
    BY <2>1, <2>2, <2>3 DEF IInv
<1>2. IInv /\ [Next]_vars => IInv'
  <2>1. ASSUME IInv, Next PROVE IInv'
    BY <2>1, TypesStep, KeptStep DEF IInv, Kept
  <2>2. ASSUME IInv, UNCHANGED vars PROVE IInv'
    BY <2>2 DEF vars, callVars, pauseVars, holdVars, semVars, IInv, Types,
       Sound, Shape, Now, CallInv, Extra
  <2>. QED
    BY <2>1, <2>2
<1>. QED
  BY <1>1, <1>2, PTL DEF Spec

LEMMA Permits ==
    ASSUME IInv
    PROVE  value + Cardinality(permits) = MaxConcurrent /\ value \in 0 .. MaxConcurrent
<1>1. IsFiniteSet(permits)
  BY FS_Subset, LimitsAssumption DEF IInv, Sound, Shape, Now
<1>2. Cardinality(permits) \in Nat
  BY <1>1, FS_CardinalityType
<1>. QED
  BY <1>2, LimitsAssumption DEF IInv, Sound, Shape, Now

\* The types of the limiter and of the calls, the attempts, the permits and
\* the window within their limits.
THEOREM TypeCorrect == Spec => []TypeOK
<1>1. IInv => TypeOK
  BY Permits DEF IInv, Types, Sound, Shape, Now, TypeOK
<1>. QED
  BY <1>1, Inductive, PTL

\* No exit of a call, waiting, sending, streaming, backing off or cancelled,
\* loses a permit or returns it twice.
THEOREM PermitsAreConserved == Spec => []PermitsConserved
<1>1. IInv => PermitsConserved
  BY Permits DEF PermitsConserved
<1>. QED
  BY <1>1, Inductive, PTL

\* Whoever sends or backs off in __call__ holds a permit, and nobody whose
\* call is over or who acquires does.
THEOREM OwnersHoldPermits == Spec => []OwnersHold
<1>1. IInv => OwnersHold
  BY DEF IInv, CallInv, OwnersHold
<1>. QED
  BY <1>1, Inductive, PTL

\* A call that has seen a 429 pause sends nothing while it lasts.
THEOREM PausesAreServed == Spec => []PauseIsServed
<1>1. IInv => PauseIsServed
  BY DEF IInv, Types, CallInv, PauseIsServed, Final, Asking, Streaming
<1>. QED
  BY <1>1, Inductive, PTL

\* The attempts of a call and of the stream it returned are counted together.
THEOREM RequestsAreBounded == Spec => []RequestsBounded
<1>1. ASSUME IInv PROVE RequestsBounded
  <2>. SUFFICES ASSUME NEW c \in Calls PROVE sent[c] <= 2 * MaxAttempts + 1
    BY DEF RequestsBounded
  <2>. QED
    BY <1>1, Own, LimitsAssumption DEF CallInv, Extra
<1>. QED
  BY <1>1, Inductive, PTL

\* A cleanup of a dropped quarantine never lifts the one that followed it.
THEOREM HoldsAreKept == Spec => HoldIsKept
<1>. DEFINE Kind == \A t \in hold : t \notin hold' => t \notin cleaning' \/ overdue
<1>1. ASSUME Next PROVE Kind
  <2>1. ASSUME NEW c \in Calls, Acquire(c) PROVE Kind
    BY <2>1 DEF Acquire, Looks, holdVars
  <2>2. ASSUME NEW c \in Calls, CoolingOver(c) PROVE Kind
    BY <2>2 DEF CoolingOver, LooksWithPermit, Looks, holdVars
  <2>3. ASSUME NEW c \in Calls, WindowOver(c) PROVE Kind
    BY <2>3 DEF WindowOver, LooksWithPermit, Looks, holdVars
  <2>4. ASSUME NEW c \in Calls, Served(c) PROVE Kind
    BY <2>4 DEF Served, Looks, Send, holdVars
  <2>5. ASSUME NEW c \in Calls, AcquireTimeout(c) PROVE Kind
    BY <2>5 DEF AcquireTimeout, holdVars
  <2>6. ASSUME NEW c \in Calls, Answers(c) PROVE Kind
    BY <2>6 DEF Answers, OnSuccess, holdVars
  <2>7. ASSUME NEW c \in Calls, HandsOver(c) PROVE Kind
    BY <2>7 DEF HandsOver, holdVars
  <2>8. ASSUME NEW c \in Calls, NEW cause \in Errors, Fails(c, cause)
        PROVE  Kind
    BY <2>8 DEF Fails, Report, holdVars
  <2>9. ASSUME NEW c \in Calls, Thoughtless(c) PROVE Kind
    BY <2>9 DEF Thoughtless, Looks, Send, holdVars
  <2>10. ASSUME NEW c \in Calls, BackoffOver(c) PROVE Kind
    BY <2>10 DEF BackoffOver, holdVars
  <2>11. ASSUME NEW c \in Calls, Streams(c) PROVE Kind
    BY <2>11 DEF Streams, holdVars
  <2>12. ASSUME NEW c \in Calls, FirstChunk(c) PROVE Kind
    BY <2>12 DEF FirstChunk, OnSuccess, holdVars
  <2>13. ASSUME NEW c \in Calls, NEW cause \in Causes, StreamEnds(c, cause)
        PROVE  Kind
    BY <2>13 DEF StreamEnds, holdVars
  <2>14. ASSUME NEW c \in Calls, NEW cause \in {"fatal", "cancelled"}, ReadHangs(c, cause)
        PROVE  Kind
    BY <2>14 DEF ReadHangs, Quarantine, holdVars
  <2>15. ASSUME NEW c \in Calls, Closed(c) PROVE Kind
    BY <2>15 DEF Closed, Report, Quarantine, holdVars
  <2>16. ASSUME NEW c \in Calls, Cancel(c) PROVE Kind
    BY <2>16 DEF Cancel, Quarantine, holdVars
  <2>17. ASSUME NEW t \in cleaning, CleanupEnds(t) PROVE Kind
    BY <2>17 DEF CleanupEnds, holdVars
  <2>18. ASSUME PauseEnds PROVE Kind
    BY <2>18 DEF PauseEnds, holdVars
  <2>19. ASSUME WindowSlides PROVE Kind
    BY <2>19 DEF WindowSlides, holdVars
  <2>20. ASSUME DeadlinePasses PROVE Kind
    BY <2>20 DEF DeadlinePasses, holdVars
  <2>. QED
    BY <1>1, <2>1, <2>2, <2>3, <2>4, <2>5, <2>6, <2>7, <2>8, <2>9, <2>10,
       <2>11, <2>12, <2>13, <2>14, <2>15, <2>16, <2>17, <2>18, <2>19, <2>20
       DEF Next, LimiterStep, ProviderStep, CallStep, TimePasses
<1>2. [Next]_vars => [Kind]_vars
  BY <1>1
<1>. QED
  BY <1>2, PTL DEF Spec, HoldIsKept

-----------------------------------------------------------------------------
(* Wake-ups.  The waiters are in a strict order, so that while there are any *)
(* one of them is first; then every operator of the semaphore leaves a free *)
(* permit with a waiter only if another one, granted already, will see it.  *)

Ordered(s) ==
    \A c \in Calls :
        /\ s.ahead[c] \subseteq Waiters(s) \ {c}
        /\ \A d \in s.ahead[c] : s.ahead[d] \subseteq s.ahead[c]

Awake(s) ==
    \/ s.value = 0 \/ Waiters(s) = {}
    \/ \E c \in Calls : s.pc[c] = "granted"

Serves(s) == s \in Shape /\ Ordered(s) /\ Awake(s)

LEMMA SomeoneIsFirst ==
    ASSUME NEW s, s \in Shape, Ordered(s), Waiters(s) # {}
    PROVE  First(s) # {}
<1>. DEFINE D == {n \in Nat : \E c \in Waiters(s) : n = Cardinality(s.ahead[c])}
<1>1. \A c \in Calls : IsFiniteSet(s.ahead[c]) /\ Cardinality(s.ahead[c]) \in Nat
  <2>1. \A c \in Calls : s.ahead[c] \in SUBSET Calls
    BY DEF Shape
  <2>. QED
    BY <2>1, FS_Subset, FS_CardinalityType, LimitsAssumption
<1>2. D \subseteq Nat /\ D # {}
  BY <1>1 DEF Waiters
<1>3. PICK m \in D : \A n \in D : ~(<<n, m>> \in OpToRel(<, Nat))
  <2>. HIDE DEF D
  <2>. QED
    BY <1>2, NatLessThanWellFounded, WFMin
<1>4. \A n \in D : ~(n < m)
  BY <1>2, <1>3 DEF OpToRel
<1>5. PICK c \in Waiters(s) : m = Cardinality(s.ahead[c])
  OBVIOUS
<1>6. ASSUME NEW d \in s.ahead[c]
      PROVE  FALSE
  <2>1. /\ c \in Calls /\ d \in Calls /\ d \in Waiters(s)
        /\ s.ahead[d] \subseteq s.ahead[c] /\ d \notin s.ahead[d]
    BY DEF Ordered, Waiters
  <2>2. s.ahead[d] \in SUBSET (s.ahead[c] \ {d})
    BY <2>1
  <2>3. Cardinality(s.ahead[d]) <= Cardinality(s.ahead[c] \ {d})
    BY <1>1, <2>1, <2>2, FS_Subset, FS_RemoveElement
  <2>4. Cardinality(s.ahead[c] \ {d}) = Cardinality(s.ahead[c]) - 1
    BY <1>1, <2>1, FS_RemoveElement
  <2>5. Cardinality(s.ahead[d]) \in D
    BY <1>1, <2>1
  <2>. HIDE DEF D
  <2>. QED
    BY <1>1, <1>4, <1>5, <2>1, <2>3, <2>4, <2>5
<1>. QED
  BY <1>5, <1>6 DEF First

LEMMA WakingServes ==
    ASSUME NEW s, s \in Shape, Ordered(s)
    PROVE  Serves(Woken(s))
<1>1. CASE ~(s.value > 0 /\ First(s) # {})
  <2>1. s.value = 0 \/ Waiters(s) = {}
    BY <1>1, SomeoneIsFirst DEF Shape
  <2>. QED
    BY <1>1, <2>1 DEF Woken, Serves, Awake
<1>2. CASE s.value > 0 /\ First(s) # {}
  <2>. DEFINE d == CHOOSE d \in First(s) : TRUE
              r == [pc |-> [s.pc EXCEPT ![d] = "granted"],
                    ahead |-> [b \in Calls |-> s.ahead[b] \ {d}],
                    value |-> s.value - 1,
                    permits |-> s.permits \cup {d}]
  <2>1. d \in Calls /\ s.pc[d] = "queued"
    BY <1>2 DEF First, Waiters
  <2>2. Woken(s) = r
    BY <1>2 DEF Woken
  <2>. HIDE DEF d
  <2>3. r \in Shape /\ r.pc[d] = "granted"
    BY <1>2, <2>1 DEF Shape, PCs, Acquiring
  <2>4. Waiters(r) = Waiters(s) \ {d}
    BY <2>1 DEF Waiters, Shape
  <2>5. \A b \in Calls : r.ahead[b] = s.ahead[b] \ {d}
    OBVIOUS
  <2>. HIDE DEF r
  <2>6. Ordered(r)
    BY <2>4, <2>5 DEF Ordered, Waiters
  <2>. QED
    BY <2>1, <2>2, <2>3, <2>6 DEF Serves, Awake
<1>. QED
  BY <1>1, <1>2

LEMMA MovingServes ==
    ASSUME NEW s, Serves(s), NEW c \in Calls, NEW to \in PCs \ {"queued"},
           s.pc[c] # "queued"
    PROVE  /\ Moved(s, c, to) \in Shape /\ Ordered(Moved(s, c, to))
           /\ s.pc[c] # "granted" => Serves(Moved(s, c, to))
<1>. DEFINE m == Moved(s, c, to)
<1>1. m \in Shape
  BY DEF Serves, Shape, Moved
<1>2. \A b \in Calls : m.pc[b] = IF b = c THEN to ELSE s.pc[b]
  BY DEF Serves, Shape, Moved
<1>3. m.ahead = s.ahead /\ m.value = s.value
  BY DEF Serves, Shape, Moved
<1>. HIDE DEF m
<1>4. Waiters(m) = Waiters(s)
  BY <1>2 DEF Waiters
<1>5. Ordered(m)
  BY <1>3, <1>4 DEF Serves, Ordered
<1>6. ASSUME s.pc[c] # "granted" PROVE Awake(m)
  <2>1. CASE s.value = 0 \/ Waiters(s) = {}
    BY <1>3, <1>4, <2>1 DEF Awake
  <2>2. ASSUME NEW d \in Calls, s.pc[d] = "granted" PROVE Awake(m)
    BY <1>2, <1>6, <2>2 DEF Awake
  <2>. QED
    BY <2>1, <2>2 DEF Serves, Awake
<1>. QED
  BY <1>1, <1>5, <1>6 DEF Serves, m

LEMMA ReleasingServes ==
    ASSUME NEW s, Serves(s), NEW c \in Calls, NEW to \in PCs \ {"queued"},
           s.pc[c] # "queued"
    PROVE  Serves(Released(s, c, to))
<1>. DEFINE t == [pc |-> [s.pc EXCEPT ![c] = to], ahead |-> s.ahead,
                  value |-> s.value + 1, permits |-> s.permits \ {c}]
<1>1. t \in Shape
  BY DEF Serves, Shape
<1>2. Waiters(t) = Waiters(s)
  BY DEF Serves, Shape, Waiters
<1>3. Ordered(t)
  BY <1>2 DEF Serves, Ordered
<1>4. Released(s, c, to) = Woken(t)
  BY DEF Released
<1>. HIDE DEF t
<1>. QED
  BY <1>1, <1>3, <1>4, WakingServes

LEMMA GivingUpServes ==
    ASSUME NEW s, Serves(s), NEW c \in Calls, NEW to \in PCs \ {"queued", "granted"}
    PROVE  Serves(GaveUp(s, c, to))
<1>1. CASE s.pc[c] = "granted"
  BY <1>1, ReleasingServes DEF GaveUp
<1>2. CASE s.pc[c] # "granted"
  <2>. DEFINE g == [s EXCEPT !.pc = [s.pc EXCEPT ![c] = to],
                             !.ahead = [d \in Calls |->
                                IF d = c THEN {} ELSE s.ahead[d] \ {c}]]
  <2>1. g \in Shape
    BY DEF Serves, Shape
  <2>2. \A b \in Calls : /\ g.pc[b] = IF b = c THEN to ELSE s.pc[b]
                         /\ g.ahead[b] = IF b = c THEN {} ELSE s.ahead[b] \ {c}
    BY DEF Serves, Shape
  <2>3. g.value = s.value
    BY DEF Serves, Shape
  <2>4. GaveUp(s, c, to) = g
    BY <1>2 DEF GaveUp
  <2>. HIDE DEF g
  <2>5. Waiters(g) = Waiters(s) \ {c}
    BY <2>2 DEF Waiters
  <2>6. Ordered(g)
    <3>1. \A b \in Calls : /\ s.ahead[b] \subseteq Waiters(s) \ {b}
                           /\ \A d \in s.ahead[b] : s.ahead[d] \subseteq s.ahead[b]
                           /\ s.ahead[b] \subseteq Calls
      BY DEF Serves, Shape, Ordered
    <3>2. ASSUME NEW b \in Calls
          PROVE  g.ahead[b] \subseteq Waiters(g) \ {b}
      <4>1. g.ahead[b] \subseteq s.ahead[b] \ {c}
        BY <2>2
      <4>2. s.ahead[b] \subseteq Waiters(s) \ {b}
        BY <3>1
      <4>. QED
        BY <2>5, <4>1, <4>2
    <3>3. ASSUME NEW b \in Calls, NEW d \in g.ahead[b]
          PROVE  g.ahead[d] \subseteq g.ahead[b]
      <4>1. g.ahead[b] = s.ahead[b] \ {c} /\ d \in s.ahead[b] /\ d # c
        BY <2>2, <3>3
      <4>2. d \in Calls /\ g.ahead[d] = s.ahead[d] \ {c}
        BY <2>2, <3>1, <4>1
      <4>. QED
        BY <3>1, <4>1, <4>2
    <3>. QED
      BY <3>2, <3>3 DEF Ordered
  <2>7. Awake(g)
    BY <1>2, <2>2, <2>3, <2>5 DEF Serves, Awake
  <2>. QED
    BY <2>1, <2>4, <2>6, <2>7 DEF Serves
<1>. QED
  BY <1>1, <1>2

\* A step that leads to a state where this holds keeps it.
LEMMA ServesNext ==
    ASSUME NEW s, Serves(s), Becomes(s)
    PROVE  Serves(Now)'
BY DEF Becomes, Now, Serves, Shape, Ordered, Awake, Waiters

\* Of a call that neither waits nor was granted a permit.
Elsewhere(c) == pc[c] \notin {"queued", "granted"}

LEMMA ServesMove ==
    ASSUME Serves(Now), NEW c \in Calls, NEW to \in PCs \ {"queued"}, Elsewhere(c),
           \/ Becomes(Moved(Now, c, to)) \/ Becomes(Released(Now, c, to))
           \/ Becomes(Returned(c, to))
    PROVE  Serves(Now)'
<1>1. Now.pc[c] \notin {"queued", "granted"}
  BY DEF Now, Elsewhere
<1>2. Serves(Moved(Now, c, to)) /\ Serves(Released(Now, c, to))
  BY <1>1, MovingServes, ReleasingServes
<1>3. Serves(Returned(c, to))
  BY <1>2 DEF Returned
<1>. QED
  BY <1>2, <1>3, ServesNext

\* A granted call that runs wakes the next.
LEMMA ServedServes ==
    ASSUME Serves(Now), NEW c \in Calls, Served(c)
    PROVE  Serves(Now)'
<1>1. Now.pc[c] = "granted"
  BY DEF Now, Served
<1>2. Moved(Now, c, "calling") \in Shape /\ Ordered(Moved(Now, c, "calling"))
  BY <1>1, MovingServes DEF PCs, Asking
<1>3. Serves(Granted(c))
  BY <1>2, WakingServes DEF Granted
<1>4. Granted(c).pc[c] # "queued"
  <2>1. Moved(Now, c, "calling").pc[c] = "calling"
    BY DEF Serves, Shape, Moved
  <2>. DEFINE m == Moved(Now, c, "calling")
  <2>. HIDE DEF m
  <2>2. Woken(m).pc[c] # "queued"
    BY <1>2, <2>1 DEF m, Woken, Shape
  <2>. QED
    BY <2>2 DEF m, Granted
<1>5. Serves(Released(Granted(c), c, "failed"))
  BY <1>3, <1>4, ReleasingServes DEF PCs, Final
<1>. QED
  BY <1>3, <1>5, ServesNext DEF Served

\* A call that finds a permit free and nobody waiting, or queues.
LEMMA WindowServes ==
    ASSUME Serves(Now), NEW c \in Calls, Elsewhere(c), Window(c)
    PROVE  Serves(Now)'
<1>1. ASSUME NEW to \in {"failed", "windowed"}, Becomes(Moved(Now, c, to))
      PROVE  Serves(Now)'
  BY <1>1, ServesMove DEF PCs, Final, Acquiring
<1>2. ASSUME value > 0, \A d \in Calls : pc[d] \notin {"queued", "granted"},
             pc' = [pc EXCEPT ![c] = "calling"], ahead' = ahead,
             value' = value - 1, permits' = permits \cup {c}
      PROVE  Serves(Now)'
  <2>1. Now' \in Shape
    BY <1>2 DEF Serves, Shape, Now, PCs, Asking
  <2>2. Waiters(Now) = {} /\ Waiters(Now)' = {}
    BY <1>2 DEF Serves, Shape, Now, Waiters
  <2>3. Ordered(Now)'
    BY <1>2, <2>2 DEF Serves, Ordered, Now
  <2>. QED
    BY <2>1, <2>2, <2>3 DEF Serves, Awake
<1>3. ASSUME value = 0 \/ \E d \in Calls : pc[d] \in {"queued", "granted"},
             pc' = [pc EXCEPT ![c] = "queued"],
             ahead' = [ahead EXCEPT ![c] = Waiters(Now)],
             UNCHANGED <<value, permits>>
      PROVE  Serves(Now)'
  <2>0. Waiters(Now) \subseteq Calls /\ c \notin Waiters(Now)
    BY DEF Waiters, Now, Elsewhere
  <2>1. Now' \in Shape
    BY <1>3, <2>0 DEF Serves, Shape, Now, PCs, Acquiring
  <2>2. Waiters(Now)' = Waiters(Now) \cup {c}
    BY <1>3 DEF Serves, Shape, Now, Waiters
  <2>3. \A b \in Calls : ahead'[b] = IF b = c THEN Waiters(Now) ELSE ahead[b]
    BY <1>3 DEF Serves, Shape, Now
  <2>4. Ordered(Now)'
    <3>1. \A b \in Calls : /\ ahead[b] \subseteq Waiters(Now) \ {b}
                           /\ \A d \in ahead[b] : ahead[d] \subseteq ahead[b]
      BY DEF Serves, Ordered, Now
    <3>2. \A b \in Calls : /\ ahead'[b] \subseteq Waiters(Now)' \ {b}
                           /\ \A d \in ahead'[b] : ahead'[d] \subseteq ahead'[b]
      BY <2>0, <2>2, <2>3, <3>1
    <3>. QED
      BY <3>2 DEF Ordered, Now
  <2>5. Awake(Now)'
    <3>1. value = 0 \/ \E d \in Calls : pc[d] = "granted"
      BY <1>3 DEF Serves, Awake, Now, Waiters
    <3>2. value' = 0 \/ \E d \in Calls : pc'[d] = "granted"
      BY <1>3, <3>1 DEF Elsewhere, Serves, Shape, Now
    <3>. QED
      BY <3>2 DEF Awake, Now
  <2>. QED
    BY <2>1, <2>4, <2>5 DEF Serves
<1>. QED
  BY <1>1, <1>2, <1>3 DEF Window, Slot

LEMMA ServesStep ==
    ASSUME Serves(Now), \A c \in Calls : why[c] \in Causes, Next
    PROVE  Serves(Now)'
<1>1. ASSUME NEW c \in Calls, LimiterStep(c) \/ Acquire(c)
      PROVE  Serves(Now)'
  <2>1. CASE Served(c)
    BY <2>1, ServedServes
  <2>2. CASE Window(c) /\ Elsewhere(c)
    BY <2>2, WindowServes
  <2>3. ASSUME Elsewhere(c), NEW to \in {"failed", "cooling"},
               Becomes(Moved(Now, c, to))
        PROVE  Serves(Now)'
    BY <2>3, ServesMove DEF PCs, Final, Acquiring
  <2>. QED
    BY <1>1, <2>1, <2>2, <2>3 DEF LimiterStep, CoolingOver, WindowOver, Acquire,
       Elsewhere
<1>2. ASSUME NEW c \in Calls, NEW to \in PCs \ {"queued"}, Elsewhere(c),
             \/ Becomes(Moved(Now, c, to)) \/ Becomes(Released(Now, c, to))
             \/ Becomes(Returned(c, to))
      PROVE  Serves(Now)'
  BY <1>2, ServesMove
<1>3. ASSUME NEW c \in Calls, NEW to \in {"failed", "cancelled"},
             Becomes(GaveUp(Now, c, to))
      PROVE  Serves(Now)'
  BY <1>3, GivingUpServes, ServesNext DEF PCs, Final
<1>4. CASE UNCHANGED <<pc, semVars>>
  BY <1>4 DEF semVars, Now, Serves, Shape, Ordered, Awake, Waiters
<1>5. ASSUME NEW c \in Calls, ProviderStep(c)
      PROVE  Serves(Now)'
  <2>1. Elsewhere(c)
    BY <1>5 DEF ProviderStep, Answers, Streams, Thoughtless, FirstChunk, Fails,
       StreamEnds, Elsewhere, Asking, Streaming
  <2>2. PICK to \in PCs \ {"queued"} :
          Becomes(Moved(Now, c, to)) \/ Becomes(Released(Now, c, to))
    BY <1>5 DEF ProviderStep, Answers, Streams, Thoughtless, FirstChunk, Fails,
       StreamEnds, PCs, Asking, Streaming, Final
  <2>. QED
    BY <1>2, <2>1, <2>2
<1>6. ASSUME NEW c \in Calls, HandsOver(c) \/ BackoffOver(c)
      PROVE  Serves(Now)'
  BY <1>2, <1>6 DEF HandsOver, BackoffOver, Elsewhere, PCs, Final
<1>7. ASSUME NEW c \in Calls, Closed(c)
      PROVE  Serves(Now)'
  <2>1. AfterClose(c) \in PCs \ {"queued"}
    BY DEF AfterClose, PCs, Final
  <2>. QED
    BY <1>2, <1>7, <2>1 DEF Closed, Elsewhere
<1>8. ASSUME NEW c \in Calls, AcquireTimeout(c) \/ Cancel(c)
      PROVE  Serves(Now)'
  <2>1. CASE AcquireTimeout(c)
    BY <1>3, <2>1 DEF AcquireTimeout
  <2>2. CASE Cancel(c)
    BY <1>2, <1>3, <2>2 DEF Cancel, Elsewhere, Asking, PCs, Final
  <2>. QED
    BY <1>8, <2>1, <2>2
<1>9. ASSUME NEW c \in Calls, NEW cause \in {"fatal", "cancelled"}, ReadHangs(c, cause)
      PROVE  Serves(Now)'
  BY <1>2, <1>9 DEF ReadHangs, Elsewhere, Streaming, PCs, Final
<1>10. ASSUME NEW t \in cleaning, CleanupEnds(t) PROVE Serves(Now)'
  BY <1>4, <1>10 DEF CleanupEnds
<1>11. ASSUME TimePasses PROVE Serves(Now)'
  BY <1>4, <1>11 DEF TimePasses, PauseEnds, WindowSlides, DeadlinePasses
<1>. QED
  BY <1>1, <1>5, <1>6, <1>7, <1>8, <1>9, <1>10, <1>11 DEF Next, CallStep

\* Whatever calls wait, time out, are cancelled or end, and in whatever order:
\* a permit never lies idle while a call sleeps for it.
THEOREM PermitsAreNeverIdle == Spec => []NoPermitIdles
<1>1. Init => Serves(Now)
  BY LimitsAssumption DEF Init, Serves, Shape, Ordered, Awake, Waiters, Now, PCs
<1>2. IInv /\ Serves(Now) /\ [Next]_vars => Serves(Now)'
  <2>1. ASSUME IInv, Serves(Now), Next PROVE Serves(Now)'
    BY <2>1, Own, ServesStep
  <2>2. ASSUME Serves(Now), UNCHANGED vars PROVE Serves(Now)'
    BY <2>2 DEF vars, semVars, Now, Serves, Shape, Ordered, Awake, Waiters
  <2>. QED
    BY <2>1, <2>2
<1>3. Serves(Now) => NoPermitIdles
  BY DEF Serves, Awake, NoPermitIdles, Now
<1>. QED
  BY <1>1, <1>2, <1>3, Inductive, PTL DEF Spec

\* So a call that waits is never the only one left: somebody owns a permit, or
\* was granted one, whose return or next step wakes the next.
THEOREM WaitersHaveAnOwner ==
    Spec => [](Waiters(Now) # {} => permits # {})
<1>1. ASSUME IInv, NoPermitIdles, Waiters(Now) # {}
      PROVE  permits # {}
  <2>1. CASE value = 0
    <3>1. Cardinality({}) = 0
      BY FS_EmptySet
    <3>. QED
      BY <1>1, <2>1, <3>1, Permits, LimitsAssumption
  <2>2. ASSUME NEW c \in Calls, pc[c] = "granted" PROVE permits # {}
    BY <1>1, <2>2 DEF IInv, CallInv, Owning
  <2>. QED
    BY <1>1, <2>1, <2>2 DEF NoPermitIdles
<1>. QED
  BY <1>1, Inductive, PermitsAreNeverIdle, PTL
=============================================================================
