------------------------ MODULE ChannelQueuesProofs ------------------------
(***************************************************************************)
(* Proofs about ChannelQueues, for any number of sessions and messages and *)
(* any queue size.  The dict of queues and the consumer tasks agree        *)
(* (RegisteredIsServed) whatever is interleaved; on top of that, a session *)
(* whose cleanup never met a message, and whose run no /stop killed, has   *)
(* one consumer, the registered queue's, which waits for the run it        *)
(* started as long as that streams (QueueInv).                             *)
(***************************************************************************)
EXTENDS ChannelQueues, TLAPS

LEMMA NoneIsNoMessage == None \notin Msgs
BY SizesAssumption DEF None, Msgs

\* What a consumer takes from its queue is the message in the first place.
LEMMA HeadOfQueue ==
    ASSUME NEW s \in Seq(Msgs), s # <<>>
    PROVE  Head(s) = s[1] /\ 1 \in DOMAIN s /\ Head(s) \in Msgs
OBVIOUS

\* It is still queued, and nowhere else.
LEMMA HeadIsQueued ==
    ASSUME InQueue, NEW q \in Msgs, content[q] \in Seq(Msgs), content[q] # <<>>
    PROVE  fate[Head(content[q])] = "queued" /\ at[Head(content[q])] = q
<1>1. Head(content[q]) = content[q][1] /\ 1 \in DOMAIN content[q]
  BY HeadOfQueue
<1>. QED
  BY <1>1 DEF InQueue

\* A cancelled consumer is done for, or was on a stream and will survive.
LEMMA CutOff ==
    ASSUME NEW q \in Msgs, \E p \in Struck(q) : Goes(q, p)
    PROVE  \/ Goes(q, "cancelled")
           \/ Goes(q, "interrupted") /\ consumer[q] \in {"working", "deaf"}
BY DEF Struck

LEMMA TypeInit == Init => TypeOK
<1>. SUFFICES ASSUME Init PROVE TypeOK
  OBVIOUS
<1>1. content \in [Msgs -> Seq(Msgs)] /\ \A q \in Msgs : Len(content[q]) <= MaxSize
  BY SizesAssumption DEF Init
<1>. QED
  BY <1>1, SizesAssumption DEF Init, TypeOK, Fates, Tasks, Stages

LEMMA TypeStep ==
    ASSUME TypeOK, Next
    PROVE  TypeOK'
<1>. USE SizesAssumption
<1>1. ASSUME NEW m \in Msgs, Receive(m) PROVE TypeOK'
  BY <1>1 DEF Receive, IsFirst, Move, runVars, cleanVars, TypeOK, Fates,
     Waiting, Handed, Tasks, Serving
<1>2. ASSUME NEW m \in Msgs, Locate(m) PROVE TypeOK'
  BY <1>2 DEF Locate, IsFirst, Move, runVars, cleanVars, TypeOK, Fates,
     Waiting, Handed, Tasks, Serving
<1>3. ASSUME NEW m \in Msgs, Put(m) PROVE TypeOK'
  <2>1. ASSUME NEW p \in Msgs
        PROVE  content'[p] \in Seq(Msgs) /\ Len(content'[p]) <= MaxSize
    <3>1. CASE p = at[m]
      <4>1. /\ content'[p] = Append(content[p], m) /\ content[p] \in Seq(Msgs)
            /\ Len(content[p]) < MaxSize
        BY <1>3, <3>1 DEF Put, TypeOK
      <4>2. Len(content'[p]) = Len(content[p]) + 1 /\ Len(content[p]) \in Nat
        BY <4>1
      <4>. QED
        BY <4>1, <4>2
    <3>2. CASE p # at[m]
      BY <1>3, <3>2 DEF Put, TypeOK
    <3>. QED
      BY <3>1, <3>2
  <2>2. content' \in [Msgs -> Seq(Msgs)]
    <3>1. content' = [p \in Msgs |-> content'[p]]
      BY <1>3 DEF Put, TypeOK
    <3>. QED
      BY <2>1, <3>1
  <2>3. fate' \in [Msgs -> Fates]
    BY <1>3 DEF Put, Move, TypeOK, Fates, Waiting
  <2>4. UNCHANGED <<session, at, late, consumer, queues, idle, runVars, cleanVars,
                    stops, disturbed>>
    BY <1>3 DEF Put
  <2>. QED
    BY <2>1, <2>2, <2>3, <2>4 DEF TypeOK, runVars, cleanVars
<1>4. ASSUME NEW m \in Msgs, Block(m) PROVE TypeOK'
  BY <1>4 DEF Block, Those, IsFirst, Move, runVars, cleanVars, TypeOK, Fates,
     Waiting, Handed, Tasks, Serving
<1>5. ASSUME NEW m \in Msgs, PutBlocked(m) PROVE TypeOK'
  <2>1. ASSUME NEW p \in Msgs
        PROVE  content'[p] \in Seq(Msgs) /\ Len(content'[p]) <= MaxSize
    <3>1. CASE p = at[m]
      <4>1. /\ content'[p] = Append(content[p], m) /\ content[p] \in Seq(Msgs)
            /\ Len(content[p]) < MaxSize
        BY <1>5, <3>1 DEF PutBlocked, TypeOK
      <4>2. Len(content'[p]) = Len(content[p]) + 1 /\ Len(content[p]) \in Nat
        BY <4>1
      <4>. QED
        BY <4>1, <4>2
    <3>2. CASE p # at[m]
      BY <1>5, <3>2 DEF PutBlocked, TypeOK
    <3>. QED
      BY <3>1, <3>2
  <2>2. content' \in [Msgs -> Seq(Msgs)]
    <3>1. content' = [p \in Msgs |-> content'[p]]
      BY <1>5 DEF PutBlocked, TypeOK
    <3>. QED
      BY <2>1, <3>1
  <2>3. fate' \in [Msgs -> Fates]
    BY <1>5 DEF PutBlocked, Move, TypeOK, Fates, Waiting
  <2>4. UNCHANGED <<session, at, late, consumer, queues, idle, runVars, cleanVars,
                    stops, disturbed>>
    BY <1>5 DEF PutBlocked
  <2>. QED
    BY <2>1, <2>2, <2>3, <2>4 DEF TypeOK, runVars, cleanVars
<1>6. ASSUME NEW m \in Msgs, PutTimesOut(m) PROVE TypeOK'
  BY <1>6 DEF PutTimesOut, Move, runVars, cleanVars, TypeOK, Fates, Waiting,
     Handed, Tasks, Serving
<1>7. ASSUME NEW q \in Msgs, Take(q) PROVE TypeOK'
  <2>1. content[q] \in Seq(Msgs) /\ content[q] # <<>>
    BY <1>7 DEF Take, TypeOK
  <2>2. /\ Head(content[q]) \in Msgs /\ Tail(content[q]) \in Seq(Msgs)
        /\ Len(Tail(content[q])) <= Len(content[q])
    BY <2>1
  <2>3. content' = [content EXCEPT ![q] = Tail(content[q])]
    BY <1>7 DEF Take
  <2>4. /\ content' \in [Msgs -> Seq(Msgs)]
        /\ \A p \in Msgs : Len(content'[p]) <= MaxSize
    BY <2>2, <2>3, SizesAssumption DEF TypeOK
  <2>5. fate' \in [Msgs -> Fates]
    BY <1>7, <2>2 DEF Take, Move, TypeOK, Fates, Handed
  <2>6. consumer' \in [Msgs -> Tasks]
    BY <1>7 DEF Take, Goes, TypeOK, Tasks, Serving
  <2>7. UNCHANGED <<session, at, late, queues, idle, runVars, cleanVars, stops,
                    disturbed>>
    BY <1>7 DEF Take
  <2>. QED
    BY <2>4, <2>5, <2>6, <2>7 DEF TypeOK, runVars, cleanVars
<1>8. ASSUME NEW q \in Msgs, Drain(q) PROVE TypeOK'
  <2>1. /\ content' \in [Msgs -> Seq(Msgs)]
        /\ \A p \in Msgs : Len(content'[p]) <= MaxSize
    BY <1>8, SizesAssumption DEF Drain, TypeOK
  <2>2. fate' \in [Msgs -> Fates]
    BY <1>8 DEF Drain, TypeOK, Fates, Handed
  <2>3. consumer' \in [Msgs -> Tasks] /\ stops' \in 0 .. MaxStops
    BY <1>8 DEF Drain, Goes, TypeOK, Tasks, Serving
  <2>4. UNCHANGED <<session, at, late, queues, idle, runVars, cleanVars, disturbed>>
    BY <1>8 DEF Drain
  <2>. QED
    BY <2>1, <2>2, <2>3, <2>4 DEF TypeOK, runVars, cleanVars
<1>9. ASSUME NEW q \in Msgs, Open(q) PROVE TypeOK'
  BY <1>9 DEF Open, Stages, SetRun, Goes, msgVars, cleanVars, TypeOK, Fates, Waiting,
     Handed, Tasks, Serving
<1>10. ASSUME NEW q \in Msgs, Submit(q) PROVE TypeOK'
  BY <1>10 DEF Submit, Stages, SetRun, Goes, MoveBatch, cleanVars, Batch, Those,
     TypeOK, Fates, Waiting, Handed, Tasks, Serving
<1>11. ASSUME NEW q \in Msgs, OpenFails(q) PROVE TypeOK'
  BY <1>11 DEF OpenFails, Stages, SetRun, Goes, MoveBatch, Batch, Those, cleanVars,
     TypeOK, Fates, Waiting, Handed, Tasks, Serving
<1>12. ASSUME NEW q \in Msgs, Ignore(q) PROVE TypeOK'
  BY <1>12 DEF Ignore, Goes, MoveBatch, Touched, runVars, cleanVars, Batch,
     Those, TypeOK, Fates, Waiting, Handed, Tasks, Serving
<1>13. ASSUME NEW q \in Msgs, Fail(q) PROVE TypeOK'
  BY <1>13 DEF Fail, Goes, MoveBatch, runVars, cleanVars, Batch, Those,
     TypeOK, Fates, Waiting, Handed, Tasks, Serving
<1>14. ASSUME NEW q \in Msgs, Finish(q) PROVE TypeOK'
  BY <1>14 DEF Finish, Goes, Touched, msgVars, runVars, cleanVars, TypeOK,
     Fates, Waiting, Handed, Tasks, Serving
<1>15. ASSUME NEW q \in Msgs, Survive(q) PROVE TypeOK'
  BY <1>15 DEF Survive, Goes, Touched, msgVars, cleanVars, runVars, TypeOK,
     Fates, Waiting, Handed, Tasks, Serving
<1>16. ASSUME NEW q \in Msgs, Exit(q) PROVE TypeOK'
  BY <1>16 DEF Exit, Stages, Goes, MoveBatch, Batch, Those, TypeOK, Fates, Waiting,
     Handed, Tasks, Serving
<1>17. ASSUME NEW q \in Msgs, GrowIdle(q) PROVE TypeOK'
  BY <1>17 DEF GrowIdle, Those, msgVars, runVars, cleanVars, TypeOK, Fates,
     Waiting, Handed, Tasks, Serving
<1>18. ASSUME NEW s \in Sessions, Scan(s) PROVE TypeOK'
  <2>1. CASE queues[s] = None
    BY <1>18, <2>1 DEF Scan, runVars, Remove, msgVars, TypeOK, Expired
  <2>2. CASE queues[s] # None
    <3>1. consumer' \in [Msgs -> Tasks] /\ queues' \in [Sessions -> Msgs \cup {None}]
      BY <1>18, <2>2 DEF Scan, runVars, Remove, Struck, Goes, TypeOK, Tasks,
         Serving
    <3>2. /\ awaiting' \in Msgs /\ disturbed' \in SUBSET Sessions
          /\ todo' \in SUBSET Sessions
      BY <1>18, <2>2 DEF Scan, runVars, Remove, Expired, TypeOK
    <3>. QED
      BY <1>18, <3>1, <3>2 DEF Scan, runVars, msgVars, TypeOK
  <2>. QED
    BY <2>1, <2>2
<1>19. ASSUME NEW s \in Sessions, CleanNext(s) PROVE TypeOK'
  <2>1. CASE queues[s] = None
    BY <1>19, <2>1 DEF CleanNext, runVars, Remove, msgVars, TypeOK, Expired
  <2>2. CASE queues[s] # None
    <3>1. consumer' \in [Msgs -> Tasks] /\ queues' \in [Sessions -> Msgs \cup {None}]
      BY <1>19, <2>2 DEF CleanNext, runVars, Remove, Struck, Goes, TypeOK, Tasks,
         Serving
    <3>2. /\ awaiting' \in Msgs /\ disturbed' \in SUBSET Sessions
          /\ todo' \in SUBSET Sessions
      BY <1>19, <2>2 DEF CleanNext, runVars, Remove, Expired, TypeOK
    <3>. QED
      BY <1>19, <3>1, <3>2 DEF CleanNext, runVars, msgVars, TypeOK
  <2>. QED
    BY <2>1, <2>2
<1>20. ASSUME NEW s \in Sessions, StreamEnds(s) PROVE TypeOK'
  BY <1>20 DEF StreamEnds, Stages, SetRun, msgVars, cleanVars, TypeOK, Fates, Waiting,
     Handed, Tasks, Serving
<1>21. ASSUME NEW s \in Sessions, RunDone(s) PROVE TypeOK'
  BY <1>21 DEF RunDone, Stages, SetRun, msgVars, cleanVars, TypeOK, Fates, Waiting,
     Handed, Tasks, Serving
<1>22. ASSUME NEW s \in Sessions, Kill(s) PROVE TypeOK'
  <2>1. stops' \in 0 .. MaxStops /\ disturbed' \in SUBSET Sessions
    BY <1>22 DEF Kill, TypeOK
  <2>2. consumer' \in [Msgs -> Tasks]
    BY <1>22 DEF Kill, TypeOK, Tasks
  <2>3. run' \in [Sessions -> Msgs \cup {None}] /\ stage' \in [Sessions -> Stages]
    BY <1>22 DEF Kill, SetRun, TypeOK, Stages
  <2>4. UNCHANGED <<msgVars, content, queues, idle, cleanVars>>
    BY <1>22 DEF Kill
  <2>. QED
    BY <2>1, <2>2, <2>3, <2>4 DEF TypeOK, msgVars, cleanVars
<1>23. ASSUME NEW s \in Sessions, Dismiss(s) PROVE TypeOK'
  BY <1>23 DEF Dismiss, Stages, SetRun, msgVars, cleanVars, TypeOK, Fates, Waiting,
     Handed, Tasks, Serving
<1>24. ASSUME NEW s \in Sessions, ClearQueue(s) PROVE TypeOK'
  <2>1. /\ content' \in [Msgs -> Seq(Msgs)]
        /\ \A p \in Msgs : Len(content'[p]) <= MaxSize
    BY <1>24, SizesAssumption DEF ClearQueue, TypeOK
  <2>2. fate' \in [Msgs -> Fates]
    BY <1>24 DEF ClearQueue, TypeOK, Fates, Handed
  <2>3. consumer' \in [Msgs -> Tasks] /\ stops' \in 0 .. MaxStops
    BY <1>24 DEF ClearQueue, Goes, TypeOK, Tasks, Serving
  <2>4. UNCHANGED <<session, at, late, queues, idle, runVars, cleanVars, disturbed>>
    BY <1>24 DEF ClearQueue
  <2>. QED
    BY <2>1, <2>2, <2>3, <2>4 DEF TypeOK, runVars, cleanVars
<1>. QED
  BY <1>1, <1>2, <1>3, <1>4, <1>5, <1>6, <1>7, <1>8, <1>9, <1>10, <1>11,
     <1>12, <1>13, <1>14, <1>15, <1>16, <1>17, <1>18, <1>19, <1>20, <1>21,
     <1>22, <1>23, <1>24
     DEF Next, Enqueue, Consume, RunSteps

QueueInv ==
    /\ TypeOK /\ MadeOnce /\ OwnQueue /\ InQueue /\ RegisteredIsServed
    /\ TheConsumer /\ InHand /\ RunIsAwaited

\* What the cleanup does to a queue that it finds.
LEMMA Removal ==
    ASSUME TypeOK, RegisteredIsServed, NEW s \in Sessions, Remove(s), queues[s] # None
    PROVE  \E q \in Msgs, p \in {"cancelled", "interrupted"} :
             /\ q = queues[s] /\ session[q] = s
             /\ consumer[q] \in Serving \cup {"deaf"}
             /\ queues' = [queues EXCEPT ![s] = None]
             /\ consumer' = [consumer EXCEPT ![q] = p]
             /\ disturbed \subseteq disturbed'
             /\ (consumer[q] = "waiting" /\ p = "cancelled") \/ s \in disturbed'
<1>1. PICK q \in Msgs : /\ q = queues[s] /\ session[q] = s
                        /\ consumer[q] \in Serving \cup {"deaf"}
  BY DEF TypeOK, RegisteredIsServed
<1>2. queues' = [queues EXCEPT ![s] = None] /\ \E p \in Struck(q) : Goes(q, p)
  BY <1>1 DEF Remove
<1>3. PICK p \in {"cancelled", "interrupted"} :
        /\ consumer' = [consumer EXCEPT ![q] = p]
        /\ p = "interrupted" => consumer[q] \in {"working", "deaf"}
  BY <1>1, <1>2, CutOff DEF Goes
<1>4. disturbed \subseteq disturbed' /\ (consumer[q] = "waiting" \/ s \in disturbed')
  BY <1>1 DEF Remove
<1>. QED
  BY <1>1, <1>2, <1>3, <1>4

\* A queue is made once: its message never waits for a queue again.
LEMMA MadeOnceStep ==
    ASSUME TypeOK, MadeOnce, RegisteredIsServed, Next
    PROVE  MadeOnce'
<1>. USE NoneIsNoMessage
<1>1. ASSUME NEW m \in Msgs, Receive(m) PROVE MadeOnce'
  BY <1>1 DEF Receive, IsFirst, Move, runVars, cleanVars, TypeOK, MadeOnce,
     RegisteredIsServed, Serving
<1>2. ASSUME NEW m \in Msgs, Locate(m) PROVE MadeOnce'
  BY <1>2 DEF Locate, IsFirst, Move, runVars, cleanVars, TypeOK, MadeOnce,
     RegisteredIsServed, Serving
<1>3. ASSUME NEW m \in Msgs, Put(m) PROVE MadeOnce'
  BY <1>3 DEF Put, Those, IsFirst, Move, runVars, cleanVars, TypeOK, MadeOnce,
     RegisteredIsServed, Serving
<1>4. ASSUME NEW m \in Msgs, Block(m) PROVE MadeOnce'
  BY <1>4 DEF Block, Those, IsFirst, Move, runVars, cleanVars, TypeOK,
     MadeOnce, RegisteredIsServed, Serving
<1>5. ASSUME NEW m \in Msgs, PutBlocked(m) PROVE MadeOnce'
  BY <1>5 DEF PutBlocked, Those, IsFirst, Move, runVars, cleanVars, TypeOK,
     MadeOnce, RegisteredIsServed, Serving
<1>6. ASSUME NEW m \in Msgs, PutTimesOut(m) PROVE MadeOnce'
  BY <1>6 DEF PutTimesOut, Move, runVars, cleanVars, TypeOK, MadeOnce,
     RegisteredIsServed, Serving
<1>7. ASSUME NEW q \in Msgs, Take(q) PROVE MadeOnce'
  BY <1>7 DEF Take, Move, Goes, runVars, cleanVars, TypeOK, MadeOnce,
     RegisteredIsServed, Serving
<1>8. ASSUME NEW q \in Msgs, Drain(q) PROVE MadeOnce'
  BY <1>8 DEF Drain, Those, Goes, runVars, cleanVars, TypeOK, MadeOnce,
     RegisteredIsServed, Serving
<1>9. ASSUME NEW q \in Msgs, Open(q) PROVE MadeOnce'
  BY <1>9 DEF Open, SetRun, Goes, msgVars, cleanVars, TypeOK, MadeOnce,
     RegisteredIsServed, Serving
<1>10. ASSUME NEW q \in Msgs, Submit(q) PROVE MadeOnce'
  BY <1>10 DEF Submit, SetRun, Goes, MoveBatch, cleanVars, Batch, Those,
     TypeOK, MadeOnce, RegisteredIsServed, Serving
<1>11. ASSUME NEW q \in Msgs, OpenFails(q) PROVE MadeOnce'
  BY <1>11 DEF OpenFails, SetRun, Goes, MoveBatch, Batch, Those, cleanVars,
     TypeOK, MadeOnce, RegisteredIsServed, Serving
<1>12. ASSUME NEW q \in Msgs, Ignore(q) PROVE MadeOnce'
  BY <1>12 DEF Ignore, Goes, MoveBatch, Touched, runVars, cleanVars, Batch,
     Those, TypeOK, MadeOnce, RegisteredIsServed, Serving
<1>13. ASSUME NEW q \in Msgs, Fail(q) PROVE MadeOnce'
  BY <1>13 DEF Fail, Goes, MoveBatch, runVars, cleanVars, Batch, Those,
     TypeOK, MadeOnce, RegisteredIsServed, Serving
<1>14. ASSUME NEW q \in Msgs, Finish(q) PROVE MadeOnce'
  BY <1>14 DEF Finish, Goes, Touched, msgVars, runVars, cleanVars, TypeOK,
     MadeOnce, RegisteredIsServed, Serving
<1>15. ASSUME NEW q \in Msgs, Survive(q) PROVE MadeOnce'
  BY <1>15 DEF Survive, Goes, Touched, msgVars, cleanVars, runVars, TypeOK,
     MadeOnce, RegisteredIsServed, Serving
<1>16. ASSUME NEW q \in Msgs, Exit(q) PROVE MadeOnce'
  BY <1>16 DEF Exit, Goes, MoveBatch, Batch, Those, TypeOK, MadeOnce,
     RegisteredIsServed, Serving
<1>17. ASSUME NEW q \in Msgs, GrowIdle(q) PROVE MadeOnce'
  BY <1>17 DEF GrowIdle, Those, msgVars, runVars, cleanVars, TypeOK, MadeOnce,
     RegisteredIsServed, Serving
<1>18. ASSUME NEW s \in Sessions, Scan(s) PROVE MadeOnce'
  <2>1. Remove(s) /\ UNCHANGED <<session, fate, at>>
    BY <1>18 DEF Scan, msgVars
  <2>2. CASE queues[s] = None
    BY <2>1, <2>2 DEF Remove, MadeOnce
  <2>3. CASE queues[s] # None
    <3>1. PICK q \in Msgs, p \in {"cancelled", "interrupted"} :
            /\ q = queues[s] /\ session[q] = s
            /\ consumer[q] \in Serving \cup {"deaf"}
            /\ queues' = [queues EXCEPT ![s] = None]
            /\ consumer' = [consumer EXCEPT ![q] = p]
            /\ disturbed \subseteq disturbed'
            /\ (consumer[q] = "waiting" /\ p = "cancelled") \/ s \in disturbed'
      BY <2>1, <2>3, Removal
    <3>. QED
      BY <2>1, <3>1, NoneIsNoMessage DEF TypeOK, MadeOnce, Serving
  <2>. QED
    BY <2>2, <2>3
<1>19. ASSUME NEW s \in Sessions, CleanNext(s) PROVE MadeOnce'
  <2>1. Remove(s) /\ UNCHANGED <<session, fate, at>>
    BY <1>19 DEF CleanNext, msgVars
  <2>2. CASE queues[s] = None
    BY <2>1, <2>2 DEF Remove, MadeOnce
  <2>3. CASE queues[s] # None
    <3>1. PICK q \in Msgs, p \in {"cancelled", "interrupted"} :
            /\ q = queues[s] /\ session[q] = s
            /\ consumer[q] \in Serving \cup {"deaf"}
            /\ queues' = [queues EXCEPT ![s] = None]
            /\ consumer' = [consumer EXCEPT ![q] = p]
            /\ disturbed \subseteq disturbed'
            /\ (consumer[q] = "waiting" /\ p = "cancelled") \/ s \in disturbed'
      BY <2>1, <2>3, Removal
    <3>. QED
      BY <2>1, <3>1, NoneIsNoMessage DEF TypeOK, MadeOnce, Serving
  <2>. QED
    BY <2>2, <2>3
<1>20. ASSUME NEW s \in Sessions, StreamEnds(s) PROVE MadeOnce'
  BY <1>20 DEF StreamEnds, SetRun, msgVars, cleanVars, TypeOK, MadeOnce,
     RegisteredIsServed, Serving
<1>21. ASSUME NEW s \in Sessions, RunDone(s) PROVE MadeOnce'
  BY <1>21 DEF RunDone, SetRun, msgVars, cleanVars, TypeOK, MadeOnce,
     RegisteredIsServed, Serving
<1>22. ASSUME NEW s \in Sessions, Kill(s) PROVE MadeOnce'
  BY <1>22 DEF Kill, SetRun, msgVars, cleanVars, TypeOK, MadeOnce,
     RegisteredIsServed, Serving
<1>23. ASSUME NEW s \in Sessions, Dismiss(s) PROVE MadeOnce'
  BY <1>23 DEF Dismiss, SetRun, msgVars, cleanVars, TypeOK, MadeOnce,
     RegisteredIsServed, Serving
<1>24. ASSUME NEW s \in Sessions, ClearQueue(s) PROVE MadeOnce'
  BY <1>24 DEF ClearQueue, Those, runVars, cleanVars, TypeOK, MadeOnce,
     RegisteredIsServed, Serving
<1>. QED
  BY <1>1, <1>2, <1>3, <1>4, <1>5, <1>6, <1>7, <1>8, <1>9, <1>10, <1>11,
     <1>12, <1>13, <1>14, <1>15, <1>16, <1>17, <1>18, <1>19, <1>20, <1>21,
     <1>22, <1>23, <1>24
     DEF Next, Enqueue, Consume, RunSteps

\* The queue a task gets is its session's, for the dict says so.
LEMMA OwnQueueStep ==
    ASSUME TypeOK, OwnQueue, InQueue, RegisteredIsServed, Next
    PROVE  OwnQueue'
<1>. USE NoneIsNoMessage
<1>1. ASSUME NEW m \in Msgs, Receive(m) PROVE OwnQueue'
  BY <1>1 DEF Receive, IsFirst, Move, runVars, cleanVars, TypeOK, OwnQueue,
     RegisteredIsServed
<1>2. ASSUME NEW m \in Msgs, Locate(m) PROVE OwnQueue'
  BY <1>2 DEF Locate, IsFirst, Move, runVars, cleanVars, TypeOK, OwnQueue,
     RegisteredIsServed
<1>3. ASSUME NEW m \in Msgs, Put(m) PROVE OwnQueue'
  BY <1>3 DEF Put, Those, IsFirst, Move, runVars, cleanVars, TypeOK, OwnQueue,
     RegisteredIsServed
<1>4. ASSUME NEW m \in Msgs, Block(m) PROVE OwnQueue'
  BY <1>4 DEF Block, Those, IsFirst, Move, runVars, cleanVars, TypeOK,
     OwnQueue, RegisteredIsServed
<1>5. ASSUME NEW m \in Msgs, PutBlocked(m) PROVE OwnQueue'
  BY <1>5 DEF PutBlocked, Those, IsFirst, Move, runVars, cleanVars, TypeOK,
     OwnQueue, RegisteredIsServed
<1>6. ASSUME NEW m \in Msgs, PutTimesOut(m) PROVE OwnQueue'
  BY <1>6 DEF PutTimesOut, Move, runVars, cleanVars, TypeOK, OwnQueue,
     RegisteredIsServed
<1>7. ASSUME NEW q \in Msgs, Take(q) PROVE OwnQueue'
  <2>1. Head(content[q]) = content[q][1] /\ 1 \in DOMAIN content[q]
    BY <1>7 DEF Take, TypeOK
  <2>2. fate[Head(content[q])] = "queued"
    BY <2>1 DEF InQueue
  <2>. QED
    BY <1>7, <2>2 DEF Take, Move, TypeOK, OwnQueue
<1>8. ASSUME NEW q \in Msgs, Drain(q) PROVE OwnQueue'
  BY <1>8 DEF Drain, Those, Goes, runVars, cleanVars, TypeOK, OwnQueue,
     RegisteredIsServed
<1>9. ASSUME NEW q \in Msgs, Open(q) PROVE OwnQueue'
  BY <1>9 DEF Open, SetRun, Goes, msgVars, cleanVars, TypeOK, OwnQueue,
     RegisteredIsServed
<1>10. ASSUME NEW q \in Msgs, Submit(q) PROVE OwnQueue'
  BY <1>10 DEF Submit, SetRun, Goes, MoveBatch, cleanVars, Batch, Those,
     TypeOK, OwnQueue, RegisteredIsServed
<1>11. ASSUME NEW q \in Msgs, OpenFails(q) PROVE OwnQueue'
  BY <1>11 DEF OpenFails, SetRun, Goes, MoveBatch, Batch, Those, cleanVars,
     TypeOK, OwnQueue, RegisteredIsServed
<1>12. ASSUME NEW q \in Msgs, Ignore(q) PROVE OwnQueue'
  BY <1>12 DEF Ignore, Goes, MoveBatch, Touched, runVars, cleanVars, Batch,
     Those, TypeOK, OwnQueue, RegisteredIsServed
<1>13. ASSUME NEW q \in Msgs, Fail(q) PROVE OwnQueue'
  BY <1>13 DEF Fail, Goes, MoveBatch, runVars, cleanVars, Batch, Those,
     TypeOK, OwnQueue, RegisteredIsServed
<1>14. ASSUME NEW q \in Msgs, Finish(q) PROVE OwnQueue'
  BY <1>14 DEF Finish, Goes, Touched, msgVars, runVars, cleanVars, TypeOK,
     OwnQueue, RegisteredIsServed
<1>15. ASSUME NEW q \in Msgs, Survive(q) PROVE OwnQueue'
  BY <1>15 DEF Survive, Goes, Touched, msgVars, cleanVars, runVars, TypeOK,
     OwnQueue, RegisteredIsServed
<1>16. ASSUME NEW q \in Msgs, Exit(q) PROVE OwnQueue'
  BY <1>16 DEF Exit, Goes, MoveBatch, Batch, Those, TypeOK, OwnQueue,
     RegisteredIsServed
<1>17. ASSUME NEW q \in Msgs, GrowIdle(q) PROVE OwnQueue'
  BY <1>17 DEF GrowIdle, Those, msgVars, runVars, cleanVars, TypeOK, OwnQueue,
     RegisteredIsServed
<1>18. ASSUME NEW s \in Sessions, Scan(s) PROVE OwnQueue'
  BY <1>18 DEF Scan, runVars, Remove, Expired, msgVars, Goes, TypeOK,
     OwnQueue, RegisteredIsServed
<1>19. ASSUME NEW s \in Sessions, CleanNext(s) PROVE OwnQueue'
  BY <1>19 DEF CleanNext, runVars, Remove, msgVars, Goes, TypeOK, OwnQueue,
     RegisteredIsServed
<1>20. ASSUME NEW s \in Sessions, StreamEnds(s) PROVE OwnQueue'
  BY <1>20 DEF StreamEnds, SetRun, msgVars, cleanVars, TypeOK, OwnQueue,
     RegisteredIsServed
<1>21. ASSUME NEW s \in Sessions, RunDone(s) PROVE OwnQueue'
  BY <1>21 DEF RunDone, SetRun, msgVars, cleanVars, TypeOK, OwnQueue,
     RegisteredIsServed
<1>22. ASSUME NEW s \in Sessions, Kill(s) PROVE OwnQueue'
  BY <1>22 DEF Kill, SetRun, msgVars, cleanVars, TypeOK, OwnQueue,
     RegisteredIsServed
<1>23. ASSUME NEW s \in Sessions, Dismiss(s) PROVE OwnQueue'
  BY <1>23 DEF Dismiss, SetRun, msgVars, cleanVars, TypeOK, OwnQueue,
     RegisteredIsServed
<1>24. ASSUME NEW s \in Sessions, ClearQueue(s) PROVE OwnQueue'
  BY <1>24 DEF ClearQueue, Those, runVars, cleanVars, TypeOK, OwnQueue,
     RegisteredIsServed
<1>. QED
  BY <1>1, <1>2, <1>3, <1>4, <1>5, <1>6, <1>7, <1>8, <1>9, <1>10, <1>11,
     <1>12, <1>13, <1>14, <1>15, <1>16, <1>17, <1>18, <1>19, <1>20, <1>21,
     <1>22, <1>23, <1>24
     DEF Next, Enqueue, Consume, RunSteps

\* Queues hold each message once, in one queue.
LEMMA InQueueStep ==
    ASSUME TypeOK, OwnQueue, InQueue, Next
    PROVE  InQueue'
<1>1. ASSUME NEW m \in Msgs, Receive(m) PROVE InQueue'
  BY <1>1 DEF Receive, IsFirst, Move, runVars, cleanVars, TypeOK, InQueue
<1>2. ASSUME NEW m \in Msgs, Locate(m) PROVE InQueue'
  BY <1>2 DEF Locate, IsFirst, Move, runVars, cleanVars, TypeOK, InQueue
<1>3. ASSUME NEW m \in Msgs, Put(m) PROVE InQueue'
  <2>1. m \in Msgs /\ fate[m] # "queued" /\ at[m] \in Msgs
    BY <1>3, NoneIsNoMessage DEF Put, IsFirst, Those, TypeOK, OwnQueue
  <2>2. /\ content[at[m]] \in Seq(Msgs)
        /\ \A i \in DOMAIN content[at[m]] : content[at[m]][i] # m
    BY <2>1 DEF TypeOK, InQueue
  <2>3. /\ fate' = [fate EXCEPT ![m] = "queued"] /\ at' = at
        /\ content' = [content EXCEPT ![at[m]] = Append(content[at[m]], m)]
    BY <1>3 DEF Put, Move
  <2>4. ASSUME NEW p \in Msgs, NEW i \in DOMAIN content'[p], NEW j \in DOMAIN content'[p]
        PROVE  /\ fate'[content'[p][i]] = "queued" /\ at'[content'[p][i]] = p
               /\ content'[p][i] = content'[p][j] => i = j
    <3>1. CASE p # at[m]
      <4>1. content'[p] = content[p] /\ content[p] \in Seq(Msgs)
        BY <2>1, <2>3, <3>1 DEF TypeOK
      <4>. QED
        BY <2>1, <2>3, <4>1 DEF TypeOK, InQueue
    <3>2. CASE p = at[m]
      <4>1. content'[p] = Append(content[p], m) /\ content[p] \in Seq(Msgs)
        BY <2>1, <2>3, <3>2 DEF TypeOK
      <4>2. /\ DOMAIN content'[p] = 1 .. Len(content[p]) + 1
            /\ DOMAIN content[p] = 1 .. Len(content[p]) /\ Len(content[p]) \in Nat
            /\ \A k \in 1 .. Len(content[p]) : content'[p][k] = content[p][k]
            /\ content'[p][Len(content[p]) + 1] = m
        BY <4>1
      <4>3. \A k \in DOMAIN content[p] :
                /\ content[p][k] \in Msgs /\ content[p][k] # m
                /\ fate'[content[p][k]] = "queued" /\ at'[content[p][k]] = p
        BY <2>2, <2>3, <3>2, <4>1 DEF TypeOK, InQueue
      <4>4. fate'[m] = "queued" /\ at'[m] = p
        BY <2>3, <3>2 DEF TypeOK
      <4>5. \A k, l \in DOMAIN content[p] : content[p][k] = content[p][l] => k = l
        BY DEF InQueue
      <4>6. \A k \in DOMAIN content'[p] :
              \/ k \in DOMAIN content[p] /\ content'[p][k] = content[p][k]
              \/ k = Len(content[p]) + 1 /\ content'[p][k] = m
        BY <4>2
      <4>. QED
        BY <4>3, <4>4, <4>5, <4>6
    <3>. QED
      BY <3>1, <3>2
  <2>. QED
    BY <2>4 DEF InQueue
<1>4. ASSUME NEW m \in Msgs, Block(m) PROVE InQueue'
  BY <1>4 DEF Block, Those, IsFirst, Move, runVars, cleanVars, TypeOK, InQueue
<1>5. ASSUME NEW m \in Msgs, PutBlocked(m) PROVE InQueue'
  <2>1. m \in Msgs /\ fate[m] # "queued" /\ at[m] \in Msgs
    BY <1>5, NoneIsNoMessage DEF PutBlocked, IsFirst, Those, TypeOK, OwnQueue
  <2>2. /\ content[at[m]] \in Seq(Msgs)
        /\ \A i \in DOMAIN content[at[m]] : content[at[m]][i] # m
    BY <2>1 DEF TypeOK, InQueue
  <2>3. /\ fate' = [fate EXCEPT ![m] = "queued"] /\ at' = at
        /\ content' = [content EXCEPT ![at[m]] = Append(content[at[m]], m)]
    BY <1>5 DEF PutBlocked, Move
  <2>4. ASSUME NEW p \in Msgs, NEW i \in DOMAIN content'[p], NEW j \in DOMAIN content'[p]
        PROVE  /\ fate'[content'[p][i]] = "queued" /\ at'[content'[p][i]] = p
               /\ content'[p][i] = content'[p][j] => i = j
    <3>1. CASE p # at[m]
      <4>1. content'[p] = content[p] /\ content[p] \in Seq(Msgs)
        BY <2>1, <2>3, <3>1 DEF TypeOK
      <4>. QED
        BY <2>1, <2>3, <4>1 DEF TypeOK, InQueue
    <3>2. CASE p = at[m]
      <4>1. content'[p] = Append(content[p], m) /\ content[p] \in Seq(Msgs)
        BY <2>1, <2>3, <3>2 DEF TypeOK
      <4>2. /\ DOMAIN content'[p] = 1 .. Len(content[p]) + 1
            /\ DOMAIN content[p] = 1 .. Len(content[p]) /\ Len(content[p]) \in Nat
            /\ \A k \in 1 .. Len(content[p]) : content'[p][k] = content[p][k]
            /\ content'[p][Len(content[p]) + 1] = m
        BY <4>1
      <4>3. \A k \in DOMAIN content[p] :
                /\ content[p][k] \in Msgs /\ content[p][k] # m
                /\ fate'[content[p][k]] = "queued" /\ at'[content[p][k]] = p
        BY <2>2, <2>3, <3>2, <4>1 DEF TypeOK, InQueue
      <4>4. fate'[m] = "queued" /\ at'[m] = p
        BY <2>3, <3>2 DEF TypeOK
      <4>5. \A k, l \in DOMAIN content[p] : content[p][k] = content[p][l] => k = l
        BY DEF InQueue
      <4>6. \A k \in DOMAIN content'[p] :
              \/ k \in DOMAIN content[p] /\ content'[p][k] = content[p][k]
              \/ k = Len(content[p]) + 1 /\ content'[p][k] = m
        BY <4>2
      <4>. QED
        BY <4>3, <4>4, <4>5, <4>6
    <3>. QED
      BY <3>1, <3>2
  <2>. QED
    BY <2>4 DEF InQueue
<1>6. ASSUME NEW m \in Msgs, PutTimesOut(m) PROVE InQueue'
  BY <1>6 DEF PutTimesOut, Move, runVars, cleanVars, TypeOK, InQueue
<1>7. ASSUME NEW q \in Msgs, Take(q) PROVE InQueue'
  <2>1. content[q] \in Seq(Msgs) /\ content[q] # <<>>
    BY <1>7 DEF Take, TypeOK
  <2>2. /\ fate' = [fate EXCEPT ![Head(content[q])] = "taken"] /\ at' = at
        /\ content' = [content EXCEPT ![q] = Tail(content[q])]
    BY <1>7 DEF Take, Move
  <2>3. /\ Head(content[q]) = content[q][1] /\ 1 \in DOMAIN content[q]
        /\ at[Head(content[q])] = q
    BY <2>1 DEF InQueue
  <2>4. ASSUME NEW p \in Msgs, NEW i \in DOMAIN content'[p], NEW j \in DOMAIN content'[p]
        PROVE  /\ fate'[content'[p][i]] = "queued" /\ at'[content'[p][i]] = p
               /\ content'[p][i] = content'[p][j] => i = j
    <3>1. CASE p # q
      <4>1. content'[p] = content[p] /\ content[p] \in Seq(Msgs)
        BY <2>2, <3>1 DEF TypeOK
      <4>. QED
        BY <2>2, <2>3, <3>1, <4>1 DEF TypeOK, InQueue
    <3>2. CASE p = q
      <4>1. content'[p] = Tail(content[q])
        BY <2>2, <3>2 DEF TypeOK
      <4>2. /\ i \in Nat /\ i + 1 \in DOMAIN content[q] /\ content'[p][i] = content[q][i + 1]
            /\ j \in Nat /\ j + 1 \in DOMAIN content[q] /\ content'[p][j] = content[q][j + 1]
            /\ i # 0
        BY <2>1, <4>1
      <4>3. /\ content[q][i + 1] # content[q][1] /\ content[q][i + 1] \in Msgs
            /\ fate[content[q][i + 1]] = "queued" /\ at[content[q][i + 1]] = q
            /\ content[q][i + 1] = content[q][j + 1] => i + 1 = j + 1
        BY <2>1, <2>3, <4>2 DEF InQueue
      <4>. QED
        BY <2>2, <2>3, <3>2, <4>2, <4>3 DEF TypeOK
    <3>. QED
      BY <3>1, <3>2
  <2>. QED
    BY <2>4 DEF InQueue
<1>8. ASSUME NEW q \in Msgs, Drain(q) PROVE InQueue'
  <2>1. ASSUME NEW p \in Msgs, NEW i \in DOMAIN content'[p], NEW j \in DOMAIN content'[p]
        PROVE  /\ fate'[content'[p][i]] = "queued" /\ at'[content'[p][i]] = p
               /\ content'[p][i] = content'[p][j] => i = j
    <3>1. p # q /\ content'[p] = content[p] /\ content[p] \in Seq(Msgs)
      BY <1>8 DEF Drain, TypeOK
    <3>2. at[content[p][i]] = p /\ fate[content[p][i]] = "queued" /\ content[p][i] \in Msgs
      BY <3>1 DEF InQueue
    <3>3. fate'[content[p][i]] = "queued" /\ at' = at
      BY <1>8, <3>1, <3>2 DEF Drain, Those, TypeOK
    <3>. QED
      BY <3>1, <3>2, <3>3 DEF InQueue
  <2>. QED
    BY <2>1 DEF InQueue
<1>9. ASSUME NEW q \in Msgs, Open(q) PROVE InQueue'
  BY <1>9 DEF Open, SetRun, Goes, msgVars, cleanVars, TypeOK, InQueue
<1>10. ASSUME NEW q \in Msgs, Submit(q) PROVE InQueue'
  BY <1>10 DEF Submit, SetRun, Goes, MoveBatch, cleanVars, Batch, Those,
     TypeOK, InQueue
<1>11. ASSUME NEW q \in Msgs, OpenFails(q) PROVE InQueue'
  BY <1>11 DEF OpenFails, SetRun, Goes, MoveBatch, Batch, Those, cleanVars,
     TypeOK, InQueue
<1>12. ASSUME NEW q \in Msgs, Ignore(q) PROVE InQueue'
  BY <1>12 DEF Ignore, Goes, MoveBatch, Touched, runVars, cleanVars, Batch,
     Those, TypeOK, InQueue
<1>13. ASSUME NEW q \in Msgs, Fail(q) PROVE InQueue'
  BY <1>13 DEF Fail, Goes, MoveBatch, runVars, cleanVars, Batch, Those,
     TypeOK, InQueue
<1>14. ASSUME NEW q \in Msgs, Finish(q) PROVE InQueue'
  BY <1>14 DEF Finish, Goes, Touched, msgVars, runVars, cleanVars, TypeOK,
     InQueue
<1>15. ASSUME NEW q \in Msgs, Survive(q) PROVE InQueue'
  BY <1>15 DEF Survive, Goes, Touched, msgVars, cleanVars, runVars, TypeOK,
     InQueue
<1>16. ASSUME NEW q \in Msgs, Exit(q) PROVE InQueue'
  BY <1>16 DEF Exit, Goes, MoveBatch, Batch, Those, TypeOK, InQueue
<1>17. ASSUME NEW q \in Msgs, GrowIdle(q) PROVE InQueue'
  BY <1>17 DEF GrowIdle, Those, msgVars, runVars, cleanVars, TypeOK, InQueue
<1>18. ASSUME NEW s \in Sessions, Scan(s) PROVE InQueue'
  BY <1>18 DEF Scan, runVars, Remove, Expired, msgVars, Goes, TypeOK, InQueue
<1>19. ASSUME NEW s \in Sessions, CleanNext(s) PROVE InQueue'
  BY <1>19 DEF CleanNext, runVars, Remove, msgVars, Goes, TypeOK, InQueue
<1>20. ASSUME NEW s \in Sessions, StreamEnds(s) PROVE InQueue'
  BY <1>20 DEF StreamEnds, SetRun, msgVars, cleanVars, TypeOK, InQueue
<1>21. ASSUME NEW s \in Sessions, RunDone(s) PROVE InQueue'
  BY <1>21 DEF RunDone, SetRun, msgVars, cleanVars, TypeOK, InQueue
<1>22. ASSUME NEW s \in Sessions, Kill(s) PROVE InQueue'
  BY <1>22 DEF Kill, SetRun, msgVars, cleanVars, TypeOK, InQueue
<1>23. ASSUME NEW s \in Sessions, Dismiss(s) PROVE InQueue'
  BY <1>23 DEF Dismiss, SetRun, msgVars, cleanVars, TypeOK, InQueue
<1>24. ASSUME NEW s \in Sessions, ClearQueue(s) PROVE InQueue'
  <2>1. ASSUME NEW p \in Msgs, NEW i \in DOMAIN content'[p], NEW j \in DOMAIN content'[p]
        PROVE  /\ fate'[content'[p][i]] = "queued" /\ at'[content'[p][i]] = p
               /\ content'[p][i] = content'[p][j] => i = j
    <3>1. p # queues[s] /\ content'[p] = content[p] /\ content[p] \in Seq(Msgs)
      BY <1>24 DEF ClearQueue, TypeOK
    <3>2. at[content[p][i]] = p /\ fate[content[p][i]] = "queued" /\ content[p][i] \in Msgs
      BY <3>1 DEF InQueue
    <3>3. fate'[content[p][i]] = "queued" /\ at' = at
      BY <1>24, <3>1, <3>2 DEF ClearQueue, Those, TypeOK
    <3>. QED
      BY <3>1, <3>2, <3>3 DEF InQueue
  <2>. QED
    BY <2>1 DEF InQueue
<1>. QED
  BY <1>1, <1>2, <1>3, <1>4, <1>5, <1>6, <1>7, <1>8, <1>9, <1>10, <1>11,
     <1>12, <1>13, <1>14, <1>15, <1>16, <1>17, <1>18, <1>19, <1>20, <1>21,
     <1>22, <1>23, <1>24
     DEF Next, Enqueue, Consume, RunSteps

\* No consumer ends or is cancelled while its queue can be found.
LEMMA RegisteredStep ==
    ASSUME TypeOK, MadeOnce, RegisteredIsServed, Next
    PROVE  RegisteredIsServed'
<1>. USE NoneIsNoMessage
<1>1. ASSUME NEW m \in Msgs, Receive(m) PROVE RegisteredIsServed'
  BY <1>1 DEF Receive, IsFirst, Move, runVars, cleanVars, TypeOK, MadeOnce,
     RegisteredIsServed, Serving
<1>2. ASSUME NEW m \in Msgs, Locate(m) PROVE RegisteredIsServed'
  BY <1>2 DEF Locate, IsFirst, Move, runVars, cleanVars, TypeOK, MadeOnce,
     RegisteredIsServed, Serving
<1>3. ASSUME NEW m \in Msgs, Put(m) PROVE RegisteredIsServed'
  BY <1>3 DEF Put, Those, IsFirst, Move, runVars, cleanVars, TypeOK, MadeOnce,
     RegisteredIsServed, Serving
<1>4. ASSUME NEW m \in Msgs, Block(m) PROVE RegisteredIsServed'
  BY <1>4 DEF Block, Those, IsFirst, Move, runVars, cleanVars, TypeOK,
     MadeOnce, RegisteredIsServed, Serving
<1>5. ASSUME NEW m \in Msgs, PutBlocked(m) PROVE RegisteredIsServed'
  BY <1>5 DEF PutBlocked, Those, IsFirst, Move, runVars, cleanVars, TypeOK,
     MadeOnce, RegisteredIsServed, Serving
<1>6. ASSUME NEW m \in Msgs, PutTimesOut(m) PROVE RegisteredIsServed'
  BY <1>6 DEF PutTimesOut, Move, runVars, cleanVars, TypeOK, MadeOnce,
     RegisteredIsServed, Serving
<1>7. ASSUME NEW q \in Msgs, Take(q) PROVE RegisteredIsServed'
  BY <1>7 DEF Take, Move, Goes, runVars, cleanVars, TypeOK, MadeOnce,
     RegisteredIsServed, Serving
<1>8. ASSUME NEW q \in Msgs, Drain(q) PROVE RegisteredIsServed'
  BY <1>8 DEF Drain, Those, Goes, runVars, cleanVars, TypeOK, MadeOnce,
     RegisteredIsServed, Serving
<1>9. ASSUME NEW q \in Msgs, Open(q) PROVE RegisteredIsServed'
  BY <1>9 DEF Open, SetRun, Goes, msgVars, cleanVars, TypeOK, MadeOnce,
     RegisteredIsServed, Serving
<1>10. ASSUME NEW q \in Msgs, Submit(q) PROVE RegisteredIsServed'
  BY <1>10 DEF Submit, SetRun, Goes, MoveBatch, cleanVars, Batch, Those,
     TypeOK, MadeOnce, RegisteredIsServed, Serving
<1>11. ASSUME NEW q \in Msgs, OpenFails(q) PROVE RegisteredIsServed'
  BY <1>11 DEF OpenFails, SetRun, Goes, MoveBatch, Batch, Those, cleanVars,
     TypeOK, MadeOnce, RegisteredIsServed, Serving
<1>12. ASSUME NEW q \in Msgs, Ignore(q) PROVE RegisteredIsServed'
  BY <1>12 DEF Ignore, Goes, MoveBatch, Touched, runVars, cleanVars, Batch,
     Those, TypeOK, MadeOnce, RegisteredIsServed, Serving
<1>13. ASSUME NEW q \in Msgs, Fail(q) PROVE RegisteredIsServed'
  BY <1>13 DEF Fail, Goes, MoveBatch, runVars, cleanVars, Batch, Those,
     TypeOK, MadeOnce, RegisteredIsServed, Serving
<1>14. ASSUME NEW q \in Msgs, Finish(q) PROVE RegisteredIsServed'
  BY <1>14 DEF Finish, Goes, Touched, msgVars, runVars, cleanVars, TypeOK,
     MadeOnce, RegisteredIsServed, Serving
<1>15. ASSUME NEW q \in Msgs, Survive(q) PROVE RegisteredIsServed'
  BY <1>15 DEF Survive, Goes, Touched, msgVars, cleanVars, runVars, TypeOK,
     MadeOnce, RegisteredIsServed, Serving
<1>16. ASSUME NEW q \in Msgs, Exit(q) PROVE RegisteredIsServed'
  BY <1>16 DEF Exit, Goes, MoveBatch, Batch, Those, TypeOK, MadeOnce,
     RegisteredIsServed, Serving
<1>17. ASSUME NEW q \in Msgs, GrowIdle(q) PROVE RegisteredIsServed'
  BY <1>17 DEF GrowIdle, Those, msgVars, runVars, cleanVars, TypeOK, MadeOnce,
     RegisteredIsServed, Serving
<1>18. ASSUME NEW s \in Sessions, Scan(s) PROVE RegisteredIsServed'
  <2>1. Remove(s) /\ UNCHANGED <<session, fate, at>>
    BY <1>18 DEF Scan, msgVars
  <2>2. CASE queues[s] = None
    BY <2>1, <2>2 DEF Remove, RegisteredIsServed
  <2>3. CASE queues[s] # None
    <3>1. PICK q \in Msgs, p \in {"cancelled", "interrupted"} :
            /\ q = queues[s] /\ session[q] = s
            /\ consumer[q] \in Serving \cup {"deaf"}
            /\ queues' = [queues EXCEPT ![s] = None]
            /\ consumer' = [consumer EXCEPT ![q] = p]
            /\ disturbed \subseteq disturbed'
            /\ (consumer[q] = "waiting" /\ p = "cancelled") \/ s \in disturbed'
      BY <2>1, <2>3, Removal
    <3>. QED
      BY <2>1, <3>1, NoneIsNoMessage DEF TypeOK, RegisteredIsServed, Serving
  <2>. QED
    BY <2>2, <2>3
<1>19. ASSUME NEW s \in Sessions, CleanNext(s) PROVE RegisteredIsServed'
  <2>1. Remove(s) /\ UNCHANGED <<session, fate, at>>
    BY <1>19 DEF CleanNext, msgVars
  <2>2. CASE queues[s] = None
    BY <2>1, <2>2 DEF Remove, RegisteredIsServed
  <2>3. CASE queues[s] # None
    <3>1. PICK q \in Msgs, p \in {"cancelled", "interrupted"} :
            /\ q = queues[s] /\ session[q] = s
            /\ consumer[q] \in Serving \cup {"deaf"}
            /\ queues' = [queues EXCEPT ![s] = None]
            /\ consumer' = [consumer EXCEPT ![q] = p]
            /\ disturbed \subseteq disturbed'
            /\ (consumer[q] = "waiting" /\ p = "cancelled") \/ s \in disturbed'
      BY <2>1, <2>3, Removal
    <3>. QED
      BY <2>1, <3>1, NoneIsNoMessage DEF TypeOK, RegisteredIsServed, Serving
  <2>. QED
    BY <2>2, <2>3
<1>20. ASSUME NEW s \in Sessions, StreamEnds(s) PROVE RegisteredIsServed'
  BY <1>20 DEF StreamEnds, SetRun, msgVars, cleanVars, TypeOK, MadeOnce,
     RegisteredIsServed, Serving
<1>21. ASSUME NEW s \in Sessions, RunDone(s) PROVE RegisteredIsServed'
  BY <1>21 DEF RunDone, SetRun, msgVars, cleanVars, TypeOK, MadeOnce,
     RegisteredIsServed, Serving
<1>22. ASSUME NEW s \in Sessions, Kill(s) PROVE RegisteredIsServed'
  BY <1>22 DEF Kill, SetRun, msgVars, cleanVars, TypeOK, MadeOnce,
     RegisteredIsServed, Serving
<1>23. ASSUME NEW s \in Sessions, Dismiss(s) PROVE RegisteredIsServed'
  BY <1>23 DEF Dismiss, SetRun, msgVars, cleanVars, TypeOK, MadeOnce,
     RegisteredIsServed, Serving
<1>24. ASSUME NEW s \in Sessions, ClearQueue(s) PROVE RegisteredIsServed'
  BY <1>24 DEF ClearQueue, Those, runVars, cleanVars, TypeOK, MadeOnce,
     RegisteredIsServed, Serving
<1>. QED
  BY <1>1, <1>2, <1>3, <1>4, <1>5, <1>6, <1>7, <1>8, <1>9, <1>10, <1>11,
     <1>12, <1>13, <1>14, <1>15, <1>16, <1>17, <1>18, <1>19, <1>20, <1>21,
     <1>22, <1>23, <1>24
     DEF Next, Enqueue, Consume, RunSteps

\* In an undisturbed session a new queue is made only when no consumer is left.
LEMMA ConsumerStep ==
    ASSUME TypeOK, MadeOnce, RegisteredIsServed, TheConsumer,
           RunIsAwaited, Next
    PROVE  TheConsumer'
<1>. USE NoneIsNoMessage
<1>1. ASSUME NEW m \in Msgs, Receive(m) PROVE TheConsumer'
  BY <1>1 DEF Receive, IsFirst, Move, runVars, cleanVars, TypeOK, MadeOnce,
     RegisteredIsServed, TheConsumer, Serving
<1>2. ASSUME NEW m \in Msgs, Locate(m) PROVE TheConsumer'
  BY <1>2 DEF Locate, IsFirst, Move, runVars, cleanVars, TypeOK, MadeOnce,
     RegisteredIsServed, TheConsumer, Serving
<1>3. ASSUME NEW m \in Msgs, Put(m) PROVE TheConsumer'
  BY <1>3 DEF Put, Those, IsFirst, Move, runVars, cleanVars, TypeOK, MadeOnce,
     RegisteredIsServed, TheConsumer, Serving
<1>4. ASSUME NEW m \in Msgs, Block(m) PROVE TheConsumer'
  BY <1>4 DEF Block, Those, IsFirst, Move, runVars, cleanVars, TypeOK,
     MadeOnce, RegisteredIsServed, TheConsumer, Serving
<1>5. ASSUME NEW m \in Msgs, PutBlocked(m) PROVE TheConsumer'
  BY <1>5 DEF PutBlocked, Those, IsFirst, Move, runVars, cleanVars, TypeOK,
     MadeOnce, RegisteredIsServed, TheConsumer, Serving
<1>6. ASSUME NEW m \in Msgs, PutTimesOut(m) PROVE TheConsumer'
  BY <1>6 DEF PutTimesOut, Move, runVars, cleanVars, TypeOK, MadeOnce,
     RegisteredIsServed, TheConsumer, Serving
<1>7. ASSUME NEW q \in Msgs, Take(q) PROVE TheConsumer'
  BY <1>7 DEF Take, Move, Goes, runVars, cleanVars, TypeOK, MadeOnce,
     RegisteredIsServed, TheConsumer, Serving
<1>8. ASSUME NEW q \in Msgs, Drain(q) PROVE TheConsumer'
  BY <1>8 DEF Drain, Those, Goes, runVars, cleanVars, TypeOK, MadeOnce,
     RegisteredIsServed, TheConsumer, Serving
<1>9. ASSUME NEW q \in Msgs, Open(q) PROVE TheConsumer'
  BY <1>9 DEF Open, SetRun, Goes, msgVars, cleanVars, TypeOK, MadeOnce,
     RegisteredIsServed, TheConsumer, Serving
<1>10. ASSUME NEW q \in Msgs, Submit(q) PROVE TheConsumer'
  BY <1>10 DEF Submit, SetRun, Goes, MoveBatch, cleanVars, Batch, Those,
     TypeOK, MadeOnce, RegisteredIsServed, TheConsumer, Serving
<1>11. ASSUME NEW q \in Msgs, OpenFails(q) PROVE TheConsumer'
  BY <1>11 DEF OpenFails, SetRun, Goes, MoveBatch, Batch, Those, cleanVars,
     TypeOK, MadeOnce, RegisteredIsServed, TheConsumer, Serving
<1>12. ASSUME NEW q \in Msgs, Ignore(q) PROVE TheConsumer'
  BY <1>12 DEF Ignore, Goes, MoveBatch, Touched, runVars, cleanVars, Batch,
     Those, TypeOK, MadeOnce, RegisteredIsServed, TheConsumer, Serving
<1>13. ASSUME NEW q \in Msgs, Fail(q) PROVE TheConsumer'
  BY <1>13 DEF Fail, Goes, MoveBatch, runVars, cleanVars, Batch, Those,
     TypeOK, MadeOnce, RegisteredIsServed, TheConsumer, Serving
<1>14. ASSUME NEW q \in Msgs, Finish(q) PROVE TheConsumer'
  BY <1>14 DEF Finish, Goes, Touched, msgVars, runVars, cleanVars, TypeOK,
     MadeOnce, RegisteredIsServed, TheConsumer, Serving
<1>15. ASSUME NEW q \in Msgs, Survive(q) PROVE TheConsumer'
  BY <1>15 DEF Survive, Goes, Touched, msgVars, cleanVars, runVars, TypeOK,
     MadeOnce, RegisteredIsServed, TheConsumer, Serving
<1>16. ASSUME NEW q \in Msgs, Exit(q) PROVE TheConsumer'
  BY <1>16 DEF Exit, Goes, MoveBatch, Batch, Those, TypeOK, MadeOnce,
     RegisteredIsServed, TheConsumer, Serving
<1>17. ASSUME NEW q \in Msgs, GrowIdle(q) PROVE TheConsumer'
  BY <1>17 DEF GrowIdle, Those, msgVars, runVars, cleanVars, TypeOK, MadeOnce,
     RegisteredIsServed, TheConsumer, Serving
<1>18. ASSUME NEW s \in Sessions, Scan(s) PROVE TheConsumer'
  <2>1. Remove(s) /\ UNCHANGED <<session, fate, at>>
    BY <1>18 DEF Scan, msgVars
  <2>2. CASE queues[s] = None
    BY <2>1, <2>2 DEF Remove, TheConsumer
  <2>3. CASE queues[s] # None
    <3>1. PICK q \in Msgs, p \in {"cancelled", "interrupted"} :
            /\ q = queues[s] /\ session[q] = s
            /\ consumer[q] \in Serving \cup {"deaf"}
            /\ queues' = [queues EXCEPT ![s] = None]
            /\ consumer' = [consumer EXCEPT ![q] = p]
            /\ disturbed \subseteq disturbed'
            /\ (consumer[q] = "waiting" /\ p = "cancelled") \/ s \in disturbed'
      BY <2>1, <2>3, Removal
    <3>. QED
      BY <2>1, <3>1, NoneIsNoMessage DEF TypeOK, RegisteredIsServed, TheConsumer, Serving
  <2>. QED
    BY <2>2, <2>3
<1>19. ASSUME NEW s \in Sessions, CleanNext(s) PROVE TheConsumer'
  <2>1. Remove(s) /\ UNCHANGED <<session, fate, at>>
    BY <1>19 DEF CleanNext, msgVars
  <2>2. CASE queues[s] = None
    BY <2>1, <2>2 DEF Remove, TheConsumer
  <2>3. CASE queues[s] # None
    <3>1. PICK q \in Msgs, p \in {"cancelled", "interrupted"} :
            /\ q = queues[s] /\ session[q] = s
            /\ consumer[q] \in Serving \cup {"deaf"}
            /\ queues' = [queues EXCEPT ![s] = None]
            /\ consumer' = [consumer EXCEPT ![q] = p]
            /\ disturbed \subseteq disturbed'
            /\ (consumer[q] = "waiting" /\ p = "cancelled") \/ s \in disturbed'
      BY <2>1, <2>3, Removal
    <3>. QED
      BY <2>1, <3>1, NoneIsNoMessage DEF TypeOK, RegisteredIsServed, TheConsumer, Serving
  <2>. QED
    BY <2>2, <2>3
<1>20. ASSUME NEW s \in Sessions, StreamEnds(s) PROVE TheConsumer'
  BY <1>20 DEF StreamEnds, SetRun, msgVars, cleanVars, TypeOK, MadeOnce,
     RegisteredIsServed, TheConsumer, Serving
<1>21. ASSUME NEW s \in Sessions, RunDone(s) PROVE TheConsumer'
  BY <1>21 DEF RunDone, SetRun, msgVars, cleanVars, TypeOK, MadeOnce,
     RegisteredIsServed, TheConsumer, Serving
<1>22. ASSUME NEW s \in Sessions, Kill(s) PROVE TheConsumer'
  <2>1. /\ run[s] \in Msgs /\ session[run[s]] = s
        /\ \A q \in Msgs : consumer'[q] = consumer[q] \/ q = run[s]
        /\ disturbed' = disturbed \cup {s}
        /\ UNCHANGED <<session, queues>>
    BY <1>22 DEF Kill, msgVars, RunIsAwaited, TypeOK
  <2>. QED
    BY <2>1 DEF TheConsumer
<1>23. ASSUME NEW s \in Sessions, Dismiss(s) PROVE TheConsumer'
  BY <1>23 DEF Dismiss, SetRun, msgVars, cleanVars, TypeOK, MadeOnce,
     RegisteredIsServed, TheConsumer, Serving
<1>24. ASSUME NEW s \in Sessions, ClearQueue(s) PROVE TheConsumer'
  BY <1>24 DEF ClearQueue, Those, runVars, cleanVars, TypeOK, MadeOnce,
     RegisteredIsServed, TheConsumer, Serving
<1>. QED
  BY <1>1, <1>2, <1>3, <1>4, <1>5, <1>6, <1>7, <1>8, <1>9, <1>10, <1>11,
     <1>12, <1>13, <1>14, <1>15, <1>16, <1>17, <1>18, <1>19, <1>20, <1>21,
     <1>22, <1>23, <1>24
     DEF Next, Enqueue, Consume, RunSteps

\* A cleanup that leaves a session undisturbed cancels an idle consumer.
LEMMA InHandStep ==
    ASSUME TypeOK, MadeOnce, OwnQueue, InQueue, RegisteredIsServed, InHand, Next
    PROVE  InHand'
<1>. USE NoneIsNoMessage
<1>1. ASSUME NEW m \in Msgs, Receive(m) PROVE InHand'
  BY <1>1 DEF Receive, IsFirst, Move, runVars, cleanVars, TypeOK, MadeOnce,
     OwnQueue, RegisteredIsServed, InHand, Serving
<1>2. ASSUME NEW m \in Msgs, Locate(m) PROVE InHand'
  BY <1>2 DEF Locate, IsFirst, Move, runVars, cleanVars, TypeOK, MadeOnce,
     OwnQueue, RegisteredIsServed, InHand, Serving
<1>3. ASSUME NEW m \in Msgs, Put(m) PROVE InHand'
  BY <1>3 DEF Put, Those, IsFirst, Move, runVars, cleanVars, TypeOK, MadeOnce,
     OwnQueue, RegisteredIsServed, InHand, Serving
<1>4. ASSUME NEW m \in Msgs, Block(m) PROVE InHand'
  BY <1>4 DEF Block, Those, IsFirst, Move, runVars, cleanVars, TypeOK,
     MadeOnce, OwnQueue, RegisteredIsServed, InHand, Serving
<1>5. ASSUME NEW m \in Msgs, PutBlocked(m) PROVE InHand'
  BY <1>5 DEF PutBlocked, Those, IsFirst, Move, runVars, cleanVars, TypeOK,
     MadeOnce, OwnQueue, RegisteredIsServed, InHand, Serving
<1>6. ASSUME NEW m \in Msgs, PutTimesOut(m) PROVE InHand'
  BY <1>6 DEF PutTimesOut, Move, runVars, cleanVars, TypeOK, MadeOnce,
     OwnQueue, RegisteredIsServed, InHand, Serving
<1>7. ASSUME NEW q \in Msgs, Take(q) PROVE InHand'
  <2>1. /\ content[q] \in Seq(Msgs) /\ content[q] # <<>>
        /\ Head(content[q]) = content[q][1] /\ 1 \in DOMAIN content[q]
        /\ Head(content[q]) \in Msgs
    BY <1>7, HeadOfQueue DEF Take, TypeOK
  <2>2. PICK h \in Msgs : h = Head(content[q])
    BY <2>1
  <2>3. at[h] = q
    BY <2>1, <2>2 DEF InQueue
  <2>4. /\ fate' = [fate EXCEPT ![h] = "taken"] /\ consumer[q] = "waiting"
        /\ consumer' = [consumer EXCEPT ![q] = "fetching"]
        /\ UNCHANGED <<session, at, disturbed>>
    BY <1>7, <2>2 DEF Take, Move, Goes
  <2>. QED
    BY <2>3, <2>4 DEF InHand, OwnQueue, TypeOK
<1>8. ASSUME NEW q \in Msgs, Drain(q) PROVE InHand'
  BY <1>8 DEF Drain, Those, Goes, runVars, cleanVars, TypeOK, MadeOnce,
     OwnQueue, RegisteredIsServed, InHand, Serving
<1>9. ASSUME NEW q \in Msgs, Open(q) PROVE InHand'
  BY <1>9 DEF Open, SetRun, Goes, msgVars, cleanVars, TypeOK, MadeOnce,
     OwnQueue, RegisteredIsServed, InHand, Serving
<1>10. ASSUME NEW q \in Msgs, Submit(q) PROVE InHand'
  BY <1>10 DEF Submit, SetRun, Goes, MoveBatch, cleanVars, Batch, Those,
     TypeOK, MadeOnce, OwnQueue, RegisteredIsServed, InHand, Serving
<1>11. ASSUME NEW q \in Msgs, OpenFails(q) PROVE InHand'
  BY <1>11 DEF OpenFails, SetRun, Goes, MoveBatch, Batch, Those, cleanVars,
     TypeOK, MadeOnce, OwnQueue, RegisteredIsServed, InHand, Serving
<1>12. ASSUME NEW q \in Msgs, Ignore(q) PROVE InHand'
  BY <1>12 DEF Ignore, Goes, MoveBatch, Touched, runVars, cleanVars, Batch,
     Those, TypeOK, MadeOnce, OwnQueue, RegisteredIsServed, InHand, Serving
<1>13. ASSUME NEW q \in Msgs, Fail(q) PROVE InHand'
  BY <1>13 DEF Fail, Goes, MoveBatch, runVars, cleanVars, Batch, Those,
     TypeOK, MadeOnce, OwnQueue, RegisteredIsServed, InHand, Serving
<1>14. ASSUME NEW q \in Msgs, Finish(q) PROVE InHand'
  BY <1>14 DEF Finish, Goes, Touched, msgVars, runVars, cleanVars, TypeOK,
     MadeOnce, OwnQueue, RegisteredIsServed, InHand, Serving
<1>15. ASSUME NEW q \in Msgs, Survive(q) PROVE InHand'
  BY <1>15 DEF Survive, Goes, Touched, msgVars, cleanVars, runVars, TypeOK,
     MadeOnce, OwnQueue, RegisteredIsServed, InHand, Serving
<1>16. ASSUME NEW q \in Msgs, Exit(q) PROVE InHand'
  BY <1>16 DEF Exit, Goes, MoveBatch, Batch, Those, TypeOK, MadeOnce,
     OwnQueue, RegisteredIsServed, InHand, Serving
<1>17. ASSUME NEW q \in Msgs, GrowIdle(q) PROVE InHand'
  BY <1>17 DEF GrowIdle, Those, msgVars, runVars, cleanVars, TypeOK, MadeOnce,
     OwnQueue, RegisteredIsServed, InHand, Serving
<1>18. ASSUME NEW s \in Sessions, Scan(s) PROVE InHand'
  <2>1. Remove(s) /\ UNCHANGED <<session, fate, at>>
    BY <1>18 DEF Scan, msgVars
  <2>2. CASE queues[s] = None
    BY <2>1, <2>2 DEF Remove, InHand
  <2>3. CASE queues[s] # None
    <3>1. PICK q \in Msgs, p \in {"cancelled", "interrupted"} :
            /\ q = queues[s] /\ session[q] = s
            /\ consumer' = [consumer EXCEPT ![q] = p]
            /\ disturbed \subseteq disturbed'
            /\ consumer[q] = "waiting" \/ s \in disturbed'
      BY <2>1, <2>3, Removal
    <3>2. ASSUME NEW m \in Msgs, fate[m] = "taken"
          PROVE  \/ consumer'[at[m]] \in {"fetching", "starting", "opening"}
                 \/ session[m] \in disturbed'
      <4>1. at[m] \in Msgs /\ session[at[m]] = session[m]
        BY <3>2 DEF OwnQueue, TypeOK
      <4>2. CASE at[m] = q
        BY <3>1, <3>2, <4>1, <4>2 DEF InHand
      <4>3. CASE at[m] # q
        BY <3>1, <3>2, <4>1, <4>3 DEF InHand, TypeOK
      <4>. QED
        BY <4>2, <4>3
    <3>. QED
      BY <2>1, <3>2 DEF InHand
  <2>. QED
    BY <2>2, <2>3
<1>19. ASSUME NEW s \in Sessions, CleanNext(s) PROVE InHand'
  <2>1. Remove(s) /\ UNCHANGED <<session, fate, at>>
    BY <1>19 DEF CleanNext, msgVars
  <2>2. CASE queues[s] = None
    BY <2>1, <2>2 DEF Remove, InHand
  <2>3. CASE queues[s] # None
    <3>1. PICK q \in Msgs, p \in {"cancelled", "interrupted"} :
            /\ q = queues[s] /\ session[q] = s
            /\ consumer' = [consumer EXCEPT ![q] = p]
            /\ disturbed \subseteq disturbed'
            /\ consumer[q] = "waiting" \/ s \in disturbed'
      BY <2>1, <2>3, Removal
    <3>2. ASSUME NEW m \in Msgs, fate[m] = "taken"
          PROVE  \/ consumer'[at[m]] \in {"fetching", "starting", "opening"}
                 \/ session[m] \in disturbed'
      <4>1. at[m] \in Msgs /\ session[at[m]] = session[m]
        BY <3>2 DEF OwnQueue, TypeOK
      <4>2. CASE at[m] = q
        BY <3>1, <3>2, <4>1, <4>2 DEF InHand
      <4>3. CASE at[m] # q
        BY <3>1, <3>2, <4>1, <4>3 DEF InHand, TypeOK
      <4>. QED
        BY <4>2, <4>3
    <3>. QED
      BY <2>1, <3>2 DEF InHand
  <2>. QED
    BY <2>2, <2>3
<1>20. ASSUME NEW s \in Sessions, StreamEnds(s) PROVE InHand'
  BY <1>20 DEF StreamEnds, SetRun, msgVars, cleanVars, TypeOK, MadeOnce,
     OwnQueue, RegisteredIsServed, InHand, Serving
<1>21. ASSUME NEW s \in Sessions, RunDone(s) PROVE InHand'
  BY <1>21 DEF RunDone, SetRun, msgVars, cleanVars, TypeOK, MadeOnce,
     OwnQueue, RegisteredIsServed, InHand, Serving
<1>22. ASSUME NEW s \in Sessions, Kill(s) PROVE InHand'
  BY <1>22 DEF Kill, SetRun, msgVars, cleanVars, TypeOK, MadeOnce, OwnQueue,
     RegisteredIsServed, InHand, Serving
<1>23. ASSUME NEW s \in Sessions, Dismiss(s) PROVE InHand'
  BY <1>23 DEF Dismiss, SetRun, msgVars, cleanVars, TypeOK, MadeOnce,
     OwnQueue, RegisteredIsServed, InHand, Serving
<1>24. ASSUME NEW s \in Sessions, ClearQueue(s) PROVE InHand'
  BY <1>24 DEF ClearQueue, Those, runVars, cleanVars, TypeOK, MadeOnce,
     OwnQueue, RegisteredIsServed, InHand, Serving
<1>. QED
  BY <1>1, <1>2, <1>3, <1>4, <1>5, <1>6, <1>7, <1>8, <1>9, <1>10, <1>11,
     <1>12, <1>13, <1>14, <1>15, <1>16, <1>17, <1>18, <1>19, <1>20, <1>21,
     <1>22, <1>23, <1>24
     DEF Next, Enqueue, Consume, RunSteps

\* The consumer that started a run waits for it, unless it was disturbed.
LEMMA AwaitedStep ==
    ASSUME TypeOK, MadeOnce, RegisteredIsServed, RunIsAwaited, Next
    PROVE  RunIsAwaited'
<1>. USE NoneIsNoMessage
<1>1. ASSUME NEW m \in Msgs, Receive(m) PROVE RunIsAwaited'
  BY <1>1 DEF Receive, IsFirst, Move, runVars, cleanVars, TypeOK, MadeOnce,
     RegisteredIsServed, RunIsAwaited, Serving
<1>2. ASSUME NEW m \in Msgs, Locate(m) PROVE RunIsAwaited'
  BY <1>2 DEF Locate, IsFirst, Move, runVars, cleanVars, TypeOK, MadeOnce,
     RegisteredIsServed, RunIsAwaited, Serving
<1>3. ASSUME NEW m \in Msgs, Put(m) PROVE RunIsAwaited'
  BY <1>3 DEF Put, Those, IsFirst, Move, runVars, cleanVars, TypeOK, MadeOnce,
     RegisteredIsServed, RunIsAwaited, Serving
<1>4. ASSUME NEW m \in Msgs, Block(m) PROVE RunIsAwaited'
  BY <1>4 DEF Block, Those, IsFirst, Move, runVars, cleanVars, TypeOK,
     MadeOnce, RegisteredIsServed, RunIsAwaited, Serving
<1>5. ASSUME NEW m \in Msgs, PutBlocked(m) PROVE RunIsAwaited'
  BY <1>5 DEF PutBlocked, Those, IsFirst, Move, runVars, cleanVars, TypeOK,
     MadeOnce, RegisteredIsServed, RunIsAwaited, Serving
<1>6. ASSUME NEW m \in Msgs, PutTimesOut(m) PROVE RunIsAwaited'
  BY <1>6 DEF PutTimesOut, Move, runVars, cleanVars, TypeOK, MadeOnce,
     RegisteredIsServed, RunIsAwaited, Serving
<1>7. ASSUME NEW q \in Msgs, Take(q) PROVE RunIsAwaited'
  BY <1>7 DEF Take, Move, Goes, runVars, cleanVars, TypeOK, MadeOnce,
     RegisteredIsServed, RunIsAwaited, Serving
<1>8. ASSUME NEW q \in Msgs, Drain(q) PROVE RunIsAwaited'
  BY <1>8 DEF Drain, Those, Goes, runVars, cleanVars, TypeOK, MadeOnce,
     RegisteredIsServed, RunIsAwaited, Serving
<1>9. ASSUME NEW q \in Msgs, Open(q) PROVE RunIsAwaited'
  BY <1>9 DEF Open, SetRun, Goes, msgVars, cleanVars, TypeOK, MadeOnce,
     RegisteredIsServed, RunIsAwaited, Serving
<1>10. ASSUME NEW q \in Msgs, Submit(q) PROVE RunIsAwaited'
  BY <1>10 DEF Submit, SetRun, Goes, MoveBatch, cleanVars, Batch, Those,
     TypeOK, MadeOnce, RegisteredIsServed, RunIsAwaited, Serving
<1>11. ASSUME NEW q \in Msgs, OpenFails(q) PROVE RunIsAwaited'
  BY <1>11 DEF OpenFails, SetRun, Goes, MoveBatch, Batch, Those, cleanVars,
     TypeOK, MadeOnce, RegisteredIsServed, RunIsAwaited, Serving
<1>12. ASSUME NEW q \in Msgs, Ignore(q) PROVE RunIsAwaited'
  BY <1>12 DEF Ignore, Goes, MoveBatch, Touched, runVars, cleanVars, Batch,
     Those, TypeOK, MadeOnce, RegisteredIsServed, RunIsAwaited, Serving
<1>13. ASSUME NEW q \in Msgs, Fail(q) PROVE RunIsAwaited'
  BY <1>13 DEF Fail, Goes, MoveBatch, runVars, cleanVars, Batch, Those,
     TypeOK, MadeOnce, RegisteredIsServed, RunIsAwaited, Serving
<1>14. ASSUME NEW q \in Msgs, Finish(q) PROVE RunIsAwaited'
  BY <1>14 DEF Finish, Told, Goes, Touched, msgVars, runVars, cleanVars, TypeOK,
     MadeOnce, RegisteredIsServed, RunIsAwaited, Serving
<1>15. ASSUME NEW q \in Msgs, Survive(q) PROVE RunIsAwaited'
  BY <1>15 DEF Survive, Goes, Touched, msgVars, cleanVars, runVars, TypeOK,
     MadeOnce, RegisteredIsServed, RunIsAwaited, Serving
<1>16. ASSUME NEW q \in Msgs, Exit(q) PROVE RunIsAwaited'
  BY <1>16 DEF Exit, Goes, MoveBatch, Batch, Those, TypeOK, MadeOnce,
     RegisteredIsServed, RunIsAwaited, Serving
<1>17. ASSUME NEW q \in Msgs, GrowIdle(q) PROVE RunIsAwaited'
  BY <1>17 DEF GrowIdle, Those, msgVars, runVars, cleanVars, TypeOK, MadeOnce,
     RegisteredIsServed, RunIsAwaited, Serving
<1>18. ASSUME NEW s \in Sessions, Scan(s) PROVE RunIsAwaited'
  BY <1>18 DEF Scan, runVars, Remove, Expired, msgVars, Goes, TypeOK,
     MadeOnce, RegisteredIsServed, RunIsAwaited, Serving
<1>19. ASSUME NEW s \in Sessions, CleanNext(s) PROVE RunIsAwaited'
  BY <1>19 DEF CleanNext, runVars, Remove, msgVars, Goes, TypeOK, MadeOnce,
     RegisteredIsServed, RunIsAwaited, Serving
<1>20. ASSUME NEW s \in Sessions, StreamEnds(s) PROVE RunIsAwaited'
  BY <1>20 DEF StreamEnds, SetRun, msgVars, cleanVars, TypeOK, MadeOnce,
     RegisteredIsServed, RunIsAwaited, Serving
<1>21. ASSUME NEW s \in Sessions, RunDone(s) PROVE RunIsAwaited'
  BY <1>21 DEF RunDone, SetRun, msgVars, cleanVars, TypeOK, MadeOnce,
     RegisteredIsServed, RunIsAwaited, Serving
<1>22. ASSUME NEW s \in Sessions, Kill(s) PROVE RunIsAwaited'
  BY <1>22 DEF Kill, SetRun, msgVars, cleanVars, TypeOK, MadeOnce,
     RegisteredIsServed, RunIsAwaited, Serving
<1>23. ASSUME NEW s \in Sessions, Dismiss(s) PROVE RunIsAwaited'
  BY <1>23 DEF Dismiss, SetRun, msgVars, cleanVars, TypeOK, MadeOnce,
     RegisteredIsServed, RunIsAwaited, Serving
<1>24. ASSUME NEW s \in Sessions, ClearQueue(s) PROVE RunIsAwaited'
  BY <1>24 DEF ClearQueue, Those, runVars, cleanVars, TypeOK, MadeOnce,
     RegisteredIsServed, RunIsAwaited, Serving
<1>. QED
  BY <1>1, <1>2, <1>3, <1>4, <1>5, <1>6, <1>7, <1>8, <1>9, <1>10, <1>11,
     <1>12, <1>13, <1>14, <1>15, <1>16, <1>17, <1>18, <1>19, <1>20, <1>21,
     <1>22, <1>23, <1>24
     DEF Next, Enqueue, Consume, RunSteps

\* What a step may turn away while a session is undisturbed.
Refusals ==
    \A m \in Msgs : session[m] \notin disturbed' /\ fate'[m] # fate[m] =>
        /\ fate'[m] # "lost"
        /\ fate'[m] = "ignored" => stage[session[m]] \in {"flushing", "stuck"}

\* A busy chat or a cancelled batch betrays a second consumer or a bad cleanup.
LEMMA RefusesStep ==
    ASSUME TypeOK, OwnQueue, TheConsumer, InHand, RunIsAwaited, Next
    PROVE  Refusals
<1>. USE NoneIsNoMessage
<1>1. ASSUME NEW m \in Msgs, Receive(m) PROVE Refusals
  BY <1>1 DEF Receive, IsFirst, Move, runVars, cleanVars, TypeOK, OwnQueue,
     TheConsumer, InHand, RunIsAwaited, Refusals, Serving
<1>2. ASSUME NEW m \in Msgs, Locate(m) PROVE Refusals
  BY <1>2 DEF Locate, IsFirst, Move, runVars, cleanVars, TypeOK, OwnQueue,
     TheConsumer, InHand, RunIsAwaited, Refusals, Serving
<1>3. ASSUME NEW m \in Msgs, Put(m) PROVE Refusals
  BY <1>3 DEF Put, Those, IsFirst, Move, runVars, cleanVars, TypeOK, OwnQueue,
     TheConsumer, InHand, RunIsAwaited, Refusals, Serving
<1>4. ASSUME NEW m \in Msgs, Block(m) PROVE Refusals
  BY <1>4 DEF Block, Those, IsFirst, Move, runVars, cleanVars, TypeOK,
     OwnQueue, TheConsumer, InHand, RunIsAwaited, Refusals, Serving
<1>5. ASSUME NEW m \in Msgs, PutBlocked(m) PROVE Refusals
  BY <1>5 DEF PutBlocked, Those, IsFirst, Move, runVars, cleanVars, TypeOK,
     OwnQueue, TheConsumer, InHand, RunIsAwaited, Refusals, Serving
<1>6. ASSUME NEW m \in Msgs, PutTimesOut(m) PROVE Refusals
  BY <1>6 DEF PutTimesOut, Move, runVars, cleanVars, TypeOK, OwnQueue,
     TheConsumer, InHand, RunIsAwaited, Refusals, Serving
<1>7. ASSUME NEW q \in Msgs, Take(q) PROVE Refusals
  BY <1>7 DEF Take, Move, Goes, runVars, cleanVars, TypeOK, OwnQueue,
     TheConsumer, InHand, RunIsAwaited, Refusals, Serving
<1>8. ASSUME NEW q \in Msgs, Drain(q) PROVE Refusals
  BY <1>8 DEF Drain, Those, Goes, runVars, cleanVars, TypeOK, OwnQueue,
     TheConsumer, InHand, RunIsAwaited, Refusals, Serving
<1>9. ASSUME NEW q \in Msgs, Open(q) PROVE Refusals
  BY <1>9 DEF Open, SetRun, Goes, msgVars, cleanVars, TypeOK, OwnQueue,
     TheConsumer, InHand, RunIsAwaited, Refusals, Serving
<1>10. ASSUME NEW q \in Msgs, Submit(q) PROVE Refusals
  BY <1>10 DEF Submit, SetRun, Goes, MoveBatch, cleanVars, Batch, Those,
     TypeOK, OwnQueue, TheConsumer, InHand, RunIsAwaited, Refusals, Serving
<1>11. ASSUME NEW q \in Msgs, OpenFails(q) PROVE Refusals
  BY <1>11 DEF OpenFails, SetRun, Goes, MoveBatch, Batch, Those, cleanVars,
     TypeOK, OwnQueue, TheConsumer, InHand, RunIsAwaited, Refusals, Serving
<1>12. ASSUME NEW q \in Msgs, Ignore(q) PROVE Refusals
  <2>1. CASE session[q] \in disturbed
    <3>1. \A m \in Batch(q) : session[m] = session[q]
      BY NoneIsNoMessage DEF Batch, Those, OwnQueue
    <3>2. \A m \in Msgs : m \in Batch(q) \/ fate'[m] = fate[m]
      BY <1>12 DEF Ignore, MoveBatch
    <3>3. disturbed' = disturbed
      BY <1>12 DEF Ignore
    <3>. QED
      BY <2>1, <3>1, <3>2, <3>3 DEF Refusals
  <2>2. CASE session[q] \notin disturbed
    <3>1. /\ consumer[q] = "starting" /\ session[q] \in Sessions
          /\ stage[session[q]] \in Stages \ {"none", "opening"}
      BY <1>12 DEF Ignore, LockFree, TypeOK
    <3>2. stage[session[q]] # "streaming"
      <4>. SUFFICES ASSUME stage[session[q]] = "streaming" PROVE FALSE
        OBVIOUS
      <4>1. PICK p \in Msgs : /\ p = run[session[q]] /\ session[p] = session[q]
                              /\ consumer[p] = "working"
        BY <2>2, <3>1 DEF RunIsAwaited, TypeOK
      <4>2. queues[session[q]] = p /\ queues[session[q]] = q
        BY <2>2, <3>1, <4>1 DEF TheConsumer, Serving
      <4>. QED
        BY <3>1, <4>1, <4>2
    <3>3. stage[session[q]] \in {"flushing", "stuck"}
      BY <3>1, <3>2 DEF Stages
    <3>4. \A m \in Msgs : /\ fate'[m] # fate[m] => fate'[m] = "ignored"
                          /\ fate'[m] # fate[m] => session[m] = session[q]
      BY <1>12 DEF Ignore, MoveBatch, Batch, Those, OwnQueue
    <3>. QED
      BY <3>3, <3>4 DEF Refusals
  <2>. QED
    BY <2>1, <2>2
<1>13. ASSUME NEW q \in Msgs, Fail(q) PROVE Refusals
  BY <1>13 DEF Fail, Goes, MoveBatch, runVars, cleanVars, Batch, Those,
     TypeOK, OwnQueue, TheConsumer, InHand, RunIsAwaited, Refusals, Serving
<1>14. ASSUME NEW q \in Msgs, Finish(q) PROVE Refusals
  BY <1>14 DEF Finish, Goes, Touched, msgVars, runVars, cleanVars, TypeOK,
     OwnQueue, TheConsumer, InHand, RunIsAwaited, Refusals, Serving
<1>15. ASSUME NEW q \in Msgs, Survive(q) PROVE Refusals
  BY <1>15 DEF Survive, Goes, Touched, msgVars, cleanVars, runVars, TypeOK,
     OwnQueue, TheConsumer, InHand, RunIsAwaited, Refusals, Serving
<1>16. ASSUME NEW q \in Msgs, Exit(q) PROVE Refusals
  BY <1>16 DEF Exit, Goes, MoveBatch, Batch, Those, TypeOK, OwnQueue,
     TheConsumer, InHand, RunIsAwaited, Refusals, Serving
<1>17. ASSUME NEW q \in Msgs, GrowIdle(q) PROVE Refusals
  BY <1>17 DEF GrowIdle, Those, msgVars, runVars, cleanVars, TypeOK, OwnQueue,
     TheConsumer, InHand, RunIsAwaited, Refusals, Serving
<1>18. ASSUME NEW s \in Sessions, Scan(s) PROVE Refusals
  BY <1>18 DEF Scan, runVars, Remove, Expired, msgVars, Goes, TypeOK,
     OwnQueue, TheConsumer, InHand, RunIsAwaited, Refusals, Serving
<1>19. ASSUME NEW s \in Sessions, CleanNext(s) PROVE Refusals
  BY <1>19 DEF CleanNext, runVars, Remove, msgVars, Goes, TypeOK, OwnQueue,
     TheConsumer, InHand, RunIsAwaited, Refusals, Serving
<1>20. ASSUME NEW s \in Sessions, StreamEnds(s) PROVE Refusals
  BY <1>20 DEF StreamEnds, SetRun, msgVars, cleanVars, TypeOK, OwnQueue,
     TheConsumer, InHand, RunIsAwaited, Refusals, Serving
<1>21. ASSUME NEW s \in Sessions, RunDone(s) PROVE Refusals
  BY <1>21 DEF RunDone, SetRun, msgVars, cleanVars, TypeOK, OwnQueue,
     TheConsumer, InHand, RunIsAwaited, Refusals, Serving
<1>22. ASSUME NEW s \in Sessions, Kill(s) PROVE Refusals
  BY <1>22 DEF Kill, SetRun, msgVars, cleanVars, TypeOK, OwnQueue,
     TheConsumer, InHand, RunIsAwaited, Refusals, Serving
<1>23. ASSUME NEW s \in Sessions, Dismiss(s) PROVE Refusals
  BY <1>23 DEF Dismiss, SetRun, msgVars, cleanVars, TypeOK, OwnQueue,
     TheConsumer, InHand, RunIsAwaited, Refusals, Serving
<1>24. ASSUME NEW s \in Sessions, ClearQueue(s) PROVE Refusals
  BY <1>24 DEF ClearQueue, Those, runVars, cleanVars, TypeOK, OwnQueue,
     TheConsumer, InHand, RunIsAwaited, Refusals, Serving
<1>. QED
  BY <1>1, <1>2, <1>3, <1>4, <1>5, <1>6, <1>7, <1>8, <1>9, <1>10, <1>11,
     <1>12, <1>13, <1>14, <1>15, <1>16, <1>17, <1>18, <1>19, <1>20, <1>21,
     <1>22, <1>23, <1>24
     DEF Next, Enqueue, Consume, RunSteps

-----------------------------------------------------------------------------
(* The order of a session's messages *)

\* While no cleanup has met a message of its session, a message on its way into
\* a queue, or in one, is in the registered queue.
InPlace ==
    \A m \in Msgs :
        fate[m] \in {"putting", "blocked", "queued"} /\ session[m] \notin disturbed
          => queues[session[m]] = at[m]

\* A message that waits for room has found its queue full.
BlockedIsLate == \A m \in Msgs : fate[m] = "blocked" => m \in late

\* A message that counts as queued is in the queue it was given.
QueuedIsIn ==
    \A m \in Msgs : fate[m] = "queued" =>
        \E i \in DOMAIN content[at[m]] : content[at[m]][i] = m

\* The two messages of a session whose order has to be kept.
Precedes(m, n) ==
    /\ m < n /\ session[m] = session[n]
    /\ session[m] \notin disturbed /\ m \notin late

\* However far the first one has got, the second has got no farther: stage by
\* stage up to the queue ...
InStep(m, n) ==
    /\ fate[m] = "new" => fate[n] = "new"
    /\ fate[m] = "routed" => fate[n] \in {"new", "routed"}
    /\ fate[m] = "putting" => fate[n] \in {"new", "routed", "putting"}
    /\ fate[m] = "queued" => fate[n] \notin Handed

\* ... and position by position in it.
Places(m, n) ==
    \A q \in Msgs : \A i, j \in DOMAIN content[q] :
        content[q][i] = n /\ content[q][j] = m => j < i

Behind ==
    \A m, n \in Msgs : Precedes(m, n) => InStep(m, n) /\ Places(m, n)

OrderInv == QueueInv /\ InPlace /\ BlockedIsLate /\ QueuedIsIn /\ Behind

\* A task finds its own message's place still registered: whoever removes a
\* queue with something in it disturbs the session.
LEMMA InPlaceStep ==
    ASSUME TypeOK, OwnQueue, InQueue, RegisteredIsServed, TheConsumer, InPlace, Next
    PROVE  InPlace'
<1>. USE NoneIsNoMessage
<1>1. ASSUME NEW m \in Msgs, Receive(m) PROVE InPlace'
  BY <1>1 DEF Receive, IsFirst, Move, runVars, cleanVars, TypeOK, OwnQueue,
     TheConsumer, InPlace
<1>2. ASSUME NEW m \in Msgs, Locate(m) PROVE InPlace'
  BY <1>2 DEF Locate, IsFirst, Move, runVars, cleanVars, TypeOK, OwnQueue,
     TheConsumer, InPlace
<1>3. ASSUME NEW m \in Msgs, Put(m) PROVE InPlace'
  BY <1>3 DEF Put, Those, IsFirst, Move, runVars, cleanVars, TypeOK, OwnQueue,
     TheConsumer, InPlace
<1>4. ASSUME NEW m \in Msgs, Block(m) PROVE InPlace'
  BY <1>4 DEF Block, Those, IsFirst, Move, runVars, cleanVars, TypeOK,
     OwnQueue, TheConsumer, InPlace
<1>5. ASSUME NEW m \in Msgs, PutBlocked(m) PROVE InPlace'
  BY <1>5 DEF PutBlocked, Those, IsFirst, Move, runVars, cleanVars, TypeOK,
     OwnQueue, TheConsumer, InPlace
<1>6. ASSUME NEW m \in Msgs, PutTimesOut(m) PROVE InPlace'
  BY <1>6 DEF PutTimesOut, Move, runVars, cleanVars, TypeOK, OwnQueue,
     TheConsumer, InPlace
<1>7. ASSUME NEW q \in Msgs, Take(q) PROVE InPlace'
  BY <1>7 DEF Take, Move, Goes, runVars, cleanVars, TypeOK, OwnQueue,
     TheConsumer, InPlace
<1>8. ASSUME NEW q \in Msgs, Drain(q) PROVE InPlace'
  BY <1>8 DEF Drain, Those, Goes, runVars, cleanVars, TypeOK, OwnQueue,
     TheConsumer, InPlace
<1>9. ASSUME NEW q \in Msgs, Open(q) PROVE InPlace'
  BY <1>9 DEF Open, SetRun, Goes, msgVars, cleanVars, TypeOK, OwnQueue,
     TheConsumer, InPlace
<1>10. ASSUME NEW q \in Msgs, Submit(q) PROVE InPlace'
  BY <1>10 DEF Submit, SetRun, Goes, MoveBatch, cleanVars, Batch, Those,
     TypeOK, OwnQueue, TheConsumer, InPlace
<1>11. ASSUME NEW q \in Msgs, OpenFails(q) PROVE InPlace'
  BY <1>11 DEF OpenFails, SetRun, Goes, MoveBatch, Batch, Those, cleanVars,
     TypeOK, OwnQueue, TheConsumer, InPlace
<1>12. ASSUME NEW q \in Msgs, Ignore(q) PROVE InPlace'
  BY <1>12 DEF Ignore, Goes, MoveBatch, Touched, runVars, cleanVars, Batch,
     Those, TypeOK, OwnQueue, TheConsumer, InPlace
<1>13. ASSUME NEW q \in Msgs, Fail(q) PROVE InPlace'
  BY <1>13 DEF Fail, Goes, MoveBatch, runVars, cleanVars, Batch, Those,
     TypeOK, OwnQueue, TheConsumer, InPlace
<1>14. ASSUME NEW q \in Msgs, Finish(q) PROVE InPlace'
  BY <1>14 DEF Finish, Goes, Touched, msgVars, runVars, cleanVars, TypeOK,
     OwnQueue, TheConsumer, InPlace
<1>15. ASSUME NEW q \in Msgs, Survive(q) PROVE InPlace'
  BY <1>15 DEF Survive, Goes, Touched, msgVars, cleanVars, runVars, TypeOK,
     OwnQueue, TheConsumer, InPlace
<1>16. ASSUME NEW q \in Msgs, Exit(q) PROVE InPlace'
  BY <1>16 DEF Exit, Goes, MoveBatch, Batch, Those, TypeOK, OwnQueue,
     TheConsumer, InPlace
<1>17. ASSUME NEW q \in Msgs, GrowIdle(q) PROVE InPlace'
  BY <1>17 DEF GrowIdle, Those, msgVars, runVars, cleanVars, TypeOK, OwnQueue,
     TheConsumer, InPlace
<1>18. ASSUME NEW s \in Sessions, Scan(s) PROVE InPlace'
  BY <1>18 DEF Scan, runVars, Remove, Expired, msgVars, Goes, TypeOK,
     OwnQueue, TheConsumer, InPlace
<1>19. ASSUME NEW s \in Sessions, CleanNext(s) PROVE InPlace'
  BY <1>19 DEF CleanNext, runVars, Remove, msgVars, Goes, TypeOK, OwnQueue,
     TheConsumer, InPlace
<1>20. ASSUME NEW s \in Sessions, StreamEnds(s) PROVE InPlace'
  BY <1>20 DEF StreamEnds, SetRun, msgVars, cleanVars, TypeOK, OwnQueue,
     TheConsumer, InPlace
<1>21. ASSUME NEW s \in Sessions, RunDone(s) PROVE InPlace'
  BY <1>21 DEF RunDone, SetRun, msgVars, cleanVars, TypeOK, OwnQueue,
     TheConsumer, InPlace
<1>22. ASSUME NEW s \in Sessions, Kill(s) PROVE InPlace'
  BY <1>22 DEF Kill, SetRun, msgVars, cleanVars, TypeOK, OwnQueue,
     TheConsumer, InPlace
<1>23. ASSUME NEW s \in Sessions, Dismiss(s) PROVE InPlace'
  BY <1>23 DEF Dismiss, SetRun, msgVars, cleanVars, TypeOK, OwnQueue,
     TheConsumer, InPlace
<1>24. ASSUME NEW s \in Sessions, ClearQueue(s) PROVE InPlace'
  BY <1>24 DEF ClearQueue, Those, runVars, cleanVars, TypeOK, OwnQueue,
     TheConsumer, InPlace
<1>. QED
  BY <1>1, <1>2, <1>3, <1>4, <1>5, <1>6, <1>7, <1>8, <1>9, <1>10, <1>11,
     <1>12, <1>13, <1>14, <1>15, <1>16, <1>17, <1>18, <1>19, <1>20, <1>21,
     <1>22, <1>23, <1>24
     DEF Next, Enqueue, Consume, RunSteps

\* Only Block lets a message wait for room, and it makes a note of it.
LEMMA BlockedStep ==
    ASSUME TypeOK, BlockedIsLate, Next
    PROVE  BlockedIsLate'
<1>1. ASSUME NEW m \in Msgs, Receive(m) PROVE BlockedIsLate'
  BY <1>1 DEF Receive, IsFirst, Move, runVars, cleanVars, TypeOK,
     BlockedIsLate
<1>2. ASSUME NEW m \in Msgs, Locate(m) PROVE BlockedIsLate'
  BY <1>2 DEF Locate, IsFirst, Move, runVars, cleanVars, TypeOK, BlockedIsLate
<1>3. ASSUME NEW m \in Msgs, Put(m) PROVE BlockedIsLate'
  BY <1>3 DEF Put, Those, IsFirst, Move, runVars, cleanVars, TypeOK,
     BlockedIsLate
<1>4. ASSUME NEW m \in Msgs, Block(m) PROVE BlockedIsLate'
  BY <1>4 DEF Block, Those, IsFirst, Move, runVars, cleanVars, TypeOK,
     BlockedIsLate
<1>5. ASSUME NEW m \in Msgs, PutBlocked(m) PROVE BlockedIsLate'
  BY <1>5 DEF PutBlocked, Those, IsFirst, Move, runVars, cleanVars, TypeOK,
     BlockedIsLate
<1>6. ASSUME NEW m \in Msgs, PutTimesOut(m) PROVE BlockedIsLate'
  BY <1>6 DEF PutTimesOut, Move, runVars, cleanVars, TypeOK, BlockedIsLate
<1>7. ASSUME NEW q \in Msgs, Take(q) PROVE BlockedIsLate'
  BY <1>7 DEF Take, Move, Goes, runVars, cleanVars, TypeOK, BlockedIsLate
<1>8. ASSUME NEW q \in Msgs, Drain(q) PROVE BlockedIsLate'
  BY <1>8 DEF Drain, Those, Goes, runVars, cleanVars, TypeOK, BlockedIsLate
<1>9. ASSUME NEW q \in Msgs, Open(q) PROVE BlockedIsLate'
  BY <1>9 DEF Open, SetRun, Goes, msgVars, cleanVars, TypeOK, BlockedIsLate
<1>10. ASSUME NEW q \in Msgs, Submit(q) PROVE BlockedIsLate'
  BY <1>10 DEF Submit, SetRun, Goes, MoveBatch, cleanVars, Batch, Those,
     TypeOK, BlockedIsLate
<1>11. ASSUME NEW q \in Msgs, OpenFails(q) PROVE BlockedIsLate'
  BY <1>11 DEF OpenFails, SetRun, Goes, MoveBatch, Batch, Those, cleanVars,
     TypeOK, BlockedIsLate
<1>12. ASSUME NEW q \in Msgs, Ignore(q) PROVE BlockedIsLate'
  BY <1>12 DEF Ignore, Goes, MoveBatch, Touched, runVars, cleanVars, Batch,
     Those, TypeOK, BlockedIsLate
<1>13. ASSUME NEW q \in Msgs, Fail(q) PROVE BlockedIsLate'
  BY <1>13 DEF Fail, Goes, MoveBatch, runVars, cleanVars, Batch, Those,
     TypeOK, BlockedIsLate
<1>14. ASSUME NEW q \in Msgs, Finish(q) PROVE BlockedIsLate'
  BY <1>14 DEF Finish, Goes, Touched, msgVars, runVars, cleanVars, TypeOK,
     BlockedIsLate
<1>15. ASSUME NEW q \in Msgs, Survive(q) PROVE BlockedIsLate'
  BY <1>15 DEF Survive, Goes, Touched, msgVars, cleanVars, runVars, TypeOK,
     BlockedIsLate
<1>16. ASSUME NEW q \in Msgs, Exit(q) PROVE BlockedIsLate'
  BY <1>16 DEF Exit, Goes, MoveBatch, Batch, Those, TypeOK, BlockedIsLate
<1>17. ASSUME NEW q \in Msgs, GrowIdle(q) PROVE BlockedIsLate'
  BY <1>17 DEF GrowIdle, Those, msgVars, runVars, cleanVars, TypeOK,
     BlockedIsLate
<1>18. ASSUME NEW s \in Sessions, Scan(s) PROVE BlockedIsLate'
  BY <1>18 DEF Scan, runVars, Remove, Expired, msgVars, Goes, TypeOK,
     BlockedIsLate
<1>19. ASSUME NEW s \in Sessions, CleanNext(s) PROVE BlockedIsLate'
  BY <1>19 DEF CleanNext, runVars, Remove, msgVars, Goes, TypeOK,
     BlockedIsLate
<1>20. ASSUME NEW s \in Sessions, StreamEnds(s) PROVE BlockedIsLate'
  BY <1>20 DEF StreamEnds, SetRun, msgVars, cleanVars, TypeOK, BlockedIsLate
<1>21. ASSUME NEW s \in Sessions, RunDone(s) PROVE BlockedIsLate'
  BY <1>21 DEF RunDone, SetRun, msgVars, cleanVars, TypeOK, BlockedIsLate
<1>22. ASSUME NEW s \in Sessions, Kill(s) PROVE BlockedIsLate'
  BY <1>22 DEF Kill, SetRun, msgVars, cleanVars, TypeOK, BlockedIsLate
<1>23. ASSUME NEW s \in Sessions, Dismiss(s) PROVE BlockedIsLate'
  BY <1>23 DEF Dismiss, SetRun, msgVars, cleanVars, TypeOK, BlockedIsLate
<1>24. ASSUME NEW s \in Sessions, ClearQueue(s) PROVE BlockedIsLate'
  BY <1>24 DEF ClearQueue, Those, runVars, cleanVars, TypeOK, BlockedIsLate
<1>. QED
  BY <1>1, <1>2, <1>3, <1>4, <1>5, <1>6, <1>7, <1>8, <1>9, <1>10, <1>11,
     <1>12, <1>13, <1>14, <1>15, <1>16, <1>17, <1>18, <1>19, <1>20, <1>21,
     <1>22, <1>23, <1>24
     DEF Next, Enqueue, Consume, RunSteps

\* Messages enter and leave their queue together with their fate.
LEMMA QueuedIsInStep ==
    ASSUME TypeOK, OwnQueue, InQueue, QueuedIsIn, Next
    PROVE  QueuedIsIn'
<1>. USE NoneIsNoMessage
<1>1. ASSUME NEW m \in Msgs, Receive(m) PROVE QueuedIsIn'
  BY <1>1 DEF Receive, IsFirst, Move, runVars, cleanVars, TypeOK, OwnQueue,
     QueuedIsIn
<1>2. ASSUME NEW m \in Msgs, Locate(m) PROVE QueuedIsIn'
  BY <1>2 DEF Locate, IsFirst, Move, runVars, cleanVars, TypeOK, OwnQueue,
     QueuedIsIn
<1>3. ASSUME NEW m \in Msgs, Put(m) PROVE QueuedIsIn'
  <2>1. /\ at[m] \in Msgs /\ content[at[m]] \in Seq(Msgs)
        /\ fate' = [fate EXCEPT ![m] = "queued"] /\ at' = at
        /\ content' = [content EXCEPT ![at[m]] = Append(content[at[m]], m)]
    BY <1>3 DEF Put, Those, IsFirst, Move, TypeOK, OwnQueue
  <2>2. ASSUME NEW n \in Msgs, fate'[n] = "queued"
        PROVE  \E i \in DOMAIN content'[at'[n]] : content'[at'[n]][i] = n
    <3>1. CASE n = m
      <4>1. /\ content'[at'[n]] = Append(content[at[m]], m)
            /\ Len(content[at[m]]) + 1 \in DOMAIN Append(content[at[m]], m)
            /\ Append(content[at[m]], m)[Len(content[at[m]]) + 1] = m
        BY <2>1, <3>1 DEF TypeOK
      <4>. QED
        BY <3>1, <4>1
    <3>2. CASE n # m
      <4>1. PICK i \in DOMAIN content[at[n]] : content[at[n]][i] = n
        BY <2>1, <2>2, <3>2 DEF QueuedIsIn, TypeOK
      <4>2. CASE at[n] = at[m]
        <5>1. i \in DOMAIN Append(content[at[m]], m) /\ Append(content[at[m]], m)[i] = n
          BY <2>1, <4>1, <4>2
        <5>. QED
          BY <2>1, <4>2, <5>1 DEF TypeOK
      <4>3. CASE at[n] # at[m]
        BY <2>1, <4>1, <4>3 DEF TypeOK
      <4>. QED
        BY <4>2, <4>3
    <3>. QED
      BY <3>1, <3>2
  <2>. QED
    BY <2>2 DEF QueuedIsIn
<1>4. ASSUME NEW m \in Msgs, Block(m) PROVE QueuedIsIn'
  BY <1>4 DEF Block, Those, IsFirst, Move, runVars, cleanVars, TypeOK,
     OwnQueue, QueuedIsIn
<1>5. ASSUME NEW m \in Msgs, PutBlocked(m) PROVE QueuedIsIn'
  <2>1. /\ at[m] \in Msgs /\ content[at[m]] \in Seq(Msgs)
        /\ fate' = [fate EXCEPT ![m] = "queued"] /\ at' = at
        /\ content' = [content EXCEPT ![at[m]] = Append(content[at[m]], m)]
    BY <1>5 DEF PutBlocked, Those, IsFirst, Move, TypeOK, OwnQueue
  <2>2. ASSUME NEW n \in Msgs, fate'[n] = "queued"
        PROVE  \E i \in DOMAIN content'[at'[n]] : content'[at'[n]][i] = n
    <3>1. CASE n = m
      <4>1. /\ content'[at'[n]] = Append(content[at[m]], m)
            /\ Len(content[at[m]]) + 1 \in DOMAIN Append(content[at[m]], m)
            /\ Append(content[at[m]], m)[Len(content[at[m]]) + 1] = m
        BY <2>1, <3>1 DEF TypeOK
      <4>. QED
        BY <3>1, <4>1
    <3>2. CASE n # m
      <4>1. PICK i \in DOMAIN content[at[n]] : content[at[n]][i] = n
        BY <2>1, <2>2, <3>2 DEF QueuedIsIn, TypeOK
      <4>2. CASE at[n] = at[m]
        <5>1. i \in DOMAIN Append(content[at[m]], m) /\ Append(content[at[m]], m)[i] = n
          BY <2>1, <4>1, <4>2
        <5>. QED
          BY <2>1, <4>2, <5>1 DEF TypeOK
      <4>3. CASE at[n] # at[m]
        BY <2>1, <4>1, <4>3 DEF TypeOK
      <4>. QED
        BY <4>2, <4>3
    <3>. QED
      BY <3>1, <3>2
  <2>. QED
    BY <2>2 DEF QueuedIsIn
<1>6. ASSUME NEW m \in Msgs, PutTimesOut(m) PROVE QueuedIsIn'
  BY <1>6 DEF PutTimesOut, Move, runVars, cleanVars, TypeOK, OwnQueue,
     QueuedIsIn
<1>7. ASSUME NEW q \in Msgs, Take(q) PROVE QueuedIsIn'
  <2>1. /\ content[q] \in Seq(Msgs) /\ content[q] # <<>>
        /\ Head(content[q]) = content[q][1] /\ Head(content[q]) \in Msgs
    BY <1>7, HeadOfQueue DEF Take, TypeOK
  <2>2. PICK h \in Msgs : h = Head(content[q]) /\ h = content[q][1]
    BY <2>1
  <2>3. /\ fate' = [fate EXCEPT ![h] = "taken"] /\ at' = at
        /\ content' = [content EXCEPT ![q] = Tail(content[q])]
    BY <1>7, <2>2 DEF Take, Move
  <2>4. ASSUME NEW n \in Msgs, fate'[n] = "queued"
        PROVE  \E i \in DOMAIN content'[at'[n]] : content'[at'[n]][i] = n
    <3>1. n # h /\ fate[n] = "queued" /\ at[n] \in Msgs
      BY <2>3, <2>4 DEF TypeOK, OwnQueue
    <3>2. PICK i \in DOMAIN content[at[n]] : content[at[n]][i] = n
      BY <3>1 DEF QueuedIsIn
    <3>3. CASE at[n] = q
      <4>1. i - 1 \in DOMAIN Tail(content[q]) /\ Tail(content[q])[i - 1] = n
        BY <2>1, <2>2, <3>1, <3>2, <3>3
      <4>. QED
        BY <2>3, <3>3, <4>1 DEF TypeOK
    <3>4. CASE at[n] # q
      BY <2>3, <3>1, <3>2, <3>4 DEF TypeOK
    <3>. QED
      BY <3>3, <3>4
  <2>. QED
    BY <2>4 DEF QueuedIsIn
<1>8. ASSUME NEW q \in Msgs, Drain(q) PROVE QueuedIsIn'
  BY <1>8 DEF Drain, Those, Goes, runVars, cleanVars, TypeOK, OwnQueue,
     QueuedIsIn
<1>9. ASSUME NEW q \in Msgs, Open(q) PROVE QueuedIsIn'
  BY <1>9 DEF Open, SetRun, Goes, msgVars, cleanVars, TypeOK, OwnQueue,
     QueuedIsIn
<1>10. ASSUME NEW q \in Msgs, Submit(q) PROVE QueuedIsIn'
  BY <1>10 DEF Submit, SetRun, Goes, MoveBatch, cleanVars, Batch, Those,
     TypeOK, OwnQueue, QueuedIsIn
<1>11. ASSUME NEW q \in Msgs, OpenFails(q) PROVE QueuedIsIn'
  BY <1>11 DEF OpenFails, SetRun, Goes, MoveBatch, Batch, Those, cleanVars,
     TypeOK, OwnQueue, QueuedIsIn
<1>12. ASSUME NEW q \in Msgs, Ignore(q) PROVE QueuedIsIn'
  BY <1>12 DEF Ignore, Goes, MoveBatch, Touched, runVars, cleanVars, Batch,
     Those, TypeOK, OwnQueue, QueuedIsIn
<1>13. ASSUME NEW q \in Msgs, Fail(q) PROVE QueuedIsIn'
  BY <1>13 DEF Fail, Goes, MoveBatch, runVars, cleanVars, Batch, Those,
     TypeOK, OwnQueue, QueuedIsIn
<1>14. ASSUME NEW q \in Msgs, Finish(q) PROVE QueuedIsIn'
  BY <1>14 DEF Finish, Goes, Touched, msgVars, runVars, cleanVars, TypeOK,
     OwnQueue, QueuedIsIn
<1>15. ASSUME NEW q \in Msgs, Survive(q) PROVE QueuedIsIn'
  BY <1>15 DEF Survive, Goes, Touched, msgVars, cleanVars, runVars, TypeOK,
     OwnQueue, QueuedIsIn
<1>16. ASSUME NEW q \in Msgs, Exit(q) PROVE QueuedIsIn'
  BY <1>16 DEF Exit, Goes, MoveBatch, Batch, Those, TypeOK, OwnQueue,
     QueuedIsIn
<1>17. ASSUME NEW q \in Msgs, GrowIdle(q) PROVE QueuedIsIn'
  BY <1>17 DEF GrowIdle, Those, msgVars, runVars, cleanVars, TypeOK, OwnQueue,
     QueuedIsIn
<1>18. ASSUME NEW s \in Sessions, Scan(s) PROVE QueuedIsIn'
  BY <1>18 DEF Scan, runVars, Remove, Expired, msgVars, Goes, TypeOK,
     OwnQueue, QueuedIsIn
<1>19. ASSUME NEW s \in Sessions, CleanNext(s) PROVE QueuedIsIn'
  BY <1>19 DEF CleanNext, runVars, Remove, msgVars, Goes, TypeOK, OwnQueue,
     QueuedIsIn
<1>20. ASSUME NEW s \in Sessions, StreamEnds(s) PROVE QueuedIsIn'
  BY <1>20 DEF StreamEnds, SetRun, msgVars, cleanVars, TypeOK, OwnQueue,
     QueuedIsIn
<1>21. ASSUME NEW s \in Sessions, RunDone(s) PROVE QueuedIsIn'
  BY <1>21 DEF RunDone, SetRun, msgVars, cleanVars, TypeOK, OwnQueue,
     QueuedIsIn
<1>22. ASSUME NEW s \in Sessions, Kill(s) PROVE QueuedIsIn'
  BY <1>22 DEF Kill, SetRun, msgVars, cleanVars, TypeOK, OwnQueue, QueuedIsIn
<1>23. ASSUME NEW s \in Sessions, Dismiss(s) PROVE QueuedIsIn'
  BY <1>23 DEF Dismiss, SetRun, msgVars, cleanVars, TypeOK, OwnQueue,
     QueuedIsIn
<1>24. ASSUME NEW s \in Sessions, ClearQueue(s) PROVE QueuedIsIn'
  <2>1. ASSUME NEW m \in Msgs, fate'[m] = "queued"
        PROVE  /\ fate[m] = "queued" /\ at'[m] = at[m]
               /\ content'[at[m]] = content[at[m]]
    <3>1. m \notin Those(queues[s], "queued") /\ fate[m] = "queued"
      BY <1>24, <2>1 DEF ClearQueue
    <3>2. at[m] # queues[s]
      BY <3>1 DEF Those
    <3>. QED
      BY <1>24, <3>1, <3>2 DEF ClearQueue, TypeOK
  <2>2. ASSUME NEW m \in Msgs, fate'[m] = "queued"
        PROVE  \E i \in DOMAIN content'[at'[m]] : content'[at'[m]][i] = m
    <3>1. content'[at'[m]] = content[at[m]] /\ fate[m] = "queued"
      BY <2>1, <2>2
    <3>2. \E i \in DOMAIN content[at[m]] : content[at[m]][i] = m
      BY <3>1 DEF QueuedIsIn
    <3>. QED
      BY <3>1, <3>2, Zenon
  <2>. QED
    BY <2>2 DEF QueuedIsIn
<1>. QED
  BY <1>1, <1>2, <1>3, <1>4, <1>5, <1>6, <1>7, <1>8, <1>9, <1>10, <1>11,
     <1>12, <1>13, <1>14, <1>15, <1>16, <1>17, <1>18, <1>19, <1>20, <1>21,
     <1>22, <1>23, <1>24
     DEF Next, Enqueue, Consume, RunSteps

\* A pair whose order matters after a step was one before it.
LEMMA PrecedesBefore ==
    ASSUME TypeOK, Next, NEW x \in Msgs, NEW y \in Msgs, Precedes(x, y)'
    PROVE  Precedes(x, y)
<1>. SUFFICES session' = session /\ disturbed \subseteq disturbed' /\ late \subseteq late'
  BY DEF Precedes
<1>. DEFINE Grow == session' = session /\ disturbed \subseteq disturbed' /\ late \subseteq late'
<1>1. ASSUME NEW m \in Msgs, Receive(m) PROVE Grow
  BY <1>1 DEF Receive, IsFirst, Move, runVars, cleanVars
<1>2. ASSUME NEW m \in Msgs, Locate(m) PROVE Grow
  BY <1>2 DEF Locate, IsFirst, Move, runVars, cleanVars
<1>3. ASSUME NEW m \in Msgs, Put(m) PROVE Grow
  BY <1>3 DEF Put, Those, IsFirst, Move, runVars, cleanVars
<1>4. ASSUME NEW m \in Msgs, Block(m) PROVE Grow
  BY <1>4 DEF Block, Those, IsFirst, Move, runVars, cleanVars
<1>5. ASSUME NEW m \in Msgs, PutBlocked(m) PROVE Grow
  BY <1>5 DEF PutBlocked, Those, IsFirst, Move, runVars, cleanVars
<1>6. ASSUME NEW m \in Msgs, PutTimesOut(m) PROVE Grow
  BY <1>6 DEF PutTimesOut, Move, runVars, cleanVars
<1>7. ASSUME NEW q \in Msgs, Take(q) PROVE Grow
  BY <1>7 DEF Take, Move, Goes, runVars, cleanVars
<1>8. ASSUME NEW q \in Msgs, Drain(q) PROVE Grow
  BY <1>8 DEF Drain, Those, Goes, runVars, cleanVars
<1>9. ASSUME NEW q \in Msgs, Open(q) PROVE Grow
  BY <1>9 DEF Open, SetRun, Goes, msgVars, cleanVars
<1>10. ASSUME NEW q \in Msgs, Submit(q) PROVE Grow
  BY <1>10 DEF Submit, SetRun, Goes, MoveBatch, cleanVars, Batch, Those
<1>11. ASSUME NEW q \in Msgs, OpenFails(q) PROVE Grow
  BY <1>11 DEF OpenFails, SetRun, Goes, MoveBatch, Batch, Those, cleanVars
<1>12. ASSUME NEW q \in Msgs, Ignore(q) PROVE Grow
  BY <1>12 DEF Ignore, Goes, MoveBatch, Touched, runVars, cleanVars, Batch,
     Those
<1>13. ASSUME NEW q \in Msgs, Fail(q) PROVE Grow
  BY <1>13 DEF Fail, Goes, MoveBatch, runVars, cleanVars, Batch, Those
<1>14. ASSUME NEW q \in Msgs, Finish(q) PROVE Grow
  BY <1>14 DEF Finish, Goes, Touched, msgVars, runVars, cleanVars
<1>15. ASSUME NEW q \in Msgs, Survive(q) PROVE Grow
  BY <1>15 DEF Survive, Goes, Touched, msgVars, cleanVars, runVars
<1>16. ASSUME NEW q \in Msgs, Exit(q) PROVE Grow
  BY <1>16 DEF Exit, Goes, MoveBatch, Batch, Those
<1>17. ASSUME NEW q \in Msgs, GrowIdle(q) PROVE Grow
  BY <1>17 DEF GrowIdle, Those, msgVars, runVars, cleanVars
<1>18. ASSUME NEW s \in Sessions, Scan(s) PROVE Grow
  BY <1>18 DEF Scan, runVars, Remove, Expired, msgVars, Goes
<1>19. ASSUME NEW s \in Sessions, CleanNext(s) PROVE Grow
  BY <1>19 DEF CleanNext, runVars, Remove, msgVars, Goes
<1>20. ASSUME NEW s \in Sessions, StreamEnds(s) PROVE Grow
  BY <1>20 DEF StreamEnds, SetRun, msgVars, cleanVars
<1>21. ASSUME NEW s \in Sessions, RunDone(s) PROVE Grow
  BY <1>21 DEF RunDone, SetRun, msgVars, cleanVars
<1>22. ASSUME NEW s \in Sessions, Kill(s) PROVE Grow
  BY <1>22 DEF Kill, SetRun, msgVars, cleanVars
<1>23. ASSUME NEW s \in Sessions, Dismiss(s) PROVE Grow
  BY <1>23 DEF Dismiss, SetRun, msgVars, cleanVars
<1>24. ASSUME NEW s \in Sessions, ClearQueue(s) PROVE Grow
  BY <1>24 DEF ClearQueue, Those, runVars, cleanVars
<1>. QED
  BY <1>1, <1>2, <1>3, <1>4, <1>5, <1>6, <1>7, <1>8, <1>9, <1>10, <1>11,
     <1>12, <1>13, <1>14, <1>15, <1>16, <1>17, <1>18, <1>19, <1>20, <1>21,
     <1>22, <1>23, <1>24
     DEF Next, Enqueue, Consume, RunSteps

\* What the invariant says of a pair of messages whose order matters.
LEMMA PairOfMessages ==
    ASSUME OrderInv, NEW x \in Msgs, NEW y \in Msgs, Precedes(x, y)
    PROVE  /\ x < y /\ session[x] = session[y] /\ fate[x] # "blocked"
           /\ InStep(x, y) /\ Places(x, y)
           /\ fate[x] \notin {"new", "routed"} => at[x] \in Msgs
           /\ (/\ fate[x] \in {"putting", "queued"}
               /\ fate[y] \in {"putting", "blocked", "queued"}) => at[x] = at[y]
           /\ fate[x] = "queued" =>
                \E i \in DOMAIN content[at[x]] : content[at[x]][i] = x
BY DEF OrderInv, QueueInv, Precedes, InPlace, BlockedIsLate, QueuedIsIn, Behind,
   OwnQueue, TypeOK

\* No step lets the second message pass the first on the way to the agent.
LEMMA StagesStep ==
    ASSUME OrderInv, Next, NEW x \in Msgs, NEW y \in Msgs, Precedes(x, y)
    PROVE  InStep(x, y)'
<1>. TypeOK /\ None \notin Msgs /\ x \in Int /\ y \in Int
  BY NoneIsNoMessage, SizesAssumption DEF OrderInv, QueueInv, Msgs
<1>. /\ x < y /\ session[x] = session[y] /\ fate[x] # "blocked"
     /\ InStep(x, y) /\ Places(x, y)
     /\ fate[x] \notin {"new", "routed"} => at[x] \in Msgs
     /\ (/\ fate[x] \in {"putting", "queued"}
         /\ fate[y] \in {"putting", "blocked", "queued"}) => at[x] = at[y]
  BY PairOfMessages
<1>1. ASSUME NEW m \in Msgs, Receive(m) PROVE InStep(x, y)'
  BY <1>1 DEF Receive, IsFirst, Move, runVars, cleanVars, TypeOK, InStep,
     Handed
<1>2. ASSUME NEW m \in Msgs, Locate(m) PROVE InStep(x, y)'
  BY <1>2 DEF Locate, IsFirst, Move, runVars, cleanVars, TypeOK, InStep,
     Handed
<1>3. ASSUME NEW m \in Msgs, Put(m) PROVE InStep(x, y)'
  BY <1>3 DEF Put, Those, IsFirst, Move, runVars, cleanVars, TypeOK, InStep,
     Handed
<1>4. ASSUME NEW m \in Msgs, Block(m) PROVE InStep(x, y)'
  BY <1>4 DEF Block, Those, IsFirst, Move, runVars, cleanVars, TypeOK, InStep,
     Handed
<1>5. ASSUME NEW m \in Msgs, PutBlocked(m) PROVE InStep(x, y)'
  BY <1>5 DEF PutBlocked, Those, IsFirst, Move, runVars, cleanVars, TypeOK,
     InStep, Handed
<1>6. ASSUME NEW m \in Msgs, PutTimesOut(m) PROVE InStep(x, y)'
  BY <1>6 DEF PutTimesOut, Move, runVars, cleanVars, TypeOK, InStep, Handed
<1>7. ASSUME NEW q \in Msgs, Take(q) PROVE InStep(x, y)'
  <2>1. /\ content[q] \in Seq(Msgs) /\ content[q] # <<>>
        /\ Head(content[q]) = content[q][1] /\ 1 \in DOMAIN content[q]
        /\ Head(content[q]) \in Msgs
    BY <1>7, HeadOfQueue DEF Take, TypeOK
  <2>2. PICK h \in Msgs : h = Head(content[q])
    BY <2>1
  <2>3. fate[h] = "queued" /\ at[h] = q
    <3>1. InQueue
      BY DEF OrderInv, QueueInv
    <3>. QED
      BY <2>1, <2>2, <3>1, HeadIsQueued
  <2>4. fate' = [fate EXCEPT ![h] = "taken"]
    BY <1>7, <2>2 DEF Take, Move
  <2>5. ~(h = y /\ fate[x] = "queued")
    <3>. SUFFICES ASSUME h = y, fate[x] = "queued" PROVE FALSE
      OBVIOUS
    <3>1. at[x] = q
      BY <2>3
    <3>2. PICK i \in DOMAIN content[q] : content[q][i] = x
      BY <3>1, PairOfMessages
    <3>3. i < 1
      BY <2>1, <2>2, <3>2 DEF Places
    <3>. QED
      BY <2>1, <3>2, <3>3
  <2>. QED
    BY <2>3, <2>4, <2>5 DEF TypeOK, InStep, Handed
<1>8. ASSUME NEW q \in Msgs, Drain(q) PROVE InStep(x, y)'
  BY <1>8 DEF Drain, Those, Goes, runVars, cleanVars, TypeOK, InStep, Handed
<1>9. ASSUME NEW q \in Msgs, Open(q) PROVE InStep(x, y)'
  BY <1>9 DEF Open, SetRun, Goes, msgVars, cleanVars, TypeOK, InStep, Handed
<1>10. ASSUME NEW q \in Msgs, Submit(q) PROVE InStep(x, y)'
  BY <1>10 DEF Submit, SetRun, Goes, MoveBatch, cleanVars, Batch, Those,
     TypeOK, InStep, Handed
<1>11. ASSUME NEW q \in Msgs, OpenFails(q) PROVE InStep(x, y)'
  BY <1>11 DEF OpenFails, SetRun, Goes, MoveBatch, Batch, Those, cleanVars,
     TypeOK, InStep, Handed
<1>12. ASSUME NEW q \in Msgs, Ignore(q) PROVE InStep(x, y)'
  BY <1>12 DEF Ignore, Goes, MoveBatch, Touched, runVars, cleanVars, Batch,
     Those, TypeOK, InStep, Handed
<1>13. ASSUME NEW q \in Msgs, Fail(q) PROVE InStep(x, y)'
  BY <1>13 DEF Fail, Goes, MoveBatch, runVars, cleanVars, Batch, Those,
     TypeOK, InStep, Handed
<1>14. ASSUME NEW q \in Msgs, Finish(q) PROVE InStep(x, y)'
  BY <1>14 DEF Finish, Goes, Touched, msgVars, runVars, cleanVars, TypeOK,
     InStep, Handed
<1>15. ASSUME NEW q \in Msgs, Survive(q) PROVE InStep(x, y)'
  BY <1>15 DEF Survive, Goes, Touched, msgVars, cleanVars, runVars, TypeOK,
     InStep, Handed
<1>16. ASSUME NEW q \in Msgs, Exit(q) PROVE InStep(x, y)'
  BY <1>16 DEF Exit, Goes, MoveBatch, Batch, Those, TypeOK, InStep, Handed
<1>17. ASSUME NEW q \in Msgs, GrowIdle(q) PROVE InStep(x, y)'
  BY <1>17 DEF GrowIdle, Those, msgVars, runVars, cleanVars, TypeOK, InStep,
     Handed
<1>18. ASSUME NEW s \in Sessions, Scan(s) PROVE InStep(x, y)'
  BY <1>18 DEF Scan, runVars, Remove, Expired, msgVars, Goes, TypeOK, InStep,
     Handed
<1>19. ASSUME NEW s \in Sessions, CleanNext(s) PROVE InStep(x, y)'
  BY <1>19 DEF CleanNext, runVars, Remove, msgVars, Goes, TypeOK, InStep,
     Handed
<1>20. ASSUME NEW s \in Sessions, StreamEnds(s) PROVE InStep(x, y)'
  BY <1>20 DEF StreamEnds, SetRun, msgVars, cleanVars, TypeOK, InStep, Handed
<1>21. ASSUME NEW s \in Sessions, RunDone(s) PROVE InStep(x, y)'
  BY <1>21 DEF RunDone, SetRun, msgVars, cleanVars, TypeOK, InStep, Handed
<1>22. ASSUME NEW s \in Sessions, Kill(s) PROVE InStep(x, y)'
  BY <1>22 DEF Kill, SetRun, msgVars, cleanVars, TypeOK, InStep, Handed
<1>23. ASSUME NEW s \in Sessions, Dismiss(s) PROVE InStep(x, y)'
  BY <1>23 DEF Dismiss, SetRun, msgVars, cleanVars, TypeOK, InStep, Handed
<1>24. ASSUME NEW s \in Sessions, ClearQueue(s) PROVE InStep(x, y)'
  BY <1>24 DEF ClearQueue, Those, runVars, cleanVars, TypeOK, InStep, Handed
<1>. QED
  BY <1>1, <1>2, <1>3, <1>4, <1>5, <1>6, <1>7, <1>8, <1>9, <1>10, <1>11,
     <1>12, <1>13, <1>14, <1>15, <1>16, <1>17, <1>18, <1>19, <1>20, <1>21,
     <1>22, <1>23, <1>24
     DEF Next, Enqueue, Consume, RunSteps

\* Nor in the queue.
LEMMA PlacesStep ==
    ASSUME OrderInv, Next, NEW x \in Msgs, NEW y \in Msgs, Precedes(x, y)
    PROVE  Places(x, y)'
<1>. TypeOK /\ None \notin Msgs /\ x \in Int /\ y \in Int
  BY NoneIsNoMessage, SizesAssumption DEF OrderInv, QueueInv, Msgs
<1>. /\ x < y /\ session[x] = session[y] /\ fate[x] # "blocked"
     /\ InStep(x, y) /\ Places(x, y)
     /\ fate[x] \notin {"new", "routed"} => at[x] \in Msgs
     /\ (/\ fate[x] \in {"putting", "queued"}
         /\ fate[y] \in {"putting", "blocked", "queued"}) => at[x] = at[y]
  BY PairOfMessages
<1>1. ASSUME NEW m \in Msgs, Receive(m) PROVE Places(x, y)'
  BY <1>1 DEF Receive, IsFirst, Move, runVars, cleanVars, TypeOK, Places
<1>2. ASSUME NEW m \in Msgs, Locate(m) PROVE Places(x, y)'
  BY <1>2 DEF Locate, IsFirst, Move, runVars, cleanVars, TypeOK, Places
<1>3. ASSUME NEW m \in Msgs, Put(m) PROVE Places(x, y)'
  <2>1. /\ fate[m] = "putting" /\ content[at[m]] \in Seq(Msgs) /\ at[m] \in Msgs
        /\ content' = [content EXCEPT ![at[m]] = Append(content[at[m]], m)]
    BY <1>3 DEF Put, Those, IsFirst, TypeOK, OrderInv, QueueInv, OwnQueue
  <2>2. ASSUME NEW p \in Msgs, NEW i \in DOMAIN content'[p], NEW j \in DOMAIN content'[p],
               content'[p][i] = y, content'[p][j] = x
        PROVE  j < i
    <3>1. CASE p # at[m]
      BY <2>1, <2>2, <3>1 DEF Places, TypeOK
    <3>2. CASE p = at[m]
      <4>1. /\ content'[p] = Append(content[p], m) /\ content[p] \in Seq(Msgs)
            /\ Len(content[p]) \in Nat
        BY <2>1, <3>2 DEF TypeOK
      <4>2. \A l \in DOMAIN content'[p] :
              \/ l \in DOMAIN content[p] /\ content'[p][l] = content[p][l] /\ l <= Len(content[p])
              \/ l = Len(content[p]) + 1 /\ content'[p][l] = m
        BY <4>1
      <4>3. i \in DOMAIN content[p] => fate[y] = "queued"
        BY <2>2, <4>1, <4>2 DEF OrderInv, QueueInv, InQueue
      <4>4. \/ j \in DOMAIN content[p]
            \/ j = Len(content[p]) + 1 /\ x = m
        <5>1. \/ j \in DOMAIN content[p]
              \/ j = Len(content[p]) + 1 /\ content'[p][j] = m
          BY <4>2
        <5>. QED
          BY <2>2, <5>1
      <4>5. CASE j \in DOMAIN content[p]
        <5>1. i \in DOMAIN content[p] \/ i = Len(content[p]) + 1
          BY <4>2
        <5>2. content'[p][j] = content[p][j] /\ j <= Len(content[p]) /\ j \in Int
          BY <4>1, <4>5
        <5>. QED
          BY <2>2, <4>1, <4>2, <5>1, <5>2 DEF Places
      <4>6. CASE x = m /\ j = Len(content[p]) + 1
        <5>1. fate[y] # "queued"
          BY <2>1, <4>6 DEF InStep
        <5>2. i = Len(content[p]) + 1 /\ y = m
          BY <2>2, <4>2, <4>3, <5>1
        <5>. QED
          BY <4>6, <5>2
      <4>. QED
        BY <4>4, <4>5, <4>6
    <3>. QED
      BY <3>1, <3>2
  <2>. QED
    BY <2>2 DEF Places
<1>4. ASSUME NEW m \in Msgs, Block(m) PROVE Places(x, y)'
  BY <1>4 DEF Block, Those, IsFirst, Move, runVars, cleanVars, TypeOK, Places
<1>5. ASSUME NEW m \in Msgs, PutBlocked(m) PROVE Places(x, y)'
  BY <1>5 DEF PutBlocked, Those, IsFirst, Move, runVars, cleanVars, TypeOK,
     Places
<1>6. ASSUME NEW m \in Msgs, PutTimesOut(m) PROVE Places(x, y)'
  BY <1>6 DEF PutTimesOut, Move, runVars, cleanVars, TypeOK, Places
<1>7. ASSUME NEW q \in Msgs, Take(q) PROVE Places(x, y)'
  BY <1>7 DEF Take, Move, Goes, runVars, cleanVars, TypeOK, Places
<1>8. ASSUME NEW q \in Msgs, Drain(q) PROVE Places(x, y)'
  BY <1>8 DEF Drain, Those, Goes, runVars, cleanVars, TypeOK, Places
<1>9. ASSUME NEW q \in Msgs, Open(q) PROVE Places(x, y)'
  BY <1>9 DEF Open, SetRun, Goes, msgVars, cleanVars, TypeOK, Places
<1>10. ASSUME NEW q \in Msgs, Submit(q) PROVE Places(x, y)'
  BY <1>10 DEF Submit, SetRun, Goes, MoveBatch, cleanVars, Batch, Those,
     TypeOK, Places
<1>11. ASSUME NEW q \in Msgs, OpenFails(q) PROVE Places(x, y)'
  BY <1>11 DEF OpenFails, SetRun, Goes, MoveBatch, Batch, Those, cleanVars,
     TypeOK, Places
<1>12. ASSUME NEW q \in Msgs, Ignore(q) PROVE Places(x, y)'
  BY <1>12 DEF Ignore, Goes, MoveBatch, Touched, runVars, cleanVars, Batch,
     Those, TypeOK, Places
<1>13. ASSUME NEW q \in Msgs, Fail(q) PROVE Places(x, y)'
  BY <1>13 DEF Fail, Goes, MoveBatch, runVars, cleanVars, Batch, Those,
     TypeOK, Places
<1>14. ASSUME NEW q \in Msgs, Finish(q) PROVE Places(x, y)'
  BY <1>14 DEF Finish, Goes, Touched, msgVars, runVars, cleanVars, TypeOK,
     Places
<1>15. ASSUME NEW q \in Msgs, Survive(q) PROVE Places(x, y)'
  BY <1>15 DEF Survive, Goes, Touched, msgVars, cleanVars, runVars, TypeOK,
     Places
<1>16. ASSUME NEW q \in Msgs, Exit(q) PROVE Places(x, y)'
  BY <1>16 DEF Exit, Goes, MoveBatch, Batch, Those, TypeOK, Places
<1>17. ASSUME NEW q \in Msgs, GrowIdle(q) PROVE Places(x, y)'
  BY <1>17 DEF GrowIdle, Those, msgVars, runVars, cleanVars, TypeOK, Places
<1>18. ASSUME NEW s \in Sessions, Scan(s) PROVE Places(x, y)'
  BY <1>18 DEF Scan, runVars, Remove, Expired, msgVars, Goes, TypeOK, Places
<1>19. ASSUME NEW s \in Sessions, CleanNext(s) PROVE Places(x, y)'
  BY <1>19 DEF CleanNext, runVars, Remove, msgVars, Goes, TypeOK, Places
<1>20. ASSUME NEW s \in Sessions, StreamEnds(s) PROVE Places(x, y)'
  BY <1>20 DEF StreamEnds, SetRun, msgVars, cleanVars, TypeOK, Places
<1>21. ASSUME NEW s \in Sessions, RunDone(s) PROVE Places(x, y)'
  BY <1>21 DEF RunDone, SetRun, msgVars, cleanVars, TypeOK, Places
<1>22. ASSUME NEW s \in Sessions, Kill(s) PROVE Places(x, y)'
  BY <1>22 DEF Kill, SetRun, msgVars, cleanVars, TypeOK, Places
<1>23. ASSUME NEW s \in Sessions, Dismiss(s) PROVE Places(x, y)'
  BY <1>23 DEF Dismiss, SetRun, msgVars, cleanVars, TypeOK, Places
<1>24. ASSUME NEW s \in Sessions, ClearQueue(s) PROVE Places(x, y)'
  BY <1>24 DEF ClearQueue, Those, runVars, cleanVars, TypeOK, Places
<1>. QED
  BY <1>1, <1>2, <1>3, <1>4, <1>5, <1>6, <1>7, <1>8, <1>9, <1>10, <1>11,
     <1>12, <1>13, <1>14, <1>15, <1>16, <1>17, <1>18, <1>19, <1>20, <1>21,
     <1>22, <1>23, <1>24
     DEF Next, Enqueue, Consume, RunSteps

-----------------------------------------------------------------------------
(* The theorems *)

LEMMA QueueInit == Init => QueueInv
<1>. SUFFICES ASSUME Init PROVE QueueInv
  OBVIOUS
<1>. QED
  BY TypeInit DEF Init, QueueInv, MadeOnce, OwnQueue, InQueue,
     RegisteredIsServed, TheConsumer, InHand, RunIsAwaited, Serving

LEMMA QueueStep == QueueInv /\ [Next]_vars => QueueInv'
<1>1. ASSUME QueueInv, Next PROVE QueueInv'
  BY <1>1, TypeStep, MadeOnceStep, OwnQueueStep, InQueueStep, RegisteredStep,
     ConsumerStep, InHandStep, AwaitedStep DEF QueueInv
<1>2. ASSUME QueueInv, UNCHANGED vars PROVE QueueInv'
  BY <1>2 DEF vars, msgVars, runVars, cleanVars, QueueInv, TypeOK, MadeOnce, OwnQueue,
     InQueue, RegisteredIsServed, TheConsumer, InHand, RunIsAwaited
<1>. QED
  BY <1>1, <1>2

\* TypeOK holds in every state; in particular no queue outgrows queue_maxsize.
THEOREM TypeCorrect == Spec => []TypeOK
<1>1. QueueInv => TypeOK
  BY DEF QueueInv
<1>. QED
  BY QueueInit, QueueStep, <1>1, PTL DEF Spec

\* Whatever the cleanup interleaves with: a queue that can be found in the dict
\* has a consumer that was neither cancelled nor has ended.
THEOREM RegisteredServed == Spec => []RegisteredIsServed
<1>1. QueueInv => RegisteredIsServed
  BY DEF QueueInv
<1>. QED
  BY QueueInit, QueueStep, <1>1, PTL DEF Spec

\* Strict serialization, in every session whose cleanup met no message.
THEOREM OneConsumerPerSession == Spec => []OneConsumer
<1>1. QueueInv => OneConsumer
  BY NoneIsNoMessage DEF QueueInv, OneConsumer, TheConsumer, Serving
<1>. QED
  BY QueueInit, QueueStep, <1>1, PTL DEF Spec

\* In such a session nothing is lost in the hands of a cancelled consumer, and no
\* message is ignored for a run that still streams: only for one whose sentinel
\* is out and whose task is not done, or for a placeholder left by a failure.
THEOREM OnlyEndedRunsTurnAway == Spec => OnlyEndedRunsRefuse
<1>1. QueueInv /\ [Next]_vars =>
        [\A m \in Msgs : session[m] \notin disturbed' /\ fate'[m] # fate[m] =>
           /\ fate'[m] # "lost"
           /\ fate'[m] = "ignored" => stage[session[m]] \in {"flushing", "stuck"}]_vars
  BY RefusesStep DEF QueueInv, Refusals
<1>. QED
  BY QueueInit, QueueStep, <1>1, PTL DEF Spec, OnlyEndedRunsRefuse

LEMMA OrderInit == Init => OrderInv
<1>. SUFFICES ASSUME Init PROVE OrderInv
  OBVIOUS
<1>. QED
  BY QueueInit DEF Init, OrderInv, InPlace, BlockedIsLate, QueuedIsIn, Behind,
     InStep, Places

LEMMA OrderStep == OrderInv /\ [Next]_vars => OrderInv'
<1>1. ASSUME OrderInv, Next PROVE OrderInv'
  <2>1. QueueInv'
    BY <1>1, QueueStep DEF OrderInv
  <2>2. InPlace' /\ BlockedIsLate' /\ QueuedIsIn'
    BY <1>1, InPlaceStep, BlockedStep, QueuedIsInStep DEF OrderInv, QueueInv
  <2>3. Behind'
    <3>. SUFFICES ASSUME NEW x \in Msgs, NEW y \in Msgs, Precedes(x, y)'
                  PROVE  InStep(x, y)' /\ Places(x, y)'
      BY DEF Behind, Msgs
    <3>1. Precedes(x, y)
      BY <1>1, PrecedesBefore DEF OrderInv, QueueInv
    <3>. QED
      BY <1>1, <3>1, StagesStep, PlacesStep
  <2>. QED
    BY <2>1, <2>2, <2>3 DEF OrderInv
<1>2. ASSUME OrderInv, UNCHANGED vars PROVE OrderInv'
  <2>1. QueueInv'
    BY <1>2, QueueStep DEF OrderInv
  <2>2. InPlace' /\ BlockedIsLate' /\ QueuedIsIn' /\ Behind'
    BY <1>2 DEF vars, msgVars, runVars, cleanVars, OrderInv, InPlace, BlockedIsLate,
       QueuedIsIn, Behind, Precedes, InStep, Places
  <2>. QED
    BY <2>1, <2>2 DEF OrderInv
<1>. QED
  BY <1>1, <1>2

\* In a session whose cleanup met no message, a message that did not find its
\* queue full keeps its place: no later message of the session is handed on
\* while it waits, or stands before it in a queue.
THEOREM MessagesKeepOrder == Spec => []InOrder
<1>1. OrderInv => InOrder
  <2>. SUFFICES ASSUME OrderInv, NEW m \in Msgs, NEW n \in Msgs, Precedes(m, n)
                PROVE  /\ fate[n] \in Handed => fate[m] \notin Waiting
                       /\ \A q \in Msgs : \A i, j \in DOMAIN content[q] :
                            content[q][i] = n /\ content[q][j] = m => j < i
    BY DEF InOrder, Precedes
  <2>1. fate[m] # "blocked" /\ InStep(m, n) /\ Places(m, n)
    BY PairOfMessages
  <2>2. fate[n] \in Handed => fate[m] \notin Waiting
    BY <2>1 DEF InStep, Waiting, Handed
  <2>. QED
    BY <2>1, <2>2 DEF Places
<1>. QED
  BY OrderInit, OrderStep, <1>1, PTL DEF Spec
=============================================================================
